----------------------------- MODULE FileProofs -----------------------------
(***************************************************************************)
(* Theorems about BlockRunner, for the sinks that write to a file, with    *)
(* any samples or packets, modes, buffers and disks.                       *)
(*                                                                         *)
(* The way there: FlattenSeq turns one sequence after another into one     *)
(* string after another (FlattenConcat), so that the text of a part of the *)
(* input and that of the next part make that of both (TextIs).  A write    *)
(* moves bytes from the buffer to the disk, and loses none of both         *)
(* together (WrittenIs).  Then FilesSound is an invariant: the disk and    *)
(* what is pending have together the text of what was consumed, or, after  *)
(* an error, of more.                                                      *)
(***************************************************************************)
EXTENDS BlockProofs

-----------------------------------------------------------------------------
(* FlattenSeq of the community modules, which is a recursive function      *)

\* The sequences are of strings, which are sequences themselves.
Strings(S) == Seq(S)
Joins(s, t, u) == (s \o t) \o u = s \o (t \o u)

\* They form a monoid.
LEMMA JoinStrings ==
  ASSUME NEW S
  PROVE  /\ <<>> \in Strings(S)
         /\ \A s \in Strings(S) : s \o <<>> = s /\ <<>> \o s = s
         /\ \A s, t \in Strings(S) : s \o t \in Strings(S)
         /\ \A s, t, u \in Strings(S) : (s \o t) \o u = s \o (t \o u)
  BY ConcatProperties, ConcatAssociative DEF Strings

\* Three of them
LEMMA JoinThree ==
  ASSUME NEW S, NEW s \in Strings(S), NEW t \in Strings(S), NEW u \in Strings(S)
  PROVE  /\ s \o t \in Strings(S) /\ t \o u \in Strings(S)
         /\ (s \o t) \o u = s \o (t \o u) /\ (s \o t) \o u \in Strings(S)
         /\ Len(s \o t) = Len(s) + Len(t)
<1>1. s \in Seq(S) /\ t \in Seq(S) /\ u \in Seq(S)
  BY DEF Strings
<1>2. s \o t \in Seq(S) /\ t \o u \in Seq(S) /\ Len(s \o t) = Len(s) + Len(t)
  BY <1>1, ConcatProperties
<1>3. (s \o t) \o u \in Seq(S)
  BY <1>1, <1>2, ConcatProperties
<1>4. (s \o t) \o u = s \o (t \o u)
  BY <1>1, ConcatAssociative
<1> QED BY <1>2, <1>3, <1>4 DEF Strings

\* tt goes on from ss; the function in the definition of FlattenSeq
Starts(ss, tt) == Len(ss) <= Len(tt) /\ \A i \in 1..Len(ss) : ss[i] = tt[i]
FlatBy(ss, f) == f = [i \in 1..Len(ss) |-> IF i = 1 THEN ss[i] ELSE f[i - 1] \o ss[i]]

\* There is such a function.
LEMMA FlatExists ==
  ASSUME NEW S, NEW ss \in Seq(Strings(S))
  PROVE  \E f \in [1..Len(ss) -> Strings(S)] : FlatBy(ss, f)
<1> DEFINE Upto(f, n) == \A i \in 1..Len(ss) : i <= n => f[i] = IF i = 1 THEN ss[i] ELSE f[i - 1] \o ss[i]
           Fs == [1..Len(ss) -> Strings(S)]
           P == { n \in Nat : \E f \in Fs : Upto(f, n) }
<1>1. Len(ss) \in Nat /\ \A i \in 1..Len(ss) : ss[i] \in Strings(S)
  OBVIOUS
<1>2. 0 \in P
  <2> DEFINE g == [i \in 1..Len(ss) |-> ss[i]]
  <2>1. g \in Fs /\ Upto(g, 0)
    BY <1>1
  <2> QED BY <2>1
<1>3. ASSUME NEW n \in Nat, n \in P PROVE n + 1 \in P
  <2>1. PICK f \in Fs : Upto(f, n)
    BY <1>3
  <2> DEFINE next(i) == IF i = 1 THEN ss[i] ELSE f[i - 1] \o ss[i]
             g == [i \in 1..Len(ss) |-> IF i <= n THEN f[i] ELSE next(i)]
  <2>2. \A i \in 1..Len(ss) : next(i) \in Strings(S) /\ f[i] \in Strings(S)
    <3> SUFFICES ASSUME NEW i \in 1..Len(ss) PROVE next(i) \in Strings(S) /\ f[i] \in Strings(S)
      OBVIOUS
    <3>1. i # 1 => i - 1 \in 1..Len(ss)
      BY <1>1
    <3>2. i # 1 => f[i - 1] \in Strings(S)
      BY <3>1
    <3> QED BY <1>1, <3>2, JoinStrings
  <2>3. g \in Fs
    <3> HIDE DEF next
    <3> QED BY <2>2
  <2>4. ASSUME NEW i \in 1..Len(ss), i <= n + 1 PROVE g[i] = IF i = 1 THEN ss[i] ELSE g[i - 1] \o ss[i]
    <3>1. i # 1 => i - 1 \in 1..Len(ss) /\ i - 1 <= n
      BY <1>1, <2>4
    <3>2. i # 1 => g[i - 1] = f[i - 1]
      BY <3>1
    <3>3. g[i] = next(i)
      BY <2>1
    <3> QED BY <3>2, <3>3
  <2>5. Upto(g, n + 1)
    BY <2>4
  <2>6. \E h \in Fs : Upto(h, n + 1)
    <3> HIDE DEF g, Upto, Fs
    <3> QED BY <2>3, <2>5
  <2> HIDE DEF Upto, Fs
  <2> QED BY <2>6
<1>4. Len(ss) \in P
  <2> HIDE DEF P
  <2> QED BY <1>1, <1>2, <1>3, Inductive
<1>5. PICK f \in Fs : Upto(f, Len(ss))
  BY <1>4
<1>6. f = [i \in 1..Len(ss) |-> IF i = 1 THEN ss[i] ELSE f[i - 1] \o ss[i]]
  <2>1. \A i \in 1..Len(ss) : f[i] = IF i = 1 THEN ss[i] ELSE f[i - 1] \o ss[i]
    <3>1. \A i \in 1..Len(ss) : i <= Len(ss)
      BY <1>1
    <3> QED BY <1>5, <3>1, Zenon
  <2>2. f = [i \in 1..Len(ss) |-> f[i]]
    BY <1>1, <1>5
  <2> QED BY <2>1, <2>2, Zenon
<1>7. FlatBy(ss, f)
  BY <1>6 DEF FlatBy
<1> QED BY <1>7

\* Of two sequences of which one goes on from the other, they are the same as far
\* as the shorter one goes.
LEMMA FlatOnly ==
  ASSUME NEW S, NEW ss \in Seq(Strings(S)), NEW tt \in Seq(Strings(S)), NEW f, NEW g, FlatBy(ss, f), FlatBy(tt, g),
         Starts(ss, tt)
  PROVE  \A i \in 1..Len(ss) : f[i] = g[i]
<1> DEFINE P == { n \in Nat : \A i \in 1..Len(ss) : i <= n => f[i] = g[i] }
<1>1. Len(ss) \in Nat /\ Len(tt) \in Nat
  OBVIOUS
<1>2. 0 \in P
  OBVIOUS
<1>3. ASSUME NEW n \in Nat, n \in P PROVE n + 1 \in P
  <2> SUFFICES ASSUME NEW i \in 1..Len(ss), i <= n + 1 PROVE f[i] = g[i]
    OBVIOUS
  <2>1. i \in 1..Len(tt) /\ ss[i] = tt[i]
    BY <1>1 DEF Starts
  <2>2. f[i] = (IF i = 1 THEN ss[i] ELSE f[i - 1] \o ss[i]) /\ g[i] = IF i = 1 THEN tt[i] ELSE g[i - 1] \o tt[i]
    <3>1. f[i] = IF i = 1 THEN ss[i] ELSE f[i - 1] \o ss[i]
      BY Zenon DEF FlatBy
    <3>2. g[i] = IF i = 1 THEN tt[i] ELSE g[i - 1] \o tt[i]
      BY <2>1, Zenon DEF FlatBy
    <3> QED BY <3>1, <3>2
  <2>3. CASE i = 1
    BY <2>1, <2>2, <2>3
  <2>4. CASE i # 1
    <3>1. i - 1 \in 1..Len(ss) /\ i - 1 <= n
      BY <1>1, <2>4
    <3>2. f[i - 1] = g[i - 1]
      BY <1>3, <3>1
    <3> QED BY <2>1, <2>2, <2>4, <3>2
  <2> QED BY <2>3, <2>4
<1>4. Len(ss) \in P
  <2> HIDE DEF P
  <2> QED BY <1>1, <1>2, <1>3, Inductive
<1> QED BY <1>1, <1>4

\* The last value of that function
LEMMA FlattenIs ==
  ASSUME NEW S, NEW ss \in Seq(Strings(S)), NEW f, FlatBy(ss, f), ss # <<>>
  PROVE  FlattenSeq(ss) = f[Len(ss)]
<1> DEFINE h == CHOOSE g : g = [i \in 1..Len(ss) |-> IF i = 1 THEN ss[i] ELSE g[i - 1] \o ss[i]]
<1>1. \E g : g = [i \in 1..Len(ss) |-> IF i = 1 THEN ss[i] ELSE g[i - 1] \o ss[i]]
  BY Zenon DEF FlatBy
<1>2. h = [i \in 1..Len(ss) |-> IF i = 1 THEN ss[i] ELSE h[i - 1] \o ss[i]]
  BY <1>1, Zenon
<1>3. FlattenSeq(ss) = IF Len(ss) = 0 THEN ss ELSE h[Len(ss)]
  BY Zenon DEF FlattenSeq
<1>4. Len(ss) \in Nat \ {0}
  OBVIOUS
<1>5. FlatBy(ss, h)
  <2> HIDE DEF h
  <2> QED BY <1>2, Zenon DEF FlatBy
<1> HIDE DEF h
<1>6. \A i \in 1..Len(ss) : h[i] = f[i]
  <2>1. Starts(ss, ss)
    BY <1>4 DEF Starts
  <2> QED BY <1>5, <2>1, FlatOnly
<1> QED BY <1>3, <1>4, <1>6

\* No sequence at all
LEMMA FlattenNone == FlattenSeq(<<>>) = <<>>
  BY DEF FlattenSeq

\* One sequence after the others
LEMMA FlattenAppend ==
  ASSUME NEW S, NEW ss \in Seq(Strings(S)), NEW s \in Strings(S)
  PROVE  FlattenSeq(ss) \in Strings(S) /\ FlattenSeq(Append(ss, s)) = FlattenSeq(ss) \o s
<1> DEFINE n == Len(ss)
           tt == Append(ss, s)
<1>1. n \in Nat /\ tt \in Seq(Strings(S)) /\ Len(tt) = n + 1 /\ tt[n + 1] = s /\ \A i \in 1..n : tt[i] = ss[i]
  OBVIOUS
<1> SUFFICES FlattenSeq(ss) \in Strings(S) /\ FlattenSeq(tt) = FlattenSeq(ss) \o s
  OBVIOUS
<1>2. PICK f \in [1..n -> Strings(S)] : FlatBy(ss, f)
  BY FlatExists
<1>3. PICK g \in [1..(n + 1) -> Strings(S)] : FlatBy(tt, g)
  <2> HIDE DEF tt
  <2> QED BY <1>1, FlatExists
<1>4. FlattenSeq(tt) = g[n + 1]
  <2>1. tt # <<>>
    BY AppendProperties
  <2> HIDE DEF tt
  <2> QED BY <1>1, <1>3, <2>1, FlattenIs
<1>5. g[n + 1] = IF n + 1 = 1 THEN s ELSE g[n] \o s
  <2>1. n + 1 \in 1..Len(tt) /\ (n + 1) - 1 = n
    BY <1>1
  <2> HIDE DEF tt, n
  <2>2. g = [i \in 1..Len(tt) |-> IF i = 1 THEN tt[i] ELSE g[i - 1] \o tt[i]]
    BY <1>3, Zenon DEF FlatBy
  <2> QED BY <1>1, <2>1, <2>2
<1>6. CASE n = 0
  <2>1. ss = <<>> /\ <<>> \o s = s /\ <<>> \in Strings(S)
    BY <1>6, JoinStrings
  <2>2. FlattenSeq(ss) = <<>>
    BY <2>1, FlattenNone
  <2>3. g[n + 1] = s
    BY <1>5, <1>6
  <2> HIDE DEF tt
  <2> QED BY <1>4, <2>1, <2>2, <2>3
<1>7. CASE n # 0
  <2>1. FlattenSeq(ss) = f[n] /\ f[n] \in Strings(S)
    <3>1. ss # <<>> /\ n \in 1..n
      BY <1>1, <1>7
    <3> QED BY <1>2, <3>1, FlattenIs
  <2>2. g[n] = f[n]
    <3> HIDE DEF tt
    <3>1. Starts(ss, tt)
      BY <1>1 DEF Starts
    <3>2. \A i \in 1..n : f[i] = g[i]
      BY <1>1, <1>2, <1>3, <3>1, FlatOnly
    <3>3. n \in 1..n
      BY <1>1, <1>7
    <3> QED BY <3>2, <3>3
  <2>3. g[n + 1] = g[n] \o s
    BY <1>1, <1>5, <1>7
  <2> HIDE DEF tt
  <2> QED BY <1>4, <2>1, <2>2, <2>3
<1> QED BY <1>6, <1>7

\* Of two sequences of sequences, one after the other
LEMMA FlattenConcat ==
  ASSUME NEW S, NEW ss \in Seq(Strings(S)), NEW tt \in Seq(Strings(S))
  PROVE  /\ FlattenSeq(ss) \in Strings(S) /\ FlattenSeq(tt) \in Strings(S)
         /\ FlattenSeq(ss \o tt) = FlattenSeq(ss) \o FlattenSeq(tt)
<1> DEFINE T(n) == SubSeq(tt, 1, n)
           P == { n \in Nat : n <= Len(tt) => FlattenSeq(ss \o T(n)) = FlattenSeq(ss) \o FlattenSeq(T(n)) }
<1>1. \A uu \in Seq(Strings(S)) : FlattenSeq(uu) \in Strings(S)
  <2>1. <<>> \in Strings(S)
    BY JoinStrings
  <2> QED BY <2>1, FlattenAppend
<1>2. 0 \in P
  <2>1. T(0) = <<>> /\ ss \o <<>> = ss
    OBVIOUS
  <2>2. FlattenSeq(ss) \o <<>> = FlattenSeq(ss)
    BY <1>1
  <2> QED BY <2>1, <2>2, FlattenNone
<1>3. ASSUME NEW n \in Nat, n \in P PROVE n + 1 \in P
  <2> SUFFICES ASSUME n + 1 <= Len(tt) PROVE FlattenSeq(ss \o T(n + 1)) = FlattenSeq(ss) \o FlattenSeq(T(n + 1))
    OBVIOUS
  <2>1. tt[n + 1] \in Strings(S) /\ T(n) \in Seq(Strings(S)) /\ n <= Len(tt)
    OBVIOUS
  <2>2. T(n + 1) = Append(T(n), tt[n + 1])
    OBVIOUS
  <2> HIDE DEF T
  <2>3. ss \o Append(T(n), tt[n + 1]) = Append(ss \o T(n), tt[n + 1]) /\ ss \o T(n) \in Seq(Strings(S))
    BY <2>1
  <2>4. FlattenSeq(Append(ss \o T(n), tt[n + 1])) = FlattenSeq(ss \o T(n)) \o tt[n + 1]
    BY <2>1, <2>3, FlattenAppend
  <2>5. FlattenSeq(Append(T(n), tt[n + 1])) = FlattenSeq(T(n)) \o tt[n + 1]
    BY <2>1, FlattenAppend
  <2>6. FlattenSeq(ss \o T(n)) = FlattenSeq(ss) \o FlattenSeq(T(n))
    BY <1>3, <2>1
  <2>7. (FlattenSeq(ss) \o FlattenSeq(T(n))) \o tt[n + 1] = FlattenSeq(ss) \o (FlattenSeq(T(n)) \o tt[n + 1])
    <3>1. FlattenSeq(ss) \in Strings(S) /\ FlattenSeq(T(n)) \in Strings(S)
      BY <1>1, <2>1
    <3>2. \A s, t, u \in Strings(S) : (s \o t) \o u = s \o (t \o u)
      BY JoinStrings
    <3> QED BY <2>1, <3>1, <3>2
  <2>8. FlattenSeq(ss \o T(n + 1)) = FlattenSeq(ss \o T(n)) \o tt[n + 1]
    BY <2>2, <2>3, <2>4
  <2>9. FlattenSeq(T(n + 1)) = FlattenSeq(T(n)) \o tt[n + 1]
    BY <2>2, <2>5
  <2> QED BY <2>6, <2>7, <2>8, <2>9
<1>4. Len(tt) \in P
  <2>1. Len(tt) \in Nat
    OBVIOUS
  <2> HIDE DEF P
  <2> QED BY <1>2, <1>3, <2>1, Inductive
<1>5. T(Len(tt)) = tt /\ Len(tt) <= Len(tt)
  OBVIOUS
<1>6. FlattenSeq(ss \o T(Len(tt))) = FlattenSeq(ss) \o FlattenSeq(T(Len(tt)))
  BY <1>4, <1>5
<1> HIDE DEF T
<1> QED BY <1>1, <1>5, <1>6

\* Of one sequence alone
LEMMA FlattenOne ==
  ASSUME NEW S, NEW s \in Strings(S)
  PROVE  FlattenSeq(<<s>>) = s
<1>1. <<>> \in Seq(Strings(S)) /\ Append(<<>>, s) = <<s>> /\ <<>> \o s = s
  OBVIOUS
<1>2. FlattenSeq(Append(<<>>, s)) = FlattenSeq(<<>>) \o s
  BY <1>1, FlattenAppend
<1> QED BY <1>1, <1>2, FlattenNone

-----------------------------------------------------------------------------
(* What a sink makes of its input                                          *)

Kept(c)     == IF c.par.mode = "Append" THEN c.par.old ELSE <<>>
Alphabet(c)  == (ToSet(c.par.old) \cup (ToSet(c.given[1].v) \X Nat)) \cup {Newline}
Piece(c, s) == IF c.block = "FileSink" THEN Serialized(s, c.par.size) ELSE WithNewline(s, c.par.size)
Pieces(c, v) == [k \in 1..Len(v) |-> Piece(c, v[k])]

\* Of the samples, or packets, from the (m + 1)-th to the n-th
Text(c, m, n) == FlattenSeq(Pieces(c, SubSeq(c.given[1].v, m + 1, n)))
Content(c, n)  == Kept(c) \o Text(c, 0, n)

\* What the assumption says of such a case
LEMMA SinkIs ==
  ASSUME NEW c \in Cases, c.block \in FileSinks
  PROVE  /\ Ins(c) = {1} /\ Outs(c) = {1} /\ FilePar(c.par)
         /\ c.given[1].v \in Seq(ToSet(c.given[1].v)) /\ Len(c.given[1].v) \in Nat
         /\ Kept(c) \in Strings(Alphabet(c)) /\ Len(Kept(c)) <= c.par.space
<1>1. /\ DOMAIN c.given = {1} /\ DOMAIN c.room = {1}
      /\ IsWindow(c.given[1], ToSet(c.given[1].v))
      /\ FilePar(c.par)
  BY CasesAssumption, Zenon
<1>2. c.given[1].v \in Seq(ToSet(c.given[1].v))
  BY <1>1 DEF IsWindow
<1>3. Kept(c) \in Seq(ToSet(c.par.old)) /\ Len(Kept(c)) <= c.par.space
  <2>1. c.par.old \in Seq(ToSet(c.par.old)) /\ Len(c.par.old) <= c.par.space /\ c.par.space \in Nat
    BY <1>1 DEF FilePar
  <2>2. CASE c.par.mode = "Append"
    BY <2>1, <2>2, Zenon DEF Kept
  <2>3. CASE c.par.mode # "Append"
    <3>1. Kept(c) = <<>>
      BY <2>3 DEF Kept
    <3> QED BY <2>1, <3>1
  <2> QED BY <2>2, <2>3
<1>4. ToSet(c.par.old) \subseteq Alphabet(c)
  BY DEF Alphabet
<1>5. Kept(c) \in Strings(Alphabet(c))
  BY <1>3, <1>4, SeqMonotonic DEF Strings
<1>6. Len(c.given[1].v) \in Nat
  BY <1>2
<1> QED BY <1>1, <1>2, <1>3, <1>5, <1>6 DEF Ins, Outs

\* A sample makes a piece of text.
LEMMA PieceIs ==
  ASSUME NEW c \in Cases, c.block \in FileSinks, NEW s \in ToSet(c.given[1].v)
  PROVE  Piece(c, s) \in Strings(Alphabet(c))
<1>1. c.par.size \in Nat
  BY SinkIs DEF FilePar
<1>2. ASSUME NEW k \in 1..c.par.size PROVE <<s, k>> \in Alphabet(c)
  BY <1>1 DEF Alphabet
<1>3. Serialized(s, c.par.size) \in Seq(Alphabet(c))
  <2> DEFINE p(k) == <<s, k>>
  <2>1. [k \in 1..c.par.size |-> p(k)] \in Seq(Alphabet(c))
    <3> HIDE DEF p
    <3>1. \A k \in 1..c.par.size : p(k) \in Alphabet(c)
      BY <1>2 DEF p
    <3> QED BY <1>1, <3>1
  <2> QED BY <2>1 DEF Serialized
<1>4. Newline \in Alphabet(c)
  BY DEF Alphabet
<1>5. WithNewline(s, c.par.size) \in Seq(Alphabet(c))
  BY <1>3, <1>4, AppendProperties DEF WithNewline
<1> QED BY <1>3, <1>5 DEF Piece, Strings

\* So does any part of the input, and one part after the other makes both texts.
LEMMA TextIs ==
  ASSUME NEW c \in Cases, c.block \in FileSinks, NEW m \in Nat, NEW n \in Nat, NEW k \in Nat,
         m <= n, n <= k, k <= Len(c.given[1].v)
  PROVE  /\ Text(c, m, n) \in Strings(Alphabet(c))
         /\ Text(c, m, k) = Text(c, m, n) \o Text(c, n, k)
<1> DEFINE v == c.given[1].v
           T == Strings(Alphabet(c))
           a == SubSeq(v, m + 1, n)
           b == SubSeq(v, n + 1, k)
           d == SubSeq(v, m + 1, k)
<1>1. v \in Seq(ToSet(v))
  BY SinkIs
<1>2. /\ Len(a) = n - m /\ Len(b) = k - n /\ Len(d) = k - m
      /\ \A j \in 1..(n - m) : a[j] = v[m + j]
      /\ \A j \in 1..(k - n) : b[j] = v[n + j]
      /\ \A j \in 1..(k - m) : d[j] = v[m + j]
  <2> DEFINE D == ToSet(v)
  <2> HIDE DEF v, D
  <2>1. v \in Seq(D)
    BY <1>1 DEF D
  <2> QED BY <2>1 DEF v
<1>3. \A i \in 1..k : Piece(c, v[i]) \in T
  <2>1. \A i \in 1..k : v[i] \in ToSet(v)
    BY <1>1
  <2> HIDE DEF v
  <2> QED BY <2>1, PieceIs DEF v
<1> HIDE DEF a, b, d, T
<1>4. /\ Pieces(c, a) = [j \in 1..(n - m) |-> Piece(c, v[m + j])]
      /\ Pieces(c, b) = [j \in 1..(k - n) |-> Piece(c, v[n + j])]
      /\ Pieces(c, d) = [j \in 1..(k - m) |-> Piece(c, v[m + j])]
  BY <1>2 DEF Pieces
<1> DEFINE f == [i \in 1..k |-> Piece(c, v[i])]
           A == [j \in 1..(n - m) |-> f[m + j]]
           B == [j \in 1..(k - n) |-> f[n + j]]
           D == [j \in 1..(k - m) |-> f[m + j]]
<1>5. Pieces(c, a) = A /\ Pieces(c, b) = B /\ Pieces(c, d) = D
  BY <1>4
<1>6. \A i \in 1..k : f[i] \in T
  BY <1>3
<1> HIDE DEF f
<1>7. A \in Seq(T) /\ B \in Seq(T) /\ D \in Seq(T) /\ D = A \o B
  BY <1>6
<1> HIDE DEF A, B, D
<1>8. FlattenSeq(A) \in T /\ FlattenSeq(D) = FlattenSeq(A) \o FlattenSeq(B)
  BY <1>7, FlattenConcat DEF T
<1> QED BY <1>5, <1>8 DEF Text, a, b, d, T

\* One sample makes its piece, none makes nothing.
LEMMA TextOne ==
  ASSUME NEW c \in Cases, c.block \in FileSinks, NEW n \in Nat
  PROVE  /\ Text(c, n, n) = <<>>
         /\ n < Len(c.given[1].v) => Text(c, n, n + 1) = Piece(c, c.given[1].v[n + 1])
<1> DEFINE v == c.given[1].v
<1>1. v \in Seq(ToSet(v))
  BY SinkIs
<1>2. SubSeq(v, n + 1, n) = <<>>
  BY <1>1, SubSeqEmpty
<1>3. Pieces(c, <<>>) = <<>>
  BY DEF Pieces
<1>4. Text(c, n, n) = <<>>
  BY <1>2, <1>3, FlattenNone DEF Text
<1>5. ASSUME n < Len(v) PROVE Text(c, n, n + 1) = Piece(c, v[n + 1])
  <2>1. SubSeq(v, n + 1, n + 1) = <<v[n + 1]>> /\ v[n + 1] \in ToSet(v)
    <3> DEFINE D == ToSet(v)
    <3>1. \A i \in 1..Len(v) : v[i] \in ToSet(v)
      BY <1>1
    <3> HIDE DEF v, D
    <3>2. v \in Seq(D)
      BY <1>1 DEF D
    <3>3. n + 1 \in 1..Len(v)
      BY <1>5, <3>2
    <3>4. v[n + 1] \in D
      BY <3>2, <3>3
    <3> DEFINE u == SubSeq(v, n + 1, n + 1)
    <3>5. u \in Seq(D) /\ Len(u) = 1 /\ u[1] = v[n + 1]
      <4>1. \A i \in (n + 1)..(n + 1) : v[i] \in D
        BY <3>4
      <4> QED BY <4>1, SubSeqProperties
    <3>6. u = <<v[n + 1]>>
      <4> HIDE DEF u
      <4> QED BY <3>4, <3>5
    <3> QED BY <3>1, <3>3, <3>6
  <2> HIDE DEF v
  <2>2. Pieces(c, <<v[n + 1]>>) = <<Piece(c, v[n + 1])>>
    BY DEF Pieces
  <2>3. Piece(c, v[n + 1]) \in Strings(Alphabet(c))
    BY <2>1, PieceIs DEF v
  <2>4. FlattenSeq(<<Piece(c, v[n + 1])>>) = Piece(c, v[n + 1])
    BY <2>3, FlattenOne
  <2> QED BY <2>1, <2>2, <2>4 DEF Text, v
<1> QED BY <1>4, <1>5

\* What Filed says of a part of the input
LEMMA FiledIs ==
  ASSUME NEW c \in Cases, c.block \in FileSinks, NEW m \in Nat, NEW n \in Nat, n <= Len(c.given[1].v)
  PROVE  /\ Filed(c.block, c.par, <<Cut(c.given[1], m, n)>>) = Text(c, m, n)
         /\ c.block = "FileSink" => AllSerialized(SubSeq(c.given[1].v, m + 1, n), c.par.size) = Text(c, m, n)
<1> DEFINE x == <<Cut(c.given[1], m, n)>>
           u == SubSeq(c.given[1].v, m + 1, n)
<1>1. x[1].v = u
  BY DEF Cut
<1>2. DOMAIN u = 1..Len(u)
  <2> DEFINE v == c.given[1].v
             D == ToSet(v)
  <2>1. v \in Seq(D)
    BY SinkIs
  <2> HIDE DEF v, D
  <2>2. SubSeq(v, m + 1, n) \in Seq(D)
    BY <2>1 DEF v
  <2> QED BY <2>2 DEF v
<1> HIDE DEF x, u
<1>3. CASE c.block = "FileSink"
  <2>1. AllSerialized(u, c.par.size) = FlattenSeq(Pieces(c, u))
    BY <1>2, <1>3 DEF AllSerialized, Pieces, Piece
  <2>2. Filed(c.block, c.par, x) = AllSerialized(x[1].v, c.par.size)
    BY <1>3 DEF Filed
  <2> QED BY <1>1, <2>1, <2>2 DEF Text, x, u
<1>4. CASE c.block # "FileSink"
  <2>1. [k \in 1..Whole(x) |-> WithNewline(x[1].v[k], c.par.size)] = Pieces(c, u)
    BY <1>1, <1>4 DEF Pieces, Piece, Whole
  <2>2. Filed(c.block, c.par, x) = FlattenSeq([k \in 1..Whole(x) |-> WithNewline(x[1].v[k], c.par.size)])
    BY <1>4 DEF Filed
  <2> QED BY <1>4, <2>1, <2>2 DEF Text, x, u
<1> QED BY <1>3, <1>4

-----------------------------------------------------------------------------
(* Beginnings of strings                                                   *)

\* A string is what is taken of it and then what is left.
LEMMA SplitIs ==
  ASSUME NEW S, NEW a \in Strings(S), NEW g \in 0..Len(a)
  PROVE  /\ Take(a, g) \in Strings(S) /\ Len(Take(a, g)) = g
         /\ Drop(a, g) \in Strings(S) /\ Len(Drop(a, g)) = Len(a) - g
         /\ Take(a, g) \o Drop(a, g) = a
         /\ g = Len(a) => Drop(a, g) = <<>> /\ Take(a, g) = a
<1>1. a \in Seq(S) /\ g \in Nat /\ g <= Len(a) /\ Len(a) \in Nat
  BY DEF Strings
<1>2. /\ Take(a, g) \in Seq(S) /\ Len(Take(a, g)) = g
      /\ \A i \in 1..g : Take(a, g)[i] = a[i]
  <2>1. \A i \in 1..g : a[i] \in S
    BY <1>1
  <2>2. SubSeq(a, 1, g) \in Seq(S)
    BY <1>1, <2>1, SubSeqProperties
  <2>3. Len(SubSeq(a, 1, g)) = g
    BY <1>1
  <2>4. \A i \in 1..g : SubSeq(a, 1, g)[i] = a[i]
    BY <1>1
  <2> QED BY <2>2, <2>3, <2>4 DEF Take
<1>3. /\ Drop(a, g) \in Seq(S) /\ Len(Drop(a, g)) = Len(a) - g
      /\ \A i \in 1..(Len(a) - g) : Drop(a, g)[i] = a[g + i]
  <2>1. \A i \in (g + 1)..Len(a) : a[i] \in S
    BY <1>1
  <2>2. SubSeq(a, g + 1, Len(a)) \in Seq(S)
    BY <1>1, <2>1, SubSeqProperties
  <2>3. Len(SubSeq(a, g + 1, Len(a))) = Len(a) - g
    BY <1>1
  <2>4. \A i \in 1..(Len(a) - g) : SubSeq(a, g + 1, Len(a))[i] = a[g + i]
    BY <1>1
  <2> QED BY <2>2, <2>3, <2>4 DEF Drop
<1>4. Take(a, g) \o Drop(a, g) = a
  <2> DEFINE t == Take(a, g)
             d == Drop(a, g)
  <2>1. t \in Seq(S) /\ d \in Seq(S) /\ Len(t) = g /\ Len(d) = Len(a) - g
          /\ (\A i \in 1..g : t[i] = a[i]) /\ \A i \in 1..(Len(a) - g) : d[i] = a[g + i]
    BY <1>2, <1>3
  <2> HIDE DEF t, d
  <2>5. t \o d \in Seq(S) /\ Len(t \o d) = Len(t) + Len(d)
          /\ \A i \in 1..(Len(t) + Len(d)) : (t \o d)[i] = IF i <= Len(t) THEN t[i] ELSE d[i - Len(t)]
    BY <2>1, ConcatProperties
  <2>2. Len(t \o d) = Len(a) /\ t \o d \in Seq(S)
    BY <1>1, <2>1, <2>5
  <2>3. \A i \in 1..Len(a) : (t \o d)[i] = a[i]
    <3> SUFFICES ASSUME NEW i \in 1..Len(a) PROVE (t \o d)[i] = a[i]
      OBVIOUS
    <3>1. i > g => i - g \in 1..(Len(a) - g) /\ g + (i - g) = i
      BY <1>1
    <3>2. i <= g => i \in 1..g
      BY <1>1
    <3>3. i > g => d[i - g] = a[i]
      BY <2>1, <3>1
    <3> QED BY <1>1, <2>1, <2>5, <3>2, <3>3
  <2>4. t \o d = a
    BY <1>1, <2>2, <2>3, SeqEqual
  <2> QED BY <2>4 DEF t, d
<1>5. g = Len(a) => Drop(a, g) = <<>> /\ Take(a, g) = a
  <2>1. g = Len(a) => Drop(a, g) = <<>>
    BY <1>1, SubSeqEmpty DEF Drop
  <2>2. g = Len(a) => Take(a, g) = a
    BY <1>1, SubSeqFull DEF Take
  <2> QED BY <2>1, <2>2
<1> QED BY <1>2, <1>3, <1>4, <1>5 DEF Strings

\* Beginnings of what was put together
LEMMA PrefixIs ==
  ASSUME NEW S, NEW a \in Strings(S), NEW b \in Strings(S)
  PROVE  /\ IsPrefix(a, a \o b)
         /\ \A g \in 0..Len(b) : Take(a \o b, Len(a) + g) = a \o Take(b, g)
         /\ IsPrefix(a, b) => \A c \in Strings(S) : IsPrefix(b, c) => IsPrefix(a, c)
<1>1. a \in Seq(S) /\ b \in Seq(S) /\ Len(a) \in Nat /\ Len(b) \in Nat
  BY DEF Strings
<1>2. a \o b \in Seq(S) /\ Len(a \o b) = Len(a) + Len(b) /\ \A i \in 1..Len(a) : (a \o b)[i] = a[i]
  BY <1>1
<1>3. \A c, d \in Strings(S) :
        IsPrefix(c, d) <=> Len(c) <= Len(d) /\ \A i \in 1..Len(c) : c[i] = d[i]
  <2> SUFFICES ASSUME NEW c \in Strings(S), NEW d \in Strings(S)
               PROVE  IsPrefix(c, d) <=> Len(c) <= Len(d) /\ \A i \in 1..Len(c) : c[i] = d[i]
    OBVIOUS
  <2>1. c \in Seq(S) /\ d \in Seq(S) /\ Len(c) \in Nat /\ Len(d) \in Nat
    BY DEF Strings
  <2>2. SubSeq(c, 1, Len(c)) = c
    BY <2>1, SubSeqFull
  <2>3. ASSUME Len(c) <= Len(d)
        PROVE  SubSeq(d, 1, Len(c)) = c <=> \A i \in 1..Len(c) : c[i] = d[i]
    <3> DEFINE t == SubSeq(d, 1, Len(c))
    <3>1. t \in Seq(S) /\ Len(t) = Len(c) /\ \A i \in 1..Len(c) : t[i] = d[i]
      <4>1. Len(c) \in 0..Len(d)
        BY <2>1, <2>3
      <4>2. Take(d, Len(c)) \in Strings(S) /\ Len(Take(d, Len(c))) = Len(c)
        BY <4>1, SplitIs
      <4>3. \A i \in 1..Len(c) : SubSeq(d, 1, Len(c))[i] = d[i]
        BY <2>1, <2>3
      <4> QED BY <4>2, <4>3 DEF Take, Strings
    <3> HIDE DEF t
    <3>2. t = c => \A i \in 1..Len(c) : c[i] = d[i]
      BY <3>1
    <3>3. (\A i \in 1..Len(c) : c[i] = d[i]) => t = c
      <4> HAVE \A i \in 1..Len(c) : c[i] = d[i]
      <4>1. \A i \in 1..Len(t) : t[i] = c[i]
        BY <3>1
      <4> QED BY <2>1, <3>1, <4>1, SeqEqual
    <3> QED BY <3>2, <3>3 DEF t
  <2> QED BY <2>2, <2>3 DEF IsPrefix
<1>4. IsPrefix(a, a \o b)
  <2>1. a \o b \in Strings(S)
    BY <1>2 DEF Strings
  <2>2. Len(a) <= Len(a \o b) /\ \A i \in 1..Len(a) : a[i] = (a \o b)[i]
    BY <1>1, <1>2
  <2> DEFINE w == a \o b
  <2> HIDE DEF w
  <2>3. w \in Strings(S) /\ Len(a) <= Len(w) /\ \A i \in 1..Len(a) : a[i] = w[i]
    BY <2>1, <2>2 DEF w
  <2>4. IsPrefix(a, w)
    BY <1>3, <2>3
  <2> QED BY <2>4 DEF w
<1>5. ASSUME NEW g \in 0..Len(b) PROVE Take(a \o b, Len(a) + g) = a \o Take(b, g)
  <2> DEFINE t == Take(b, g)
  <2>1. t \in Seq(S) /\ Len(t) = g /\ \A i \in 1..g : t[i] = b[i]
    <3>1. Take(b, g) \in Strings(S) /\ Len(Take(b, g)) = g
      BY SplitIs
    <3>2. \A i \in 1..g : SubSeq(b, 1, g)[i] = b[i]
      BY <1>1
    <3> QED BY <3>1, <3>2 DEF Take, Strings
  <2> HIDE DEF t
  <2> DEFINE w == a \o b
             u == SubSeq(w, 1, Len(a) + g)
  <2>2. w \in Seq(S) /\ Len(w) = Len(a) + Len(b)
          /\ \A i \in 1..(Len(a) + g) : w[i] = IF i <= Len(a) THEN a[i] ELSE b[i - Len(a)]
    BY <1>1
  <2> HIDE DEF w
  <2>3. u \in Seq(S) /\ Len(u) = Len(a) + g /\ \A i \in 1..(Len(a) + g) : u[i] = w[i]
    <3>1. Len(a) + g \in 0..Len(w) /\ w \in Strings(S)
      BY <1>1, <2>2 DEF Strings
    <3>2. Take(w, Len(a) + g) \in Strings(S) /\ Len(Take(w, Len(a) + g)) = Len(a) + g
      BY <3>1, SplitIs
    <3>3. \A i \in 1..(Len(a) + g) : SubSeq(w, 1, Len(a) + g)[i] = w[i]
      BY <2>2, <3>1
    <3> QED BY <3>2, <3>3 DEF Take, Strings
  <2> HIDE DEF u
  <2>4. a \o t \in Seq(S) /\ Len(a \o t) = Len(a) + g
          /\ \A i \in 1..(Len(a) + g) : (a \o t)[i] = IF i <= Len(a) THEN a[i] ELSE t[i - Len(a)]
    BY <1>1, <2>1
  <2>5. \A i \in 1..(Len(a) + g) : (a \o t)[i] = u[i]
    <3> SUFFICES ASSUME NEW i \in 1..(Len(a) + g) PROVE (a \o t)[i] = u[i]
      OBVIOUS
    <3>1. i > Len(a) => i - Len(a) \in 1..g
      BY <1>1
    <3>2. i > Len(a) => t[i - Len(a)] = b[i - Len(a)]
      BY <2>1, <3>1
    <3> QED BY <1>1, <2>2, <2>3, <2>4, <3>2
  <2>6. a \o t = u
    BY <2>3, <2>4, <2>5, SeqEqual
  <2> QED BY <2>6 DEF Take, t, u, w
<1>6. ASSUME IsPrefix(a, b), NEW c \in Strings(S), IsPrefix(b, c) PROVE IsPrefix(a, c)
  <2>1. Len(a) <= Len(b) /\ (\A i \in 1..Len(a) : a[i] = b[i]) /\ Len(b) <= Len(c) /\ \A i \in 1..Len(b) : b[i] = c[i]
    BY <1>3, <1>6
  <2>2. Len(c) \in Nat
    BY DEF Strings
  <2>3. Len(a) <= Len(c) /\ \A i \in 1..Len(a) : a[i] = c[i]
    BY <1>1, <2>1, <2>2
  <2> QED BY <1>3, <2>3
<1> QED BY <1>4, <1>5, <1>6

\* A write adds to the disk and to what is pending, and nothing is lost of both
\* together; after a flush that went well nothing is pending, and when one goes
\* wrong the disk is full.
WritesAll(S, par, s, out, spill) ==
  LET d     == Written(par, s, out, spill)
      whole == (s.disk \o s.pending) \o out
  IN  /\ d.st \in [disk : Strings(S), pending : Strings(S)] /\ d.ok \in BOOLEAN
      /\ Len(d.st.disk) <= par.space
      /\ d.st.disk \o d.st.pending = whole
      /\ IsPrefix(s.disk, d.st.disk)
      /\ par.flush /\ d.ok => d.st.pending = <<>>
      /\ ~d.ok => par.space < Len(whole)
      /\ par.flush => d.st.disk = Take(whole, Smaller(par.space, Len(whole)))

\* That is what a write does.
LEMMA WrittenIs ==
  ASSUME NEW S, NEW par, par.space \in Nat, par.flush \in BOOLEAN,
         NEW s, s.disk \in Strings(S), s.pending \in Strings(S), Len(s.disk) <= par.space,
         NEW out \in Strings(S), NEW spill \in 0..(Len(s.pending) + Len(out))
  PROVE  WritesAll(S, par, s, out, spill)
<1> DEFINE a == s.disk
           b == s.pending
<1>23. a \in Strings(S) /\ b \in Strings(S) /\ Len(a) <= par.space /\ spill \in 0..(Len(b) + Len(out))
  OBVIOUS
<1> HIDE DEF a, b
<1> DEFINE all  == b \o out
           asks == IF par.flush THEN Len(all) ELSE spill
           gone == Smaller(asks, par.space - Len(a))
           whole == (a \o b) \o out
           d == Written(par, s, out, spill)
<1>1. d = [st |-> [disk |-> a \o Take(all, gone), pending |-> Drop(all, gone)], ok |-> gone = asks]
  BY DEF Written, a, b
<1>20. \A t, u \in Strings(S) : t \o u \in Strings(S)
  BY JoinStrings
<1>21. \A t, u, v \in Strings(S) : (t \o u) \o v = t \o (u \o v)
  BY JoinStrings
<1>2. all \in Strings(S) /\ whole = a \o all
  BY <1>20, <1>21, <1>23
<1>3. Len(a) \in Nat /\ Len(all) \in Nat /\ Len(all) = Len(b) + Len(out)
  BY <1>23 DEF Strings
<1> HIDE DEF all, whole, d
<1>4. Len(whole) = Len(a) + Len(all)
  <2>1. a \in Seq(S) /\ all \in Seq(S)
    BY <1>2, <1>23 DEF Strings
  <2> QED BY <1>2, <2>1
<1>5. asks \in 0..Len(all) /\ gone \in 0..Len(all) /\ gone <= par.space - Len(a) /\ gone <= asks
  BY <1>3, <1>23 DEF Smaller
<1>6. par.flush => gone = Smaller(Len(all), par.space - Len(a))
  OBVIOUS
<1> HIDE DEF gone, asks
<1>7. /\ Take(all, gone) \in Strings(S) /\ Len(Take(all, gone)) = gone /\ Drop(all, gone) \in Strings(S)
      /\ Take(all, gone) \o Drop(all, gone) = all
      /\ gone = Len(all) => Drop(all, gone) = <<>>
  BY <1>2, <1>5, SplitIs
<1> DEFINE t == Take(all, gone)
           p == Drop(all, gone)
<1>8. t \in Strings(S) /\ p \in Strings(S) /\ Len(t) = gone /\ t \o p = all
  BY <1>7
<1> HIDE DEF t, p
<1>9. a \o t \in Strings(S) /\ (a \o t) \o p = a \o (t \o p)
  <2>1. a \in Strings(S) /\ t \in Strings(S) /\ p \in Strings(S)
    BY <1>8, <1>23
  <2>2. a \o t \in Strings(S)
    BY <1>20, <2>1, Zenon
  <2>3. (a \o t) \o p = a \o (t \o p)
    <3>1. \A x, y, z \in Strings(S) : Joins(x, y, z)
      BY JoinStrings DEF Joins
    <3>2. Joins(a, t, p)
      BY <2>1, <3>1, Zenon
    <3> QED BY <3>2 DEF Joins
  <2> QED BY <2>2, <2>3
<1>10. IsPrefix(a, a \o t)
  BY <1>23, <1>8, PrefixIs
<1>11. Len(a \o t) = Len(a) + gone
  BY <1>23, <1>8, JoinThree
<1>12. Take(a \o all, Len(a) + gone) = a \o t
  <2>1. \A g \in 0..Len(all) : Take(a \o all, Len(a) + g) = a \o Take(all, g)
    BY <1>2, <1>23, PrefixIs
  <2> QED BY <1>5, <2>1, Zenon DEF t
<1>13. par.flush => Len(a) + gone = Smaller(par.space, Len(whole))
  BY <1>3, <1>4, <1>6 DEF Smaller
<1>14. d.st = [disk |-> a \o t, pending |-> p] /\ d.ok = (gone = asks)
  BY <1>1 DEF t, p
<1>15. /\ d.st.disk = a \o t /\ d.st.pending = p /\ d.st \in [disk : Strings(S), pending : Strings(S)]
       /\ d.ok \in BOOLEAN
  BY <1>8, <1>9, <1>14
<1>16. par.flush /\ d.ok => p = <<>>
  BY <1>7, <1>14 DEF p, asks
<1>17. Len(d.st.disk) <= par.space
  BY <1>3, <1>5, <1>11, <1>15
<1>18. d.st.disk \o d.st.pending = whole
  BY <1>2, <1>8, <1>9, <1>15
<1>19. par.flush => d.st.disk = Take(whole, Smaller(par.space, Len(whole)))
  BY <1>2, <1>12, <1>13, <1>15
<1>24. ~d.ok => par.space < Len(whole)
  <2>1. ASSUME gone # asks PROVE par.space < Len(a) + Len(all)
    <3>1. asks > par.space - Len(a)
      BY <1>3, <1>5, <2>1 DEF gone, Smaller
    <3> QED BY <1>3, <1>5, <3>1
  <2> QED BY <1>4, <1>14, <2>1
<1> QED BY <1>10, <1>15, <1>16, <1>17, <1>18, <1>19, <1>24 DEF WritesAll, d, whole, a, b


-----------------------------------------------------------------------------
(* The invariant                                                           *)

\* What was written of the output is the text of as much as was consumed, but for
\* the packet that an error has lost.
FileTypes ==
  /\ case \in Cases
  /\ fed \in [{1} -> Nat] /\ eaten \in [{1} -> Nat] /\ drained \in [{1} -> Nat]
  /\ eaten[1] <= fed[1] /\ fed[1] <= Len(case.given[1].v)
  /\ moved \in BOOLEAN /\ (ret = Again => moved)

OutSound ==
  /\ tagged = [o \in {1} |-> <<>>]
  /\ \E n \in 0..eaten[1] : made = [o \in {1} |-> Text(case, 0, n)] /\ (ret # Error => n = eaten[1])

\* The disk and what is pending have together what was consumed, and after an
\* error perhaps some that was not.
DiskSound ==
  LET all == st.disk \o st.pending
      S   == Strings(Alphabet(case))
  IN  /\ st \in [disk : S, pending : S]
      /\ Len(st.disk) <= case.par.space /\ IsPrefix(Kept(case), st.disk)
      /\ ret \in {Again, WaitIn(1, 1), Error, EOF}
      /\ ret \in {Again, WaitIn(1, 1)} => all = Content(case, eaten[1]) /\ (case.par.flush => st.pending = <<>>)
      /\ ret = Error => /\ \E n \in eaten[1]..fed[1] : all = Content(case, n)
                        /\ case.par.space < Len(all)
      /\ ret = EOF => /\ all = Content(case, eaten[1])
                      /\ st.disk = Take(all, Smaller(case.par.space, Len(all)))

\* When new() makes a sink.  In mode Append it finds a file, although it is to
\* make one if there is none (file_sink.rs: "or create a new file").
Appendable(par) == par.mode = "Append" => par.exists
Opens(par)      == (par.mode = "Create" => ~par.exists) /\ Appendable(par)

\* A sink that was not built does nothing.
Absent == st = NotBuilt /\ ret = Error /\ eaten[1] = 0

FilesSound ==
  /\ "block" \in DOMAIN case
  /\ case.block \in FileSinks =>
       FileTypes /\ OutSound /\ IF Opens(case.par) THEN DiskSound ELSE Absent


\* A sink is no other block.
LEMMA SinkAlone ==
  ASSUME NEW b \in FileSinks
  PROVE  /\ b \notin SyncNames /\ b \notin SignalSources /\ b \in {"FileSink", "NoCopyFileSink"}
         /\ b \notin {"Skip", "Delay", "RationalResampler", "AuEncode", "AuDecode", "StreamToPdu", "PduToStream",
                      "KissFrame", "HdlcDeframer", "Il2pDeframer", "VectorSource", "FileSource", "TcpSource",
                      "ReaderSource", "VectorSink", "VectorSinkNoCopy", "PduWriter", "Hasher", "FftFilter",
                      "Hilbert", "ZeroCrossing", "CmaEqualizer", "SymbolSync", "Strobe", "FftFilterFloat",
                      "SigMFSource", "UdpSource", "RtlSdrSource", "AudioSink", "SoapySdrSink", "SoapySdrSource",
                      "SinglePoleIirFilter"}
  BY DEF FileSinks, SyncNames, MathNames, SignalSources

\* new(), and when it makes a sink
LEMMA SinkStart ==
  ASSUME NEW c \in Cases, c.block \in FileSinks
  PROVE  /\ Start(c) = IF Opens(c.par) THEN [disk |-> Kept(c), pending |-> <<>>] ELSE NotBuilt
         /\ [disk |-> Kept(c), pending |-> <<>>] # NotBuilt
<1>1. Start(c) = FileSinkNew(c.par)
  BY SinkAlone DEF Start
<1>3. c.par.mode \in {"Create", "Overwrite", "Append"} /\ c.par.exists \in BOOLEAN
  BY SinkIs DEF FilePar
<1>4. FileSinkNew(c.par) = IF Opens(c.par) THEN [disk |-> Kept(c), pending |-> <<>>] ELSE NotBuilt
  BY <1>3 DEF FileSinkNew, Kept, Opens, Appendable
<1>5. [disk |-> Kept(c), pending |-> <<>>] # NotBuilt
  BY Unbuilt
<1> QED BY <1>1, <1>4, <1>5

\* The content grows with the input.
LEMMA ContentIs ==
  ASSUME NEW c \in Cases, c.block \in FileSinks, NEW n \in Nat, NEW k \in Nat, n <= k, k <= Len(c.given[1].v)
  PROVE  /\ Content(c, n) \in Strings(Alphabet(c)) /\ Content(c, 0) = Kept(c)
         /\ Content(c, k) = Content(c, n) \o Text(c, n, k)
         /\ IsPrefix(Content(c, n), Content(c, k)) /\ Len(Content(c, n)) <= Len(Content(c, k))
<1> DEFINE S == Alphabet(c)
           kept == Kept(c)
           a == Text(c, 0, n)
           b == Text(c, n, k)
<1>1. kept \in Strings(S) /\ Len(c.given[1].v) \in Nat
  BY SinkIs
<1>2. a \in Strings(S) /\ Text(c, 0, k) = a \o b
  BY <1>1, TextIs
<1>3. b \in Strings(S)
  BY <1>1, TextIs
<1>4. \A s, t \in Strings(S) : s \o t \in Strings(S)
  BY JoinStrings
<1>5. \A s, t, u \in Strings(S) : (s \o t) \o u = s \o (t \o u)
  BY JoinStrings
<1>6. \A s \in Strings(S) : s \o <<>> = s
  BY JoinStrings
<1>7. \A s, t \in Strings(S) : IsPrefix(s, s \o t)
  BY PrefixIs
<1>8. \A s, t \in Strings(S) : Len(s) <= Len(s \o t)
  <2> SUFFICES ASSUME NEW s \in Strings(S), NEW t \in Strings(S) PROVE Len(s) <= Len(s \o t)
    OBVIOUS
  <2>1. s \in Seq(S) /\ t \in Seq(S)
    BY DEF Strings
  <2> QED BY <2>1, ConcatProperties
<1>9. Content(c, 0) = kept \o <<>> /\ Content(c, n) = kept \o a /\ Content(c, k) = kept \o (a \o b)
  BY <1>2, TextOne DEF Content
<1> HIDE DEF S, kept, a, b
<1>10. kept \o a \in Strings(S) /\ kept \o <<>> = kept
  BY <1>1, <1>2, <1>4, <1>6, Zenon
<1>11. kept \o (a \o b) = (kept \o a) \o b
  BY <1>1, <1>2, <1>3, <1>5, Zenon
<1>12. IsPrefix(kept \o a, (kept \o a) \o b) /\ Len(kept \o a) <= Len((kept \o a) \o b)
  BY <1>3, <1>7, <1>8, <1>10, Zenon
<1> QED BY <1>9, <1>10, <1>11, <1>12 DEF S, kept, b

\* What Durable says of the file is said of the content.
LEMMA InFileIs ==
  ASSUME case \in Cases, case.block \in FileSinks, NEW n \in Nat, n <= Len(case.given[1].v)
  PROVE  InFile(n) = Content(case, n)
<1>1. Filed(case.block, case.par, <<Cut(case.given[1], 0, n)>>) = Text(case, 0, n)
  BY FiledIs
<1> QED BY <1>1, Zenon DEF InFile, Content, Kept

\* The invariant holds when the sink was made, or was not.
LEMMA FilesFirst ==
  ASSUME Init
  PROVE  FilesSound
<1>1. case \in Cases /\ "block" \in DOMAIN case
  BY CasesAssumption DEF Init
<1> SUFFICES ASSUME case.block \in FileSinks
             PROVE  FileTypes /\ OutSound /\ IF Opens(case.par) THEN DiskSound ELSE Absent
  BY <1>1 DEF FilesSound
<1>2. /\ Ins(case) = {1} /\ Outs(case) = {1} /\ Len(case.given[1].v) \in Nat
      /\ Kept(case) \in Strings(Alphabet(case)) /\ Len(Kept(case)) <= case.par.space
  BY <1>1, SinkIs
<1>3. fed = [i \in {1} |-> 0] /\ eaten = [i \in {1} |-> 0] /\ drained = [i \in {1} |-> 0]
        /\ made = [i \in {1} |-> <<>>] /\ tagged = [i \in {1} |-> <<>>] /\ moved = TRUE
  BY <1>2 DEF Init
<1>4. FileTypes
  BY <1>1, <1>2, <1>3 DEF FileTypes
<1>5. OutSound
  <2>1. Text(case, 0, 0) = <<>>
    BY <1>1, TextOne
  <2> QED BY <1>3, <2>1 DEF OutSound
<1>6. CASE Opens(case.par)
  <2>1. st = [disk |-> Kept(case), pending |-> <<>>] /\ ret = Again
    BY <1>1, <1>6, SinkStart DEF Init
  <2>2. Content(case, 0) = Kept(case)
    BY <1>1, <1>2, ContentIs
  <2>3. /\ <<>> \in Strings(Alphabet(case)) /\ Kept(case) \o <<>> = Kept(case)
        /\ IsPrefix(Kept(case), Kept(case) \o <<>>)
    BY <1>2, JoinStrings, PrefixIs
  <2>4. DiskSound
    <3>1. Again # Error /\ Again # EOF
      BY DEF Again, Error, EOF, Simply
    <3> QED BY <1>2, <1>3, <2>1, <2>2, <2>3, <3>1 DEF DiskSound
  <2> QED BY <1>4, <1>5, <1>6, <2>4
<1>7. CASE ~Opens(case.par)
  <2>1. st = NotBuilt /\ ret = Error
    BY <1>1, <1>7, SinkStart DEF Init
  <2> QED BY <1>3, <1>4, <1>5, <1>7, <2>1 DEF Absent
<1> QED BY <1>6, <1>7


\* A tag that is not there is not handed over.
LEMMA PlacedNone == ASSUME NEW o PROVE Placed(o, {}) = <<>>
<1>1. Shifted({}, Len(made[o])) = {}
  BY DEF Shifted
<1>2. IsFiniteSet({}) /\ Cardinality({}) = 0
  BY FS_EmptySet
<1>3. Placed(o, {}) \in Seq({}) /\ Len(Placed(o, {})) = 0
  BY <1>1, <1>2, PlacedIs
<1> QED BY <1>3

\* What work() may return
LEMMA SinkOutcomes ==
  ASSUME case.block \in FileSinks, NEW w, NEW room, NEW d \in Outcomes(case.block, case.par, st, w, room)
  PROVE  \E spill \in FileSinkSpills(case.block, case.par, st, w) :
           d = IF case.block = "FileSink" THEN FileSinkWork(case.par, st, w, room, spill)
               ELSE NoCopyFileSinkWork(case.par, st, w, room, spill)
<1>1. CASE case.block = "FileSink"
  <2>1. Outcomes(case.block, case.par, st, w, room)
          = { FileSinkWork(case.par, st, w, room, k) : k \in FileSinkSpills(case.block, case.par, st, w) }
    BY <1>1 DEF Outcomes
  <2> QED BY <1>1, <2>1
<1>2. CASE case.block = "NoCopyFileSink"
  <2>1. Outcomes(case.block, case.par, st, w, room)
          = { NoCopyFileSinkWork(case.par, st, w, room, k) : k \in FileSinkSpills(case.block, case.par, st, w) }
    BY <1>2 DEF Outcomes
  <2> QED BY <1>2, <2>1
<1> QED BY <1>1, <1>2, SinkAlone

\* A call of work() that writes the text of the samples up to the n-th
Writes(n, spill) ==
  LET out == Text(case, eaten[1], n)
      d   == Written(case.par, st, out, spill)
  IN  /\ n \in (eaten[1] + 1)..fed[1]
      /\ spill \in 0..(Len(st.pending) + Len(out))
      /\ st' = d.st
      /\ IF d.ok THEN eaten' = [i \in {1} |-> n] /\ made' = [o \in {1} |-> made[1] \o out] /\ ret' = Again
         ELSE eaten' \in {[i \in {1} |-> eaten[1]], [i \in {1} |-> n]} /\ made' = made /\ ret' = Error

\* and one that finds nothing
Idles == eaten[1] = fed[1] /\ st' = st /\ eaten' = eaten /\ made' = made /\ ret' = WaitIn(1, 1)

\* What a call of work() does
LEMMA SinkWorks ==
  ASSUME FilesSound, case.block \in FileSinks, Work
  PROVE  /\ Opens(case.par) /\ ret \in {Again, WaitIn(1, 1)}
         /\ UNCHANGED <<case, fed, drained, tagged>>
         /\ moved' \in BOOLEAN /\ (eaten' # eaten => moved')
         /\ Idles \/ \E n, spill \in Nat : Writes(n, spill)
<1>1. FileTypes /\ OutSound /\ IF Opens(case.par) THEN DiskSound ELSE Absent
  BY DEF FilesSound
<1>2. ret # Error /\ ret # EOF
  BY DEF Work, Ready, Error, EOF, Simply
<1>3. Opens(case.par) /\ DiskSound
  BY <1>1, <1>2 DEF Absent
<1>4. ret \in {Again, WaitIn(1, 1)}
  BY <1>2, <1>3 DEF DiskSound
<1>5. /\ Ins(case) = {1} /\ Outs(case) = {1} /\ Len(case.given[1].v) \in Nat /\ case \in Cases
      /\ case.given[1].v \in Seq(ToSet(case.given[1].v))
  BY <1>1, SinkIs DEF FileTypes
<1>6. /\ eaten \in [{1} -> Nat] /\ fed \in [{1} -> Nat] /\ eaten[1] \in Nat /\ fed[1] \in Nat
      /\ eaten[1] <= fed[1] /\ fed[1] <= Len(case.given[1].v)
  BY <1>1 DEF FileTypes
<1> DEFINE w == Windows
           x == w[1].v
           e == eaten[1]
           f == fed[1]
           v == case.given[1].v
<1>7. DOMAIN w = {1} /\ x = SubSeq(v, e + 1, f) /\ Len(x) = f - e /\ (x = <<>> <=> e = f)
        /\ (e < f => x[1] = v[e + 1])
  <2>1. DOMAIN w = {1} /\ x = SubSeq(v, e + 1, f)
    BY <1>5 DEF Windows, Cut
  <2> DEFINE y == SubSeq(v, e + 1, f)
             D == ToSet(v)
  <2> HIDE DEF v, e, f, D, w
  <2>2. v \in Seq(D) /\ e \in Nat /\ f \in Nat /\ e <= f /\ f <= Len(v)
    BY <1>5, <1>6 DEF v, e, f, D
  <2>3. y \in Seq(D) /\ Len(y) = f - e /\ (e < f => y[1] = v[e + 1])
    BY <2>2
  <2> HIDE DEF y
  <2>4. y = <<>> <=> e = f
    BY <2>2, <2>3
  <2> QED BY <2>1, <2>3, <2>4 DEF y
<1>8. PICK d \in Outcomes(case.block, case.par, st, w, Room) :
        /\ st' = d.st
        /\ eaten' = [i \in {1} |-> e + d.eat[i]]
        /\ made' = [o \in {1} |-> made[o] \o d.put[o]]
        /\ tagged' = [o \in {1} |-> tagged[o] \o Placed(o, d.tags[o])]
        /\ ret' = d.ret
        /\ moved' = (<<st', eaten', made'>> # <<st, eaten, made>>)
  <2>1. \A h : [i \in Ins(case) |-> eaten[i] + h[i]] = [i \in {1} |-> e + h[i]]
    BY <1>5
  <2> QED BY <1>5, <2>1 DEF Work
<1>9. PICK spill \in FileSinkSpills(case.block, case.par, st, w) :
        d = IF case.block = "FileSink" THEN FileSinkWork(case.par, st, w, Room, spill)
            ELSE NoCopyFileSinkWork(case.par, st, w, Room, spill)
  BY SinkOutcomes
<1>10. UNCHANGED <<case, fed, drained>>
  BY DEF Work
<1>11. DOMAIN Room = {1}
  BY <1>5 DEF Room
<1>12. made[1] \o <<>> = made[1] /\ made = [o \in {1} |-> made[1]] /\ tagged[1] = <<>> /\ tagged = [o \in {1} |-> <<>>]
  <2>1. PICK n \in 0..e : made = [o \in {1} |-> Text(case, 0, n)]
    BY <1>1 DEF OutSound
  <2>2. n \in Nat /\ n <= Len(v)
    BY <1>5, <1>6, <2>1
  <2>3. Text(case, 0, n) \in Strings(Alphabet(case))
    BY <1>5, <2>2, TextIs
  <2>4. Text(case, 0, n) \o <<>> = Text(case, 0, n)
    BY <2>3, JoinStrings
  <2> QED BY <1>1, <2>1, <2>4 DEF OutSound
<1> HIDE DEF w, x, e, f, v
<1>13. ASSUME d.tags[1] = {} PROVE tagged' = tagged
  <2>1. Placed(1, d.tags[1]) = <<>> /\ <<>> \o <<>> = <<>>
    BY <1>13, PlacedNone
  <2> QED BY <1>8, <1>12, <2>1
<1>14. ASSUME eaten' # eaten PROVE moved'
  BY <1>8, <1>14
<1>15. eaten = [i \in {1} |-> e] /\ e \in Nat /\ f \in Nat /\ e <= f /\ f <= Len(v)
  BY <1>6 DEF e, f, v
<1>16. moved' \in BOOLEAN
  BY <1>8
<1>17. CASE e = f
  <2>1. d = Nothing(st, w, Room, WaitIn(1, 1))
    BY <1>7, <1>9, <1>17 DEF FileSinkWork, NoCopyFileSinkWork, x
  <2>2. d.st = st /\ d.eat[1] = 0 /\ d.put[1] = <<>> /\ d.tags[1] = {} /\ d.ret = WaitIn(1, 1)
    BY <1>7, <1>11, <2>1 DEF Nothing, Did
  <2>3. st' = st /\ ret' = WaitIn(1, 1) /\ tagged' = tagged
    BY <1>8, <1>13, <2>2
  <2>4. made' = made
    BY <1>8, <1>12, <2>2
  <2>5. eaten' = eaten
    BY <1>8, <1>15, <2>2
  <2>6. Idles
    BY <1>17, <2>3, <2>4, <2>5 DEF Idles, e, f
  <2> QED BY <1>3, <1>4, <1>10, <1>16, <2>3, <2>5, <2>6
<1>18. CASE e # f
  <2> DEFINE n == IF case.block = "FileSink" THEN f ELSE e + 1
             out == Text(case, e, n)
             done == Written(case.par, st, out, spill)
  <2>1. n \in (e + 1)..f /\ n \in Nat /\ n <= Len(v)
    BY <1>15, <1>18
  <2>2. out = IF case.block = "FileSink" THEN AllSerialized(x, case.par.size) ELSE WithNewline(x[1], case.par.size)
    <3>1. CASE case.block = "FileSink"
      <4>1. AllSerialized(SubSeq(case.given[1].v, e + 1, f), case.par.size) = Text(case, e, f)
        BY <1>5, <1>15, <3>1, FiledIs DEF v
      <4> QED BY <1>7, <3>1, <4>1 DEF v
    <3>2. CASE case.block # "FileSink"
      <4>1. Text(case, e, e + 1) = Piece(case, v[e + 1])
        <5>1. case \in Cases /\ e \in Nat /\ e < Len(case.given[1].v)
          BY <1>5, <1>15, <1>18 DEF v
        <5>2. e < Len(case.given[1].v) => Text(case, e, e + 1) = Piece(case, case.given[1].v[e + 1])
          BY <5>1, TextOne, Zenon
        <5> QED BY <5>1, <5>2 DEF v
      <4> QED BY <1>7, <1>15, <1>18, <3>2, <4>1 DEF Piece
    <3> QED BY <3>1, <3>2
  <2> HIDE DEF out
  <2>3. spill \in {0, Len(st.pending), Len(st.pending) + Len(out)}
    BY <1>7, <1>9, <1>18, <2>2 DEF FileSinkSpills, Spills, x
  <2>4. Len(st.pending) \in Nat /\ Len(out) \in Nat
    <3>1. out \in Strings(Alphabet(case))
      BY <1>5, <1>15, <2>1, TextIs DEF out, v
    <3>2. st.pending \in Strings(Alphabet(case))
      BY <1>3 DEF DiskSound
    <3> QED BY <3>1, <3>2 DEF Strings
  <2>5. spill \in Nat /\ spill \in 0..(Len(st.pending) + Len(out))
    BY <2>3, <2>4
  <2>6. d = IF ~done.ok
            THEN IF case.block = "FileSink" THEN Nothing(done.st, w, Room, Error)
                 ELSE Moved(done.st, 1, <<>>, {}, Error)
            ELSE Moved(done.st, n - e, out, {}, Again)
    <3>1. CASE case.block = "FileSink"
      <4>1. d = FileSinkWork(case.par, st, w, Room, spill) /\ AllSerialized(w[1].v, case.par.size) = out
        BY <1>9, <2>2, <3>1 DEF x
      <4>2. w[1].v # <<>> /\ Len(w[1].v) = n - e
        BY <1>7, <1>18, <3>1 DEF x
      <4> HIDE DEF n, done
      <4> QED BY <3>1, <4>1, <4>2 DEF FileSinkWork, done
    <3>2. CASE case.block # "FileSink"
      <4>1. d = NoCopyFileSinkWork(case.par, st, w, Room, spill) /\ WithNewline(w[1].v[1], case.par.size) = out
        BY <1>9, <2>2, <3>2 DEF x
      <4>2. w[1].v # <<>> /\ n - e = 1
        BY <1>7, <1>15, <1>18, <3>2 DEF x
      <4> HIDE DEF n, done
      <4> QED BY <3>2, <4>1, <4>2 DEF NoCopyFileSinkWork, done
    <3> QED BY <3>1, <3>2
  <2> HIDE DEF n, done
  <2>7. d.tags[1] = {} /\ d.st = done.st
    BY <1>11, <2>6 DEF Nothing, Moved, Did
  <2>8. ASSUME done.ok
        PROVE  eaten' = [i \in {1} |-> n] /\ made' = [o \in {1} |-> made[1] \o out] /\ ret' = Again
    <3>1. d.eat[1] = n - e /\ d.put[1] = out /\ d.ret = Again
      BY <2>6, <2>8 DEF Moved, Did
    <3>2. e + (n - e) = n
      BY <1>15, <2>1
    <3> QED BY <1>8, <3>1, <3>2
  <2>9. ASSUME ~done.ok
        PROVE  eaten' \in {[i \in {1} |-> e], [i \in {1} |-> n]} /\ made' = made /\ ret' = Error
    <3>1. d.eat[1] = (IF case.block = "FileSink" THEN 0 ELSE 1) /\ d.put[1] = <<>> /\ d.ret = Error
      BY <1>7, <1>11, <2>6, <2>9 DEF Nothing, Moved, Did
    <3>2. e + d.eat[1] \in {e, n}
      BY <1>15, <3>1 DEF n
    <3> QED BY <1>8, <1>12, <3>1, <3>2
  <2>10. Writes(n, spill)
    <3>1. st' = done.st
      BY <1>8, <2>7
    <3> QED BY <2>1, <2>5, <2>8, <2>9, <3>1 DEF Writes, e, f, out, done
  <2>11. \E m, s \in Nat : Writes(m, s)
    BY <2>1, <2>5, <2>10
  <2> QED BY <1>3, <1>4, <1>10, <1>13, <1>14, <1>16, <2>7, <2>11
<1> QED BY <1>17, <1>18


\* A call that writes: a content follows from the one before, on the disk and pending,
LEMMA WritesDisk ==
  ASSUME FilesSound, case.block \in FileSinks, Opens(case.par), ret \in {Again, WaitIn(1, 1)},
         UNCHANGED <<case, fed>>, NEW n, NEW spill, Writes(n, spill)
  PROVE  DiskSound'
<1> DEFINE S == Alphabet(case)
           out == Text(case, eaten[1], n)
           a == st.disk
           b == st.pending
           d == Written(case.par, st, out, spill)
           all == d.st.disk \o d.st.pending
<1>1. FileTypes /\ DiskSound
  BY DEF FilesSound
<1>2. case \in Cases /\ case.par.space \in Nat /\ case.par.flush \in BOOLEAN /\ Len(case.given[1].v) \in Nat
  BY <1>1, SinkIs DEF FileTypes, FilePar
<1>3. /\ eaten[1] \in Nat /\ n \in Nat /\ fed[1] \in Nat /\ eaten[1] < n /\ n <= fed[1] /\ n <= Len(case.given[1].v)
      /\ fed[1] <= Len(case.given[1].v)
  BY <1>1, <1>2 DEF FileTypes, Writes
<1>4. /\ a \in Strings(S) /\ b \in Strings(S) /\ Len(a) <= case.par.space /\ IsPrefix(Kept(case), a)
      /\ a \o b = Content(case, eaten[1]) /\ Kept(case) \in Strings(S)
  BY <1>1, <1>2, SinkIs DEF DiskSound
<1>5. out \in Strings(S) /\ Content(case, n) = Content(case, eaten[1]) \o out
  <2>1. eaten[1] <= n /\ n <= n
    BY <1>3
  <2>2. out \in Strings(S)
    BY <1>2, <1>3, <2>1, TextIs
  <2>3. Content(case, n) = Content(case, eaten[1]) \o out
    BY <1>2, <1>3, <2>1, ContentIs
  <2> QED BY <2>2, <2>3
<1>6. st' = d.st /\ spill \in 0..(Len(b) + Len(out)) /\ ret' = (IF d.ok THEN Again ELSE Error)
        /\ eaten'[1] \in {eaten[1], n} /\ (d.ok => eaten'[1] = n)
  BY DEF Writes
<1> HIDE DEF S, out, a, b, d
<1>7. /\ d.st \in [disk : Strings(S), pending : Strings(S)] /\ d.ok \in BOOLEAN
      /\ Len(d.st.disk) <= case.par.space
      /\ d.st.disk \o d.st.pending = (a \o b) \o out
      /\ IsPrefix(a, d.st.disk)
      /\ case.par.flush /\ d.ok => d.st.pending = <<>>
      /\ ~d.ok => case.par.space < Len((a \o b) \o out)
  <2>1. WritesAll(S, case.par, st, out, spill)
    BY <1>2, <1>4, <1>5, <1>6, WrittenIs DEF a, b
  <2> QED BY <2>1 DEF WritesAll, a, b, d
<1>8. all = Content(case, n)
  BY <1>4, <1>5, <1>7
<1>9. IsPrefix(Kept(case), d.st.disk)
  BY <1>4, <1>7, PrefixIs
<1>10. Again # Error /\ Again # EOF /\ Again # WaitIn(1, 1) /\ Error # EOF /\ Error # WaitIn(1, 1)
  BY DEF Again, Error, EOF, WaitIn, Simply
<1>11. case' = case /\ fed'[1] = fed[1]
  OBVIOUS
<1>12. CASE d.ok
  <2>1. ret' = Again /\ eaten'[1] = n /\ st' = d.st
    BY <1>6, <1>12
  <2> QED BY <1>7, <1>8, <1>9, <1>10, <1>11, <1>12, <2>1 DEF DiskSound, S
<1>13. CASE ~d.ok
  <2>1. ret' = Error /\ st' = d.st
    BY <1>6, <1>13
  <2>2. n \in eaten'[1]..fed'[1]
    BY <1>3, <1>6, <1>11
  <2>3. case.par.space < Len(all)
    BY <1>7, <1>13
  <2> HIDE DEF all
  <2> QED BY <1>7, <1>8, <1>9, <1>10, <1>11, <2>1, <2>2, <2>3 DEF DiskSound, S, all
<1> QED BY <1>7, <1>12, <1>13

\* and so does what was written in all.
LEMMA WritesOut ==
  ASSUME FilesSound, case.block \in FileSinks, ret \in {Again, WaitIn(1, 1)},
         UNCHANGED <<case, fed, drained, tagged>>, moved' \in BOOLEAN, eaten' # eaten => moved',
         NEW n, NEW spill, Writes(n, spill)
  PROVE  FileTypes' /\ OutSound'
<1> DEFINE out == Text(case, eaten[1], n)
           d == Written(case.par, st, out, spill)
<1>1. FileTypes /\ OutSound
  BY DEF FilesSound
<1>2. case \in Cases /\ Len(case.given[1].v) \in Nat
  BY <1>1, SinkIs DEF FileTypes
<1>3. /\ eaten[1] \in Nat /\ n \in Nat /\ fed[1] \in Nat /\ eaten[1] < n /\ n <= fed[1] /\ n <= Len(case.given[1].v)
      /\ eaten \in [{1} -> Nat]
  BY <1>1, <1>2 DEF FileTypes, Writes
<1>4. ret # Error
  BY DEF Again, Error, WaitIn, Simply
<1>5. made = [o \in {1} |-> Text(case, 0, eaten[1])]
  BY <1>1, <1>4 DEF OutSound
<1>6. \/ d.ok /\ eaten' = [i \in {1} |-> n] /\ made' = [o \in {1} |-> made[1] \o out] /\ ret' = Again
      \/ eaten' \in {[i \in {1} |-> eaten[1]], [i \in {1} |-> n]} /\ made' = made /\ ret' = Error
  BY Zenon DEF Writes
<1> HIDE DEF out, d
<1>7. eaten' \in [{1} -> Nat] /\ eaten'[1] \in {eaten[1], n}
  BY <1>3, <1>6
<1>8. Again # Error
  BY DEF Again, Error, Simply
<1>9. ret' = Again => moved'
  <2>1. ret' = Again => eaten'[1] = n
    BY <1>6, <1>8
  <2> QED BY <1>3, <2>1
<1>10. FileTypes'
  BY <1>1, <1>3, <1>7, <1>9 DEF FileTypes
<1>11. \E m \in 0..eaten'[1] : made' = [o \in {1} |-> Text(case, 0, m)] /\ (ret' # Error => m = eaten'[1])
  <2>1. Text(case, 0, n) = Text(case, 0, eaten[1]) \o out
    <3>1. 0 \in Nat /\ 0 <= eaten[1] /\ eaten[1] <= n
      BY <1>3
    <3>2. Text(case, 0, n) = Text(case, 0, eaten[1]) \o Text(case, eaten[1], n)
      BY <1>2, <1>3, <3>1, TextIs
    <3> QED BY <3>2 DEF out
  <2>2. CASE ret' = Again
    <3>1. eaten' = [i \in {1} |-> n] /\ made' = [o \in {1} |-> made[1] \o out]
      BY <1>6, <1>8, <2>2, Zenon
    <3>2. made[1] = Text(case, 0, eaten[1])
      BY <1>5
    <3>3. made' = [o \in {1} |-> Text(case, 0, n)]
      BY <2>1, <3>1, <3>2, Zenon
    <3>4. eaten'[1] = n /\ n \in 0..n
      BY <1>3, <3>1
    <3> QED BY <3>3, <3>4
  <2>3. CASE ret' = Error
    <3>1. made' = made /\ eaten[1] \in 0..eaten'[1]
      BY <1>3, <1>6, <1>7, <1>8, <2>3
    <3> QED BY <1>5, <2>3, <3>1
  <2> QED BY <1>6, <2>2, <2>3
<1>12. OutSound'
  BY <1>1, <1>11 DEF OutSound
<1> QED BY <1>10, <1>12

\* A call of work() keeps the invariant.
LEMMA FilesWorked ==
  ASSUME FilesSound, case.block \in FileSinks, Work
  PROVE  FilesSound'
<1>1. /\ Opens(case.par) /\ ret \in {Again, WaitIn(1, 1)}
      /\ UNCHANGED <<case, fed, drained, tagged>>
      /\ moved' \in BOOLEAN /\ (eaten' # eaten => moved')
      /\ Idles \/ \E n, spill \in Nat : Writes(n, spill)
  BY SinkWorks
<1>2. CASE Idles
  <2>1. FileTypes /\ OutSound /\ DiskSound
    BY <1>1 DEF FilesSound
  <2>2. Again # WaitIn(1, 1) /\ Error # WaitIn(1, 1) /\ EOF # WaitIn(1, 1) /\ Again # Error
    BY DEF Again, Error, EOF, WaitIn, Simply
  <2>3. ret' = WaitIn(1, 1) /\ st' = st /\ eaten' = eaten /\ made' = made /\ ret # Error
    BY <1>1, <1>2, <2>2 DEF Idles
  <2>4. FileTypes' /\ OutSound'
    BY <1>1, <2>1, <2>2, <2>3 DEF FileTypes, OutSound
  <2>5. DiskSound'
    BY <1>1, <2>1, <2>2, <2>3 DEF DiskSound
  <2> QED BY <1>1, <2>4, <2>5 DEF FilesSound
<1>3. ASSUME NEW n \in Nat, NEW spill \in Nat, Writes(n, spill) PROVE FilesSound'
  <2>1. DiskSound' /\ FileTypes' /\ OutSound'
    BY <1>1, <1>3, WritesDisk, WritesOut
  <2> QED BY <1>1, <2>1 DEF FilesSound
<1> QED BY <1>1, <1>2, <1>3


\* The other actions do not touch the sink, but for the end of it.
LEMMA FilesFed ==
  ASSUME FilesSound, case.block \in FileSinks, NEW i \in Ins(case), Feed(i)
  PROVE  FilesSound'
<1>1. FileTypes /\ OutSound /\ IF Opens(case.par) THEN DiskSound ELSE Absent
  BY DEF FilesSound
<1>2. i = 1 /\ Len(case.given[1].v) \in Nat
  BY <1>1, SinkIs DEF FileTypes
<1>3. PICK n \in 1..(Len(case.given[1].v) - fed[1]) : fed' = [fed EXCEPT ![1] = @ + n]
  BY <1>2 DEF Feed
<1>4. UNCHANGED <<case, st, eaten, made, tagged, drained, ret>> /\ moved' = TRUE
  BY DEF Feed
<1>5. fed \in [{1} -> Nat] /\ fed[1] \in Nat
  BY <1>1 DEF FileTypes
<1>6. fed' \in [{1} -> Nat] /\ fed'[1] = fed[1] + n /\ fed'[1] <= Len(case.given[1].v)
  BY <1>2, <1>3, <1>5
<1>7. FileTypes' /\ OutSound'
  BY <1>1, <1>4, <1>5, <1>6 DEF FileTypes, OutSound
<1>8. DiskSound => DiskSound'
  <2> SUFFICES ASSUME DiskSound PROVE DiskSound'
    OBVIOUS
  <2>1. \A m \in eaten[1]..fed[1] : m \in eaten'[1]..fed'[1]
    BY <1>1, <1>4, <1>5, <1>6 DEF FileTypes
  <2> QED BY <1>4, <2>1 DEF DiskSound
<1>9. Absent => Absent'
  BY <1>4 DEF Absent
<1> QED BY <1>1, <1>4, <1>7, <1>8, <1>9 DEF FilesSound

\* The next block takes what was written.
LEMMA FilesDrained ==
  ASSUME FilesSound, case.block \in FileSinks, NEW o \in Outs(case), Drain(o)
  PROVE  FilesSound'
<1>1. FileTypes /\ OutSound /\ IF Opens(case.par) THEN DiskSound ELSE Absent
  BY DEF FilesSound
<1>2. o = 1 /\ case \in Cases /\ Len(case.given[1].v) \in Nat
  BY <1>1, SinkIs DEF FileTypes
<1>3. Len(made[1]) \in Nat
  <2>1. PICK n \in 0..eaten[1] : made = [p \in {1} |-> Text(case, 0, n)]
    BY <1>1 DEF OutSound
  <2>2. n \in Nat /\ 0 <= n /\ n <= n /\ n <= Len(case.given[1].v)
    BY <1>1, <1>2 DEF FileTypes
  <2>3. Text(case, 0, n) \in Strings(Alphabet(case))
    BY <1>2, <2>2, TextIs
  <2>4. Len(Text(case, 0, n)) \in Nat
    BY <2>3 DEF Strings
  <2> QED BY <2>1, <2>4
<1>4. PICK n \in 1..(Len(made[1]) - drained[1]) : drained' = [drained EXCEPT ![1] = @ + n]
  BY <1>2 DEF Drain
<1>5. UNCHANGED <<case, st, fed, eaten, made, tagged, ret>> /\ moved' = TRUE
  BY DEF Drain
<1>6. drained' \in [{1} -> Nat]
  BY <1>1, <1>3, <1>4 DEF FileTypes
<1>7. FileTypes' /\ OutSound'
  BY <1>1, <1>5, <1>6 DEF FileTypes, OutSound
<1>8. (DiskSound => DiskSound') /\ (Absent => Absent')
  BY <1>5 DEF DiskSound, Absent
<1> QED BY <1>1, <1>5, <1>7, <1>8 DEF FilesSound

\* drop() flushes, and what does not fit on the disk is lost.
LEMMA FilesDropped ==
  ASSUME FilesSound, case.block \in FileSinks, DropBlock
  PROVE  FilesSound'
<1> DEFINE S == Alphabet(case)
           par == [case.par EXCEPT !.flush = TRUE]
           d == Written(par, st, <<>>, 0)
           all == st.disk \o st.pending
<1>1. FileTypes /\ OutSound /\ IF Opens(case.par) THEN DiskSound ELSE Absent
  BY DEF FilesSound
<1>2. ret.kind = "WaitIn" /\ ret' = EOF /\ st' = d.st
  BY SinkAlone DEF DropBlock, FileSinkDrop
<1>3. UNCHANGED <<case, fed, eaten, made, tagged, drained, moved>>
  BY SinkAlone DEF DropBlock
<1>4. ret # Error /\ ret # EOF /\ ret # Again
  BY <1>2 DEF Error, EOF, Again, Simply
<1>5. Opens(case.par) /\ DiskSound
  BY <1>1, <1>4 DEF Absent
<1>6. case \in Cases /\ par.space = case.par.space /\ par.space \in Nat /\ par.flush = TRUE
  <2>1. case \in Cases
    BY <1>1 DEF FileTypes
  <2>2. FilePar(case.par)
    BY <2>1, SinkIs
  <2> QED BY <2>1, <2>2 DEF FilePar
<1>7. /\ st.disk \in Strings(S) /\ st.pending \in Strings(S) /\ Len(st.disk) <= case.par.space
      /\ IsPrefix(Kept(case), st.disk) /\ all = Content(case, eaten[1]) /\ ret = WaitIn(1, 1)
      /\ Kept(case) \in Strings(S)
  BY <1>4, <1>5, <1>6, SinkIs DEF DiskSound
<1> HIDE DEF S, par, d
<1>8. WritesAll(S, par, st, <<>>, 0)
  <2>1. <<>> \in Strings(S)
    BY JoinStrings
  <2>2. 0 \in 0..(Len(st.pending) + Len(<<>>))
    <3>1. Len(st.pending) \in Nat
      BY <1>7 DEF Strings
    <3> QED BY <3>1
  <2> QED BY <1>6, <1>7, <2>1, <2>2, WrittenIs
<1>9. all \in Strings(S) /\ all \o <<>> = all
  <2>1. \A x, y \in Strings(S) : x \o y \in Strings(S)
    BY JoinStrings
  <2>2. all \in Strings(S)
    BY <1>7, <2>1, Zenon
  <2> HIDE DEF all
  <2> QED BY <2>2, JoinStrings
<1>10. /\ d.st \in [disk : Strings(S), pending : Strings(S)] /\ Len(d.st.disk) <= case.par.space
       /\ d.st.disk \o d.st.pending = all \o <<>> /\ IsPrefix(st.disk, d.st.disk)
       /\ d.st.disk = Take(all \o <<>>, Smaller(case.par.space, Len(all \o <<>>)))
  BY <1>6, <1>8 DEF WritesAll, d
<1> HIDE DEF all
<1>11. IsPrefix(Kept(case), d.st.disk)
  BY <1>7, <1>10, PrefixIs
<1>12. EOF # Error /\ EOF # Again /\ EOF # WaitIn(1, 1)
  BY DEF EOF, Error, Again, WaitIn, Simply
<1>13. DiskSound'
  BY <1>2, <1>3, <1>7, <1>9, <1>10, <1>11, <1>12 DEF DiskSound, S
<1>14. FileTypes' /\ OutSound'
  BY <1>1, <1>2, <1>3, <1>4, <1>12 DEF FileTypes, OutSound
<1> QED BY <1>3, <1>5, <1>13, <1>14 DEF FilesSound

\* The invariant is kept by every step.
LEMMA FilesNext ==
  ASSUME FilesSound, [Next]_vars
  PROVE  FilesSound'
<1>1. CASE UNCHANGED vars
  BY <1>1 DEF FilesSound, FileTypes, OutSound, DiskSound, Absent, vars
<1>2. CASE SetDelay
  <2>1. PICK d : case' = [case EXCEPT !.par.changed = <<eaten[1], d>>]
    BY <1>2 DEF SetDelay
  <2>2. case.block = "Delay" /\ "block" \in DOMAIN case
    BY <1>2 DEF SetDelay, FilesSound
  <2>3. "block" \in DOMAIN case' /\ case'.block = "Delay"
    BY <2>1, <2>2
  <2> QED BY <2>3 DEF FilesSound, FileSinks
<1>3. CASE case.block \in FileSinks /\ Next /\ ~SetDelay
  BY <1>3, FilesFed, FilesDrained, FilesWorked, FilesDropped DEF Next
<1>4. CASE case.block \notin FileSinks /\ Next /\ ~SetDelay
  <2>1. case' = case
    BY <1>4 DEF Next, Feed, Drain, Work, DropBlock
  <2> QED BY <1>4, <2>1 DEF FilesSound
<1> QED BY <1>1, <1>2, <1>3, <1>4

\* The invariant holds.
LEMMA AlwaysFiled == Spec => []FilesSound
<1>1. Init => FilesSound
  BY FilesFirst
<1>2. FilesSound /\ [Next]_vars => FilesSound'
  BY FilesNext
<1> QED BY <1>1, <1>2, PTL DEF Spec


-----------------------------------------------------------------------------
(* What follows from the invariant                                         *)

\* At any moment the file is a beginning of what is to be in it,
LEMMA FiledDurable ==
  ASSUME FilesSound
  PROVE  Durable
<1> SUFFICES ASSUME case.block \in FileSinks, st # NotBuilt
             PROVE  /\ IsPrefix(InFile(0), st.disk) /\ IsPrefix(st.disk, InFile(fed[1]))
                    /\ ret = EOF \/ (case.par.flush /\ ret # Error) =>
                         st.disk = Take(InFile(eaten[1]), Smaller(case.par.space, Len(InFile(eaten[1]))))
  BY DEF Durable
<1> DEFINE S == Alphabet(case)
           e == eaten[1]
           f == fed[1]
           disk == st.disk
           all == st.disk \o st.pending
<1>1. FileTypes /\ DiskSound
  BY DEF FilesSound, Absent
<1>2. case \in Cases /\ case.par.space \in Nat /\ Len(case.given[1].v) \in Nat
  BY <1>1, SinkIs DEF FileTypes, FilePar
<1>3. e \in Nat /\ f \in Nat /\ e <= f /\ f <= Len(case.given[1].v) /\ e <= Len(case.given[1].v)
  BY <1>1, <1>2 DEF FileTypes
<1>4. InFile(e) = Content(case, e) /\ InFile(f) = Content(case, f) /\ InFile(0) = Content(case, 0)
  BY <1>2, <1>3, InFileIs
<1>5. Content(case, 0) = Kept(case) /\ Content(case, f) \in Strings(S) /\ Content(case, e) \in Strings(S)
  BY <1>2, <1>3, ContentIs
<1>6. IsPrefix(Kept(case), disk) /\ disk \in Strings(S) /\ st.pending \in Strings(S) /\ Len(disk) <= case.par.space
  BY <1>1 DEF DiskSound
<1>7. \E n \in e..f : all = Content(case, n)
  <2>1. CASE ret = Error
    BY <1>1, <2>1 DEF DiskSound
  <2>2. CASE ret # Error
    <3>1. all = Content(case, e)
      BY <1>1, <2>2 DEF DiskSound
    <3> QED BY <1>3, <3>1
  <2> QED BY <2>1, <2>2
<1>8. PICK n \in e..f : all = Content(case, n)
  BY <1>7
<1>9. IsPrefix(disk, all)
  BY <1>6, PrefixIs
<1>10. n \in Nat /\ n <= f
  BY <1>3, <1>8
<1>11. Content(case, n) \in Strings(S) /\ IsPrefix(Content(case, n), Content(case, f))
  BY <1>2, <1>3, <1>10, ContentIs
<1>12. IsPrefix(disk, Content(case, f))
  <2> HIDE DEF disk, all
  <2> QED BY <1>5, <1>6, <1>8, <1>9, <1>11, PrefixIs
<1>13. ASSUME ret = EOF \/ (case.par.flush /\ ret # Error)
       PROVE  disk = Take(Content(case, e), Smaller(case.par.space, Len(Content(case, e))))
  <2>1. CASE ret = EOF
    BY <1>1, <2>1 DEF DiskSound
  <2>2. CASE ret # EOF
    <3>1. all = Content(case, e) /\ st.pending = <<>>
      BY <1>1, <1>13, <2>2 DEF DiskSound
    <3>2. disk \o <<>> = disk
      <4> HIDE DEF disk
      <4> QED BY <1>6, JoinStrings
    <3>3. disk = Content(case, e)
      BY <3>1, <3>2
    <3>4. Len(disk) \in Nat
      BY <1>6 DEF Strings
    <3>5. Smaller(case.par.space, Len(disk)) = Len(disk)
      BY <1>2, <1>6, <3>4 DEF Smaller
    <3>6. Take(disk, Len(disk)) = disk
      <4> HIDE DEF disk
      <4>1. Len(disk) \in 0..Len(disk)
        BY <3>4
      <4> QED BY <1>6, <4>1, SplitIs
    <3> QED BY <3>3, <3>5, <3>6
  <2> QED BY <2>1, <2>2
<1> QED BY <1>4, <1>5, <1>6, <1>12, <1>13

\* A file that is to be had is opened, but for one to append to.
LEMMA OpensIfAvailable ==
  ASSUME NEW b \in FileSinks, NEW par
  PROVE  /\ Opens(par) => Available(b, par)
         /\ Available(b, par) /\ Appendable(par) => Opens(par)
<1>1. Available(b, par) <=> (par.mode = "Create" => ~par.exists)
  BY SinkAlone DEF Available
<1> QED BY <1>1 DEF Opens

\* What Faithful and NothingWithheld compare with is the text of the input so far,
\* or nothing if there is no file.
LEMMA SinkPromises ==
  ASSUME FilesSound, case.block \in FileSinks
  PROVE  /\ case \in Cases /\ Outs(case) = {1} /\ eaten[1] \in Nat /\ fed[1] \in Nat
         /\ eaten[1] <= fed[1] /\ fed[1] <= Len(case.given[1].v)
         /\ Promised[1].t = {} /\ tagged[1] = <<>>
         /\ Promised[1].v \in {<<>>, Text(case, 0, fed[1])}
         /\ IF Opens(case.par) THEN Promised[1].v = Text(case, 0, fed[1]) ELSE made[1] = <<>>
<1>1. FileTypes /\ OutSound /\ IF Opens(case.par) THEN DiskSound ELSE Absent
  BY DEF FilesSound
<1>2. case \in Cases /\ Ins(case) = {1} /\ Outs(case) = {1} /\ Len(case.given[1].v) \in Nat
  BY <1>1, SinkIs DEF FileTypes
<1>3. eaten[1] \in Nat /\ fed[1] \in Nat /\ eaten[1] <= fed[1] /\ fed[1] <= Len(case.given[1].v)
  BY <1>1 DEF FileTypes
<1>4. Fed = <<Cut(case.given[1], 0, fed[1])>>
  BY <1>2 DEF Fed
<1>5. Promised = Expected(case.block, case.par, Fed, Outs(case))
  BY DEF Promised
<1>6. tagged[1] = <<>>
  BY <1>1 DEF OutSound
<1>7. ASSUME Available(case.block, case.par)
      PROVE  Promised[1].v = Text(case, 0, fed[1]) /\ Promised[1].t = {}
  <2>1. Promised = <<Plain(Filed(case.block, case.par, Fed))>>
    BY <1>5, <1>7, SinkAlone DEF Expected, Delivered
  <2>2. Filed(case.block, case.par, Fed) = Text(case, 0, fed[1])
    BY <1>2, <1>3, <1>4, FiledIs
  <2> QED BY <2>1, <2>2 DEF Plain
<1>8. ASSUME ~Available(case.block, case.par)
      PROVE  Promised[1].v = <<>> /\ Promised[1].t = {}
  <2>1. Promised[1] = Plain(<<>>)
    BY <1>2, <1>5, <1>8 DEF Expected
  <2> QED BY <2>1 DEF Plain
<1>9. Promised[1].t = {} /\ Promised[1].v \in {<<>>, Text(case, 0, fed[1])}
  BY <1>7, <1>8
<1>10. ASSUME Opens(case.par) PROVE Promised[1].v = Text(case, 0, fed[1])
  BY <1>7, <1>10, OpensIfAvailable
<1>11. ASSUME ~Opens(case.par) PROVE made[1] = <<>>
  <2>1. eaten[1] = 0
    BY <1>1, <1>11 DEF Absent
  <2>2. made = [o \in {1} |-> Text(case, 0, 0)]
    BY <1>1, <2>1 DEF OutSound
  <2> QED BY <1>2, <2>2, TextOne
<1> QED BY <1>2, <1>3, <1>6, <1>9, <1>10, <1>11

\* what was written is a beginning of that,
LEMMA FiledFaithful ==
  ASSUME FilesSound, case.block \in FileSinks
  PROVE  Faithful
<1>1. /\ case \in Cases /\ Outs(case) = {1} /\ eaten[1] \in Nat /\ fed[1] \in Nat
      /\ eaten[1] <= fed[1] /\ fed[1] <= Len(case.given[1].v)
      /\ Promised[1].t = {} /\ tagged[1] = <<>>
      /\ Promised[1].v \in {<<>>, Text(case, 0, fed[1])}
      /\ IF Opens(case.par) THEN Promised[1].v = Text(case, 0, fed[1]) ELSE made[1] = <<>>
  BY SinkPromises
<1>2. IsPrefix(made[1], Promised[1].v)
  <2>1. CASE Opens(case.par)
    <3>1. PICK n \in 0..eaten[1] : made = [o \in {1} |-> Text(case, 0, n)]
      BY DEF FilesSound, OutSound
    <3>2. 0 \in Nat /\ n \in Nat /\ 0 <= n /\ n <= fed[1]
      BY <1>1, <3>1
    <3>3. /\ Text(case, 0, n) \in Strings(Alphabet(case))
          /\ Text(case, 0, fed[1]) = Text(case, 0, n) \o Text(case, n, fed[1])
      BY <1>1, <3>2, TextIs
    <3>4. Text(case, n, fed[1]) \in Strings(Alphabet(case))
      <4>1. fed[1] <= fed[1]
        BY <1>1
      <4> QED BY <1>1, <3>2, <4>1, TextIs
    <3>5. IsPrefix(Text(case, 0, n), Text(case, 0, n) \o Text(case, n, fed[1]))
      BY <3>3, <3>4, PrefixIs
    <3> QED BY <1>1, <2>1, <3>1, <3>3, <3>5
  <2>2. CASE ~Opens(case.par)
    <3>1. 0 \in Nat /\ 0 <= fed[1]
      BY <1>1
    <3>2. Text(case, 0, fed[1]) \in Strings(Alphabet(case))
      BY <1>1, <3>1, TextIs
    <3>3. <<>> \in Strings(Alphabet(case)) /\ <<>> \o Text(case, 0, fed[1]) = Text(case, 0, fed[1])
            /\ <<>> \o <<>> = <<>>
      BY <3>2, JoinStrings
    <3>4. IsPrefix(<<>>, Text(case, 0, fed[1])) /\ IsPrefix(<<>>, <<>>)
      <4> DEFINE text == Text(case, 0, fed[1])
                 S == Alphabet(case)
      <4>1. \A b \in Strings(S) : IsPrefix(<<>>, <<>> \o b)
        BY <3>3, PrefixIs
      <4>2. \A b \in Strings(S) : <<>> \o b = b
        BY JoinStrings
      <4>3. \A b \in Strings(S) : IsPrefix(<<>>, b)
        BY <4>1, <4>2
      <4> QED BY <3>2, <3>3, <4>3
    <3> QED BY <1>1, <2>2, <3>4
  <2> QED BY <2>1, <2>2
<1>3. Follows(made[1], Promised[1].v)
  BY <1>2, SinkAlone DEF Follows, Loses
<1>4. Within(Promised[1].t, Len(made[1])) = {}
  BY <1>1 DEF Within
<1>5. ToSet(tagged[1]) = {} /\ Len(tagged[1]) = Cardinality(ToSet(tagged[1]))
  <2>1. ToSet(<<>>) = {} /\ Len(<<>>) = 0
    BY DEF ToSet
  <2>2. Cardinality({}) = 0
    BY FS_EmptySet
  <2> QED BY <1>1, <2>1, <2>2
<1> SUFFICES ASSUME NEW o \in Outs(case)
             PROVE  /\ Follows(made[o], Promised[o].v)
                    /\ Within(Promised[o].t, Len(made[o])) \subseteq ToSet(tagged[o])
                    /\ ToSet(tagged[o]) \ Within(Promised[o].t, Len(made[o])) = {}
                    /\ Len(tagged[o]) = Cardinality(ToSet(tagged[o]))
  BY DEF Faithful
<1>6. o = 1
  BY <1>1
<1> QED BY <1>3, <1>4, <1>5, <1>6

\* and all of it when the input is gone;
LEMMA FiledGivesAll ==
  ASSUME FilesSound, case.block \in FileSinks
  PROVE  NothingWithheld
<1> SUFFICES ASSUME ret.kind = "WaitIn", ~Ready, NEW o \in Outs(case)
             PROVE  made[o] = Promised[o].v
  BY DEF NothingWithheld
<1>1. /\ o = 1 /\ eaten[1] \in Nat /\ fed[1] \in Nat /\ eaten[1] <= fed[1]
      /\ Promised[1].v \in {<<>>, Text(case, 0, fed[1])}
      /\ IF Opens(case.par) THEN Promised[1].v = Text(case, 0, fed[1]) ELSE made[1] = <<>>
  BY SinkPromises
<1>2. ret # Error /\ ret # EOF /\ ret # Again
  BY DEF Error, EOF, Again, Simply
<1>3. Opens(case.par) /\ ret = WaitIn(1, 1)
  BY <1>2 DEF FilesSound, DiskSound, Absent
<1>4. ~(fed[1] - eaten[1] >= 1)
  BY <1>3 DEF Ready, WaitIn
<1>5. eaten[1] = fed[1]
  BY <1>1, <1>4
<1>6. made = [p \in {1} |-> Text(case, 0, eaten[1])]
  BY <1>2 DEF FilesSound, OutSound
<1> QED BY <1>1, <1>3, <1>5, <1>6

\* only a full disk makes an error,
LEMMA FiledReturns ==
  ASSUME FilesSound, case.block \in FileSinks
  PROVE  (Appendable(case.par) => NoPanic) /\ NoIdleAgain
<1>1. FileTypes /\ IF Opens(case.par) THEN DiskSound ELSE Absent
  BY DEF FilesSound
<1>2. ret \in {Again, WaitIn(1, 1), Error, EOF} /\ (ret = Again => moved)
  BY <1>1 DEF FileTypes, DiskSound, Absent
<1>3. ret.kind # "Panic" /\ (ret.kind = "Again" => moved) /\ (ret.kind = "Error" => ret = Error)
  BY <1>2 DEF Again, WaitIn, Error, EOF, Simply
<1>4. ASSUME ret.kind = "Error", Opens(case.par) PROVE Fails
  <2> DEFINE l == Len(case.given[1].v)
  <2>1. case \in Cases /\ l \in Nat /\ case.par.space \in Nat
    BY <1>1, SinkIs DEF FileTypes, FilePar
  <2>2. PICK n \in eaten[1]..fed[1] : case.par.space < Len(Content(case, n))
    BY <1>1, <1>3, <1>4 DEF DiskSound
  <2>3. n \in Nat /\ n <= l /\ l <= l
    BY <1>1, <2>1, <2>2 DEF FileTypes
  <2>4. Content(case, n) \in Strings(Alphabet(case)) /\ Len(Content(case, n)) <= Len(Content(case, l))
    BY <2>1, <2>3, ContentIs
  <2>5. Content(case, l) \in Strings(Alphabet(case))
    BY <2>1, <2>3, ContentIs
  <2>6. InFile(l) = Content(case, l)
    BY <2>1, <2>3, InFileIs
  <2>7. Len(Content(case, n)) \in Nat /\ Len(Content(case, l)) \in Nat
    BY <2>4, <2>5 DEF Strings
  <2>8. case.par.space < Len(InFile(l))
    BY <2>1, <2>2, <2>4, <2>6, <2>7
  <2> QED BY <2>8, SinkAlone DEF Fails
<1>5. ASSUME ret.kind = "Error", Appendable(case.par) PROVE Fails \/ ~Available(case.block, case.par)
  BY <1>4, <1>5, OpensIfAvailable
<1> QED BY <1>3, <1>5 DEF NoPanic, NoIdleAgain

\* and a wait is for what is not there.
LEMMA FiledWaits ==
  ASSUME FilesSound, case.block \in FileSinks, Next, UNCHANGED <<case, fed, drained>>
  PROVE  ~(ret'.kind \in {"WaitIn", "WaitOut"} /\ Ready')
<1>1. FileTypes /\ Ins(case) = {1} /\ Outs(case) = {1}
  BY SinkIs DEF FilesSound, FileTypes
<1>2. ASSUME NEW i \in Ins(case), Feed(i) PROVE FALSE
  <2>1. PICK n \in 1..(Len(case.given[i].v) - fed[i]) : fed' = [fed EXCEPT ![i] = @ + n]
    BY <1>2 DEF Feed
  <2>2. fed \in [{1} -> Nat] /\ fed' = fed /\ i = 1
    BY <1>1 DEF FileTypes
  <2>3. fed[i] = fed[i] + n /\ fed[i] \in Nat /\ n > 0
    BY <2>1, <2>2
  <2> QED BY <2>3
<1>3. ASSUME NEW o \in Outs(case), Drain(o) PROVE FALSE
  <2>1. PICK n \in 1..(Len(made[o]) - drained[o]) : drained' = [drained EXCEPT ![o] = @ + n]
    BY <1>3 DEF Drain
  <2>2. drained \in [{1} -> Nat] /\ drained' = drained /\ o = 1
    BY <1>1 DEF FileTypes
  <2>3. drained[o] = drained[o] + n /\ drained[o] \in Nat /\ n > 0
    BY <2>1, <2>2
  <2> QED BY <2>3
<1>4. CASE Work
  <2>1. Idles \/ ret' \in {Again, Error}
    BY <1>4, SinkWorks DEF Writes
  <2>2. CASE ret' \in {Again, Error}
    BY <2>2 DEF Again, Error, Simply
  <2>3. CASE Idles
    <3>1. ret' = WaitIn(1, 1) /\ fed'[1] = fed[1] /\ eaten'[1] = fed[1] /\ fed[1] \in Nat
      BY <1>1, <2>3 DEF Idles, FileTypes
    <3>2. ~(fed'[1] - eaten'[1] >= 1)
      BY <3>1
    <3>3. ret'.kind = "WaitIn" /\ ret'.port = 1 /\ ret'.need = 1
      BY <3>1 DEF WaitIn
    <3> QED BY <3>2, <3>3 DEF Ready
  <2> QED BY <2>1, <2>2, <2>3
<1>5. CASE DropBlock
  BY <1>5 DEF DropBlock, EOF, Simply
<1>6. CASE SetDelay
  BY <1>6 DEF SetDelay, FileSinks
<1> QED BY <1>2, <1>3, <1>4, <1>5, <1>6 DEF Next

-----------------------------------------------------------------------------
(* What is true of a sink that writes to a file, whatever it is given, in  *)
(* what pieces, how its buffer spills, and how much the disk has room for  *)

\* If the program dies at any moment, the file has what was to be kept and then
\* a beginning of what came; with flush it has all that was consumed, and so it
\* has after drop(), as far as the disk has room.
THEOREM FilesDurable == Spec => []Durable
<1>1. FilesSound => Durable
  BY FiledDurable
<1> QED BY <1>1, AlwaysFiled, PTL

\* A sink takes every sample and packet once and in order.
THEOREM FilesFaithful == Spec => [](case.block \in FileSinks => Faithful)
<1>1. FilesSound => (case.block \in FileSinks => Faithful)
  BY FiledFaithful
<1> QED BY <1>1, AlwaysFiled, PTL

\* While it waits for input, it has written all that came.
THEOREM FilesGiveAll == Spec => [](case.block \in FileSinks => NothingWithheld)
<1>1. FilesSound => (case.block \in FileSinks => NothingWithheld)
  BY FiledGivesAll
<1> QED BY <1>1, AlwaysFiled, PTL

\* It never panics, and work() fails only if the disk is too small for the file,
\* or it is to be a new file and there is one.  This is so if the file that is to be
\* appended to exists: AppendCases of MCBlockRunner are the counterexample without.
THEOREM FilesFailOnlyFull ==
  Spec => [](case.block \in FileSinks /\ Appendable(case.par) => NoPanic)
<1>1. FilesSound => (case.block \in FileSinks /\ Appendable(case.par) => NoPanic)
  BY FiledReturns
<1> QED BY <1>1, AlwaysFiled, PTL

\* When it asks to be called again, it has consumed something.
THEOREM FilesNeverSpin == Spec => [](case.block \in FileSinks => NoIdleAgain)
<1>1. FilesSound => (case.block \in FileSinks => NoIdleAgain)
  BY FiledReturns
<1> QED BY <1>1, AlwaysFiled, PTL

\* It waits only for what is not there, as a block with a generated work() does.
THEOREM FilesWait ==
  ASSUME \A c \in Cases : c.block \in Generated \cup FileSinks
  PROVE  Spec => HonestWait
<1> DEFINE Honest == UNCHANGED <<case, fed, drained>> /\ case.block \notin {"SigMFSource", "AudioSink"}
                       => ~(ret'.kind \in {"WaitIn", "WaitOut"} /\ Ready')
           Within_ == case.block \in Generated \cup FileSinks
<1>1. Init => Within_
  BY DEF Init
<1>2. Within_ /\ [Next]_vars => Within_'
  <2>1. ASSUME Within_, [Next]_vars PROVE case' = case
    <3>1. ~SetDelay
      BY <2>1 DEF SetDelay, Generated, SyncNames, MathNames, FileSinks
    <3> QED BY <2>1, <3>1 DEF Next, vars, Feed, Drain, Work, DropBlock
  <2> QED BY <2>1
<1>3. Sound /\ FilesSound /\ Within_ /\ [Next]_vars => [Honest]_vars
  BY SoundWaits, FiledWaits
<1>4. HonestWait <=> [][Honest]_vars
  BY DEF HonestWait
<1> HIDE DEF Honest, Within_
<1> QED BY <1>1, <1>2, <1>3, <1>4, AlwaysSound, AlwaysFiled, PTL DEF Spec
=============================================================================
