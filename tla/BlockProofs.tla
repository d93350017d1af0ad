---------------------------- MODULE BlockProofs ----------------------------
(***************************************************************************)
(* Theorems about BlockRunner, for the blocks whose work() is generated,   *)
(* with any parameters, inputs and capacities.                             *)
(*                                                                         *)
(* The way there: process_sync_tags(), from the state after k - 1 samples, *)
(* makes the state after k of them, and the values and tags of the k-th    *)
(* (ProcessIs).  So a call of work(), which is a fold over the samples of  *)
(* its windows, makes those of any m samples in a row (WorkIs).  The       *)
(* meanings of the blocks have the same values and tags at every place     *)
(* (AllExpected), which depend on no later sample (Causal).  Then Sound is *)
(* an invariant: how many samples are gone tells all the rest.             *)
(*                                                                         *)
(* The folds of the community modules are recursive functions; that there  *)
(* is one is shown by induction over a set of numbers (FoldExists).        *)
(***************************************************************************)
EXTENDS BlockRunner, TLAPS, FiniteSetTheorems, SequenceTheorems, WellFoundedInduction

-----------------------------------------------------------------------------
(* Numbers and folds                                                       *)

\* A relation on which no descent is without end, in which the smaller of two
\* numbers is below the other.
LEMMA Below == \E R : IsWellFoundedOn(R, Nat) /\ \A m, n \in Nat : m < n => <<m, n>> \in R
<1>1. \A m, n \in Nat : m < n => <<m, n>> \in OpToRel(<, Nat)
  BY DEF OpToRel
<1> QED BY <1>1, NatLessThanWellFounded, Zenon

\* Induction, for a set instead of a formula.
LEMMA Inductive ==
  ASSUME NEW P, 0 \in P, \A n \in Nat : n \in P => n + 1 \in P
  PROVE  Nat \subseteq P
<1> DEFINE Q == Nat \ P
<1> SUFFICES ASSUME Q # {} PROVE FALSE
  OBVIOUS
<1>1. PICK R : IsWellFoundedOn(R, Nat) /\ \A m, n \in Nat : m < n => <<m, n>> \in R
  BY Below
<1>2. IsWellFoundedOn(R, Nat) /\ Q \subseteq Nat
  BY <1>1
<1>3. \E x \in Q : \A y \in Q : ~ (<<y, x>> \in R)
  BY <1>2, WFMin, Zenon
<1>4. PICK x \in Q : \A y \in Q : ~ (<<y, x>> \in R)
  BY <1>3, Zenon
<1>5. x \in Nat /\ x # 0
  OBVIOUS
<1>6. x - 1 \in Nat /\ (x - 1) + 1 = x
  BY <1>5
<1>7. x - 1 \notin P
  BY <1>6
<1>8. x - 1 \in Q /\ x - 1 < x
  BY <1>6, <1>7
<1>9. <<x - 1, x>> \in R
  BY <1>1, <1>5, <1>6, <1>8, Zenon
<1> QED BY <1>4, <1>8, <1>9, Zenon

\* The folds of the model: over the samples that a generated work() moves, and
\* over the tags that are handed to produce().
Grow(how, x, acc) ==
  IF how.kind = "tags" THEN Append(acc, x)
  ELSE LET p == process_sync_tags(how.block, how.par, acc.st, [i \in DOMAIN how.w |-> how.w[i].v[x]],
                                   [i \in DOMAIN how.w |-> TagsAt(how.w[i], x)])
       IN  [st   |-> p.st,
            put  |-> [o \in DOMAIN how.room |-> Append(acc.put[o], p.ys[o])],
            tags |-> [o \in DOMAIN how.room |-> acc.tags[o] \cup ({x} \X p.ts[o])]]

FoldsBy(how, base, D, pick, g) ==
  g = [s \in SUBSET D |-> IF s = {} THEN base ELSE Grow(how, pick[s], g[s \ {pick[s]}])]

\* The function that a fold is defined by is there.
LEMMA FoldExists ==
  ASSUME NEW how, NEW base, NEW D, IsFiniteSet(D), NEW pick, \A s \in SUBSET D : s # {} => pick[s] \in s
  PROVE  \E g : FoldsBy(how, base, D, pick, g)
<1> DEFINE Made(g, s) == IF s = {} THEN base ELSE Grow(how, pick[s], g[s \ {pick[s]}])
           Upto(g, n) == \A s \in SUBSET D : Cardinality(s) <= n => g[s] = Made(g, s)
           P == { n \in Nat : \E g : Upto(g, n) }
<1>1. \A s \in SUBSET D : IsFiniteSet(s) /\ Cardinality(s) \in Nat /\ Cardinality(s) <= Cardinality(D)
  BY FS_Subset, FS_CardinalityType
<1>2. \A s \in SUBSET D : s # {} => Cardinality(s \ {pick[s]}) = Cardinality(s) - 1 /\ s \ {pick[s]} \in SUBSET D
  BY <1>1, FS_RemoveElement
<1>3. 0 \in P
  <2> DEFINE g == [s \in SUBSET D |-> base]
  <2>1. \A s \in SUBSET D : Cardinality(s) <= 0 => s = {}
    BY <1>1, FS_EmptySet
  <2>2. Upto(g, 0)
    BY <2>1
  <2> QED BY <2>2
<1>4. ASSUME NEW n \in Nat, n \in P PROVE n + 1 \in P
  <2>1. PICK g : Upto(g, n)
    BY <1>4
  <2> DEFINE h == [s \in SUBSET D |-> IF Cardinality(s) <= n THEN g[s] ELSE Made(g, s)]
  <2>2. ASSUME NEW s \in SUBSET D, Cardinality(s) <= n + 1 PROVE h[s] = Made(h, s)
    <3>1. h[s] = Made(g, s)
      BY <2>1
    <3>2. CASE s = {}
      BY <3>1, <3>2
    <3>3. CASE s # {}
      <4> DEFINE r == s \ {pick[s]}
      <4>1. r \in SUBSET D /\ Cardinality(r) <= n
        BY <1>1, <1>2, <2>2, <3>3
      <4>2. h[r] = g[r]
        BY <4>1
      <4> QED BY <3>1, <4>2
    <3> QED BY <3>2, <3>3
  <2>3. Upto(h, n + 1)
    BY <2>2
  <2>4. \E f : Upto(f, n + 1)
    <3> HIDE DEF h, Upto
    <3> QED BY <2>3, Zenon
  <2>5. n + 1 \in Nat
    OBVIOUS
  <2> HIDE DEF Upto
  <2> QED BY <2>4, <2>5, Zenon
<1>5. Cardinality(D) \in P
  <2> HIDE DEF P
  <2>1. Nat \subseteq P
    BY <1>3, <1>4, Inductive
  <2> QED BY <2>1, FS_CardinalityType
<1>6. PICK g : Upto(g, Cardinality(D))
  BY <1>5
<1> DEFINE h == [s \in SUBSET D |-> g[s]]
<1>7. ASSUME NEW s \in SUBSET D PROVE h[s] = Made(h, s)
  <2>1. h[s] = Made(g, s)
    BY <1>1, <1>6
  <2>2. s # {} => g[s \ {pick[s]}] = h[s \ {pick[s]}]
    BY <1>2
  <2> QED BY <2>1, <2>2
<1>8. h = [s \in SUBSET D |-> Made(h, s)]
  <2> HIDE DEF Made
  <2> QED BY <1>7
<1>9. FoldsBy(how, base, D, pick, h)
  BY <1>8 DEF FoldsBy
<1> HIDE DEF h
<1> QED BY <1>9

\* A set of numbers that ends has a greatest one.
LEMMA MaxIs ==
  ASSUME NEW n \in Nat, NEW s, s \subseteq 1..n, s # {}
  PROVE  Max(s) \in s /\ \A y \in s : Max(s) >= y
<1> DEFINE Top(r) == \E x \in r : \A y \in r : x >= y
           P == { m \in Nat : \A r \in SUBSET (1..m) : r # {} => Top(r) }
<1>1. 0 \in P
  <2>1. \A r \in SUBSET (1..0) : r = {}
    OBVIOUS
  <2> HIDE DEF Top
  <2> QED BY <2>1
<1>2. ASSUME NEW m \in Nat, m \in P PROVE m + 1 \in P
  <2>1. ASSUME NEW r \in SUBSET (1..(m + 1)), r # {} PROVE Top(r)
    <3>1. CASE m + 1 \in r
      BY <3>1
    <3>2. CASE m + 1 \notin r
      <4>1. r \in SUBSET (1..m)
        BY <3>2
      <4> QED BY <1>2, <2>1, <4>1
    <3> QED BY <3>1, <3>2
  <2> HIDE DEF Top
  <2> QED BY <2>1
<1>3. n \in P
  <2> HIDE DEF P
  <2> QED BY <1>1, <1>2, Inductive
<1>4. Top(s)
  BY <1>3
<1> QED BY <1>4, Zenon DEF Max

\* A generated work() goes from sample to sample: S[k] is the state after the
\* k-th one, Y[k] and M[k] are what it gives and its tags.
StepByStep(block, par, w, room, S, Y, M) ==
  \A k \in 1..Common(w, room) :
    LET p == process_sync_tags(block, par, S[k - 1], [i \in DOMAIN w |-> w[i].v[k]],
                               [i \in DOMAIN w |-> TagsAt(w[i], k)])
    IN  p.st = S[k] /\ \A o \in DOMAIN room : p.ys[o] = Y[k][o] /\ p.ts[o] = M[k][o]

AllSteps(block, par, w, room, S, Y, M) ==
  LET n == Common(w, room)
  IN  SyncWork(block, par, S[0], w, room) =
        Did(S[n], [i \in DOMAIN w |-> n], [o \in DOMAIN room |-> [k \in 1..n |-> Y[k][o]]],
            [o \in DOMAIN room |-> UNION { {k} \X M[k][o] : k \in 1..n }], SyncBlocked(w, room, n))

\* A generated work() that goes so from sample to sample does it for all of them.
LEMMA SyncWorkIs ==
  ASSUME NEW block, NEW par, NEW w, NEW room, NEW S, NEW Y, NEW M, Common(w, room) \in Nat,
         StepByStep(block, par, w, room, S, Y, M)
  PROVE  AllSteps(block, par, w, room, S, Y, M)
<1> DEFINE n == Common(w, room)
           Sample(acc, k) ==
             LET p == process_sync_tags(block, par, acc.st, [i \in DOMAIN w |-> w[i].v[k]],
                                        [i \in DOMAIN w |-> TagsAt(w[i], k)])
             IN  [st   |-> p.st,
                  put  |-> [o \in DOMAIN room |-> Append(acc.put[o], p.ys[o])],
                  tags |-> [o \in DOMAIN room |-> acc.tags[o] \cup ({k} \X p.ts[o])]]
           base == [st |-> S[0], put |-> [o \in DOMAIN room |-> <<>>], tags |-> [o \in DOMAIN room |-> {}]]
           q == [k \in 1..n |-> k]
           all == Through(Sample, base, q)
           Strictly(g, s) == IF s = {} THEN base
                             ELSE CHOOSE r \in { Sample(a, q[Max(s)]) : a \in {g[s \ {Max(s)}]} } : TRUE
           Plainly(g, s) == IF s = {} THEN base ELSE Sample(g[s \ {Max(s)}], Max(s))
<1>1. SyncWork(block, par, S[0], w, room) =
        Did(all.st, [i \in DOMAIN w |-> n], all.put, all.tags, SyncBlocked(w, room, n))
  BY Zenon DEF SyncWork
<1>2. \A s \in SUBSET (1..n) : s # {} => Max(s) \in s
  BY MaxIs
<1>3. \A g : \A s \in SUBSET (1..n) : Strictly(g, s) = Plainly(g, s)
  <2> HIDE DEF Sample, base
  <2> QED BY <1>2
<1>4. \E g : g = [s \in SUBSET DOMAIN q |-> Strictly(g, s)]
  <2> DEFINE how == [kind |-> "samples", block |-> block, par |-> par, w |-> w, room |-> room]
             pick == [s \in SUBSET (1..n) |-> Max(s)]
  <2>1. \E g : FoldsBy(how, base, 1..n, pick, g)
    <3>1. IsFiniteSet(1..n)
      BY FS_Interval
    <3>2. \A s \in SUBSET (1..n) : s # {} => pick[s] \in s
      BY <1>2
    <3> HIDE DEF base, how, pick
    <3> QED BY <3>1, <3>2, FoldExists
  <2>2. PICK g : g = [s \in SUBSET (1..n) |-> IF s = {} THEN base ELSE Grow(how, pick[s], g[s \ {pick[s]}])]
    <3> HIDE DEF base, how, pick
    <3> QED BY <2>1 DEF FoldsBy
  <2>3. \A x, acc : Grow(how, x, acc) = Sample(acc, x)
    BY DEF Grow
  <2>4. \A s \in SUBSET (1..n) : pick[s] = Max(s)
    OBVIOUS
  <2>5. \A s \in SUBSET (1..n) : g[s] = Plainly(g, s)
    <3> HIDE DEF Sample, base, how, pick
    <3>1. \A s \in SUBSET (1..n) : g[s] = IF s = {} THEN base ELSE Grow(how, pick[s], g[s \ {pick[s]}])
      BY <2>2
    <3> SUFFICES ASSUME NEW s \in SUBSET (1..n) PROVE g[s] = Plainly(g, s)
      OBVIOUS
    <3>2. Grow(how, Max(s), g[s \ {Max(s)}]) = Sample(g[s \ {Max(s)}], Max(s))
      BY <2>3
    <3>3. g[s] = IF s = {} THEN base ELSE Grow(how, Max(s), g[s \ {Max(s)}])
      BY <3>1, <2>4
    <3> QED BY <3>2, <3>3
  <2>6. \A s \in SUBSET (1..n) : g[s] = Strictly(g, s)
    <3> HIDE DEF Strictly, Plainly
    <3> QED BY <1>3, <2>5, Zenon
  <2>7. g = [s \in SUBSET (1..n) |-> Strictly(g, s)]
    <3> HIDE DEF Strictly
    <3> QED BY <2>2, <2>6
  <2>8. DOMAIN q = 1..n
    OBVIOUS
  <2> HIDE DEF Strictly, q
  <2> QED BY <2>7, <2>8
<1> DEFINE iter == CHOOSE g : g = [s \in SUBSET DOMAIN q |-> Strictly(g, s)]
<1>5. all = iter[DOMAIN q]
  <2> HIDE DEF Sample, base
  <2> QED BY Zenon DEF Through, FoldLeft, MapThenFoldSet
<1>6. iter = [s \in SUBSET DOMAIN q |-> Strictly(iter, s)]
  <2> HIDE DEF Strictly, q
  <2> QED BY <1>4, Zenon
<1> DEFINE Acc(k) == [st   |-> S[k],
                      put  |-> [o \in DOMAIN room |-> [j \in 1..k |-> Y[j][o]]],
                      tags |-> [o \in DOMAIN room |-> UNION { {j} \X M[j][o] : j \in 1..k }]]
<1>7. Acc(0) = base
  <2>1. 1..0 = {}
    OBVIOUS
  <2>2. \A o \in DOMAIN room : [j \in 1..0 |-> Y[j][o]] = <<>>
    OBVIOUS
  <2>3. \A o \in DOMAIN room : UNION { {j} \X M[j][o] : j \in 1..0 } = {}
    BY <2>1
  <2> QED BY <2>2, <2>3
<1>8. ASSUME NEW k \in 1..n PROVE Sample(Acc(k - 1), k) = Acc(k)
  <2> DEFINE p == process_sync_tags(block, par, S[k - 1], [i \in DOMAIN w |-> w[i].v[k]],
                                    [i \in DOMAIN w |-> TagsAt(w[i], k)])
  <2>1. p.st = S[k] /\ \A o \in DOMAIN room : p.ys[o] = Y[k][o] /\ p.ts[o] = M[k][o]
    BY DEF StepByStep
  <2>2. Acc(k - 1).st = S[k - 1]
    OBVIOUS
  <2>3. ASSUME NEW o \in DOMAIN room
        PROVE  Append([j \in 1..(k - 1) |-> Y[j][o]], Y[k][o]) = [j \in 1..k |-> Y[j][o]]
    OBVIOUS
  <2>4. ASSUME NEW o \in DOMAIN room
        PROVE  (UNION { {j} \X M[j][o] : j \in 1..(k - 1) }) \cup ({k} \X M[k][o])
                 = UNION { {j} \X M[j][o] : j \in 1..k }
    <3>1. 1..k = 1..(k - 1) \cup {k}
      OBVIOUS
    <3> QED BY <3>1
  <2>5. Sample(Acc(k - 1), k) =
          [st   |-> p.st,
           put  |-> [o \in DOMAIN room |-> Append(Acc(k - 1).put[o], p.ys[o])],
           tags |-> [o \in DOMAIN room |-> Acc(k - 1).tags[o] \cup ({k} \X p.ts[o])]]
    BY <2>2
  <2>6. [o \in DOMAIN room |-> Append(Acc(k - 1).put[o], p.ys[o])] = Acc(k).put
    <3> HIDE DEF p
    <3> QED BY <2>1, <2>3
  <2>7. [o \in DOMAIN room |-> Acc(k - 1).tags[o] \cup ({k} \X p.ts[o])] = Acc(k).tags
    <3> HIDE DEF p
    <3> QED BY <2>1, <2>4
  <2>8. Acc(k) = [st |-> S[k], put |-> Acc(k).put, tags |-> Acc(k).tags]
    OBVIOUS
  <2> HIDE DEF p, Sample, Acc
  <2> QED BY <2>1, <2>5, <2>6, <2>7, <2>8
<1> DEFINE P == { k \in Nat : k <= n => iter[1..k] = Acc(k) }
<1>9. 0 \in P
  <2>1. 1..0 = {} /\ {} \in SUBSET DOMAIN q
    OBVIOUS
  <2>2. iter[{}] = Strictly(iter, {})
    <3> HIDE DEF Strictly, q, iter
    <3> QED BY <1>6, <2>1
  <2>3. iter[{}] = base
    BY <2>2
  <2> HIDE DEF iter, base, Acc
  <2> QED BY <1>7, <2>1, <2>3
<1>10. ASSUME NEW k \in Nat, k \in P PROVE k + 1 \in P
  <2> SUFFICES ASSUME k + 1 <= n PROVE iter[1..(k + 1)] = Acc(k + 1)
    <3> HIDE DEF iter, Acc
    <3> QED OBVIOUS
  <2> DEFINE s == 1..(k + 1)
  <2>1. s \in SUBSET (1..n) /\ s \in SUBSET DOMAIN q /\ s # {}
    OBVIOUS
  <2>2. Max(s) = k + 1
    <3>1. Max(s) \in s /\ \A y \in s : Max(s) >= y
      BY <2>1, MaxIs
    <3> QED BY <3>1
  <2>3. s \ {k + 1} = 1..k
    OBVIOUS
  <2>4. iter[s] = Strictly(iter, s)
    <3> HIDE DEF Strictly, q, iter, s
    <3> QED BY <1>6, <2>1
  <2>5. iter[s] = Plainly(iter, s)
    <3> HIDE DEF Strictly, Plainly, iter, s
    <3> QED BY <1>3, <2>1, <2>4
  <2>6. Plainly(iter, s) = Sample(iter[1..k], k + 1)
    <3> HIDE DEF Sample, iter, base, s
    <3> QED BY <2>1, <2>2, <2>3
  <2>7. iter[1..k] = Acc(k)
    <3> HIDE DEF iter, Acc
    <3> QED BY <1>10
  <2>8. Sample(Acc(k), k + 1) = Acc(k + 1)
    <3>1. k + 1 \in 1..n /\ (k + 1) - 1 = k
      OBVIOUS
    <3> HIDE DEF Sample, Acc
    <3> QED BY <1>8, <3>1
  <2> HIDE DEF iter, Sample, Plainly, Acc
  <2> QED BY <2>5, <2>6, <2>7, <2>8
<1>11. n \in P
  <2> HIDE DEF P
  <2> QED BY <1>9, <1>10, Inductive
<1>12. all = Acc(n)
  <2>1. DOMAIN q = 1..n
    OBVIOUS
  <2> HIDE DEF iter, all, Acc, q
  <2> QED BY <1>5, <1>11, <2>1
<1> HIDE DEF all
<1> QED BY <1>1, <1>12 DEF AllSteps

\* produce() is handed each tag once, whatever the order is.
LEMMA PlacedIs ==
  ASSUME NEW o, NEW tags, IsFiniteSet(Shifted(tags, Len(made[o])))
  PROVE  LET T == Shifted(tags, Len(made[o]))
         IN  Placed(o, tags) \in Seq(T) /\ ToSet(Placed(o, tags)) = T /\ Len(Placed(o, tags)) = Cardinality(T)
<1> DEFINE T == Shifted(tags, Len(made[o]))
           pick == [s \in SUBSET T |-> CHOOSE x \in s : TRUE]
           how == [kind |-> "tags"]
           Plainly(g, s) == IF s = {} THEN <<>> ELSE Append(g[s \ {CHOOSE x \in s : TRUE}], CHOOSE x \in s : TRUE)
           iter == CHOOSE g : g = [s \in SUBSET T |-> Plainly(g, s)]
<1> HIDE DEF T
<1>1. Placed(o, tags) = iter[T]
  BY Zenon DEF Placed, FoldSet, MapThenFoldSet, T
<1>2. IsFiniteSet(T) /\ \A s \in SUBSET T : s # {} => pick[s] \in s
  BY DEF T
<1>3. \E g : FoldsBy(how, <<>>, T, pick, g)
  <2> HIDE DEF how, pick
  <2> QED BY <1>2, FoldExists
<1>4. \E g : g = [s \in SUBSET T |-> Plainly(g, s)]
  <2>1. PICK g : FoldsBy(how, <<>>, T, pick, g)
    BY <1>3
  <2>2. \A x, acc : Grow(how, x, acc) = Append(acc, x)
    BY DEF Grow
  <2>3. \A s \in SUBSET T : g[s] = IF s = {} THEN <<>> ELSE Grow(how, pick[s], g[s \ {pick[s]}])
    <3> HIDE DEF how, pick
    <3> QED BY <2>1 DEF FoldsBy
  <2>4. ASSUME NEW s \in SUBSET T PROVE g[s] = Plainly(g, s)
    <3>1. pick[s] = CHOOSE x \in s : TRUE
      OBVIOUS
    <3> DEFINE x == pick[s]
    <3>2. Grow(how, x, g[s \ {x}]) = Append(g[s \ {x}], x)
      BY <2>2
    <3>3. g[s] = IF s = {} THEN <<>> ELSE Grow(how, x, g[s \ {x}])
      BY <2>3
    <3>4. g[s] = IF s = {} THEN <<>> ELSE Append(g[s \ {x}], x)
      <4> HIDE DEF how, x
      <4> QED BY <3>2, <3>3
    <3> QED BY <3>1, <3>4
  <2>5. DOMAIN g = SUBSET T
    <3> HIDE DEF how, pick
    <3> QED BY <2>1 DEF FoldsBy
  <2>6. g = [s \in SUBSET T |-> g[s]]
    <3> HIDE DEF how, pick
    <3> QED BY <2>1 DEF FoldsBy
  <2>7. g = [s \in SUBSET T |-> Plainly(g, s)]
    <3> HIDE DEF Plainly
    <3> QED BY <2>4, <2>6
  <2> QED BY <2>7
<1>5. iter = [s \in SUBSET T |-> Plainly(iter, s)]
  <2> HIDE DEF Plainly
  <2> QED BY <1>4, Zenon
<1> DEFINE Good(s) == iter[s] \in Seq(T) /\ ToSet(iter[s]) = s /\ Len(iter[s]) = Cardinality(s)
           P == { n \in Nat : \A s \in SUBSET T : Cardinality(s) = n => Good(s) }
<1>6. \A s \in SUBSET T : iter[s] = Plainly(iter, s)
  <2> HIDE DEF iter, Plainly
  <2> QED BY <1>5
<1>7. \A s \in SUBSET T : IsFiniteSet(s) /\ Cardinality(s) \in Nat
  BY <1>2, FS_Subset, FS_CardinalityType
<1> HIDE DEF iter
<1>8. 0 \in P
  <2>1. ASSUME NEW s \in SUBSET T, Cardinality(s) = 0 PROVE Good(s)
    <3>1. s = {}
      BY <1>7, <2>1, FS_EmptySet
    <3>2. iter[s] = <<>>
      BY <1>6, <3>1
    <3>3. <<>> \in Seq(T) /\ Len(<<>>) = 0 /\ ToSet(<<>>) = {}
      BY DEF ToSet
    <3> QED BY <2>1, <3>1, <3>2, <3>3
  <2> HIDE DEF Good
  <2> QED BY <2>1
<1>9. ASSUME NEW n \in Nat, n \in P PROVE n + 1 \in P
  <2>1. ASSUME NEW s \in SUBSET T, Cardinality(s) = n + 1 PROVE Good(s)
    <3> DEFINE x == CHOOSE x \in s : TRUE
               r == s \ {x}
    <3>1. s # {}
      <4>1. Cardinality({}) = 0
        BY FS_EmptySet
      <4>2. Cardinality(s) # 0
        BY <2>1
      <4> QED BY <4>1, <4>2, Zenon
    <3>2. x \in s
      BY <3>1, Zenon
    <3>3. iter[s] = Append(iter[r], x)
      BY <1>6, <3>1
    <3> HIDE DEF x
    <3>4. r \in SUBSET T /\ Cardinality(r) = n
      BY <1>7, <2>1, <3>2, FS_RemoveElement
    <3>5. Good(r)
      <4> HIDE DEF Good, r
      <4> QED BY <1>9, <3>4
    <3> DEFINE q == iter[r]
    <3>6. q \in Seq(T) /\ ToSet(q) = r /\ Len(q) = n /\ x \in T
      BY <3>2, <3>4, <3>5
    <3> HIDE DEF q, r
    <3>7. Append(q, x) \in Seq(T) /\ Len(Append(q, x)) = n + 1
      BY <3>6
    <3>8. ToSet(Append(q, x)) = ToSet(q) \cup {x}
      <4>1. DOMAIN Append(q, x) = 1..(n + 1) /\ DOMAIN q = 1..n
        BY <3>6, <3>7
      <4>2. \A k \in 1..n : Append(q, x)[k] = q[k]
        BY <3>6
      <4>3. Append(q, x)[n + 1] = x
        BY <3>6
      <4> QED BY <4>1, <4>2, <4>3 DEF ToSet
    <3>9. s = r \cup {x}
      BY <3>2 DEF r
    <3> QED BY <2>1, <3>3, <3>6, <3>7, <3>8, <3>9 DEF q
  <2>2. n + 1 \in Nat
    OBVIOUS
  <2> HIDE DEF Good
  <2> QED BY <2>1, <2>2
<1>10. Cardinality(T) \in P
  <2> HIDE DEF P
  <2> QED BY <1>2, <1>8, <1>9, Inductive, FS_CardinalityType
<1>11. Good(T)
  <2> HIDE DEF Good
  <2> QED BY <1>10
<1> QED BY <1>1, <1>11 DEF T

-----------------------------------------------------------------------------
(* Windows                                                                 *)

\* A piece of a window has its samples and its tags at other places.
IsPiece(S, x, a, b) ==
  LET y == Cut(x, a, b)
  IN  /\ y.v \in Seq(S) /\ Len(y.v) = b - a
      /\ \A k \in 1..(b - a) : y.v[k] = x.v[a + k] /\ TagsAt(y, k) = TagsAt(x, a + k)

\* What work() sees is a piece of the input.
LEMMA CutIs ==
  ASSUME NEW S, NEW x, IsWindow(x, S), NEW a \in Nat, NEW b \in Nat, a <= b, b <= Len(x.v)
  PROVE  IsPiece(S, x, a, b)
<1> DEFINE y == Cut(x, a, b)
<1>1. x.v \in Seq(S) /\ \A p \in x.t : p[1] \in DOMAIN x.v
  BY DEF IsWindow
<1>2. y.v = SubSeq(x.v, a + 1, b)
  BY DEF Cut
<1>3. y.v \in Seq(S) /\ Len(y.v) = b - a /\ \A k \in 1..(b - a) : y.v[k] = x.v[a + k]
  BY <1>1, <1>2
<1>4. y.t = { <<p[1] - a, p[2]>> : p \in { q \in x.t : q[1] \in (a + 1)..b } }
  BY DEF Cut
<1>5. ASSUME NEW k \in 1..(b - a) PROVE TagsAt(y, k) = TagsAt(x, a + k)
  <2>1. ASSUME NEW t \in TagsAt(y, k) PROVE t \in TagsAt(x, a + k)
    <3>1. PICK q \in y.t : q[1] = k /\ q[2] = t
      BY DEF TagsAt
    <3>2. PICK p \in x.t : p[1] \in (a + 1)..b /\ q = <<p[1] - a, p[2]>>
      BY <1>4
    <3>3. p[1] = a + k /\ p[2] = t
      BY <3>1, <3>2
    <3> QED BY <3>3 DEF TagsAt
  <2>2. ASSUME NEW t \in TagsAt(x, a + k) PROVE t \in TagsAt(y, k)
    <3>1. PICK p \in x.t : p[1] = a + k /\ p[2] = t
      BY DEF TagsAt
    <3>2. <<p[1] - a, p[2]>> \in y.t
      BY <1>4, <3>1
    <3>3. <<k, t>> \in y.t
      BY <3>1, <3>2
    <3> QED BY <3>3 DEF TagsAt
  <2> QED BY <2>1, <2>2
<1> QED BY <1>3, <1>5 DEF IsPiece

\* What came so far is a window, too, with the tags up to there.
LEMMA StartIs ==
  ASSUME NEW S, NEW x, IsWindow(x, S), NEW b \in Nat, b <= Len(x.v)
  PROVE  LET y == Cut(x, 0, b)
         IN  /\ y.v \in Seq(S) /\ Len(y.v) = b
             /\ \A k \in 1..b : y.v[k] = x.v[k] /\ TagsAt(y, k) = TagsAt(x, k)
             /\ y.t = { p \in x.t : p[1] <= b }
<1> DEFINE y == Cut(x, 0, b)
<1>1. y.t = { <<p[1] - 0, p[2]>> : p \in { q \in x.t : q[1] \in 1..b } }
  BY DEF Cut
<1>2. x.v \in Seq(S) /\ \A p \in x.t : p = <<p[1], p[2]>> /\ p[1] \in 1..Len(x.v)
  BY DEF IsWindow
<1>3. \A p \in x.t : p[1] \in 1..b <=> p[1] <= b
  BY <1>2
<1>4. \A p \in x.t : <<p[1] - 0, p[2]>> = p
  BY <1>2
<1>5. y.t = { p \in x.t : p[1] <= b }
  BY <1>1, <1>3, <1>4
<1>6. 0 <= b /\ b - 0 = b /\ \A k \in 1..b : 0 + k = k
  OBVIOUS
<1>7. y.v \in Seq(S) /\ Len(y.v) = b - 0
        /\ \A k \in 1..(b - 0) : y.v[k] = x.v[0 + k] /\ TagsAt(y, k) = TagsAt(x, 0 + k)
  BY <1>6, CutIs DEF IsPiece
<1> QED BY <1>5, <1>6, <1>7

\* The tags of a window are those of its samples.
LEMMA TagsAre ==
  ASSUME NEW S, NEW x, IsWindow(x, S), NEW n \in Nat
  PROVE  /\ { p \in x.t : p[1] <= n } = UNION { {k} \X TagsAt(x, k) : k \in 1..n }
         /\ \A k : IsFiniteSet(TagsAt(x, k))
<1>1. x.v \in Seq(S) /\ IsFiniteSet(x.t) /\ \A p \in x.t : p = <<p[1], p[2]>> /\ p[1] \in 1..Len(x.v)
  BY DEF IsWindow
<1>2. ASSUME NEW p \in x.t, p[1] <= n PROVE p \in UNION { {k} \X TagsAt(x, k) : k \in 1..n }
  <2>1. p[1] \in 1..n /\ p[2] \in TagsAt(x, p[1]) /\ p = <<p[1], p[2]>>
    BY <1>1, <1>2 DEF TagsAt
  <2>2. p \in {p[1]} \X TagsAt(x, p[1])
    BY <2>1
  <2> QED BY <2>1, <2>2
<1>3. ASSUME NEW k \in 1..n, NEW p \in {k} \X TagsAt(x, k) PROVE p \in x.t /\ p[1] <= n
  <2>1. p = <<k, p[2]>> /\ p[2] \in TagsAt(x, k)
    OBVIOUS
  <2>2. PICK q \in x.t : q[1] = k /\ q[2] = p[2]
    BY <2>1 DEF TagsAt
  <2>3. q = p
    BY <1>1, <2>1, <2>2
  <2> QED BY <2>1, <2>3
<1>4. ASSUME NEW k PROVE IsFiniteSet(TagsAt(x, k))
  <2> DEFINE Q == { q \in x.t : q[1] = k }
             f == [q \in Q |-> q[2]]
  <2>1. IsFiniteSet(Q)
    BY <1>1, FS_Subset
  <2>2. TagsAt(x, k) = { f[q] : q \in Q }
    BY DEF TagsAt
  <2>3. f \in Surjection(Q, TagsAt(x, k))
    BY <2>2 DEF Surjection
  <2> QED BY <2>1, <2>3, FS_Surjection
<1> QED BY <1>2, <1>3, <1>4

-----------------------------------------------------------------------------
(* The blocks, by position on the whole input x                            *)

\* All but those whose meaning is of their own output (Scrambler,
\* SinglePoleIirFilter), of sums of all samples (Vco), or of an angle
Generated == SyncNames \ {"Scrambler", "QuadratureDemod", "Vco", "SinglePoleIirFilter"}

\* The trigger at sample k, and a sample that is zero before the first
On(par, x, k) == k > 0 /\ x[2].v[k] > par.threshold
Z(x, k) == IF k < 1 THEN <<0, 0>> ELSE x[1].v[k]

\* The state of a block when k samples are gone, and the values and the tags of
\* sample k, one for each output
StateAt(block, par, x, k) ==
  CASE block = "NrziDecode"  -> [last |-> At(x[1].v, k)]
    [] block = "NrziEncode"  -> [last |-> Cardinality({ j \in 1..k : x[1].v[j] = 0 }) % 2]
    [] block = "Descrambler" -> [reg |-> [j \in 1..Len(par.seed) |-> At(par.seed \o x[1].v, k + j)]]
    [] block = "BurstTagger" -> [last |-> On(par, x, k)]
    [] block \in {"CorrelateAccessCode", "CorrelateAccessCodeTag"} ->
         [slide |-> [j \in 1..Len(par.code) |-> At(x[1].v, k - Len(par.code) + j)]]
    [] block = "FastFM"      -> [q1 |-> Z(x, k), q2 |-> Z(x, k - 1)]
    [] block = "Inspect"     -> [seen |-> [j \in 1..k |-> <<x[1].v[j], TagsAt(x[1], j)>>]]
    [] OTHER                 -> SyncStart(block, par)

SamplesAt(block, par, x, k) ==
  LET s == x[1].v[k]
  IN  CASE block = "Tee"            -> <<s, s>>
        [] block = "Xor"            -> <<IF s = x[2].v[k] THEN 0 ELSE 1>>
        [] block = "XorConst"       -> <<IF s = par.val THEN 0 ELSE 1>>
        [] block = "BinarySlicer"   -> <<IF s > 0 THEN 1 ELSE 0>>
        [] block = "FloatToComplex" -> <<<<s, x[2].v[k]>>>>
        [] block = "ComplexToFloat" -> <<s[1], s[2]>>
        [] block = "NrziDecode"     -> <<IF s = At(x[1].v, k - 1) THEN 1 ELSE 0>>
        [] block = "NrziEncode"     -> <<Cardinality({ j \in 1..k : x[1].v[j] = 0 }) % 2>>
        [] block = "Descrambler" ->
             <<(s + Cardinality({ j \in par.mask : At(par.seed \o x[1].v, k + j) = 1 })) % 2>>
        [] block = "CorrelateAccessCode" ->
             <<IF Misses(par, x[1].v, k) <= par.allowed_diffs THEN 1 ELSE 0>>
        [] block = "Add"            -> <<s + x[2].v[k]>>
        [] block = "AddConst"       -> <<s + par.val>>
        [] block = "MultiplyConst"  -> <<s * par.val>>
        [] block = "ComplexToMag2"  -> <<Times(s, conj(s))[1]>>
        [] block = "Map"            -> <<par.map[s]>>
        [] block = "FastFM" ->
             <<(s[2] - Z(x, k - 2)[2]) * Z(x, k - 1)[1] - (s[1] - Z(x, k - 2)[1]) * Z(x, k - 1)[2]>>
        [] OTHER                    -> <<s>>

MarksAt(block, par, x, k) ==
  LET ts == TagsAt(x[1], k)
  IN  CASE block \in {"Tee", "ComplexToFloat"} -> <<ts, ts>>
        [] block = "BurstTagger" ->
             <<ts \cup (IF On(par, x, k) # On(par, x, k - 1) THEN {Burst(On(par, x, k))} ELSE {})>>
        [] block = "CorrelateAccessCodeTag" ->
             <<ts \cup (IF Misses(par, x[1].v, k) <= par.allowed_diffs
                         THEN {<<"sync", Misses(par, x[1].v, k)>>} ELSE {})>>
        [] block = "Map" -> <<ts \ par.drops>>
        [] OTHER -> <<ts>>

\* The inputs of a block, as long as the samples of its type
Fits(block, par, x) ==
  /\ DOMAIN x = 1..SyncInputs(block)
  /\ \A i \in DOMAIN x : IsWindow(x[i], SyncSample(block))
  /\ SyncPar(block, par)

\* How much of the input a block can work on
Usable(block, x) == IF SyncInputs(block) = 2 THEN BothWhole(x) ELSE Whole(x)

\* What work() sees of sample k
Seen(x, k, xs, ts) ==
  DOMAIN xs = DOMAIN x /\ \A i \in DOMAIN x : xs[i] = x[i].v[k] /\ ts[i] = TagsAt(x[i], k)

\* What process_sync_tags() makes of sample k
StepIs(block, par, x, k, xs, ts) ==
  LET p == process_sync_tags(block, par, StateAt(block, par, x, k - 1), xs, ts)
  IN  /\ p.st = StateAt(block, par, x, k)
      /\ \A o \in 1..SyncOutputs(block) :
           p.ys[o] = SamplesAt(block, par, x, k)[o] /\ p.ts[o] = MarksAt(block, par, x, k)[o]

\* The samples are there, and are of the block's type.
LEMMA SampleIs ==
  ASSUME NEW block, NEW par, NEW x, Fits(block, par, x), NEW k \in 1..Usable(block, x)
  PROVE  /\ 1 \in DOMAIN x /\ (SyncInputs(block) = 2 => 2 \in DOMAIN x)
         /\ x[1].v \in Seq(SyncSample(block)) /\ k \in 1..Len(x[1].v) /\ x[1].v[k] \in SyncSample(block)
         /\ SyncInputs(block) = 2 => /\ x[2].v \in Seq(SyncSample(block))
                                    /\ k \in 1..Len(x[2].v) /\ x[2].v[k] \in SyncSample(block)
<1>1. 1 \in DOMAIN x /\ (SyncInputs(block) = 2 => 2 \in DOMAIN x)
  BY DEF Fits, SyncInputs
<1>2. x[1].v \in Seq(SyncSample(block)) /\ (SyncInputs(block) = 2 => x[2].v \in Seq(SyncSample(block)))
  BY <1>1 DEF Fits, IsWindow
<1>3. k \in 1..Len(x[1].v) /\ (SyncInputs(block) = 2 => k \in 1..Len(x[2].v))
  BY <1>2 DEF Usable, Whole, BothWhole, Smaller
<1> QED BY <1>1, <1>2, <1>3

\* The blocks of bits whose state is at most the last sample
LEMMA BitStep ==
  ASSUME NEW block \in {"Xor", "XorConst", "NrziDecode"}, NEW par, NEW x, Fits(block, par, x),
         NEW k \in 1..Usable(block, x),
         NEW xs, NEW ts, Seen(x, k, xs, ts)
  PROVE  StepIs(block, par, x, k, xs, ts)
<1>1. SyncSample(block) = {0, 1}
  BY DEF SyncSample, BitBlocks
<1>2. xs[1] = x[1].v[k] /\ xs[1] \in {0, 1} /\ ts[1] = TagsAt(x[1], k)
  BY <1>1, SampleIs DEF Seen
<1>3. CASE block = "Xor"
  <2>1. xs[2] = x[2].v[k] /\ xs[2] \in {0, 1}
    BY <1>1, <1>3, SampleIs DEF SyncInputs, Seen
  <2>2. Xored(xs[1], xs[2]) = IF xs[1] = xs[2] THEN 0 ELSE 1
    BY <1>2, <2>1 DEF Xored
  <2>3. SyncOutputs(block) = 1
    BY <1>3 DEF SyncOutputs
  <2> QED BY SMTT(30), <1>3, <1>2, <2>1, <2>2, <2>3
          DEF StepIs, process_sync_tags, Xor, ByValue, StateAt, SamplesAt, MarksAt, SyncStart
<1>4. CASE block = "XorConst"
  <2>1. par.val \in {0, 1}
    BY <1>4 DEF Fits, SyncPar
  <2>2. Xored(xs[1], par.val) = IF xs[1] = par.val THEN 0 ELSE 1
    BY <1>2, <2>1 DEF Xored
  <2>3. SyncOutputs(block) = 1
    BY <1>4 DEF SyncOutputs
  <2> QED BY SMTT(30), <1>4, <1>2, <2>2, <2>3
          DEF StepIs, process_sync_tags, XorConst, ByValue, StateAt, SamplesAt, MarksAt, SyncStart
<1>5. CASE block = "NrziDecode"
  <2> DEFINE last == At(x[1].v, k - 1)
  <2>1. last \in {0, 1}
    BY <1>1, SampleIs DEF At
  <2>2. Xored(1, Xored(xs[1], last)) = IF xs[1] = last THEN 1 ELSE 0
    BY <1>2, <2>1 DEF Xored
  <2>3. SyncOutputs(block) = 1
    BY <1>5 DEF SyncOutputs
  <2>4. At(x[1].v, k) = xs[1]
    BY <1>2, SampleIs DEF At
  <2> HIDE DEF last
  <2>5. StateAt(block, par, x, k - 1) = [last |-> last] /\ StateAt(block, par, x, k) = [last |-> xs[1]]
    BY <1>5, <2>4 DEF StateAt, last
  <2>6. SamplesAt(block, par, x, k) = <<IF xs[1] = last THEN 1 ELSE 0>> /\ MarksAt(block, par, x, k) = <<ts[1]>>
    BY <1>2, <1>5 DEF SamplesAt, MarksAt, last
  <2>7. process_sync_tags(block, par, [last |-> last], xs, ts)
          = ByValue([last |-> xs[1]], <<Xored(1, Xored(xs[1], last))>>, ts)
    BY <1>5 DEF process_sync_tags, NrziDecode
  <2> QED BY <2>2, <2>3, <2>5, <2>6, <2>7 DEF StepIs, ByValue
<1> QED BY <1>3, <1>4, <1>5

\* The blocks that have no state
LEMMA PlainStep ==
  ASSUME NEW block \in {"Tee", "BinarySlicer", "FloatToComplex", "ComplexToFloat", "Add", "AddConst",
                        "MultiplyConst", "ComplexToMag2", "Map", "Canary"},
         NEW par, NEW x, Fits(block, par, x), NEW k \in 1..Usable(block, x),
         NEW xs, NEW ts, Seen(x, k, xs, ts)
  PROVE  StepIs(block, par, x, k, xs, ts)
<1>1. xs[1] = x[1].v[k] /\ ts[1] = TagsAt(x[1], k) /\ 1 \in DOMAIN xs /\ (SyncInputs(block) = 2 => xs[2] = x[2].v[k])
  BY SampleIs DEF Seen
<1>2. StateAt(block, par, x, k - 1) = StateAt(block, par, x, k)
  BY DEF StateAt
<1>3. SyncOutputs(block) = IF block \in {"Tee", "ComplexToFloat"} THEN 2 ELSE 1
  BY DEF SyncOutputs
<1>4. MarksAt(block, par, x, k) = CASE block \in {"Tee", "ComplexToFloat"} -> <<ts[1], ts[1]>>
                                    [] block = "Map" -> <<ts[1] \ par.drops>>
                                    [] OTHER -> <<ts[1]>>
  BY <1>1 DEF MarksAt
<1> DEFINE s == StateAt(block, par, x, k)
<1> HIDE DEF s
<1>5. CASE block = "Tee"
  <2>1. SamplesAt(block, par, x, k) = <<xs[1], xs[1]>>
    BY <1>1, <1>5 DEF SamplesAt
  <2> QED BY <1>2, <1>3, <1>4, <1>5, <2>1 DEF StepIs, process_sync_tags, Tee, ByValue, s
<1>6. CASE block = "BinarySlicer"
  <2>1. SamplesAt(block, par, x, k) = <<IF xs[1] > 0 THEN 1 ELSE 0>>
    BY <1>1, <1>6 DEF SamplesAt
  <2> QED BY <1>2, <1>3, <1>4, <1>6, <2>1 DEF StepIs, process_sync_tags, BinarySlicer, ByValue, s
<1>7. CASE block = "FloatToComplex"
  <2>1. SamplesAt(block, par, x, k) = <<<<xs[1], xs[2]>>>>
    BY <1>1, <1>7 DEF SamplesAt, SyncInputs
  <2> QED BY <1>2, <1>3, <1>4, <1>7, <2>1 DEF StepIs, process_sync_tags, FloatToComplex, ByValue, s
<1>8. CASE block = "ComplexToFloat"
  <2>1. SamplesAt(block, par, x, k) = <<xs[1][1], xs[1][2]>>
    BY <1>1, <1>8 DEF SamplesAt
  <2> QED BY <1>2, <1>3, <1>4, <1>8, <2>1 DEF StepIs, process_sync_tags, ComplexToFloat, ByValue, s
<1>9. CASE block = "Add"
  <2>1. SamplesAt(block, par, x, k) = <<xs[1] + xs[2]>>
    BY <1>1, <1>9 DEF SamplesAt, SyncInputs
  <2> QED BY <1>2, <1>3, <1>4, <1>9, <2>1 DEF StepIs, process_sync_tags, Add, ByValue, s
<1>10. CASE block = "AddConst"
  <2>1. SamplesAt(block, par, x, k) = <<xs[1] + par.val>>
    BY <1>1, <1>10 DEF SamplesAt
  <2> QED BY <1>2, <1>3, <1>4, <1>10, <2>1 DEF StepIs, process_sync_tags, AddConst, ByValue, s
<1>11. CASE block = "MultiplyConst"
  <2>1. SamplesAt(block, par, x, k) = <<xs[1] * par.val>>
    BY <1>1, <1>11 DEF SamplesAt
  <2> QED BY <1>2, <1>3, <1>4, <1>11, <2>1 DEF StepIs, process_sync_tags, MultiplyConst, ByValue, s
<1>12. CASE block = "ComplexToMag2"
  <2>1. xs[1] \in Int \X Int
    BY <1>1, <1>12, SampleIs DEF SyncSample, BitBlocks
  <2>2. Times(xs[1], conj(xs[1]))[1] = norm_sqr(xs[1])
    <3>1. PICK a \in Int, b \in Int : xs[1] = <<a, b>>
      BY <2>1
    <3>2. Times(<<a, b>>, conj(<<a, b>>))[1] = a * a - b * (-b)
      BY DEF Times, conj
    <3>3. b * (-b) = -(b * b) /\ norm_sqr(<<a, b>>) = a * a + b * b
      BY DEF norm_sqr
    <3>4. a * a \in Int /\ b * b \in Int
      OBVIOUS
    <3> QED BY <3>1, <3>2, <3>3, <3>4
  <2>3. SamplesAt(block, par, x, k) = <<Times(xs[1], conj(xs[1]))[1]>>
    BY <1>1, <1>12 DEF SamplesAt
  <2> QED BY <1>2, <1>3, <1>4, <1>12, <2>2, <2>3 DEF StepIs, process_sync_tags, ComplexToMag2, ByValue, s
<1>13. CASE block = "Map"
  <2>1. SamplesAt(block, par, x, k) = <<par.map[xs[1]]>>
    BY <1>1, <1>13 DEF SamplesAt
  <2> QED BY <1>2, <1>3, <1>4, <1>13, <2>1 DEF StepIs, process_sync_tags, Map, s
<1>14. CASE block = "Canary"
  <2>1. SamplesAt(block, par, x, k) = <<xs[1]>>
    BY <1>1, <1>14 DEF SamplesAt
  <2> QED BY <1>1, <1>2, <1>3, <1>4, <1>14, <2>1 DEF StepIs, process_sync_tags, Canary, ByValue, s
<1> QED BY <1>5, <1>6, <1>7, <1>8, <1>9, <1>10, <1>11, <1>12, <1>13, <1>14

\* One more sample in a count
LEMMA CountIs ==
  ASSUME NEW k \in Nat \ {0}, NEW S
  PROVE  LET c(n) == Cardinality({ j \in 1..n : j \in S })
         IN  c(k) \in Nat /\ c(k - 1) \in Nat /\ c(k) = c(k - 1) + (IF k \in S THEN 1 ELSE 0)
<1> DEFINE T == { j \in 1..(k - 1) : j \in S }
           U == { j \in 1..k : j \in S }
<1>1. IsFiniteSet(T) /\ IsFiniteSet(U)
  <2>1. IsFiniteSet(1..(k - 1)) /\ IsFiniteSet(1..k)
    BY FS_Interval
  <2> QED BY <2>1, FS_Subset
<1>2. U = IF k \in S THEN T \cup {k} ELSE T
  OBVIOUS
<1>3. k \notin T
  OBVIOUS
<1>4. Cardinality(T) \in Nat /\ Cardinality(U) \in Nat /\ Cardinality(T \cup {k}) = Cardinality(T) + 1
  <2> HIDE DEF T, U
  <2> QED BY <1>1, <1>3, FS_CardinalityType, FS_AddElement
<1> HIDE DEF T, U
<1>5. Cardinality(U) = Cardinality(T) + (IF k \in S THEN 1 ELSE 0)
  BY <1>2, <1>4
<1> QED BY <1>4, <1>5 DEF T, U

\* NrziEncode: its state turns at every 0, so it tells whether their number is odd.
LEMMA NrziEncodeStep ==
  ASSUME NEW block, block = "NrziEncode", NEW par, NEW x, Fits(block, par, x), NEW k \in 1..Usable(block, x),
         NEW xs, NEW ts, Seen(x, k, xs, ts)
  PROVE  StepIs(block, par, x, k, xs, ts)
<1>1. xs[1] = x[1].v[k] /\ ts[1] = TagsAt(x[1], k) /\ xs[1] \in {0, 1} /\ k \in Nat \ {0}
  BY SampleIs DEF Seen, SyncSample, BitBlocks
<1> DEFINE S == { j \in 1..k : x[1].v[j] = 0 }
           T == { j \in 1..(k - 1) : x[1].v[j] = 0 }
<1>2. Cardinality(S) \in Nat /\ Cardinality(T) \in Nat
        /\ Cardinality(S) = Cardinality(T) + (IF xs[1] = 0 THEN 1 ELSE 0)
  <2>1. S = { j \in 1..k : j \in S } /\ T = { j \in 1..(k - 1) : j \in S } /\ (k \in S <=> xs[1] = 0)
    BY <1>1
  <2> HIDE DEF S, T
  <2> QED BY <1>1, <2>1, CountIs
<1> DEFINE new == Cardinality(S) % 2
           old == Cardinality(T) % 2
<1>3. new = IF xs[1] = 0 THEN Xored(old, 1) ELSE old
  <2> HIDE DEF S, T
  <2> QED BY <1>2 DEF Xored
<1>4. StateAt(block, par, x, k - 1) = [last |-> old] /\ StateAt(block, par, x, k) = [last |-> new]
  BY DEF StateAt
<1>5. SamplesAt(block, par, x, k) = <<new>> /\ MarksAt(block, par, x, k) = <<ts[1]>> /\ SyncOutputs(block) = 1
  BY <1>1 DEF SamplesAt, MarksAt, SyncOutputs
<1> HIDE DEF new, old
<1>6. process_sync_tags(block, par, [last |-> old], xs, ts) = NrziEncode(par, [last |-> old], xs, ts)
  BY DEF process_sync_tags
<1>7. NrziEncode(par, [last |-> old], xs, ts) = ByValue([last |-> new], <<new>>, ts)
  BY <1>3 DEF NrziEncode
<1> QED BY <1>4, <1>5, <1>6, <1>7 DEF StepIs, ByValue

\* A register of n places moves on by one.
LEMMA SlideIs ==
  ASSUME NEW n \in Nat \ {0}, NEW m \in Int, NEW f
  PROVE  Append(Tail([j \in 1..n |-> f[(m - 1) + j]]), f[m + n]) = [j \in 1..n |-> f[m + j]]
<1> DEFINE old == [j \in 1..n |-> f[(m - 1) + j]]
           new == [j \in 1..n |-> f[m + j]]
           V == { f[i] : i \in Int }
           t == Tail(old)
<1>1. old \in Seq(V) /\ Len(old) = n /\ new \in Seq(V) /\ Len(new) = n /\ f[m + n] \in V
  OBVIOUS
<1>2. \A j \in 1..(n - 1) : old[j + 1] = new[j]
  <2> SUFFICES ASSUME NEW j \in 1..(n - 1) PROVE old[j + 1] = new[j]
    OBVIOUS
  <2>1. (m - 1) + (j + 1) = m + j /\ j + 1 \in 1..n /\ j \in 1..n
    OBVIOUS
  <2> QED BY <2>1
<1>3. new[n] = f[m + n]
  OBVIOUS
<1> HIDE DEF old, new, V
<1>4. t \in Seq(V) /\ Len(t) = n - 1 /\ \A j \in 1..(n - 1) : t[j] = old[j + 1]
  BY <1>1
<1> HIDE DEF t
<1> DEFINE s == Append(t, f[m + n])
<1>5. s \in Seq(V) /\ Len(s) = n /\ \A j \in 1..n : s[j] = IF j = n THEN f[m + n] ELSE t[j]
  BY <1>1, <1>4
<1> HIDE DEF s
<1>6. \A j \in 1..n : s[j] = new[j]
  <2>1. \A j \in 1..n : j = n \/ j \in 1..(n - 1)
    OBVIOUS
  <2> QED BY <1>2, <1>3, <1>4, <1>5, <2>1
<1>7. s = new
  BY <1>1, <1>5, <1>6
<1> QED BY <1>7 DEF s, t, old, new

\* One sequence after the other, at any place
LEMMA JoinedAt ==
  ASSUME NEW S, NEW p \in Seq(S), NEW v \in Seq(S), NEW m \in Int
  PROVE  At(p \o v, m) = IF m \in 1..Len(p) THEN p[m] ELSE At(v, m - Len(p))
<1>1. p \o v \in Seq(S) /\ Len(p \o v) = Len(p) + Len(v)
        /\ \A i \in 1..(Len(p) + Len(v)) : (p \o v)[i] = IF i <= Len(p) THEN p[i] ELSE v[i - Len(p)]
  BY ConcatProperties
<1> DEFINE q == p \o v
<1> HIDE DEF q
<1>2. DOMAIN q = 1..(Len(p) + Len(v)) /\ DOMAIN v = 1..Len(v) /\ Len(p) \in Nat /\ Len(v) \in Nat
  BY <1>1 DEF q
<1>3. CASE m \in 1..Len(p)
  BY <1>1, <1>2, <1>3 DEF At, q
<1>4. CASE m \notin 1..Len(p) /\ m - Len(p) \in 1..Len(v)
  <2>1. m \in DOMAIN q /\ ~(m <= Len(p)) /\ m \in 1..(Len(p) + Len(v))
    BY <1>2, <1>4
  <2> QED BY <1>1, <1>2, <1>4, <2>1 DEF At, q
<1>5. CASE m \notin 1..Len(p) /\ m - Len(p) \notin 1..Len(v)
  <2>1. m \notin DOMAIN q
    BY <1>2, <1>5
  <2> QED BY <1>2, <1>5, <2>1 DEF At, q
<1> QED BY <1>3, <1>4, <1>5

\* Descrambler: the register holds the last bits of the seed and the samples in a row.
LEMMA DescramblerStep ==
  ASSUME NEW block, block = "Descrambler", NEW par, NEW x, Fits(block, par, x), NEW k \in 1..Usable(block, x),
         NEW xs, NEW ts, Seen(x, k, xs, ts)
  PROVE  StepIs(block, par, x, k, xs, ts)
<1>1. xs[1] = x[1].v[k] /\ ts[1] = TagsAt(x[1], k) /\ xs[1] \in {0, 1} /\ k \in Nat \ {0}
  BY SampleIs DEF Seen, SyncSample, BitBlocks
<1> DEFINE n == Len(par.seed)
           all == par.seed \o x[1].v
           reg(m) == [j \in 1..n |-> At(all, m + j)]
           taps == { j \in par.mask : At(all, k + j) = 1 }
<1>2. par.seed \in Seq({0, 1}) /\ n \in Nat \ {0} /\ par.mask \subseteq 0..(n - 1)
  BY DEF Fits, SyncPar
<1>3. x[1].v \in Seq({0, 1}) /\ k \in 1..Len(x[1].v)
  BY SampleIs DEF SyncSample, BitBlocks
<1>4. At(all, n + k) = xs[1]
  <2>1. At(all, n + k) = At(x[1].v, (n + k) - n)
    <3> DEFINE p == par.seed  v == x[1].v
    <3> HIDE DEF p, v
    <3>1. p \in Seq({0, 1}) /\ v \in Seq({0, 1}) /\ n + k \in Int /\ n + k \notin 1..Len(p)
      BY <1>1, <1>2, <1>3 DEF p, v
    <3>2. At(p \o v, n + k) = At(v, (n + k) - Len(p))
      BY <3>1, JoinedAt
    <3> QED BY <3>2 DEF p, v
  <2>2. (n + k) - n = k
    BY <1>1, <1>2
  <2>3. At(x[1].v, k) = xs[1]
    BY <1>1, <1>3 DEF At
  <2> HIDE DEF n, all
  <2> QED BY <2>1, <2>2, <2>3
<1>5. Clocked(reg(k - 1), xs[1]) = reg(k)
  <2> DEFINE f == [m \in Int |-> At(all, m)]
  <2>1. Append(Tail([j \in 1..n |-> f[(k - 1) + j]]), f[k + n]) = [j \in 1..n |-> f[k + j]]
    <3>1. n \in Nat \ {0} /\ k \in Int
      BY <1>1, <1>2
    <3> HIDE DEF f, n
    <3> QED BY <3>1, SlideIs, ZenonT(30)
  <2>2. [j \in 1..n |-> f[(k - 1) + j]] = reg(k - 1) /\ [j \in 1..n |-> f[k + j]] = reg(k) /\ f[k + n] = xs[1]
    <3> HIDE DEF n, all
    <3> QED BY <1>1, <1>2, <1>4
  <2> HIDE DEF f, n, reg
  <2> QED BY <2>1, <2>2 DEF Clocked
<1>6. Tapped(par, reg(k - 1)) = Cardinality(taps) % 2
  <2>1. \A j \in par.mask : reg(k - 1)[j + 1] = At(all, k + j)
    <3> SUFFICES ASSUME NEW j \in par.mask PROVE reg(k - 1)[j + 1] = At(all, k + j)
      OBVIOUS
    <3>1. j + 1 \in 1..n /\ (k - 1) + (j + 1) = k + j
      BY <1>1, <1>2
    <3> HIDE DEF n, all
    <3> QED BY <3>1
  <2>2. taps = { j \in par.mask : reg(k - 1)[j + 1] = 1 }
    <3> HIDE DEF reg, all
    <3> QED BY <2>1
  <2> HIDE DEF reg, taps
  <2> QED BY <2>2 DEF Tapped
<1>7. Cardinality(taps) \in Nat
  <2>1. IsFiniteSet(0..(n - 1))
    BY <1>2, FS_Interval
  <2>2. IsFiniteSet(taps)
    BY <1>2, <2>1, FS_Subset
  <2> QED BY <2>2, FS_CardinalityType
<1>8. StateAt(block, par, x, k - 1) = [reg |-> reg(k - 1)] /\ StateAt(block, par, x, k) = [reg |-> reg(k)]
  BY DEF StateAt
<1> DEFINE y == (xs[1] + Cardinality(taps)) % 2
<1>9. SamplesAt(block, par, x, k) = <<y>> /\ MarksAt(block, par, x, k) = <<ts[1]>> /\ SyncOutputs(block) = 1
  BY <1>1 DEF SamplesAt, MarksAt, SyncOutputs
<1>10. next_descramble(par, reg(k - 1), xs[1]) = y
  <2> HIDE DEF reg, taps
  <2> QED BY <1>1, <1>6, <1>7 DEF next_descramble, Xored
<1> HIDE DEF reg, y
<1>11. process_sync_tags(block, par, [reg |-> reg(k - 1)], xs, ts) = Descrambler(par, [reg |-> reg(k - 1)], xs, ts)
  BY DEF process_sync_tags
<1>12. Descrambler(par, [reg |-> reg(k - 1)], xs, ts) = ByValue([reg |-> reg(k)], <<y>>, ts)
  BY <1>5, <1>10 DEF Descrambler
<1> QED BY <1>8, <1>9, <1>11, <1>12 DEF StepIs, ByValue

\* CorrelateAccessCode and its form with tags: slide holds the last samples.
LEMMA CorrelateStep ==
  ASSUME NEW block \in {"CorrelateAccessCode", "CorrelateAccessCodeTag"}, NEW par, NEW x, Fits(block, par, x),
         NEW k \in 1..Usable(block, x), NEW xs, NEW ts, Seen(x, k, xs, ts)
  PROVE  StepIs(block, par, x, k, xs, ts)
<1>1. /\ xs[1] = x[1].v[k] /\ ts[1] = TagsAt(x[1], k) /\ k \in Nat \ {0}
      /\ xs[1] = At(x[1].v, k) /\ DOMAIN xs = {1}
  BY SampleIs DEF Seen, At, Fits, SyncInputs
<1> DEFINE n == Len(par.code)
           s == x[1].v
           slide(m) == [j \in 1..n |-> At(s, m - n + j)]
           misses == Misses(par, s, k)
<1>2. n \in Nat \ {0} /\ DOMAIN par.code = 1..n
  BY DEF Fits, SyncPar
<1>3. Append(Tail(slide(k - 1)), xs[1]) = slide(k)
  <2> DEFINE f == [m \in Int |-> At(s, m)]
  <2>1. Append(Tail([j \in 1..n |-> f[((k - n) - 1) + j]]), f[(k - n) + n]) = [j \in 1..n |-> f[(k - n) + j]]
    <3>1. n \in Nat \ {0} /\ k - n \in Int
      BY <1>1, <1>2
    <3> HIDE DEF f, n
    <3> QED BY <3>1, SlideIs, ZenonT(30)
  <2>2. [j \in 1..n |-> f[((k - n) - 1) + j]] = slide(k - 1)
    <3> HIDE DEF n, s
    <3>1. \A j \in 1..n : ((k - n) - 1) + j = (k - 1) - n + j /\ ((k - n) - 1) + j \in Int
      BY <1>1, <1>2
    <3> QED BY <3>1
  <2>3. [j \in 1..n |-> f[(k - n) + j]] = slide(k) /\ f[(k - n) + n] = xs[1]
    <3>1. (k - n) + n = k /\ k \in Int /\ \A j \in 1..n : (k - n) + j \in Int
      BY <1>1, <1>2
    <3>2. f[k] = At(s, k) /\ At(s, k) = xs[1]
      BY <1>1, <3>1
    <3> HIDE DEF n, s
    <3> QED BY <3>1, <3>2
  <2> HIDE DEF f, n, slide
  <2> QED BY <2>1, <2>2, <2>3
<1>4. Diffs(par, slide(k)) = misses
  <2>1. { j \in DOMAIN par.code : slide(k)[j] # par.code[j] } = { j \in 1..n : At(s, k - n + j) # par.code[j] }
    BY <1>2
  <2> HIDE DEF slide
  <2> QED BY <2>1 DEF Diffs, Misses
<1>5. StateAt(block, par, x, k - 1) = [slide |-> slide(k - 1)] /\ StateAt(block, par, x, k) = [slide |-> slide(k)]
  BY DEF StateAt
<1>6. SyncOutputs(block) = 1
  BY DEF SyncOutputs
<1>7. SamplesAt(block, par, x, k)
        = IF block = "CorrelateAccessCode" THEN <<IF misses <= par.allowed_diffs THEN 1 ELSE 0>> ELSE <<xs[1]>>
  BY <1>1 DEF SamplesAt
<1>8. MarksAt(block, par, x, k)
        = IF block = "CorrelateAccessCode" THEN <<ts[1]>>
          ELSE <<ts[1] \cup (IF misses <= par.allowed_diffs THEN {<<"sync", misses>>} ELSE {})>>
  BY <1>1 DEF MarksAt
<1> HIDE DEF slide, misses
<1>9. Slid([slide |-> slide(k - 1)], xs[1]) = slide(k)
  BY <1>3 DEF Slid
<1>10. CASE block = "CorrelateAccessCode"
  <2>1. process_sync_tags(block, par, [slide |-> slide(k - 1)], xs, ts)
          = CorrelateAccessCode(par, [slide |-> slide(k - 1)], xs, ts)
    BY <1>10 DEF process_sync_tags
  <2>2. CorrelateAccessCode(par, [slide |-> slide(k - 1)], xs, ts)
          = ByValue([slide |-> slide(k)], <<IF misses <= par.allowed_diffs THEN 1 ELSE 0>>, ts)
    BY <1>4, <1>9 DEF CorrelateAccessCode
  <2> QED BY <1>5, <1>6, <1>7, <1>8, <1>10, <2>1, <2>2 DEF StepIs, ByValue
<1>11. CASE block = "CorrelateAccessCodeTag"
  <2>1. process_sync_tags(block, par, [slide |-> slide(k - 1)], xs, ts)
          = CorrelateAccessCodeTag(par, [slide |-> slide(k - 1)], xs, ts)
    BY <1>11 DEF process_sync_tags
  <2>2. CorrelateAccessCodeTag(par, [slide |-> slide(k - 1)], xs, ts)
          = [st |-> [slide |-> slide(k)], ys |-> xs,
             ts |-> <<ts[1] \cup (IF misses <= par.allowed_diffs THEN {<<"sync", misses>>} ELSE {})>>]
    <3> DEFINE marks(d) == <<ts[1] \cup (IF d <= par.allowed_diffs THEN {<<"sync", d>>} ELSE {})>>
               old == [slide |-> slide(k - 1)]
               now == Slid(old, xs[1])
    <3>1. CorrelateAccessCodeTag(par, old, xs, ts)
            = [st |-> [old EXCEPT !.slide = now], ys |-> xs, ts |-> marks(Diffs(par, now))]
      BY DEF CorrelateAccessCodeTag
    <3>2. now = slide(k) /\ [old EXCEPT !.slide = now] = [slide |-> slide(k)]
      BY <1>9
    <3>3. marks(Diffs(par, now)) = marks(misses)
      <4> HIDE DEF marks, now, old
      <4> QED BY <1>4, <3>2
    <3>4. CorrelateAccessCodeTag(par, old, xs, ts) = [st |-> [slide |-> slide(k)], ys |-> xs, ts |-> marks(misses)]
      <4> HIDE DEF marks, now, old
      <4> QED BY <3>1, <3>2, <3>3
    <3> QED BY <3>4, Zenon
  <2> QED BY <1>1, <1>5, <1>6, <1>7, <1>8, <1>11, <2>1, <2>2 DEF StepIs
<1> QED BY <1>10, <1>11

\* BurstTagger: last tells whether the last trigger was above the threshold.
LEMMA BurstTaggerStep ==
  ASSUME NEW block, block = "BurstTagger", NEW par, NEW x, Fits(block, par, x), NEW k \in 1..Usable(block, x),
         NEW xs, NEW ts, Seen(x, k, xs, ts)
  PROVE  StepIs(block, par, x, k, xs, ts)
<1>1. xs[1] = x[1].v[k] /\ xs[2] = x[2].v[k] /\ ts[1] = TagsAt(x[1], k) /\ k \in Nat \ {0}
  BY SampleIs DEF Seen, SyncInputs
<1> DEFINE old == On(par, x, k - 1)
           new == On(par, x, k)
<1>2. (xs[2] > par.threshold) = new
  BY <1>1 DEF On
<1>3. StateAt(block, par, x, k - 1) = [last |-> old] /\ StateAt(block, par, x, k) = [last |-> new]
  BY DEF StateAt
<1>4. SamplesAt(block, par, x, k) = <<xs[1]>> /\ SyncOutputs(block) = 1
        /\ MarksAt(block, par, x, k) = <<ts[1] \cup (IF new # old THEN {Burst(new)} ELSE {})>>
  BY <1>1 DEF SamplesAt, MarksAt, SyncOutputs
<1> HIDE DEF new, old
<1>5. process_sync_tags(block, par, [last |-> old], xs, ts) = BurstTagger(par, [last |-> old], xs, ts)
  BY DEF process_sync_tags
<1>6. BurstTagger(par, [last |-> old], xs, ts)
        = [st |-> [last |-> new], ys |-> <<xs[1]>>, ts |-> <<ts[1] \cup (IF new # old THEN {Burst(new)} ELSE {})>>]
  BY <1>2 DEF BurstTagger
<1> QED BY <1>3, <1>4, <1>5, <1>6 DEF StepIs

\* FastFM: q1 and q2 are the last two samples.
LEMMA FastFMStep ==
  ASSUME NEW block, block = "FastFM", NEW par, NEW x, Fits(block, par, x), NEW k \in 1..Usable(block, x),
         NEW xs, NEW ts, Seen(x, k, xs, ts)
  PROVE  StepIs(block, par, x, k, xs, ts)
<1>1. xs[1] = x[1].v[k] /\ ts[1] = TagsAt(x[1], k) /\ k \in Nat \ {0} /\ (k - 1) - 1 = k - 2
  BY SampleIs DEF Seen
<1> DEFINE a == Z(x, k - 1)
           b == Z(x, k - 2)
<1>2. Z(x, k) = xs[1]
  BY <1>1 DEF Z
<1>3. StateAt(block, par, x, k - 1) = [q1 |-> a, q2 |-> b] /\ StateAt(block, par, x, k) = [q1 |-> xs[1], q2 |-> a]
  BY <1>1, <1>2 DEF StateAt
<1> DEFINE y == (xs[1][2] - b[2]) * a[1] - (xs[1][1] - b[1]) * a[2]
<1>4. SamplesAt(block, par, x, k) = <<y>> /\ SyncOutputs(block) = 1 /\ MarksAt(block, par, x, k) = <<ts[1]>>
  BY <1>1 DEF SamplesAt, MarksAt, SyncOutputs
<1> HIDE DEF a, b
<1>5. process_sync_tags(block, par, [q1 |-> a, q2 |-> b], xs, ts) = FastFM(par, [q1 |-> a, q2 |-> b], xs, ts)
  BY DEF process_sync_tags
<1>6. FastFM(par, [q1 |-> a, q2 |-> b], xs, ts) = ByValue([q1 |-> xs[1], q2 |-> a], <<y>>, ts)
  BY DEF FastFM
<1> HIDE DEF y
<1> QED BY <1>3, <1>4, <1>5, <1>6 DEF StepIs, ByValue

\* Inspect: it has seen every sample with its tags.
LEMMA InspectStep ==
  ASSUME NEW block, block = "Inspect", NEW par, NEW x, Fits(block, par, x), NEW k \in 1..Usable(block, x),
         NEW xs, NEW ts, Seen(x, k, xs, ts)
  PROVE  StepIs(block, par, x, k, xs, ts)
<1>1. xs[1] = x[1].v[k] /\ ts[1] = TagsAt(x[1], k) /\ k \in Nat \ {0}
  BY SampleIs DEF Seen
<1> DEFINE e(j) == <<x[1].v[j], TagsAt(x[1], j)>>
           seen(m) == [j \in 1..m |-> e(j)]
<1>2. Append(seen(k - 1), <<xs[1], ts[1]>>) = seen(k)
  <2>1. <<xs[1], ts[1]>> = e(k)
    BY <1>1
  <2> HIDE DEF e
  <2>2. Append(seen(k - 1), e(k)) = seen(k)
    BY <1>1
  <2> QED BY <2>1, <2>2
<1>3. StateAt(block, par, x, k - 1) = [seen |-> seen(k - 1)] /\ StateAt(block, par, x, k) = [seen |-> seen(k)]
  BY DEF StateAt
<1>4. SamplesAt(block, par, x, k) = <<xs[1]>> /\ SyncOutputs(block) = 1 /\ MarksAt(block, par, x, k) = <<ts[1]>>
  BY <1>1 DEF SamplesAt, MarksAt, SyncOutputs
<1> HIDE DEF seen
<1>5. process_sync_tags(block, par, [seen |-> seen(k - 1)], xs, ts)
        = [st |-> [seen |-> seen(k)], ys |-> xs, ts |-> ts]
  BY <1>2 DEF process_sync_tags, Inspect
<1> QED BY <1>3, <1>4, <1>5 DEF StepIs

\* Every block goes from sample to sample as told above.
LEMMA ProcessIs ==
  ASSUME NEW block \in Generated, NEW par, NEW x, Fits(block, par, x), NEW k \in 1..Usable(block, x),
         NEW xs, NEW ts, Seen(x, k, xs, ts)
  PROVE  StepIs(block, par, x, k, xs, ts)
<1>1. \/ block \in {"Xor", "XorConst", "NrziDecode"}
      \/ block \in {"Tee", "BinarySlicer", "FloatToComplex", "ComplexToFloat", "Add", "AddConst",
                     "MultiplyConst", "ComplexToMag2", "Map", "Canary"}
      \/ block = "NrziEncode"
      \/ block = "Descrambler"
      \/ block \in {"CorrelateAccessCode", "CorrelateAccessCodeTag"}
      \/ block = "BurstTagger"
      \/ block = "FastFM"
      \/ block = "Inspect"
  BY DEF Generated, SyncNames, MathNames
<1> QED BY <1>1, BitStep, PlainStep, NrziEncodeStep, DescramblerStep, CorrelateStep, BurstTaggerStep, FastFMStep, InspectStep

-----------------------------------------------------------------------------
(* What is expected of the blocks is the same, by position.                *)

ExpectedAt(block, par, x, outs, o) ==
  LET n == Usable(block, x)
      e == Expected(block, par, x, outs)
  IN  /\ e[o].v = [k \in 1..n |-> SamplesAt(block, par, x, k)[o]]
      /\ e[o].t = UNION { {k} \X MarksAt(block, par, x, k)[o] : k \in 1..n }

ExpectedIs(block, par, x, outs) == \A o \in 1..SyncOutputs(block) : ExpectedAt(block, par, x, outs, o)

\* The tags of the first input, up to where all inputs are
LEMMA TagsUpto ==
  ASSUME NEW block, NEW par, NEW x, Fits(block, par, x)
  PROVE  LET n == Usable(block, x)
         IN  /\ n \in Nat /\ Within(x[1].t, n) = UNION { {k} \X TagsAt(x[1], k) : k \in 1..n }
             /\ (SyncInputs(block) = 1 => Within(x[1].t, n) = x[1].t /\ x[1].v = [k \in 1..n |-> x[1].v[k]])
<1> DEFINE n == Usable(block, x)
<1>1. 1 \in DOMAIN x /\ (SyncInputs(block) = 2 => 2 \in DOMAIN x)
  BY DEF Fits, SyncInputs
<1>2. IsWindow(x[1], SyncSample(block)) /\ (SyncInputs(block) = 2 => IsWindow(x[2], SyncSample(block)))
  BY <1>1 DEF Fits
<1>3. x[1].v \in Seq(SyncSample(block)) /\ (SyncInputs(block) = 2 => x[2].v \in Seq(SyncSample(block)))
        /\ \A p \in x[1].t : p[1] \in 1..Len(x[1].v)
  BY <1>2 DEF IsWindow
<1>4. n \in Nat /\ (SyncInputs(block) = 1 => n = Len(x[1].v))
  BY <1>3 DEF Usable, Whole, BothWhole, Smaller
<1>5. { p \in x[1].t : p[1] <= n } = UNION { {k} \X TagsAt(x[1], k) : k \in 1..n }
  <2> HIDE DEF n
  <2> QED BY <1>2, <1>4, TagsAre
<1>6. SyncInputs(block) = 1 => Within(x[1].t, n) = x[1].t
  BY <1>3, <1>4 DEF Within
<1>7. SyncInputs(block) = 1 => x[1].v = [k \in 1..n |-> x[1].v[k]]
  BY <1>3, <1>4
<1> QED BY <1>4, <1>5, <1>6, <1>7 DEF Within

\* The blocks that keep the tags, and give samples one by one
GivesEach(E, m, n, F, W) == \A o \in 1..m : E[o] = [v |-> [k \in 1..n |-> F[k][o]], t |-> W]
OneByOne(n, F, f) == f = [k \in 1..n |-> f[k]] /\ \A k \in 1..n : F[k] = <<f[k]>>

\* One output that gets, one by one, the values of f
LEMMA Single ==
  ASSUME NEW E, NEW n, NEW f, NEW F, NEW W, OneByOne(n, F, f), E = <<[v |-> f, t |-> W]>>
  PROVE  GivesEach(E, 1, n, F, W)
<1>1. f = [k \in 1..n |-> F[k][1]]
  BY DEF OneByOne
<1>2. E[1] = [v |-> [k \in 1..n |-> F[k][1]], t |-> W]
  BY <1>1
<1>3. \A o \in 1..1 : o = 1
  OBVIOUS
<1> QED BY <1>2, <1>3 DEF GivesEach

\* The blocks that give a value for every sample and keep the tags
LEMMA EachExpected ==
  ASSUME NEW block \in Generated \ {"Tee", "Map", "Inspect", "Canary", "BurstTagger", "CorrelateAccessCodeTag"},
         NEW par, NEW x, Fits(block, par, x), NEW outs
  PROVE  ExpectedIs(block, par, x, outs)
<1> DEFINE n == Usable(block, x)
           F == [k \in 1..n |-> SamplesAt(block, par, x, k)]
           E == Expected(block, par, x, outs)
           W == Within(x[1].t, n)
           Good == GivesEach(E, SyncOutputs(block), n, F, W)
<1> HIDE DEF W
<1>1. E = Promise(block, par, x)
  BY DEF Expected, Available, Delivered, Generated, SyncNames, MathNames, FileSinks
<1>2. ASSUME block = "Xor" PROVE Good
  <2> DEFINE f == [k \in 1..n |-> IF x[1].v[k] = x[2].v[k] THEN 0 ELSE 1]
  <2>1. n = BothWhole(x) /\ SyncOutputs(block) = 1
    BY <1>2 DEF Usable, SyncInputs, SyncOutputs
  <2>2. \A k \in 1..n : F[k] = <<f[k]>>
    BY <1>2 DEF SamplesAt
  <2> HIDE DEF n
  <2>3. E = Meaning(block, par, x)
    BY <1>1, <1>2 DEF Promise
  <2>4. E = <<[v |-> f, t |-> W]>>
    BY <1>2, <2>1, <2>3 DEF Meaning, Each, W
  <2>6. f = [k \in 1..n |-> f[k]]
    OBVIOUS
  <2> HIDE DEF f, F, E
  <2>7. OneByOne(n, F, f)
    BY <2>2, <2>6 DEF OneByOne
  <2>8. E = <<[v |-> f, t |-> W]>>
    BY <2>4
  <2>9. GivesEach(E, 1, n, F, W)
    BY <2>7, <2>8, Single, Zenon
  <2> QED BY <2>1, <2>9
<1>3. ASSUME block = "XorConst" PROVE Good
  <2> DEFINE f == [k \in 1..n |-> IF x[1].v[k] = par.val THEN 0 ELSE 1]
  <2>1. n = Whole(x) /\ SyncOutputs(block) = 1
    BY <1>3 DEF Usable, SyncInputs, SyncOutputs
  <2>2. \A k \in 1..n : F[k] = <<f[k]>>
    BY <1>3 DEF SamplesAt
  <2> HIDE DEF n
  <2>3. E = Meaning(block, par, x)
    BY <1>1, <1>3 DEF Promise
  <2>4. E = <<[v |-> f, t |-> W]>>
    BY <1>3, <2>1, <2>3 DEF Meaning, Each, W
  <2>6. f = [k \in 1..n |-> f[k]]
    OBVIOUS
  <2> HIDE DEF f, F, E
  <2>7. OneByOne(n, F, f)
    BY <2>2, <2>6 DEF OneByOne
  <2>8. E = <<[v |-> f, t |-> W]>>
    BY <2>4
  <2>9. GivesEach(E, 1, n, F, W)
    BY <2>7, <2>8, Single, Zenon
  <2> QED BY <2>1, <2>9
<1>4. ASSUME block = "BinarySlicer" PROVE Good
  <2> DEFINE f == [k \in 1..n |-> IF x[1].v[k] > 0 THEN 1 ELSE 0]
  <2>1. n = Whole(x) /\ SyncOutputs(block) = 1
    BY <1>4 DEF Usable, SyncInputs, SyncOutputs
  <2>2. \A k \in 1..n : F[k] = <<f[k]>>
    BY <1>4 DEF SamplesAt
  <2> HIDE DEF n
  <2>3. E = Meaning(block, par, x)
    BY <1>1, <1>4 DEF Promise
  <2>4. E = <<[v |-> f, t |-> W]>>
    BY <1>4, <2>1, <2>3 DEF Meaning, Each, W
  <2>6. f = [k \in 1..n |-> f[k]]
    OBVIOUS
  <2> HIDE DEF f, F, E
  <2>7. OneByOne(n, F, f)
    BY <2>2, <2>6 DEF OneByOne
  <2>8. E = <<[v |-> f, t |-> W]>>
    BY <2>4
  <2>9. GivesEach(E, 1, n, F, W)
    BY <2>7, <2>8, Single, Zenon
  <2> QED BY <2>1, <2>9
<1>5. ASSUME block = "FloatToComplex" PROVE Good
  <2> DEFINE f == [k \in 1..n |-> <<x[1].v[k], x[2].v[k]>>]
  <2>1. n = BothWhole(x) /\ SyncOutputs(block) = 1
    BY <1>5 DEF Usable, SyncInputs, SyncOutputs
  <2>2. \A k \in 1..n : F[k] = <<f[k]>>
    BY <1>5 DEF SamplesAt
  <2> HIDE DEF n
  <2>3. E = Meaning(block, par, x)
    BY <1>1, <1>5 DEF Promise
  <2>4. E = <<[v |-> f, t |-> W]>>
    BY <1>5, <2>1, <2>3 DEF Meaning, Each, W
  <2>6. f = [k \in 1..n |-> f[k]]
    OBVIOUS
  <2> HIDE DEF f, F, E
  <2>7. OneByOne(n, F, f)
    BY <2>2, <2>6 DEF OneByOne
  <2>8. E = <<[v |-> f, t |-> W]>>
    BY <2>4
  <2>9. GivesEach(E, 1, n, F, W)
    BY <2>7, <2>8, Single, Zenon
  <2> QED BY <2>1, <2>9
<1>6. ASSUME block = "NrziDecode" PROVE Good
  <2> DEFINE f == [k \in 1..n |-> IF x[1].v[k] = At(x[1].v, k - 1) THEN 1 ELSE 0]
  <2>1. n = Whole(x) /\ SyncOutputs(block) = 1
    BY <1>6 DEF Usable, SyncInputs, SyncOutputs
  <2>2. \A k \in 1..n : F[k] = <<f[k]>>
    BY <1>6 DEF SamplesAt
  <2> HIDE DEF n
  <2>3. E = Meaning(block, par, x)
    BY <1>1, <1>6 DEF Promise
  <2>4. E = NrziDecodeMeaning(x)
    BY <1>6, <2>3 DEF Meaning
  <2>5. NrziDecodeMeaning(x) = <<[v |-> f, t |-> W]>>
    BY <2>1, Zenon DEF NrziDecodeMeaning, Each, W
  <2>6. f = [k \in 1..n |-> f[k]]
    OBVIOUS
  <2> HIDE DEF f, F, E
  <2>7. OneByOne(n, F, f)
    BY <2>2, <2>6 DEF OneByOne
  <2>8. E = <<[v |-> f, t |-> W]>>
    BY <2>4, <2>5
  <2>9. GivesEach(E, 1, n, F, W)
    BY <2>7, <2>8, Single, Zenon
  <2> QED BY <2>1, <2>9
<1>7. ASSUME block = "NrziEncode" PROVE Good
  <2> DEFINE f == [k \in 1..n |-> Cardinality({ j \in 1..k : x[1].v[j] = 0 }) % 2]
  <2>1. n = Whole(x) /\ SyncOutputs(block) = 1
    BY <1>7 DEF Usable, SyncInputs, SyncOutputs
  <2>2. \A k \in 1..n : F[k] = <<f[k]>>
    BY <1>7 DEF SamplesAt
  <2> HIDE DEF n
  <2>3. E = Meaning(block, par, x)
    BY <1>1, <1>7 DEF Promise
  <2>4. E = NrziEncodeMeaning(x)
    BY <1>7, <2>3 DEF Meaning
  <2>5. NrziEncodeMeaning(x) = <<[v |-> f, t |-> W]>>
    BY <2>1, Zenon DEF NrziEncodeMeaning, Each, W
  <2>6. f = [k \in 1..n |-> f[k]]
    OBVIOUS
  <2> HIDE DEF f, F, E
  <2>7. OneByOne(n, F, f)
    BY <2>2, <2>6 DEF OneByOne
  <2>8. E = <<[v |-> f, t |-> W]>>
    BY <2>4, <2>5
  <2>9. GivesEach(E, 1, n, F, W)
    BY <2>7, <2>8, Single, Zenon
  <2> QED BY <2>1, <2>9
<1>8. ASSUME block = "Descrambler" PROVE Good
  <2> DEFINE f == [k \in 1..n |-> (x[1].v[k] + Cardinality({ j \in par.mask : At(par.seed \o x[1].v, k + j) = 1 })) % 2]
  <2>1. n = Whole(x) /\ SyncOutputs(block) = 1
    BY <1>8 DEF Usable, SyncInputs, SyncOutputs
  <2>2. \A k \in 1..n : F[k] = <<f[k]>>
    BY <1>8 DEF SamplesAt
  <2> HIDE DEF n
  <2>3. E = Meaning(block, par, x)
    BY <1>1, <1>8 DEF Promise
  <2>4. E = DescramblerMeaning(par, x)
    BY <1>8, <2>3 DEF Meaning
  <2>5. DescramblerMeaning(par, x) = <<[v |-> f, t |-> W]>>
    BY <2>1, Zenon DEF DescramblerMeaning, Each, W
  <2>6. f = [k \in 1..n |-> f[k]]
    OBVIOUS
  <2> HIDE DEF f, F, E
  <2>7. OneByOne(n, F, f)
    BY <2>2, <2>6 DEF OneByOne
  <2>8. E = <<[v |-> f, t |-> W]>>
    BY <2>4, <2>5
  <2>9. GivesEach(E, 1, n, F, W)
    BY <2>7, <2>8, Single, Zenon
  <2> QED BY <2>1, <2>9
<1>9. ASSUME block = "CorrelateAccessCode" PROVE Good
  <2> DEFINE f == [k \in 1..n |-> IF Misses(par, x[1].v, k) <= par.allowed_diffs THEN 1 ELSE 0]
  <2>1. n = Whole(x) /\ SyncOutputs(block) = 1
    BY <1>9 DEF Usable, SyncInputs, SyncOutputs
  <2>2. \A k \in 1..n : F[k] = <<f[k]>>
    BY <1>9 DEF SamplesAt
  <2> HIDE DEF n
  <2>3. E = Meaning(block, par, x)
    BY <1>1, <1>9 DEF Promise
  <2>4. E = CacMeaning(par, x)
    BY <1>9, <2>3 DEF Meaning
  <2>5. CacMeaning(par, x) = <<[v |-> f, t |-> W]>>
    BY <2>1, Zenon DEF CacMeaning, Each, W
  <2>6. f = [k \in 1..n |-> f[k]]
    OBVIOUS
  <2> HIDE DEF f, F, E
  <2>7. OneByOne(n, F, f)
    BY <2>2, <2>6 DEF OneByOne
  <2>8. E = <<[v |-> f, t |-> W]>>
    BY <2>4, <2>5
  <2>9. GivesEach(E, 1, n, F, W)
    BY <2>7, <2>8, Single, Zenon
  <2> QED BY <2>1, <2>9
<1>10. ASSUME block = "Add" PROVE Good
  <2> DEFINE f == [k \in 1..n |-> x[1].v[k] + x[2].v[k]]
  <2>1. n = BothWhole(x) /\ SyncOutputs(block) = 1
    BY <1>10 DEF Usable, SyncInputs, SyncOutputs
  <2>2. \A k \in 1..n : F[k] = <<f[k]>>
    BY <1>10 DEF SamplesAt
  <2> HIDE DEF n
  <2>3. E = <<[v |-> f, t |-> W]>>
    BY <1>1, <1>10, <2>1 DEF Promise, FirstOf, Plain, Each, W
  <2>6. f = [k \in 1..n |-> f[k]]
    OBVIOUS
  <2> HIDE DEF f, F, E
  <2>7. OneByOne(n, F, f)
    BY <2>2, <2>6 DEF OneByOne
  <2>8. E = <<[v |-> f, t |-> W]>>
    BY <2>3
  <2>9. GivesEach(E, 1, n, F, W)
    BY <2>7, <2>8, Single, Zenon
  <2> QED BY <2>1, <2>9
<1>11. ASSUME block = "AddConst" PROVE Good
  <2> DEFINE f == [k \in 1..n |-> x[1].v[k] + par.val]
  <2>1. n = Whole(x) /\ SyncOutputs(block) = 1
    BY <1>11 DEF Usable, SyncInputs, SyncOutputs
  <2>2. \A k \in 1..n : F[k] = <<f[k]>>
    BY <1>11 DEF SamplesAt
  <2> HIDE DEF n
  <2>3. E = <<[v |-> f, t |-> W]>>
    BY <1>1, <1>11, <2>1 DEF Promise, FirstOf, Plain, Each, W
  <2>6. f = [k \in 1..n |-> f[k]]
    OBVIOUS
  <2> HIDE DEF f, F, E
  <2>7. OneByOne(n, F, f)
    BY <2>2, <2>6 DEF OneByOne
  <2>8. E = <<[v |-> f, t |-> W]>>
    BY <2>3
  <2>9. GivesEach(E, 1, n, F, W)
    BY <2>7, <2>8, Single, Zenon
  <2> QED BY <2>1, <2>9
<1>12. ASSUME block = "MultiplyConst" PROVE Good
  <2> DEFINE f == [k \in 1..n |-> x[1].v[k] * par.val]
  <2>1. n = Whole(x) /\ SyncOutputs(block) = 1
    BY <1>12 DEF Usable, SyncInputs, SyncOutputs
  <2>2. \A k \in 1..n : F[k] = <<f[k]>>
    BY <1>12 DEF SamplesAt
  <2> HIDE DEF n
  <2>3. E = <<[v |-> f, t |-> W]>>
    BY <1>1, <1>12, <2>1 DEF Promise, FirstOf, Plain, Each, W
  <2>6. f = [k \in 1..n |-> f[k]]
    OBVIOUS
  <2> HIDE DEF f, F, E
  <2>7. OneByOne(n, F, f)
    BY <2>2, <2>6 DEF OneByOne
  <2>8. E = <<[v |-> f, t |-> W]>>
    BY <2>3
  <2>9. GivesEach(E, 1, n, F, W)
    BY <2>7, <2>8, Single, Zenon
  <2> QED BY <2>1, <2>9
<1>13. ASSUME block = "ComplexToMag2" PROVE Good
  <2> DEFINE f == [k \in 1..n |-> Times(x[1].v[k], conj(x[1].v[k]))[1]]
  <2>1. n = Whole(x) /\ SyncOutputs(block) = 1
    BY <1>13 DEF Usable, SyncInputs, SyncOutputs
  <2>2. \A k \in 1..n : F[k] = <<f[k]>>
    BY <1>13 DEF SamplesAt
  <2> HIDE DEF n
  <2>3. E = <<[v |-> f, t |-> W]>>
    BY <1>1, <1>13, <2>1 DEF Promise, FirstOf, Plain, Each, W
  <2>6. f = [k \in 1..n |-> f[k]]
    OBVIOUS
  <2> HIDE DEF f, F, E
  <2>7. OneByOne(n, F, f)
    BY <2>2, <2>6 DEF OneByOne
  <2>8. E = <<[v |-> f, t |-> W]>>
    BY <2>3
  <2>9. GivesEach(E, 1, n, F, W)
    BY <2>7, <2>8, Single, Zenon
  <2> QED BY <2>1, <2>9
<1>14. ASSUME block = "FastFM" PROVE Good
  <2> DEFINE z(k) == IF k < 1 THEN <<0, 0>> ELSE x[1].v[k]
             f == [k \in 1..n |-> (z(k)[2] - z(k - 2)[2]) * z(k - 1)[1] - (z(k)[1] - z(k - 2)[1]) * z(k - 1)[2]]
  <2>1. n = Whole(x) /\ SyncOutputs(block) = 1
    BY <1>14 DEF Usable, SyncInputs, SyncOutputs
  <2>2. \A k \in 1..n : F[k] = <<f[k]>>
    <3> SUFFICES ASSUME NEW k \in 1..n PROVE F[k] = <<f[k]>>
      OBVIOUS
    <3>1. z(k) = x[1].v[k]
      OBVIOUS
    <3>2. F[k] = <<(x[1].v[k][2] - z(k - 2)[2]) * z(k - 1)[1] - (x[1].v[k][1] - z(k - 2)[1]) * z(k - 1)[2]>>
      BY <1>14 DEF SamplesAt, Z
    <3> HIDE DEF z, F
    <3> QED BY <3>1, <3>2
  <2> HIDE DEF n
  <2>3. E = FastFMMeaning(x)
    BY <1>1, <1>14 DEF Promise
  <2>4. FastFMMeaning(x) = <<[v |-> f, t |-> W]>>
    BY <2>1, Zenon DEF FastFMMeaning, Each, W
  <2>5. f = [k \in 1..n |-> f[k]]
    OBVIOUS
  <2> HIDE DEF f, F, E
  <2>7. OneByOne(n, F, f)
    BY <2>2, <2>5 DEF OneByOne
  <2>8. E = <<[v |-> f, t |-> W]>>
    BY <2>3, <2>4
  <2>9. GivesEach(E, 1, n, F, W)
    BY <2>7, <2>8, Single, Zenon
  <2> QED BY <2>1, <2>9
<1>15. ASSUME block = "ComplexToFloat" PROVE Good
  <2> DEFINE f == [k \in 1..n |-> x[1].v[k][1]]
             g == [k \in 1..n |-> x[1].v[k][2]]
  <2>1. n = Whole(x) /\ SyncOutputs(block) = 2
    BY <1>15 DEF Usable, SyncInputs, SyncOutputs
  <2>2. \A k \in 1..n : F[k] = <<f[k], g[k]>>
    BY <1>15 DEF SamplesAt
  <2> HIDE DEF n
  <2>3. E = Meaning(block, par, x)
    BY <1>1, <1>15 DEF Promise
  <2>4. E = <<[v |-> f, t |-> W], [v |-> g, t |-> W]>>
    BY <1>15, <2>1, <2>3 DEF Meaning, Each, W
  <2>5. f = [k \in 1..n |-> F[k][1]] /\ g = [k \in 1..n |-> F[k][2]]
    <3>1. f = [k \in 1..n |-> f[k]] /\ g = [k \in 1..n |-> g[k]]
      OBVIOUS
    <3> HIDE DEF f, g, F
    <3> QED BY <2>2, <3>1
  <2> HIDE DEF f, g, F, E
  <2>6. E[1] = [v |-> [k \in 1..n |-> F[k][1]], t |-> W] /\ E[2] = [v |-> [k \in 1..n |-> F[k][2]], t |-> W]
    BY <2>4, <2>5
  <2>7. \A o \in 1..2 : o = 1 \/ o = 2
    OBVIOUS
  <2> QED BY <2>1, <2>6, <2>7 DEF GivesEach
<1>16. Good
  <2> HIDE DEF Good
  <2> QED BY <1>2, <1>3, <1>4, <1>5, <1>6, <1>7, <1>8, <1>9, <1>10, <1>11, <1>12, <1>13, <1>14, <1>15
          DEF Generated, SyncNames, MathNames
<1>17. \A k \in 1..n : \A o \in 1..SyncOutputs(block) : MarksAt(block, par, x, k)[o] = TagsAt(x[1], k)
  BY DEF MarksAt, SyncOutputs, Generated, SyncNames, MathNames
<1>18. W = UNION { {k} \X TagsAt(x[1], k) : k \in 1..n }
  BY TagsUpto DEF W
<1>19. ASSUME NEW o \in 1..SyncOutputs(block)
       PROVE  /\ E[o].v = [k \in 1..n |-> SamplesAt(block, par, x, k)[o]]
              /\ E[o].t = UNION { {k} \X MarksAt(block, par, x, k)[o] : k \in 1..n }
  <2> HIDE DEF n, E
  <2>1. W = UNION { {k} \X MarksAt(block, par, x, k)[o] : k \in 1..n }
    BY <1>17, <1>18
  <2>2. [k \in 1..n |-> F[k][o]] = [k \in 1..n |-> SamplesAt(block, par, x, k)[o]]
    OBVIOUS
  <2> HIDE DEF F
  <2>3. E[o] = [v |-> [k \in 1..n |-> F[k][o]], t |-> W]
    BY <1>16 DEF GivesEach
  <2> QED BY <2>1, <2>2, <2>3
<1> QED BY <1>19, Zenon DEF ExpectedIs, ExpectedAt

\* The blocks that pass their input on
LEMMA SameExpected ==
  ASSUME NEW block \in {"Tee", "Inspect", "Canary"}, NEW par, NEW x, Fits(block, par, x), NEW outs
  PROVE  ExpectedIs(block, par, x, outs)
<1> DEFINE n == Usable(block, x)
           E == Expected(block, par, x, outs)
<1>1. E = Promise(block, par, x)
  BY DEF Expected, Available, Delivered, FileSinks
<1>2. \A o \in 1..SyncOutputs(block) : E[o] = x[1]
  <2>1. CASE block = "Tee"
    <3>1. E = Meaning(block, par, x)
      BY <1>1, <2>1 DEF Promise
    <3>2. E = <<x[1], x[1]>> /\ SyncOutputs(block) = 2
      BY <2>1, <3>1 DEF Meaning, SyncOutputs
    <3>3. \A o \in 1..2 : <<x[1], x[1]>>[o] = x[1]
      OBVIOUS
    <3> QED BY <3>2, <3>3
  <2>2. CASE block \in {"Inspect", "Canary"}
    <3>1. E = <<x[1]>> /\ SyncOutputs(block) = 1
      BY <1>1, <2>2 DEF Promise, FirstOf, Plain, SyncOutputs
    <3>2. \A o \in 1..1 : <<x[1]>>[o] = x[1]
      OBVIOUS
    <3> QED BY <3>1, <3>2
  <2> QED BY <2>1, <2>2
<1>3. SyncInputs(block) = 1
  BY DEF SyncInputs
<1>4. x[1].v = [k \in 1..n |-> x[1].v[k]] /\ x[1].t = UNION { {k} \X TagsAt(x[1], k) : k \in 1..n }
  BY <1>3, TagsUpto
<1>5. \A k, o : o \in 1..SyncOutputs(block) =>
        SamplesAt(block, par, x, k)[o] = x[1].v[k] /\ MarksAt(block, par, x, k)[o] = TagsAt(x[1], k)
  BY SMTT(30) DEF SamplesAt, MarksAt, SyncOutputs
<1> HIDE DEF E
<1> SUFFICES ASSUME NEW o \in 1..SyncOutputs(block)
             PROVE  /\ E[o].v = [k \in 1..n |-> SamplesAt(block, par, x, k)[o]]
                    /\ E[o].t = UNION { {k} \X MarksAt(block, par, x, k)[o] : k \in 1..n }
  BY Zenon DEF ExpectedIs, ExpectedAt, E
<1> HIDE DEF n
<1>6. [k \in 1..n |-> SamplesAt(block, par, x, k)[o]] = [k \in 1..n |-> x[1].v[k]]
  BY <1>5
<1>7. UNION { {k} \X MarksAt(block, par, x, k)[o] : k \in 1..n } = UNION { {k} \X TagsAt(x[1], k) : k \in 1..n }
  BY <1>5
<1> QED BY <1>2, <1>4, <1>6, <1>7

\* Map: of the tags, those that are dropped are missing.
LEMMA MapExpected ==
  ASSUME NEW block, block = "Map", NEW par, NEW x, Fits(block, par, x), NEW outs
  PROVE  ExpectedIs(block, par, x, outs)
<1> DEFINE n == Usable(block, x)
           E == Expected(block, par, x, outs)
           W == Within(x[1].t, n)
           f == [k \in 1..n |-> par.map[x[1].v[k]]]
<1>1. E = Promise(block, par, x)
  BY DEF Expected, Available, Delivered, FileSinks
<1>2. n = Whole(x) /\ SyncOutputs(block) = 1
  BY DEF Usable, SyncInputs, SyncOutputs
<1>3. W = UNION { {k} \X TagsAt(x[1], k) : k \in 1..n }
  BY TagsUpto
<1> HIDE DEF W, n
<1>4. E = <<[[v |-> f, t |-> W] EXCEPT !.t = { p \in @ : p[2] \notin par.drops }]>>
  BY <1>1, <1>2 DEF Promise, FirstOf, Plain, Each, W
<1>5. \A k : SamplesAt(block, par, x, k) = <<par.map[x[1].v[k]]>>
        /\ MarksAt(block, par, x, k) = <<TagsAt(x[1], k) \ par.drops>>
  BY DEF SamplesAt, MarksAt
<1>6. E[1].v = [k \in 1..n |-> SamplesAt(block, par, x, k)[1]]
  <2>1. E[1].v = f
    <3> HIDE DEF f, E
    <3> QED BY <1>4
  <2> HIDE DEF E
  <2> QED BY <1>5, <2>1
<1>7. E[1].t = UNION { {k} \X MarksAt(block, par, x, k)[1] : k \in 1..n }
  <2>1. E[1].t = { p \in W : p[2] \notin par.drops }
    BY <1>4
  <2>2. { p \in W : p[2] \notin par.drops } = UNION { {k} \X (TagsAt(x[1], k) \ par.drops) : k \in 1..n }
    BY <1>3
  <2>3. \A k : MarksAt(block, par, x, k)[1] = TagsAt(x[1], k) \ par.drops
    BY <1>5
  <2> HIDE DEF E
  <2> QED BY <2>1, <2>2, <2>3
<1>8. ExpectedAt(block, par, x, outs, 1)
  BY <1>6, <1>7, Zenon DEF ExpectedAt, n
<1>9. \A o \in 1..1 : o = 1
  OBVIOUS
<1> QED BY <1>2, <1>8, <1>9 DEF ExpectedIs

\* BurstTagger: samples as they came, and another tag where the trigger crosses the threshold.
LEMMA BurstTaggerExpected ==
  ASSUME NEW block, block = "BurstTagger", NEW par, NEW x, Fits(block, par, x), NEW outs
  PROVE  ExpectedIs(block, par, x, outs)
<1> DEFINE n == Usable(block, x)
           E == Expected(block, par, x, outs)
           W == Within(x[1].t, n)
           On_(k) == k \in 1..n /\ x[2].v[k] > par.threshold
           turns == { k \in 1..n : On_(k) # On_(k - 1) }
           T == { <<k, Burst(On_(k))>> : k \in turns }
<1>1. E = Promise(block, par, x)
  BY DEF Expected, Available, Delivered, FileSinks
<1>2. n = BothWhole(x) /\ SyncOutputs(block) = 1
  BY DEF Usable, SyncInputs, SyncOutputs
<1>3. W = UNION { {k} \X TagsAt(x[1], k) : k \in 1..n } /\ n \in Nat
  BY TagsUpto
<1>4. x[1].v \in Seq(SyncSample(block)) /\ n <= Len(x[1].v)
  BY DEF Fits, IsWindow, SyncInputs, Usable, BothWhole, Smaller
<1>5. Take(x[1].v, n) = [k \in 1..n |-> x[1].v[k]]
  <2> HIDE DEF n
  <2> QED BY <1>3, <1>4 DEF Take
<1> HIDE DEF n
<1>6. BurstTaggerMeaning(par, x) = <<[v |-> Take(x[1].v, n), t |-> W \cup T]>>
  BY <1>2, Zenon DEF BurstTaggerMeaning
<1> HIDE DEF W, T
<1>7. E = <<[v |-> Take(x[1].v, n), t |-> W \cup T]>>
  <2>1. E = Meaning(block, par, x)
    BY <1>1 DEF Promise
  <2>2. E = BurstTaggerMeaning(par, x)
    BY <2>1 DEF Meaning
  <2> QED BY <1>6, <2>2
<1> DEFINE B(k) == IF On(par, x, k) # On(par, x, k - 1) THEN {Burst(On(par, x, k))} ELSE {}
<1>8. \A k : SamplesAt(block, par, x, k)[1] = x[1].v[k] /\ MarksAt(block, par, x, k)[1] = TagsAt(x[1], k) \cup B(k)
  BY DEF SamplesAt, MarksAt
<1>9. T = UNION { {k} \X B(k) : k \in 1..n }
  <2>1. \A k \in 0..n : On_(k) = On(par, x, k)
    BY <1>3 DEF On
  <2> HIDE DEF On_
  <2>2. \A k \in 1..n : k \in 0..n /\ k - 1 \in 0..n
    BY <1>3
  <2>3. \A k \in 1..n : B(k) = IF k \in turns THEN {Burst(On_(k))} ELSE {}
    <3> SUFFICES ASSUME NEW k \in 1..n PROVE B(k) = IF k \in turns THEN {Burst(On_(k))} ELSE {}
      OBVIOUS
    <3>1. On_(k) = On(par, x, k) /\ On_(k - 1) = On(par, x, k - 1)
      BY <2>1, <2>2
    <3>2. k \in turns <=> On_(k) # On_(k - 1)
      OBVIOUS
    <3> HIDE DEF turns
    <3> QED BY <3>1, <3>2, Zenon
  <2> HIDE DEF B, turns
  <2>4. turns \subseteq 1..n
    BY DEF turns
  <2> QED BY <2>3, <2>4 DEF T
<1>10. E[1].v = [k \in 1..n |-> SamplesAt(block, par, x, k)[1]]
  <2> HIDE DEF E, B
  <2> QED BY <1>5, <1>7, <1>8
<1>11. E[1].t = UNION { {k} \X MarksAt(block, par, x, k)[1] : k \in 1..n }
  <2> HIDE DEF E, B
  <2>1. E[1].t = W \cup T
    BY <1>7
  <2> QED BY <1>3, <1>8, <1>9, <2>1
<1>12. ExpectedAt(block, par, x, outs, 1)
  BY <1>10, <1>11, Zenon DEF ExpectedAt, n
<1>13. \A o \in 1..1 : o = 1
  OBVIOUS
<1> QED BY <1>2, <1>12, <1>13 DEF ExpectedIs

\* CorrelateAccessCodeTag: samples as they came, and another tag where the code ends.
LEMMA CacTagExpected ==
  ASSUME NEW block, block = "CorrelateAccessCodeTag", NEW par, NEW x, Fits(block, par, x), NEW outs
  PROVE  ExpectedIs(block, par, x, outs)
<1> DEFINE n == Usable(block, x)
           E == Expected(block, par, x, outs)
           d(k) == Misses(par, x[1].v, k)
           hits == { k \in 1..n : d(k) <= par.allowed_diffs }
           T == { <<k, <<"sync", d(k)>>>> : k \in hits }
<1>1. E = Promise(block, par, x)
  BY DEF Expected, Available, Delivered, FileSinks
<1>2. n = Whole(x) /\ SyncOutputs(block) = 1 /\ SyncInputs(block) = 1
  BY DEF Usable, SyncInputs, SyncOutputs
<1>3. x[1].t = UNION { {k} \X TagsAt(x[1], k) : k \in 1..n } /\ x[1].v = [k \in 1..n |-> x[1].v[k]]
  BY <1>2, TagsUpto
<1> HIDE DEF n
<1>4. CacTagMeaning(par, x) = <<[v |-> x[1].v, t |-> x[1].t \cup T]>>
  BY <1>2, Zenon DEF CacTagMeaning
<1> HIDE DEF T
<1>5. E = <<[v |-> x[1].v, t |-> x[1].t \cup T]>>
  <2>1. E = Meaning(block, par, x)
    BY <1>1 DEF Promise
  <2>2. E = CacTagMeaning(par, x)
    BY <2>1 DEF Meaning
  <2> QED BY <1>4, <2>2
<1> DEFINE B(k) == IF d(k) <= par.allowed_diffs THEN {<<"sync", d(k)>>} ELSE {}
<1>6. \A k : SamplesAt(block, par, x, k)[1] = x[1].v[k] /\ MarksAt(block, par, x, k)[1] = TagsAt(x[1], k) \cup B(k)
  BY DEF SamplesAt, MarksAt
<1>7. T = UNION { {k} \X B(k) : k \in 1..n }
  BY DEF T
<1>8. E[1].v = [k \in 1..n |-> SamplesAt(block, par, x, k)[1]]
  <2> HIDE DEF E, B
  <2> QED BY <1>3, <1>5, <1>6
<1>9. E[1].t = UNION { {k} \X MarksAt(block, par, x, k)[1] : k \in 1..n }
  <2> HIDE DEF E, B
  <2>1. E[1].t = x[1].t \cup T
    BY <1>5
  <2> QED BY <1>3, <1>6, <1>7, <2>1
<1>10. ExpectedAt(block, par, x, outs, 1)
  BY <1>8, <1>9, Zenon DEF ExpectedAt, n
<1>11. \A o \in 1..1 : o = 1
  OBVIOUS
<1> QED BY <1>2, <1>10, <1>11 DEF ExpectedIs

\* Every block is to make of its input, at each place, what SamplesAt and MarksAt say.
LEMMA AllExpected ==
  ASSUME NEW block \in Generated, NEW par, NEW x, Fits(block, par, x), NEW outs
  PROVE  ExpectedIs(block, par, x, outs)
BY EachExpected, SameExpected, MapExpected, BurstTaggerExpected, CacTagExpected

\* What came of each input so far
Came(x, b) == [i \in DOMAIN x |-> Cut(x[i], 0, b[i])]

\* It is an input, too, and of what is usable nothing is different.
LEMMA CameIs ==
  ASSUME NEW block, NEW par, NEW x, Fits(block, par, x), NEW b \in [DOMAIN x -> Nat],
         \A i \in DOMAIN x : b[i] <= Len(x[i].v)
  PROVE  LET y == Came(x, b)
         IN  /\ Fits(block, par, y) /\ Usable(block, y) \in Nat
             /\ \A i \in DOMAIN x : /\ Len(y[i].v) = b[i] /\ Usable(block, y) <= b[i]
                                    /\ \A k \in 1..Usable(block, y) :
                                         y[i].v[k] = x[i].v[k] /\ TagsAt(y[i], k) = TagsAt(x[i], k)
             /\ \E i \in DOMAIN x : Usable(block, y) = b[i]
<1> DEFINE y == Came(x, b)
<1>1. DOMAIN y = DOMAIN x /\ \A i \in DOMAIN x : y[i] = Cut(x[i], 0, b[i])
  BY DEF Came
<1>2. DOMAIN x = 1..SyncInputs(block) /\ SyncInputs(block) \in {1, 2}
  BY DEF Fits, SyncInputs
<1> HIDE DEF y
<1>3. ASSUME NEW i \in DOMAIN x
      PROVE  /\ IsWindow(y[i], SyncSample(block)) /\ Len(y[i].v) = b[i]
             /\ \A k \in 1..b[i] : y[i].v[k] = x[i].v[k] /\ TagsAt(y[i], k) = TagsAt(x[i], k)
  <2>1. IsWindow(x[i], SyncSample(block)) /\ b[i] \in Nat /\ b[i] <= Len(x[i].v)
    BY DEF Fits
  <2>2. /\ y[i].v \in Seq(SyncSample(block)) /\ Len(y[i].v) = b[i]
        /\ \A k \in 1..b[i] : y[i].v[k] = x[i].v[k] /\ TagsAt(y[i], k) = TagsAt(x[i], k)
        /\ y[i].t = { p \in x[i].t : p[1] <= b[i] }
    BY <1>1, <2>1, StartIs
  <2>3. IsFiniteSet(x[i].t) /\ \A p \in x[i].t : p = <<p[1], p[2]>> /\ p[1] \in 1..Len(x[i].v)
    BY <2>1 DEF IsWindow
  <2>4. IsFiniteSet(y[i].t)
    BY <2>2, <2>3, FS_Subset
  <2>5. \A p \in y[i].t : p = <<p[1], p[2]>> /\ p[1] \in DOMAIN y[i].v
    BY <2>1, <2>2, <2>3
  <2> QED BY <2>2, <2>4, <2>5 DEF IsWindow
<1>4. Fits(block, par, y)
  BY <1>1, <1>2, <1>3 DEF Fits
<1> DEFINE n == Usable(block, y)
<1>5. n = IF SyncInputs(block) = 2 THEN Smaller(b[1], b[2]) ELSE b[1]
  BY <1>2, <1>3 DEF Usable, Whole, BothWhole
<1>6. n \in Nat /\ (\A i \in DOMAIN x : n <= b[i]) /\ \E i \in DOMAIN x : n = b[i]
  <2>1. CASE SyncInputs(block) = 1
    <3>1. DOMAIN x = {1} /\ b[1] \in Nat
      BY <1>2, <2>1
    <3> QED BY <1>5, <2>1, <3>1
  <2>2. CASE SyncInputs(block) = 2
    <3>1. DOMAIN x = {1, 2} /\ b[1] \in Nat /\ b[2] \in Nat
      BY <1>2, <2>2
    <3> QED BY <1>5, <2>2, <3>1 DEF Smaller
  <2> QED BY <1>2, <2>1, <2>2
<1> HIDE DEF n
<1>7. ASSUME NEW i \in DOMAIN x, NEW k \in 1..n PROVE y[i].v[k] = x[i].v[k] /\ TagsAt(y[i], k) = TagsAt(x[i], k)
  <2>1. k \in 1..b[i]
    BY <1>6
  <2> QED BY <1>3, <2>1
<1> QED BY <1>3, <1>4, <1>6, <1>7 DEF n, y

\* What a sample gives does not depend on those after it.
LEMMA Causal ==
  ASSUME NEW block \in Generated, NEW par, NEW x, Fits(block, par, x), NEW b \in [DOMAIN x -> Nat],
         \A i \in DOMAIN x : b[i] <= Len(x[i].v), NEW k \in 1..Usable(block, Came(x, b))
  PROVE  /\ SamplesAt(block, par, Came(x, b), k) = SamplesAt(block, par, x, k)
         /\ MarksAt(block, par, Came(x, b), k) = MarksAt(block, par, x, k)
<1> DEFINE y == Came(x, b)
           n == Usable(block, y)
<1>1. 1 \in DOMAIN x /\ (SyncInputs(block) = 2 => 2 \in DOMAIN x)
  BY DEF Fits, SyncInputs
<1>2. Fits(block, par, y) /\ n \in Nat
        /\ \A i \in DOMAIN x : /\ Len(y[i].v) = b[i] /\ n <= b[i]
                               /\ \A j \in 1..n : y[i].v[j] = x[i].v[j] /\ TagsAt(y[i], j) = TagsAt(x[i], j)
  BY CameIs
<1>3. n \in Nat /\ \A j \in 1..n : y[1].v[j] = x[1].v[j] /\ TagsAt(y[1], j) = TagsAt(x[1], j)
                     /\ (SyncInputs(block) = 2 => y[2].v[j] = x[2].v[j])
  BY <1>1, <1>2
<1>4. x[1].v \in Seq(SyncSample(block)) /\ y[1].v \in Seq(SyncSample(block))
        /\ n <= Len(x[1].v) /\ n <= Len(y[1].v)
  <2>1. x[1].v \in Seq(SyncSample(block)) /\ b[1] <= Len(x[1].v) /\ b[1] \in Nat
    BY <1>1 DEF Fits, IsWindow
  <2>2. y[1].v \in Seq(SyncSample(block)) /\ n <= b[1] /\ Len(y[1].v) = b[1]
    <3> HIDE DEF n
    <3>1. DOMAIN y = DOMAIN x
      BY DEF Came
    <3> QED BY <1>1, <1>2, <3>1 DEF Fits, IsWindow
  <2> HIDE DEF y, n
  <2> QED BY <1>3, <2>1, <2>2
<1> HIDE DEF y, n
<1>5. \A j \in Int : j <= n => At(y[1].v, j) = At(x[1].v, j)
  BY <1>3, <1>4 DEF At
<1>6. k \in 1..n /\ y[1].v[k] = x[1].v[k] /\ TagsAt(y[1], k) = TagsAt(x[1], k)
        /\ (SyncInputs(block) = 2 => y[2].v[k] = x[2].v[k])
  BY <1>3 DEF n, y
<1>7. CASE block \in {"Tee", "Xor", "XorConst", "BinarySlicer", "FloatToComplex", "ComplexToFloat", "Add",
                     "AddConst", "MultiplyConst", "ComplexToMag2", "Map", "Inspect", "Canary"}
  <2>1. MarksAt(block, par, y, k) = MarksAt(block, par, x, k)
    BY <1>6, <1>7 DEF MarksAt
  <2>2. SyncInputs(block) = 2 \/ block \notin {"Xor", "FloatToComplex", "Add"}
    BY DEF SyncInputs
  <2>3. SamplesAt(block, par, y, k) = SamplesAt(block, par, x, k)
    BY <1>6, <1>7, <2>2 DEF SamplesAt
  <2> QED BY <2>1, <2>3 DEF y
<1>8. CASE block = "NrziDecode"
  <2>1. k - 1 \in Int /\ k - 1 <= n
    BY <1>3, <1>6
  <2> QED BY <1>5, <1>6, <1>8, <2>1 DEF SamplesAt, MarksAt, y
<1>9. CASE block = "NrziEncode"
  <2>1. { j \in 1..k : y[1].v[j] = 0 } = { j \in 1..k : x[1].v[j] = 0 }
    BY <1>3, <1>6
  <2>2. SamplesAt(block, par, y, k) = SamplesAt(block, par, x, k)
    BY <1>9, <2>1 DEF SamplesAt
  <2>3. MarksAt(block, par, y, k) = MarksAt(block, par, x, k)
    BY <1>6, <1>9 DEF MarksAt
  <2> QED BY <2>2, <2>3 DEF y
<1>10. CASE block = "Descrambler"
  <2> DEFINE s == par.seed
             T(v) == { j \in par.mask : At(s \o v, k + j) = 1 }
  <2>1. s \in Seq({0, 1}) /\ par.mask \subseteq 0..(Len(s) - 1)
    BY <1>10 DEF Fits, SyncPar
  <2>2. SyncSample(block) = {0, 1}
    BY <1>10 DEF SyncSample, BitBlocks
  <2>3. ASSUME NEW j \in par.mask PROVE At(s \o y[1].v, k + j) = At(s \o x[1].v, k + j)
    <3>1. k + j \in Int /\ (k + j) - Len(s) \in Int /\ (k + j) - Len(s) <= n
      BY <1>3, <1>6, <2>1
    <3>2. At(s \o y[1].v, k + j) = IF k + j \in 1..Len(s) THEN s[k + j] ELSE At(y[1].v, (k + j) - Len(s))
      BY <1>4, <2>1, <2>2, <3>1, JoinedAt
    <3>3. At(s \o x[1].v, k + j) = IF k + j \in 1..Len(s) THEN s[k + j] ELSE At(x[1].v, (k + j) - Len(s))
      BY <1>4, <2>1, <2>2, <3>1, JoinedAt
    <3> HIDE DEF s
    <3> QED BY <1>5, <3>1, <3>2, <3>3
  <2>4. T(y[1].v) = T(x[1].v)
    BY <2>3
  <2>5. SamplesAt(block, par, y, k) = <<(y[1].v[k] + Cardinality(T(y[1].v))) % 2>>
          /\ SamplesAt(block, par, x, k) = <<(x[1].v[k] + Cardinality(T(x[1].v))) % 2>>
    BY <1>10 DEF SamplesAt
  <2>6. MarksAt(block, par, y, k) = MarksAt(block, par, x, k)
    BY <1>6, <1>10 DEF MarksAt
  <2> HIDE DEF T
  <2> QED BY <1>6, <2>4, <2>5, <2>6 DEF y
<1>11. CASE block = "BurstTagger"
  <2>1. SyncInputs(block) = 2
    BY <1>11 DEF SyncInputs
  <2>2. On(par, y, k) = On(par, x, k) /\ On(par, y, k - 1) = On(par, x, k - 1)
    <3>1. k - 1 > 0 => k - 1 \in 1..n
      BY <1>3, <1>6
    <3> QED BY <1>3, <1>6, <2>1, <3>1 DEF On
  <2>3. MarksAt(block, par, y, k) = MarksAt(block, par, x, k)
    BY <1>6, <1>11, <2>2 DEF MarksAt
  <2>4. SamplesAt(block, par, y, k) = SamplesAt(block, par, x, k)
    BY <1>6, <1>11 DEF SamplesAt
  <2> QED BY <2>3, <2>4 DEF y
<1>12. CASE block \in {"CorrelateAccessCode", "CorrelateAccessCodeTag"}
  <2> DEFINE m == Len(par.code)
  <2>1. m \in Nat
    BY <1>12 DEF Fits, SyncPar
  <2>2. Misses(par, y[1].v, k) = Misses(par, x[1].v, k)
    <3>1. \A j \in 1..m : At(y[1].v, k - m + j) = At(x[1].v, k - m + j)
      <4>1. \A j \in 1..m : k - m + j \in Int /\ k - m + j <= n
        BY <1>3, <1>6, <2>1
      <4> HIDE DEF m
      <4> QED BY <1>5, <4>1
    <3>2. { j \in 1..m : At(y[1].v, k - m + j) # par.code[j] } = { j \in 1..m : At(x[1].v, k - m + j) # par.code[j] }
      BY <3>1
    <3> QED BY <3>2 DEF Misses
  <2>3. SamplesAt(block, par, y, k) = SamplesAt(block, par, x, k)
    BY <1>6, <1>12, <2>2 DEF SamplesAt
  <2>4. MarksAt(block, par, y, k) = MarksAt(block, par, x, k)
    BY <1>6, <1>12, <2>2 DEF MarksAt
  <2> QED BY <2>3, <2>4 DEF y
<1>13. CASE block = "FastFM"
  <2>1. \A j \in Int : j <= n => Z(y, j) = Z(x, j)
    BY <1>3 DEF Z
  <2>2. k - 1 \in Int /\ k - 2 \in Int /\ k - 1 <= n /\ k - 2 <= n
    BY <1>3, <1>6
  <2>3. Z(y, k - 1) = Z(x, k - 1) /\ Z(y, k - 2) = Z(x, k - 2)
    BY <2>1, <2>2
  <2>4. SamplesAt(block, par, y, k) = SamplesAt(block, par, x, k)
    BY <1>6, <1>13, <2>3 DEF SamplesAt
  <2>5. MarksAt(block, par, y, k) = MarksAt(block, par, x, k)
    BY <1>6, <1>13 DEF MarksAt
  <2> QED BY <2>4, <2>5 DEF y
<1> QED BY <1>7, <1>8, <1>9, <1>10, <1>11, <1>12, <1>13 DEF Generated, SyncNames, MathNames

-----------------------------------------------------------------------------
(* A call of work()                                                        *)

\* A set of numbers has a least one.
LEMMA LeastIs ==
  ASSUME NEW S, S \subseteq Nat, S # {}
  PROVE  Least(S) \in S /\ \A y \in S : Least(S) <= y
<1> DEFINE P == { n \in Nat : \A r \in SUBSET Nat : n \in r => \E x \in r : \A y \in r : x <= y }
           Q == { n \in Nat : 0..n \subseteq P }
<1>1. 0 \in P
  OBVIOUS
<1>2. 0 \in Q
  <2> HIDE DEF P
  <2>1. 0..0 = {0}
    OBVIOUS
  <2> QED BY <1>1, <2>1
<1>3. ASSUME NEW n \in Nat, n \in Q PROVE n + 1 \in Q
  <2>1. n + 1 \in P
    <3> SUFFICES ASSUME NEW r \in SUBSET Nat, n + 1 \in r PROVE \E x \in r : \A y \in r : x <= y
      OBVIOUS
    <3>1. CASE \E y \in r : y <= n
      <4>1. PICK y \in r : y \in 0..n
        BY <3>1
      <4>2. y \in P
        <5> HIDE DEF P
        <5> QED BY <1>3, <4>1
      <4> QED BY <4>1, <4>2
    <3>2. CASE ~ \E y \in r : y <= n
      <4>1. \A y \in r : n + 1 <= y
        BY <3>2
      <4> QED BY <4>1
    <3> QED BY <3>1, <3>2
  <2> HIDE DEF P
  <2>2. 0..(n + 1) = 0..n \cup {n + 1}
    OBVIOUS
  <2> QED BY <1>3, <2>1, <2>2
<1>4. Nat \subseteq Q
  <2> HIDE DEF Q
  <2> QED BY <1>2, <1>3, Inductive
<1>5. \A n \in Nat : n \in P
  <2> HIDE DEF P
  <2>1. \A n \in Nat : n \in 0..n
    OBVIOUS
  <2> QED BY <1>4, <2>1
<1>6. \E x \in S : \A y \in S : x <= y
  BY <1>5
<1> QED BY <1>6, Zenon DEF Least

\* What work() makes when n samples are gone and b[i] of input i are there: as
\* many more as all windows have, after which one of them has no more.
WorkOf(block, par, x, n, b, room) ==
  LET w == [i \in DOMAIN x |-> Cut(x[i], n, b[i])]
      m == Common(w, room)
      r == SyncBlocked(w, room, m)
  IN  /\ m \in Nat /\ (\A i \in DOMAIN x : n + m <= b[i]) /\ (\A o \in DOMAIN room : m <= room[o])
      /\ SyncWork(block, par, StateAt(block, par, x, n), w, room) =
           Did(StateAt(block, par, x, n + m), [i \in DOMAIN x |-> m],
               [o \in DOMAIN room |-> [k \in 1..m |-> SamplesAt(block, par, x, n + k)[o]]],
               [o \in DOMAIN room |-> UNION { {k} \X MarksAt(block, par, x, n + k)[o] : k \in 1..m }], r)
      /\ \/ \E i \in DOMAIN x : r = WaitIn(i, 1) /\ b[i] = n + m
         \/ \E o \in DOMAIN room : r = WaitOut(o, 1) /\ room[o] = m

\* Such a call moves that many.
LEMMA WorkIs ==
  ASSUME NEW block \in Generated, NEW par, NEW x, Fits(block, par, x),
         NEW room, DOMAIN room = 1..SyncOutputs(block), \A o \in DOMAIN room : room[o] \in Nat,
         NEW n \in Nat, NEW b \in [DOMAIN x -> Nat], \A i \in DOMAIN x : n <= b[i] /\ b[i] <= Len(x[i].v)
  PROVE  WorkOf(block, par, x, n, b, room)
<1> DEFINE w == [i \in DOMAIN x |-> Cut(x[i], n, b[i])]
           m == Common(w, room)
           r == SyncBlocked(w, room, m)
           A == { Len(w[i].v) : i \in DOMAIN w } \cup { room[o] : o \in DOMAIN room }
<1>1. ASSUME NEW i \in DOMAIN x
      PROVE  /\ Len(w[i].v) = b[i] - n
             /\ \A k \in 1..(b[i] - n) : w[i].v[k] = x[i].v[n + k] /\ TagsAt(w[i], k) = TagsAt(x[i], n + k)
  <2>1. IsWindow(x[i], SyncSample(block)) /\ b[i] \in Nat /\ n <= b[i] /\ b[i] <= Len(x[i].v)
    BY DEF Fits
  <2>2. w[i] = Cut(x[i], n, b[i])
    OBVIOUS
  <2>3. /\ Len(Cut(x[i], n, b[i]).v) = b[i] - n
        /\ \A k \in 1..(b[i] - n) : /\ Cut(x[i], n, b[i]).v[k] = x[i].v[n + k]
                                   /\ TagsAt(Cut(x[i], n, b[i]), k) = TagsAt(x[i], n + k)
    <3> DEFINE c == b[i]
               z == x[i]
    <3> HIDE DEF c, z
    <3>1. IsWindow(z, SyncSample(block)) /\ c \in Nat /\ n <= c /\ c <= Len(z.v)
      BY <2>1 DEF c, z
    <3>2. IsPiece(SyncSample(block), z, n, c)
      BY <3>1, CutIs
    <3> QED BY <3>2, Zenon DEF IsPiece, c, z
  <2> HIDE DEF w
  <2> QED BY <2>2, <2>3
<1>2. DOMAIN w = DOMAIN x /\ DOMAIN x = 1..SyncInputs(block) /\ SyncInputs(block) \in {1, 2} /\ 1 \in DOMAIN x
        /\ SyncOutputs(block) \in {1, 2}
  BY DEF Fits, SyncInputs, SyncOutputs
<1> HIDE DEF w
<1>3. m \in A /\ (\A y \in A : m <= y) /\ A \subseteq Nat
  <2>1. A \subseteq Nat /\ A # {}
    BY <1>1, <1>2
  <2>2. m = Least(A)
    BY DEF Common
  <2> HIDE DEF A, m
  <2> QED BY <2>1, <2>2, LeastIs
<1> HIDE DEF m
<1>4. m \in Nat /\ (\A i \in DOMAIN x : n + m <= b[i]) /\ (\A o \in DOMAIN room : m <= room[o])
  <2>1. \A i \in DOMAIN x : m <= Len(w[i].v)
    BY <1>2, <1>3
  <2>2. \A o \in DOMAIN room : m <= room[o]
    BY <1>3
  <2>3. m \in Nat
    BY <1>3
  <2> HIDE DEF A
  <2> QED BY <1>1, <2>1, <2>2, <2>3
<1>5. ASSUME NEW k \in 1..m
      PROVE  StepIs(block, par, x, n + k, [i \in DOMAIN w |-> w[i].v[k]], [i \in DOMAIN w |-> TagsAt(w[i], k)])
  <2> DEFINE xs == [i \in DOMAIN w |-> w[i].v[k]]
             ts == [i \in DOMAIN w |-> TagsAt(w[i], k)]
  <2>1. ASSUME NEW i \in DOMAIN x PROVE xs[i] = x[i].v[n + k] /\ ts[i] = TagsAt(x[i], n + k)
    <3>1. k \in 1..(b[i] - n)
      BY <1>4
    <3> QED BY <1>1, <1>2, <3>1
  <2>2. Seen(x, n + k, xs, ts)
    BY <1>2, <2>1 DEF Seen
  <2>3. n + k \in 1..Usable(block, x)
    <3>1. \A i \in DOMAIN x : n + k \in 1..Len(x[i].v)
      BY <1>4
    <3>2. 1 \in DOMAIN x /\ (SyncInputs(block) = 2 => 2 \in DOMAIN x)
      BY <1>2
    <3> QED BY <3>1, <3>2 DEF Usable, Whole, BothWhole, Smaller
  <2> HIDE DEF xs, ts
  <2>4. StepIs(block, par, x, n + k, xs, ts)
    BY <2>2, <2>3, ProcessIs
  <2> QED BY <2>4 DEF xs, ts
<1> DEFINE S == [j \in 0..m |-> StateAt(block, par, x, n + j)]
           Y == [k \in 1..m |-> SamplesAt(block, par, x, n + k)]
           M == [k \in 1..m |-> MarksAt(block, par, x, n + k)]
<1>6. ASSUME NEW k \in 1..m
      PROVE  LET p == process_sync_tags(block, par, S[k - 1], [i \in DOMAIN w |-> w[i].v[k]],
                                        [i \in DOMAIN w |-> TagsAt(w[i], k)])
             IN  p.st = S[k] /\ \A o \in DOMAIN room : p.ys[o] = Y[k][o] /\ p.ts[o] = M[k][o]
  <2>1. S[k - 1] = StateAt(block, par, x, (n + k) - 1) /\ S[k] = StateAt(block, par, x, n + k)
    <3>1. k - 1 \in 0..m /\ k \in 0..m /\ n + (k - 1) = (n + k) - 1
      BY <1>4
    <3> QED BY <3>1
  <2>2. Y[k] = SamplesAt(block, par, x, n + k) /\ M[k] = MarksAt(block, par, x, n + k)
    OBVIOUS
  <2> HIDE DEF S, Y, M
  <2> QED BY <1>5, <2>1, <2>2 DEF StepIs
<1> DEFINE all == Did(S[m], [i \in DOMAIN w |-> m], [o \in DOMAIN room |-> [k \in 1..m |-> Y[k][o]]],
                      [o \in DOMAIN room |-> UNION { {k} \X M[k][o] : k \in 1..m }], r)
<1>7. SyncWork(block, par, S[0], w, room) = all
  <2> HIDE DEF S, Y, M, r
  <2>1. StepByStep(block, par, w, room, S, Y, M)
    BY <1>6, Zenon DEF StepByStep, m
  <2>2. Common(w, room) \in Nat
    BY <1>4 DEF m
  <2>3. AllSteps(block, par, w, room, S, Y, M)
    BY <2>1, <2>2, SyncWorkIs
  <2> QED BY <2>3, Zenon DEF AllSteps, m, r
<1>8. S[0] = StateAt(block, par, x, n) /\ S[m] = StateAt(block, par, x, n + m)
  <2>1. 0 \in 0..m /\ m \in 0..m /\ n + 0 = n
    BY <1>4
  <2> QED BY <2>1
<1>9. [o \in DOMAIN room |-> [k \in 1..m |-> Y[k][o]]]
        = [o \in DOMAIN room |-> [k \in 1..m |-> SamplesAt(block, par, x, n + k)[o]]]
  OBVIOUS
<1>10. [o \in DOMAIN room |-> UNION { {k} \X M[k][o] : k \in 1..m }]
         = [o \in DOMAIN room |-> UNION { {k} \X MarksAt(block, par, x, n + k)[o] : k \in 1..m }]
  <2>1. ASSUME NEW o \in DOMAIN room
        PROVE  UNION { {k} \X M[k][o] : k \in 1..m } = UNION { {k} \X MarksAt(block, par, x, n + k)[o] : k \in 1..m }
    <3>1. \A k \in 1..m : M[k][o] = MarksAt(block, par, x, n + k)[o]
      OBVIOUS
    <3> HIDE DEF M
    <3> QED BY <3>1
  <2> HIDE DEF M
  <2> QED BY <2>1
<1>11. [i \in DOMAIN w |-> m] = [i \in DOMAIN x |-> m]
  BY <1>2
<1>12. \/ \E i \in DOMAIN x : r = WaitIn(i, 1) /\ b[i] = n + m
       \/ \E o \in DOMAIN room : r = WaitOut(o, 1) /\ room[o] = m
  <2> DEFINE dry  == { i \in DOMAIN w : Len(w[i].v) = m }
             full == { o \in DOMAIN room : room[o] = m }
  <2>1. r = IF dry # {} THEN WaitIn(Least(dry), 1) ELSE WaitOut(Least(full), 1)
    BY DEF SyncBlocked
  <2>2. dry # {} \/ full # {}
    BY <1>3
  <2>3. dry \subseteq Nat /\ full \subseteq Nat
    BY <1>2
  <2>4. CASE dry # {}
    <3>1. Least(dry) \in dry
      <4> HIDE DEF dry
      <4> QED BY <2>3, <2>4, LeastIs
    <3>2. Least(dry) \in DOMAIN x /\ Len(w[Least(dry)].v) = m
      <4> HIDE DEF m
      <4> QED BY <1>2, <3>1
    <3> HIDE DEF dry
    <3>3. b[Least(dry)] = n + m
      BY <1>1, <3>2
    <3> QED BY <2>1, <2>4, <3>2, <3>3
  <2>5. CASE dry = {}
    <3>1. Least(full) \in full
      <4> HIDE DEF dry, full
      <4> QED BY <2>2, <2>3, <2>5, LeastIs
    <3>2. Least(full) \in DOMAIN room /\ room[Least(full)] = m
      BY <3>1
    <3> HIDE DEF dry, full
    <3> QED BY <2>1, <2>5, <3>2
  <2> QED BY <2>4, <2>5
<1> HIDE DEF S, Y, M, r
<1>13. SyncWork(block, par, StateAt(block, par, x, n), w, room) =
         Did(StateAt(block, par, x, n + m), [i \in DOMAIN x |-> m],
             [o \in DOMAIN room |-> [k \in 1..m |-> SamplesAt(block, par, x, n + k)[o]]],
             [o \in DOMAIN room |-> UNION { {k} \X MarksAt(block, par, x, n + k)[o] : k \in 1..m }], r)
  BY <1>7, <1>8, <1>9, <1>10, <1>11, Zenon
<1> QED BY <1>4, <1>12, <1>13, Zenon DEF w, m, r, WorkOf

-----------------------------------------------------------------------------
(* The invariant: how much of the input is gone tells all the rest.        *)

Gone == eaten[1]

\* The tags of n samples, and their values
Marks(c, n, o) == UNION { {k} \X MarksAt(c.block, c.par, c.given, k)[o] : k \in 1..n }

Values(c, n) == [o \in Outs(c) |-> [k \in 1..n |-> SamplesAt(c.block, c.par, c.given, k)[o]]]

InputsSound ==
  /\ fed \in [Ins(case) -> Nat] /\ Gone \in Nat /\ eaten = [i \in Ins(case) |-> Gone]
  /\ \A i \in Ins(case) : Gone <= fed[i] /\ fed[i] <= Len(case.given[i].v) /\ fed[i] - Gone <= case.cap[i]

StateSound == st = StateAt(case.block, case.par, case.given, Gone)

OutputsSound ==
  /\ made = Values(case, Gone)
  /\ drained \in [Outs(case) -> Nat]
  /\ \A o \in Outs(case) : drained[o] <= Gone /\ Gone - drained[o] <= case.room[o]

TagsSound ==
  /\ DOMAIN tagged = Outs(case)
  /\ \A o \in Outs(case) :
       /\ tagged[o] \in Seq(Marks(case, Gone, o)) /\ ToSet(tagged[o]) = Marks(case, Gone, o)
       /\ Len(tagged[o]) = Cardinality(Marks(case, Gone, o))

RetSound ==
  /\ moved \in BOOLEAN
  /\ \/ ret = Again /\ moved
     \/ \E i \in Ins(case) : ret = WaitIn(i, 1)
     \/ \E o \in Outs(case) : ret = WaitOut(o, 1)

Sound ==
  /\ "block" \in DOMAIN case
  /\ case.block \in Generated =>
       case \in Cases /\ InputsSound /\ StateSound /\ OutputsSound /\ TagsSound /\ RetSound

\* What the assumption says of such a case
LEMMA CaseIs ==
  ASSUME NEW c \in Cases, c.block \in Generated
  PROVE  /\ Fits(c.block, c.par, c.given) /\ Ins(c) = 1..SyncInputs(c.block) /\ 1 \in Ins(c)
         /\ Outs(c) = 1..SyncOutputs(c.block)
         /\ (\A i \in Ins(c) : c.cap[i] \in Nat) /\ (\A o \in Outs(c) : c.room[o] \in Nat)
<1>1. c.block \in SyncNames
  BY DEF Generated
<1>2. /\ DOMAIN c.given = 1..SyncInputs(c.block)
      /\ \A i \in DOMAIN c.given : IsWindow(c.given[i], SyncSample(c.block))
      /\ c.cap \in [DOMAIN c.given -> Nat \ {0}]
      /\ c.room \in [1..SyncOutputs(c.block) -> Nat \ {0}]
      /\ SyncPar(c.block, c.par)
  BY <1>1, CasesAssumption, Zenon
<1>3. 1 \in 1..SyncInputs(c.block)
  BY DEF SyncInputs
<1> QED BY <1>2, <1>3 DEF Fits, Ins, Outs

\* The tags so far end, and those of later samples are others.
LEMMA MarksAre ==
  ASSUME NEW c \in Cases, c.block \in Generated, NEW o \in Outs(c), NEW n \in Nat, NEW m \in Nat
  PROVE  LET new == UNION { {k} \X MarksAt(c.block, c.par, c.given, n + k)[o] : k \in 1..m }
         IN  /\ IsFiniteSet(Marks(c, n, o)) /\ IsFiniteSet(Shifted(new, n))
             /\ Marks(c, n + m, o) = Marks(c, n, o) \cup Shifted(new, n)
             /\ Marks(c, n, o) \cap Shifted(new, n) = {}
<1> DEFINE T(k) == MarksAt(c.block, c.par, c.given, k)[o]
           new == UNION { {k} \X T(n + k) : k \in 1..m }
           later == UNION { {k} \X T(k) : k \in (n + 1)..(n + m) }
<1>1. \A k : IsFiniteSet(T(k))
  <2> SUFFICES ASSUME NEW k PROVE IsFiniteSet(T(k))
    OBVIOUS
  <2>1. IsFiniteSet(TagsAt(c.given[1], k))
    <3>1. IsWindow(c.given[1], SyncSample(c.block))
      BY CaseIs DEF Fits, Ins
    <3>2. 0 \in Nat
      OBVIOUS
    <3> QED BY <3>1, <3>2, TagsAre, Zenon
  <2> DEFINE t == TagsAt(c.given[1], k)
  <2> HIDE DEF t
  <2>2. \A e : IsFiniteSet(t \cup {e}) /\ IsFiniteSet(t \cup {}) /\ IsFiniteSet(t)
    <3>1. IsFiniteSet(t)
      BY <2>1 DEF t
    <3>2. \A e : IsFiniteSet(t \cup {e})
      BY <3>1, FS_AddElement
    <3>3. t \cup {} = t
      OBVIOUS
    <3> QED BY <3>1, <3>2, <3>3
  <2>3. \A S : IsFiniteSet(t \ S)
    BY <2>2, FS_Subset
  <2>4. o \in {1, 2} /\ (c.block \notin {"Tee", "ComplexToFloat"} => o = 1)
    BY CaseIs DEF SyncOutputs
  <2>5. CASE c.block \in {"Tee", "ComplexToFloat"}
    <3>1. MarksAt(c.block, c.par, c.given, k) = <<t, t>>
      BY <2>5, Zenon DEF MarksAt, t
    <3>2. T(k) = t
      BY <2>4, <3>1
    <3> HIDE DEF T
    <3> QED BY <2>2, <3>2
  <2>6. CASE c.block \notin {"Tee", "ComplexToFloat"}
    <3>1. o = 1
      BY <2>4, <2>6
    <3>2. CASE c.block = "BurstTagger"
      <4> DEFINE on == On(c.par, c.given, k) # On(c.par, c.given, k - 1)
                 e == Burst(On(c.par, c.given, k))
      <4>1. MarksAt(c.block, c.par, c.given, k) = <<t \cup (IF on THEN {e} ELSE {})>>
        BY <3>2 DEF MarksAt, t
      <4> HIDE DEF on, e
      <4>2. T(k) = t \cup (IF on THEN {e} ELSE {})
        BY <3>1, <4>1
      <4> HIDE DEF T
      <4>3. T(k) = t \cup {e} \/ T(k) = t \cup {}
        BY <4>2
      <4> QED BY <2>2, <4>3
    <3>3. CASE c.block = "CorrelateAccessCodeTag"
      <4> DEFINE on == Misses(c.par, c.given[1].v, k) <= c.par.allowed_diffs
                 e == <<"sync", Misses(c.par, c.given[1].v, k)>>
      <4>1. MarksAt(c.block, c.par, c.given, k) = <<t \cup (IF on THEN {e} ELSE {})>>
        BY <3>3 DEF MarksAt, t
      <4> HIDE DEF on, e
      <4>2. T(k) = t \cup (IF on THEN {e} ELSE {})
        BY <3>1, <4>1
      <4> HIDE DEF T
      <4>3. T(k) = t \cup {e} \/ T(k) = t \cup {}
        BY <4>2
      <4> QED BY <2>2, <4>3
    <3>4. CASE c.block = "Map"
      <4>1. MarksAt(c.block, c.par, c.given, k) = <<t \ c.par.drops>>
        BY <3>4 DEF MarksAt, t
      <4>2. T(k) = t \ c.par.drops
        BY <3>1, <4>1
      <4> HIDE DEF T
      <4> QED BY <2>3, <4>2
    <3>5. CASE c.block \notin {"BurstTagger", "CorrelateAccessCodeTag", "Map"}
      <4>1. MarksAt(c.block, c.par, c.given, k) = <<t>>
        BY <2>6, <3>5 DEF MarksAt, t
      <4>2. T(k) = t
        BY <3>1, <4>1
      <4> HIDE DEF T
      <4> QED BY <2>2, <4>2
    <3> QED BY <3>2, <3>3, <3>4, <3>5
  <2> QED BY <2>5, <2>6
<1> HIDE DEF T
<1>2. \A a, b \in Nat : IsFiniteSet(UNION { {k} \X T(k) : k \in a..b })
  <2> SUFFICES ASSUME NEW a \in Nat, NEW b \in Nat PROVE IsFiniteSet(UNION { {k} \X T(k) : k \in a..b })
    OBVIOUS
  <2> DEFINE f == [k \in a..b |-> {k} \X T(k)]
  <2>1. IsFiniteSet(a..b)
    BY FS_Interval
  <2>2. \A k \in a..b : IsFiniteSet({k} \X T(k))
    <3>1. \A k \in a..b : IsFiniteSet({k}) /\ IsFiniteSet(T(k))
      BY <1>1, FS_Singleton
    <3> QED BY <3>1, FS_Product
  <2>3. f \in Surjection(a..b, { f[k] : k \in a..b })
    BY DEF Surjection
  <2>4. IsFiniteSet({ f[k] : k \in a..b })
    <3> HIDE DEF f
    <3> QED BY <2>1, <2>3, FS_Surjection
  <2>5. IsFiniteSet(UNION { f[k] : k \in a..b })
    <3>1. \A s \in { f[k] : k \in a..b } : IsFiniteSet(s)
      BY <2>2
    <3> HIDE DEF f
    <3> QED BY <2>4, <3>1, FS_UNION
  <2>6. { f[k] : k \in a..b } = { {k} \X T(k) : k \in a..b }
    OBVIOUS
  <2> QED BY <2>5, <2>6
<1>3. IsFiniteSet(Marks(c, n, o))
  BY <1>2 DEF Marks, T
<1>4. Shifted(new, n) = later
  <2>1. ASSUME NEW p \in Shifted(new, n) PROVE p \in later
    <3>1. PICK q \in new : p = <<q[1] + n, q[2]>>
      BY DEF Shifted
    <3>2. PICK k \in 1..m : q \in {k} \X T(n + k)
      BY <3>1
    <3>3. p = <<n + k, q[2]>> /\ q[2] \in T(n + k) /\ n + k \in (n + 1)..(n + m)
      BY <3>1, <3>2
    <3> QED BY <3>3
  <2>2. ASSUME NEW p \in later PROVE p \in Shifted(new, n)
    <3>1. PICK k \in (n + 1)..(n + m) : p \in {k} \X T(k)
      OBVIOUS
    <3>2. k - n \in 1..m /\ n + (k - n) = k /\ (k - n) + n = k
      OBVIOUS
    <3>3. <<k - n, p[2]>> \in {k - n} \X T(n + (k - n))
      BY <3>1, <3>2
    <3>4. <<k - n, p[2]>> \in new
      BY <3>2, <3>3
    <3>5. p = <<<<k - n, p[2]>>[1] + n, <<k - n, p[2]>>[2]>>
      BY <3>1, <3>2
    <3> HIDE DEF new
    <3> QED BY <3>4, <3>5 DEF Shifted
  <2> QED BY <2>1, <2>2
<1>5. IsFiniteSet(later)
  <2>1. n + 1 \in Nat /\ n + m \in Nat
    OBVIOUS
  <2> QED BY <1>2, <2>1
<1>6. Marks(c, n + m, o) = Marks(c, n, o) \cup later
  <2>1. 1..(n + m) = 1..n \cup (n + 1)..(n + m)
    OBVIOUS
  <2>2. UNION { {k} \X T(k) : k \in 1..(n + m) } = (UNION { {k} \X T(k) : k \in 1..n }) \cup later
    BY <2>1
  <2> QED BY <2>2 DEF Marks, T
<1>7. Marks(c, n, o) \cap later = {}
  <2>1. \A p \in Marks(c, n, o) : p[1] <= n
    <3>1. Marks(c, n, o) = UNION { {k} \X T(k) : k \in 1..n }
      BY DEF Marks, T
    <3> QED BY <3>1
  <2>2. \A p \in later : p[1] > n
    OBVIOUS
  <2>3. \A p \in later : p[1] \in Nat
    OBVIOUS
  <2>4. \A j \in Nat : ~(j <= n /\ j > n)
    OBVIOUS
  <2> HIDE DEF later
  <2> QED BY <2>1, <2>2, <2>3, <2>4
<1> HIDE DEF later
<1> QED BY <1>3, <1>4, <1>5, <1>6, <1>7 DEF T

\* A state with other fields is not that of a block that could not be built.
LEMMA Unbuilt == \A s : "built" \notin DOMAIN s => s # NotBuilt
BY DEF NotBuilt

\* new() makes the state before the first sample, and always makes one.
LEMMA FreshIs ==
  ASSUME NEW block \in Generated, NEW par, NEW x, Fits(block, par, x)
  PROVE  SyncStart(block, par) = StateAt(block, par, x, 0) /\ SyncStart(block, par) # NotBuilt
<1>1. x[1].v \in Seq(SyncSample(block)) /\ \A k \in Int : k <= 0 => At(x[1].v, k) = 0
  <2>1. 1 \in DOMAIN x
    BY DEF Fits, SyncInputs
  <2>2. x[1].v \in Seq(SyncSample(block))
    BY <2>1 DEF Fits, IsWindow
  <2> QED BY <2>2 DEF At
<1> DEFINE first == StateAt(block, par, x, 0)
           new == SyncStart(block, par)
<1>2. CASE block = "NrziDecode"
  <2>1. At(x[1].v, 0) = 0
    BY <1>1
  <2>2. first = [last |-> At(x[1].v, 0)] /\ new = [last |-> 0]
    BY <1>2 DEF SyncStart, StateAt, MathNames
  <2> HIDE DEF first, new
  <2>9. first = new
    BY <2>1, <2>2
  <2>10. "built" \notin DOMAIN new
    BY <2>1, <2>2
  <2> QED BY <2>9, <2>10, Unbuilt DEF first, new
<1>3. CASE block = "NrziEncode"
  <2> DEFINE c == Cardinality({ j \in 1..0 : x[1].v[j] = 0 }) % 2
  <2>1. { j \in 1..0 : x[1].v[j] = 0 } = {}
    OBVIOUS
  <2>2. c = 0
    BY <2>1, FS_EmptySet
  <2>3. first = [last |-> c] /\ new = [last |-> 0]
    BY <1>3 DEF SyncStart, StateAt, MathNames
  <2> HIDE DEF first, new, c
  <2>9. first = new
    BY <2>2, <2>3
  <2>10. "built" \notin DOMAIN new
    BY <2>2, <2>3
  <2> QED BY <2>9, <2>10, Unbuilt DEF first, new
<1>4. CASE block = "Descrambler"
  <2> DEFINE reg == [j \in 1..Len(par.seed) |-> At(par.seed \o x[1].v, 0 + j)]
  <2>1. par.seed \in Seq({0, 1})
    BY <1>4 DEF Fits, SyncPar
  <2>2. \A j \in 1..Len(par.seed) : At(par.seed \o x[1].v, 0 + j) = par.seed[j]
    <3>1. x[1].v \in Seq({0, 1})
      BY <1>1, <1>4 DEF SyncSample, BitBlocks
    <3> DEFINE p == par.seed  v == x[1].v
    <3> HIDE DEF p, v
    <3>2. p \in Seq({0, 1}) /\ v \in Seq({0, 1})
      BY <2>1, <3>1 DEF p, v
    <3>3. \A j \in 1..Len(p) : At(p \o v, 0 + j) = p[j]
      BY <3>2 DEF At
    <3> QED BY <3>3 DEF p, v
  <2>3. par.seed = reg
    BY <2>1, <2>2
  <2>4. first = [reg |-> reg] /\ new = [reg |-> par.seed]
    BY <1>4 DEF SyncStart, StateAt, MathNames
  <2> HIDE DEF first, new, reg
  <2>9. first = new
    BY <2>3, <2>4
  <2>10. "built" \notin DOMAIN new
    BY <2>3, <2>4
  <2> QED BY <2>9, <2>10, Unbuilt DEF first, new
<1>5. CASE block = "BurstTagger"
  <2>1. On(par, x, 0) = FALSE
    BY DEF On
  <2>2. first = [last |-> On(par, x, 0)] /\ new = [last |-> FALSE]
    BY <1>5 DEF SyncStart, StateAt, MathNames
  <2> HIDE DEF first, new
  <2>9. first = new
    BY <2>1, <2>2
  <2>10. "built" \notin DOMAIN new
    BY <2>1, <2>2
  <2> QED BY <2>9, <2>10, Unbuilt DEF first, new
<1>6. CASE block \in {"CorrelateAccessCode", "CorrelateAccessCodeTag"}
  <2> DEFINE slide == [j \in 1..Len(par.code) |-> At(x[1].v, 0 - Len(par.code) + j)]
             zeros == [j \in DOMAIN par.code |-> 0]
  <2>1. par.code \in Seq({0, 1})
    BY <1>6 DEF Fits, SyncPar
  <2>2. \A j \in 1..Len(par.code) : At(x[1].v, 0 - Len(par.code) + j) = 0
    BY <1>1, <2>1
  <2>3. zeros = slide
    BY <2>1, <2>2
  <2>4. first = [slide |-> slide] /\ new = [slide |-> zeros]
    BY <1>6 DEF SyncStart, StateAt, MathNames
  <2> HIDE DEF first, new, slide, zeros
  <2>9. first = new
    BY <2>3, <2>4
  <2>10. "built" \notin DOMAIN new
    BY <2>3, <2>4
  <2> QED BY <2>9, <2>10, Unbuilt DEF first, new
<1>7. CASE block = "FastFM"
  <2>1. Z(x, 0) = <<0, 0>> /\ Z(x, 0 - 1) = <<0, 0>>
    BY DEF Z
  <2>2. first = [q1 |-> Z(x, 0), q2 |-> Z(x, 0 - 1)] /\ new = [q1 |-> <<0, 0>>, q2 |-> <<0, 0>>]
    BY <1>7 DEF SyncStart, StateAt, MathStart, MathNames
  <2> HIDE DEF first, new
  <2>9. first = new
    BY <2>1, <2>2
  <2>10. "built" \notin DOMAIN new
    BY <2>1, <2>2
  <2> QED BY <2>9, <2>10, Unbuilt DEF first, new
<1>8. CASE block = "Inspect"
  <2> DEFINE seen == [j \in 1..0 |-> <<x[1].v[j], TagsAt(x[1], j)>>]
  <2>1. <<>> = seen
    OBVIOUS
  <2>2. first = [seen |-> seen] /\ new = [seen |-> <<>>]
    BY <1>8 DEF SyncStart, StateAt, MathStart, MathNames
  <2> HIDE DEF first, new, seen
  <2>9. first = new
    BY <2>1, <2>2
  <2>10. "built" \notin DOMAIN new
    BY <2>1, <2>2
  <2> QED BY <2>9, <2>10, Unbuilt DEF first, new
<1>9. CASE block \in Generated \ {"NrziDecode", "NrziEncode", "Descrambler", "BurstTagger", "CorrelateAccessCode",
                                  "CorrelateAccessCodeTag", "FastFM", "Inspect"}
  <2>1. StateAt(block, par, x, 0) = SyncStart(block, par)
    BY <1>9 DEF StateAt
  <2>2. SyncStart(block, par) \in {[last |-> 0], [none |-> 0]}
    BY <1>9 DEF SyncStart, MathStart, MathNames, Generated
  <2> HIDE DEF new
  <2>3. "built" \notin DOMAIN new
    BY <2>2 DEF new
  <2> QED BY <2>1, <2>3, Unbuilt DEF new
<1> QED BY <1>2, <1>3, <1>4, <1>5, <1>6, <1>7, <1>8, <1>9

\* The invariant holds at the start.
LEMMA SoundFirst ==
  ASSUME Init
  PROVE  Sound
<1> SUFFICES ASSUME case.block \in Generated
             PROVE  case \in Cases /\ InputsSound /\ StateSound /\ OutputsSound /\ TagsSound /\ RetSound
  BY CasesAssumption DEF Init, Sound
<1>1. /\ case \in Cases /\ Fits(case.block, case.par, case.given) /\ 1 \in Ins(case)
      /\ \A i \in Ins(case) : case.cap[i] \in Nat /\ case.given[i].v \in Seq(SyncSample(case.block))
      /\ \A o \in Outs(case) : case.room[o] \in Nat
  <2>1. case \in Cases
    BY DEF Init
  <2> QED BY <2>1, CaseIs DEF Fits, IsWindow, Ins
<1>2. Gone = 0
  BY <1>1 DEF Init, Gone
<1>3. InputsSound
  <2>1. \A i \in Ins(case) : 0 <= Len(case.given[i].v)
    BY <1>1
  <2> QED BY <1>1, <1>2, <2>1 DEF Init, InputsSound
<1>4. st = SyncStart(case.block, case.par)
  <2>1. case.block \in SyncNames
    BY DEF Generated
  <2>2. case.block \notin {"Skip", "Delay", "RationalResampler", "AuEncode", "AuDecode", "StreamToPdu", "PduToStream",
                          "KissFrame", "HdlcDeframer", "Il2pDeframer", "VectorSource", "FileSource", "TcpSource",
                          "ReaderSource", "VectorSink", "VectorSinkNoCopy", "PduWriter", "Hasher", "FftFilter",
                          "Hilbert", "ZeroCrossing", "CmaEqualizer", "SymbolSync", "Strobe", "FftFilterFloat",
                          "SigMFSource", "UdpSource", "RtlSdrSource", "AudioSink", "SoapySdrSink", "SoapySdrSource"}
          /\ case.block \notin SignalSources /\ case.block \notin FileSinks
    BY <2>1 DEF SyncNames, MathNames, SignalSources, FileSinks
  <2> QED BY <2>1, <2>2 DEF Init, Start
<1>5. StateSound /\ st # NotBuilt
  BY <1>1, <1>2, <1>4, FreshIs DEF StateSound
<1>6. OutputsSound
  <2>1. \A o \in Outs(case) : [k \in 1..0 |-> SamplesAt(case.block, case.par, case.given, k)[o]] = <<>>
    OBVIOUS
  <2> QED BY <1>1, <1>2, <2>1 DEF Init, OutputsSound, Values
<1>7. TagsSound
  <2>1. \A o \in Outs(case) : Marks(case, 0, o) = {}
    BY DEF Marks
  <2>2. <<>> \in Seq({}) /\ ToSet(<<>>) = {} /\ Len(<<>>) = 0
    BY DEF ToSet
  <2> QED BY <1>2, <2>1, <2>2, FS_EmptySet DEF Init, TagsSound
<1>8. RetSound
  BY <1>5 DEF Init, RetSound
<1> QED BY <1>1, <1>3, <1>5, <1>6, <1>7, <1>8

\* Two parts of a row, one after the other
LEMMA JoinIs ==
  ASSUME NEW n \in Nat, NEW m \in Nat, NEW f
  PROVE  [k \in 1..n |-> f[k]] \o [k \in 1..m |-> f[n + k]] = [k \in 1..(n + m) |-> f[k]]
<1> DEFINE a == [k \in 1..n |-> f[k]]
           b == [k \in 1..m |-> f[n + k]]
           D == { f[k] : k \in 1..(n + m) }
<1>1. a \in Seq(D) /\ Len(a) = n
  OBVIOUS
<1>2. b \in Seq(D) /\ Len(b) = m
  <2>1. \A k \in 1..m : n + k \in 1..(n + m)
    OBVIOUS
  <2> QED BY <2>1
<1>3. \A k \in 1..(n + m) : (a \o b)[k] = f[k]
  <2> SUFFICES ASSUME NEW k \in 1..(n + m) PROVE (a \o b)[k] = f[k]
    OBVIOUS
  <2>1. CASE k <= n
    <3>1. k \in 1..n /\ a[k] = f[k]
      BY <2>1
    <3> HIDE DEF a, b, D
    <3> QED BY <1>1, <1>2, <3>1
  <2>2. CASE k > n
    <3>1. k - n \in 1..m /\ n + (k - n) = k
      BY <2>2
    <3>2. b[k - n] = f[k]
      BY <3>1
    <3> HIDE DEF a, b, D
    <3> QED BY <1>1, <1>2, <2>2, <3>1, <3>2
  <2> QED BY <2>1, <2>2
<1>4. (a \o b) \in Seq(D) /\ Len(a \o b) = n + m
  <2> HIDE DEF a, b, D
  <2> QED BY <1>1, <1>2
<1> HIDE DEF a, b
<1> QED BY <1>3, <1>4 DEF a, b

\* Two rows of different things, each once
LEMMA TogetherIs ==
  ASSUME NEW A, NEW B, IsFiniteSet(A), IsFiniteSet(B), A \cap B = {},
         NEW s \in Seq(A), NEW t \in Seq(B), ToSet(s) = A, ToSet(t) = B,
         Len(s) = Cardinality(A), Len(t) = Cardinality(B)
  PROVE  s \o t \in Seq(A \cup B) /\ ToSet(s \o t) = A \cup B /\ Len(s \o t) = Cardinality(A \cup B)
<1>1. s \in Seq(A \cup B) /\ t \in Seq(A \cup B)
  OBVIOUS
<1>2. s \o t \in Seq(A \cup B) /\ Len(s \o t) = Len(s) + Len(t)
  BY <1>1
<1>3. ToSet(s \o t) = A \cup B
  <2>1. \A k \in 1..Len(s \o t) : (s \o t)[k] \in A \cup B
    BY <1>2
  <2>2. \A k \in 1..Len(s) : (s \o t)[k] = s[k] /\ k \in 1..Len(s \o t)
    BY <1>1, <1>2
  <2>3. \A k \in 1..Len(t) : (s \o t)[Len(s) + k] = t[k] /\ Len(s) + k \in 1..Len(s \o t)
    BY <1>1, <1>2
  <2>4. (\A y \in A : \E k \in 1..Len(s) : y = s[k]) /\ (\A y \in B : \E k \in 1..Len(t) : y = t[k])
    BY DEF ToSet
  <2>5. DOMAIN (s \o t) = 1..Len(s \o t)
    BY <1>2
  <2>6. \A y \in A \cup B : \E k \in DOMAIN (s \o t) : y = (s \o t)[k]
    <3>1. \A y \in A : \E k \in 1..Len(s \o t) : y = (s \o t)[k]
      BY <2>2, <2>4
    <3>2. ASSUME NEW y \in B PROVE \E k \in 1..Len(s \o t) : y = (s \o t)[k]
      <4>1. PICK k \in 1..Len(t) : y = t[k]
        BY <2>4
      <4>2. y = (s \o t)[Len(s) + k] /\ Len(s) + k \in 1..Len(s \o t)
        BY <2>3, <4>1
      <4> QED BY <4>2
    <3> QED BY <2>5, <3>1, <3>2
  <2> QED BY <2>1, <2>5, <2>6, SMTT(30) DEF ToSet
<1>4. Cardinality(A \cup B) = Cardinality(A) + Cardinality(B)
  <2>1. Cardinality(A \cup B) = Cardinality(A) + Cardinality(B) - Cardinality(A \cap B)
    BY FS_Union
  <2>2. Cardinality(A \cap B) = 0 /\ Cardinality(A) \in Nat /\ Cardinality(B) \in Nat
    BY FS_EmptySet, FS_CardinalityType
  <2> QED BY <2>1, <2>2
<1> QED BY <1>2, <1>3, <1>4

\* What a call of work() does: it moves m samples.
Moves(m) ==
  /\ st' = StateAt(case.block, case.par, case.given, Gone + m)
  /\ eaten' = [i \in Ins(case) |-> Gone + m] /\ \A i \in Ins(case) : Gone + m <= fed[i]
  /\ made' = Values(case, Gone + m)
  /\ \A o \in Outs(case) : (Gone + m) - drained[o] <= case.room[o]
  /\ tagged' = [o \in Outs(case) |->
                  tagged[o] \o Placed(o, UNION { {k} \X MarksAt(case.block, case.par, case.given, Gone + k)[o]
                                                 : k \in 1..m })]
  /\ \/ \E i \in Ins(case) : ret' = WaitIn(i, 1) /\ fed[i] = Gone + m
     \/ \E o \in Outs(case) : ret' = WaitOut(o, 1) /\ (Gone + m) - drained[o] = case.room[o]

\* So does every call of work(), for some m.
LEMMA WorkMoves ==
  ASSUME Sound, case.block \in Generated, Work
  PROVE  \E m \in Nat : Moves(m)
<1> DEFINE w == [i \in DOMAIN case.given |-> Cut(case.given[i], Gone, fed[i])]
           m == Common(w, Room)
           r == SyncBlocked(w, Room, m)
           Sample(k) == SamplesAt(case.block, case.par, case.given, k)
           Mark(k) == MarksAt(case.block, case.par, case.given, k)
<1>1. case \in Cases /\ InputsSound /\ StateSound /\ OutputsSound
  BY DEF Sound
<1>2. /\ Fits(case.block, case.par, case.given) /\ Ins(case) = DOMAIN case.given
      /\ Outs(case) = 1..SyncOutputs(case.block) /\ \A o \in Outs(case) : case.room[o] \in Nat
  BY <1>1, CaseIs DEF Ins
<1>3. Windows = w
  BY <1>1, <1>2 DEF Windows, InputsSound
<1>4. /\ DOMAIN Room = Outs(case)
      /\ \A o \in Outs(case) : Room[o] \in Nat /\ Room[o] = case.room[o] - (Gone - drained[o])
  <2>1. ASSUME NEW o \in Outs(case) PROVE Free(o) \in Nat /\ Free(o) = case.room[o] - (Gone - drained[o])
    <3>1. Len(made[o]) = Gone /\ Gone \in Nat
      BY <1>1 DEF OutputsSound, InputsSound, Values
    <3>2. drained[o] \in Nat /\ drained[o] <= Gone /\ Gone - drained[o] <= case.room[o] /\ case.room[o] \in Nat
      BY <1>1, <1>2 DEF OutputsSound
    <3> QED BY <3>1, <3>2 DEF Free
  <2> QED BY <2>1 DEF Room
<1>5. /\ m \in Nat /\ (\A i \in DOMAIN case.given : Gone + m <= fed[i]) /\ (\A o \in DOMAIN Room : m <= Room[o])
      /\ SyncWork(case.block, case.par, StateAt(case.block, case.par, case.given, Gone), w, Room) =
           Did(StateAt(case.block, case.par, case.given, Gone + m), [i \in DOMAIN case.given |-> m],
               [o \in DOMAIN Room |-> [k \in 1..m |-> Sample(Gone + k)[o]]],
               [o \in DOMAIN Room |-> UNION { {k} \X Mark(Gone + k)[o] : k \in 1..m }], r)
      /\ \/ \E i \in DOMAIN case.given : r = WaitIn(i, 1) /\ fed[i] = Gone + m
         \/ \E o \in DOMAIN Room : r = WaitOut(o, 1) /\ Room[o] = m
  <2>1. /\ DOMAIN Room = 1..SyncOutputs(case.block) /\ \A o \in DOMAIN Room : Room[o] \in Nat
    BY <1>2, <1>4
  <2>2. /\ Gone \in Nat /\ fed \in [DOMAIN case.given -> Nat]
        /\ \A i \in DOMAIN case.given : Gone <= fed[i] /\ fed[i] <= Len(case.given[i].v)
    BY <1>1, <1>2 DEF InputsSound
  <2>3. WorkOf(case.block, case.par, case.given, Gone, fed, Room)
    BY <1>2, <2>1, <2>2, WorkIs
  <2> QED BY <2>3, Zenon DEF WorkOf
<1>6. Outcomes(case.block, case.par, st, Windows, Room) = {SyncWork(case.block, case.par, st, Windows, Room)}
  <2>1. case.block \in SyncNames
    BY DEF Generated
  <2>2. case.block \notin {"FileSource", "TcpSource", "Strobe", "SigMFSource", "FileSink", "NoCopyFileSink",
                          "SoapySdrSink", "SoapySdrSource"}
    BY <2>1 DEF SyncNames, MathNames
  <2>3. case.block \notin {"Skip", "Delay", "RationalResampler", "RtlSdrDecode", "AuEncode", "AuDecode", "ToText",
                          "StreamToPdu", "VecToStream", "PduToStream", "KissFrame", "KissDecode", "KissEncode",
                          "FcsAdder", "HdlcFramer", "HdlcDeframer", "VectorSource", "NCMap", "DebugFilter",
                          "MorseEncode", "Il2pDeframer", "ReaderSource", "Parse", "NullSink", "VectorSink",
                          "VectorSinkNoCopy", "WriterSink", "DebugSink", "DebugSinkNoCopy", "PduWriter", "Hasher",
                          "FirFilter", "FftFilter", "FftStream", "Hilbert", "ZeroCrossing", "ConstantSource",
                          "CmaEqualizer", "SymbolSync", "Midpointer", "Wpcr", "FftFilterFloat", "UdpSource",
                          "RtlSdrSource", "AudioSink"}
          /\ case.block \notin SignalSources
    BY <2>1 DEF SyncNames, MathNames, SignalSources
  <2>4. Worked(case.block, case.par, st, Windows, Room) = SyncWork(case.block, case.par, st, Windows, Room)
    BY <2>1, <2>3 DEF Worked
  <2> QED BY <2>2, <2>4 DEF Outcomes
<1> DEFINE d == SyncWork(case.block, case.par, st, Windows, Room)
<1>7. /\ st' = d.st
      /\ eaten' = [i \in Ins(case) |-> eaten[i] + d.eat[i]]
      /\ made' = [o \in Outs(case) |-> made[o] \o d.put[o]]
      /\ tagged' = [o \in Outs(case) |-> tagged[o] \o Placed(o, d.tags[o])]
      /\ ret' = d.ret
  BY <1>6, Zenon DEF Work
<1> HIDE DEF m, r, w, d, Sample, Mark
<1>8. d = Did(StateAt(case.block, case.par, case.given, Gone + m), [i \in DOMAIN case.given |-> m],
              [o \in DOMAIN Room |-> [k \in 1..m |-> Sample(Gone + k)[o]]],
              [o \in DOMAIN Room |-> UNION { {k} \X Mark(Gone + k)[o] : k \in 1..m }], r)
  BY <1>1, <1>3, <1>5 DEF d, StateSound
<1>9. /\ d.st = StateAt(case.block, case.par, case.given, Gone + m) /\ d.ret = r
      /\ d.eat = [i \in Ins(case) |-> m]
      /\ d.put = [o \in Outs(case) |-> [k \in 1..m |-> Sample(Gone + k)[o]]]
      /\ d.tags = [o \in Outs(case) |-> UNION { {k} \X Mark(Gone + k)[o] : k \in 1..m }]
  BY <1>2, <1>4, <1>8, Zenon DEF Did
<1> HIDE DEF d
<1>10. eaten' = [i \in Ins(case) |-> Gone + m]
  BY <1>1, <1>7, <1>9 DEF InputsSound
<1>11. made' = [o \in Outs(case) |-> [k \in 1..(Gone + m) |-> Sample(k)[o]]]
  <2>1. ASSUME NEW o \in Outs(case) PROVE made[o] \o d.put[o] = [k \in 1..(Gone + m) |-> Sample(k)[o]]
    <3> DEFINE f == [k \in Nat |-> Sample(k)[o]]
    <3>1. Gone \in Nat /\ m \in Nat
      BY <1>1, <1>5 DEF InputsSound
    <3>2. made[o] = [k \in 1..Gone |-> f[k]]
      BY <1>1, <3>1 DEF OutputsSound, Values, Sample
    <3>3. d.put[o] = [k \in 1..m |-> f[Gone + k]]
      BY <1>9, <3>1
    <3>4. [k \in 1..(Gone + m) |-> f[k]] = [k \in 1..(Gone + m) |-> Sample(k)[o]]
      BY <3>1
    <3> HIDE DEF f
    <3>5. [k \in 1..Gone |-> f[k]] \o [k \in 1..m |-> f[Gone + k]] = [k \in 1..(Gone + m) |-> f[k]]
      BY <3>1, JoinIs
    <3> QED BY <3>2, <3>3, <3>4, <3>5
  <2> QED BY <1>7, <2>1
<1>12. \A o \in Outs(case) : (Gone + m) - drained[o] <= case.room[o]
  <2> SUFFICES ASSUME NEW o \in Outs(case) PROVE (Gone + m) - drained[o] <= case.room[o]
    OBVIOUS
  <2>1. m <= Room[o] /\ Room[o] = case.room[o] - (Gone - drained[o]) /\ m \in Nat /\ Gone \in Nat
          /\ drained[o] \in Nat /\ case.room[o] \in Nat
    BY <1>1, <1>2, <1>4, <1>5 DEF InputsSound, OutputsSound
  <2> QED BY <2>1
<1>13. tagged' = [o \in Outs(case) |->
                    tagged[o] \o Placed(o, UNION { {k} \X Mark(Gone + k)[o] : k \in 1..m })]
  BY <1>7, <1>9
<1>14. \/ \E i \in Ins(case) : ret' = WaitIn(i, 1) /\ fed[i] = Gone + m
       \/ \E o \in Outs(case) : ret' = WaitOut(o, 1) /\ (Gone + m) - drained[o] = case.room[o]
  <2>1. ret' = r
    BY <1>7, <1>9
  <2>2. ASSUME NEW o \in Outs(case), Room[o] = m PROVE (Gone + m) - drained[o] = case.room[o]
    <3>1. Room[o] = case.room[o] - (Gone - drained[o]) /\ Gone \in Nat
          /\ drained[o] \in Nat /\ case.room[o] \in Nat
      BY <1>1, <1>2, <1>4 DEF InputsSound, OutputsSound
    <3> QED BY <2>2, <3>1
  <2> QED BY <1>2, <1>4, <1>5, <2>1, <2>2
<1>15. \A i \in Ins(case) : Gone + m <= fed[i]
  BY <1>2, <1>5
<1>16. Moves(m)
  BY <1>7, <1>9, <1>10, <1>11, <1>12, <1>13, <1>14, <1>15, Zenon DEF Moves, Values, Sample, Mark
<1> QED BY <1>5, <1>16

\* More input changes nothing else.
LEMMA FeedSound ==
  ASSUME Sound, case.block \in Generated, NEW i \in Ins(case), Feed(i)
  PROVE  Sound'
<1>1. case \in Cases /\ InputsSound /\ StateSound /\ OutputsSound /\ TagsSound /\ RetSound
  BY DEF Sound
<1>2. case' = case /\ st' = st /\ eaten' = eaten /\ made' = made /\ tagged' = tagged /\ drained' = drained
        /\ ret' = ret /\ moved' = TRUE /\ Gone' = Gone
  BY DEF Feed, Gone
<1>3. PICK n \in 1..(Len(case.given[i].v) - fed[i]) :
        fed[i] + n - eaten[i] <= case.cap[i] /\ fed' = [fed EXCEPT ![i] = @ + n]
  BY DEF Feed
<1>4. /\ fed \in [Ins(case) -> Nat] /\ Gone \in Nat /\ eaten = [j \in Ins(case) |-> Gone]
      /\ \A j \in Ins(case) : Gone <= fed[j] /\ fed[j] <= Len(case.given[j].v) /\ fed[j] - Gone <= case.cap[j]
      /\ \A j \in Ins(case) : Len(case.given[j].v) \in Nat
  <2>1. \A j \in Ins(case) : case.given[j].v \in Seq(SyncSample(case.block))
    BY <1>1, CaseIs DEF Fits, IsWindow, Ins
  <2> QED BY <1>1, <2>1 DEF InputsSound
<1>5. fed' \in [Ins(case) -> Nat]
  BY <1>3, <1>4
<1>6. ASSUME NEW j \in Ins(case)
      PROVE  Gone <= fed'[j] /\ fed'[j] <= Len(case.given[j].v) /\ fed'[j] - Gone <= case.cap[j]
  <2>1. CASE j = i
    <3>1. fed'[j] = fed[i] + n /\ eaten[i] = Gone
      BY <1>3, <1>4, <2>1
    <3> QED BY <1>3, <1>4, <2>1, <3>1
  <2>2. CASE j # i
    <3>1. fed'[j] = fed[j]
      BY <1>3, <1>4, <2>2
    <3> QED BY <1>4, <3>1
  <2> QED BY <2>1, <2>2
<1>7. InputsSound'
  BY <1>2, <1>4, <1>5, <1>6 DEF InputsSound, Ins
<1>8. StateSound' /\ OutputsSound' /\ TagsSound'
  BY <1>1, <1>2 DEF StateSound, OutputsSound, TagsSound
<1>9. RetSound'
  BY <1>1, <1>2 DEF RetSound, Ins, Outs
<1> QED BY <1>1, <1>2, <1>7, <1>8, <1>9 DEF Sound

\* Neither does a reader that takes some of the output.
LEMMA DrainSound ==
  ASSUME Sound, case.block \in Generated, NEW o \in Outs(case), Drain(o)
  PROVE  Sound'
<1>1. case \in Cases /\ InputsSound /\ StateSound /\ OutputsSound /\ TagsSound /\ RetSound
  BY DEF Sound
<1>2. case' = case /\ st' = st /\ fed' = fed /\ eaten' = eaten /\ made' = made /\ tagged' = tagged
        /\ ret' = ret /\ moved' = TRUE /\ Gone' = Gone
  BY DEF Drain, Gone
<1>3. PICK n \in 1..(Len(made[o]) - drained[o]) : drained' = [drained EXCEPT ![o] = @ + n]
  BY DEF Drain
<1>4. /\ Gone \in Nat /\ Len(made[o]) = Gone /\ drained \in [Outs(case) -> Nat]
      /\ \A p \in Outs(case) : drained[p] <= Gone /\ Gone - drained[p] <= case.room[p] /\ case.room[p] \in Nat
  BY <1>1, CaseIs DEF InputsSound, OutputsSound, Values
<1>5. drained' \in [Outs(case) -> Nat]
  BY <1>3, <1>4
<1>6. ASSUME NEW p \in Outs(case)
      PROVE  drained'[p] <= Gone /\ Gone - drained'[p] <= case.room[p]
  <2>1. CASE p = o
    <3>1. drained'[p] = drained[o] + n
      BY <1>3, <1>4, <2>1
    <3> QED BY <1>3, <1>4, <2>1, <3>1
  <2>2. CASE p # o
    <3>1. drained'[p] = drained[p]
      BY <1>3, <1>4, <2>2
    <3> QED BY <1>4, <3>1
  <2> QED BY <2>1, <2>2
<1>7. OutputsSound'
  BY <1>1, <1>2, <1>5, <1>6 DEF OutputsSound, Outs
<1>8. InputsSound' /\ StateSound' /\ TagsSound'
  BY <1>1, <1>2 DEF InputsSound, StateSound, TagsSound
<1>9. RetSound'
  BY <1>1, <1>2 DEF RetSound, Ins, Outs
<1> QED BY <1>1, <1>2, <1>7, <1>8, <1>9 DEF Sound

\* A call of work() keeps the invariant: it appends what is next, tags included.
LEMMA WorkSound ==
  ASSUME Sound, case.block \in Generated, Work
  PROVE  Sound'
<1>1. case \in Cases /\ InputsSound /\ StateSound /\ OutputsSound /\ TagsSound /\ RetSound
  BY DEF Sound
<1>2. PICK m \in Nat : Moves(m)
  BY WorkMoves
<1>3. case' = case /\ fed' = fed /\ drained' = drained /\ moved' \in BOOLEAN
  BY DEF Work
<1>4. Gone \in Nat /\ 1 \in Ins(case)
  BY <1>1, CaseIs DEF InputsSound
<1>5. Gone' = Gone + m /\ Gone' \in Nat
  BY <1>2, <1>4 DEF Moves, Gone
<1>6. InputsSound'
  <2>1. ASSUME NEW i \in Ins(case)
        PROVE  Gone + m <= fed[i] /\ fed[i] <= Len(case.given[i].v) /\ fed[i] - (Gone + m) <= case.cap[i]
    <3>1. fed[i] \in Nat /\ Gone + m <= fed[i] /\ fed[i] <= Len(case.given[i].v) /\ fed[i] - Gone <= case.cap[i]
            /\ case.cap[i] \in Nat
      BY <1>1, <1>2, CaseIs DEF Moves, InputsSound
    <3> QED BY <1>4, <3>1
  <2>2. eaten' = [i \in Ins(case) |-> Gone + m]
    BY <1>2 DEF Moves
  <2> QED BY <1>1, <1>3, <1>5, <2>1, <2>2 DEF InputsSound, Ins
<1>7. StateSound'
  BY <1>2, <1>3, <1>5 DEF Moves, StateSound
<1>8. OutputsSound'
  <2>1. ASSUME NEW o \in Outs(case) PROVE drained[o] <= Gone + m /\ (Gone + m) - drained[o] <= case.room[o]
    <3>1. drained[o] \in Nat /\ drained[o] <= Gone /\ (Gone + m) - drained[o] <= case.room[o]
      BY <1>1, <1>2 DEF OutputsSound, Moves
    <3> QED BY <1>4, <3>1
  <2>2. made' = Values(case, Gone + m)
    BY <1>2 DEF Moves
  <2>3. made' = Values(case', Gone')
    BY <1>3, <1>5, <2>2
  <2>4. drained' \in [Outs(case') -> Nat]
    BY <1>1, <1>3 DEF OutputsSound
  <2>5. \A o \in Outs(case') : drained'[o] <= Gone' /\ Gone' - drained'[o] <= case'.room[o]
    BY <1>3, <1>5, <2>1
  <2> QED BY <2>3, <2>4, <2>5 DEF OutputsSound
<1>9. TagsSound'
  <2>1. ASSUME NEW o \in Outs(case)
        PROVE  /\ tagged'[o] \in Seq(Marks(case, Gone + m, o)) /\ ToSet(tagged'[o]) = Marks(case, Gone + m, o)
               /\ Len(tagged'[o]) = Cardinality(Marks(case, Gone + m, o))
    <3> DEFINE new == UNION { {k} \X MarksAt(case.block, case.par, case.given, Gone + k)[o] : k \in 1..m }
               A == Marks(case, Gone, o)
               B == Shifted(new, Gone)
    <3>1. IsFiniteSet(A) /\ IsFiniteSet(B) /\ Marks(case, Gone + m, o) = A \cup B /\ A \cap B = {}
      BY <1>1, <1>4, MarksAre
    <3>2. tagged'[o] = tagged[o] \o Placed(o, new)
      BY <1>2 DEF Moves
    <3>3. Len(made[o]) = Gone
      BY <1>1, <1>4 DEF OutputsSound, Values
    <3> HIDE DEF new
    <3>4. Placed(o, new) \in Seq(B) /\ ToSet(Placed(o, new)) = B /\ Len(Placed(o, new)) = Cardinality(B)
      BY <3>1, <3>3, PlacedIs
    <3>5. tagged[o] \in Seq(A) /\ ToSet(tagged[o]) = A /\ Len(tagged[o]) = Cardinality(A)
      BY <1>1 DEF TagsSound
    <3> DEFINE s == tagged[o]
               t == Placed(o, new)
    <3>6. s \in Seq(A) /\ t \in Seq(B) /\ ToSet(s) = A /\ ToSet(t) = B
            /\ Len(s) = Cardinality(A) /\ Len(t) = Cardinality(B)
      BY <3>4, <3>5
    <3>7. tagged'[o] = s \o t
      BY <3>2
    <3> HIDE DEF A, B, s, t
    <3>8. s \o t \in Seq(A \cup B) /\ ToSet(s \o t) = A \cup B /\ Len(s \o t) = Cardinality(A \cup B)
      BY <3>1, <3>6, TogetherIs
    <3> QED BY <3>1, <3>7, <3>8
  <2>2. DOMAIN tagged' = Outs(case)
    BY <1>2 DEF Moves
  <2>3. \A o \in Outs(case) : Marks(case', Gone', o) = Marks(case, Gone + m, o)
    BY <1>3, <1>5
  <2> QED BY <1>3, <1>5, <2>1, <2>2 DEF TagsSound, Outs
<1>10. RetSound'
  BY <1>2, <1>3 DEF RetSound, Moves, Ins, Outs
<1> QED BY <1>1, <1>3, <1>6, <1>7, <1>8, <1>9, <1>10 DEF Sound

\* The other two actions are of other blocks.
LEMMA OthersSound ==
  ASSUME Sound, DropBlock \/ SetDelay
  PROVE  Sound' /\ case.block \notin Generated
<1>1. CASE DropBlock
  <2>1. case' = case /\ (case.block \in FileSinks \/ case.block = "Hasher")
    BY <1>1 DEF DropBlock
  <2>2. case.block \notin Generated
    BY <2>1 DEF FileSinks, Generated, SyncNames, MathNames
  <2> QED BY <2>1, <2>2 DEF Sound
<1>2. CASE SetDelay
  <2>1. PICK d : case' = [case EXCEPT !.par.changed = <<eaten[1], d>>]
    BY <1>2 DEF SetDelay
  <2>2. case.block = "Delay" /\ "block" \in DOMAIN case
    BY <1>2 DEF SetDelay, Sound
  <2>3. "block" \in DOMAIN case' /\ case'.block = "Delay"
    BY <2>1, <2>2
  <2> QED BY <2>2, <2>3 DEF Sound, Generated, SyncNames, MathNames
<1> QED BY <1>1, <1>2

\* The invariant is kept by every step.
LEMMA SoundNext ==
  ASSUME Sound, [Next]_vars
  PROVE  Sound'
<1>1. CASE case.block \in Generated
  <2>1. CASE UNCHANGED vars
    <3>1. case' = case /\ st' = st /\ fed' = fed /\ eaten' = eaten /\ made' = made /\ tagged' = tagged
            /\ drained' = drained /\ ret' = ret /\ moved' = moved /\ Gone' = Gone
      BY <2>1 DEF vars, Gone
    <3> QED BY <3>1 DEF Sound, InputsSound, StateSound, OutputsSound, TagsSound, RetSound
  <2>2. CASE \E i \in Ins(case) : Feed(i)
    BY <1>1, <2>2, FeedSound
  <2>3. CASE \E o \in Outs(case) : Drain(o)
    BY <1>1, <2>3, DrainSound
  <2>4. CASE Work
    BY <1>1, <2>4, WorkSound
  <2>5. CASE DropBlock \/ SetDelay
    BY <2>5, OthersSound
  <2> QED BY <2>1, <2>2, <2>3, <2>4, <2>5 DEF Next
<1>2. CASE case.block \notin Generated
  <2>1. CASE DropBlock \/ SetDelay
    BY <2>1, OthersSound
  <2>2. CASE ~(DropBlock \/ SetDelay)
    <3>1. case' = case
      BY <2>2 DEF Next, vars, Feed, Drain, Work
    <3> QED BY <1>2, <3>1 DEF Sound
  <2> QED BY <2>1, <2>2
<1> QED BY <1>1, <1>2

\* The invariant holds.
LEMMA AlwaysSound == Spec => []Sound
<1>1. Init => Sound
  BY SoundFirst
<1>2. Sound /\ [Next]_vars => Sound'
  BY SoundNext
<1> QED BY <1>1, <1>2, PTL DEF Spec

-----------------------------------------------------------------------------
(* What follows from the invariant                                         *)

\* What is promised of the input so far, and where what was done is in it
Promises(n) ==
  /\ n \in Nat /\ Gone <= n /\ (\A i \in Ins(case) : n <= fed[i]) /\ \E i \in Ins(case) : n = fed[i]
  /\ \A o \in Outs(case) : Promised[o].v = Values(case, n)[o] /\ Promised[o].t = Marks(case, n, o)

\* What Faithful and NothingWithheld compare with is the output as far as there is input.
LEMMA PromisedIs ==
  ASSUME Sound, case.block \in Generated
  PROVE  \E n \in Nat : Promises(n)
<1> DEFINE x == case.given
           y == Came(x, fed)
           n == Usable(case.block, y)
<1>1. case \in Cases /\ InputsSound
  BY DEF Sound
<1>2. /\ Fits(case.block, case.par, x) /\ Ins(case) = DOMAIN x /\ Outs(case) = 1..SyncOutputs(case.block)
      /\ fed \in [DOMAIN x -> Nat] /\ \A i \in DOMAIN x : Gone <= fed[i] /\ fed[i] <= Len(x[i].v)
  BY <1>1, CaseIs DEF InputsSound, Ins
<1>3. Fed = y
  BY <1>2, Zenon DEF Fed, Came
<1> HIDE DEF y
<1>4. /\ Fits(case.block, case.par, y) /\ n \in Nat /\ (\A i \in DOMAIN x : n <= fed[i])
      /\ \E i \in DOMAIN x : n = fed[i]
  BY <1>2, CameIs DEF y
<1>5. Promised = Expected(case.block, case.par, y, Outs(case))
  BY <1>3 DEF Promised
<1> HIDE DEF n
<1>6. ASSUME NEW k \in 1..n
      PROVE  /\ SamplesAt(case.block, case.par, y, k) = SamplesAt(case.block, case.par, x, k)
             /\ MarksAt(case.block, case.par, y, k) = MarksAt(case.block, case.par, x, k)
  <2>1. k \in 1..Usable(case.block, Came(x, fed))
    BY DEF n, y
  <2> QED BY <1>2, <2>1, Causal DEF y
<1>7. ASSUME NEW o \in Outs(case) PROVE Promised[o].v = Values(case, n)[o] /\ Promised[o].t = Marks(case, n, o)
  <2>1. ExpectedAt(case.block, case.par, y, Outs(case), o)
    <3>1. ExpectedIs(case.block, case.par, y, Outs(case))
      BY <1>4, AllExpected
    <3> QED BY <1>2, <3>1 DEF ExpectedIs
  <2>2. /\ Promised[o].v = [k \in 1..n |-> SamplesAt(case.block, case.par, y, k)[o]]
        /\ Promised[o].t = UNION { {k} \X MarksAt(case.block, case.par, y, k)[o] : k \in 1..n }
    BY <1>5, <2>1, Zenon DEF ExpectedAt, n
  <2>3. [k \in 1..n |-> SamplesAt(case.block, case.par, y, k)[o]] = Values(case, n)[o]
    BY <1>6 DEF Values
  <2>4. UNION { {k} \X MarksAt(case.block, case.par, y, k)[o] : k \in 1..n } = Marks(case, n, o)
    <3>1. { {k} \X MarksAt(case.block, case.par, y, k)[o] : k \in 1..n }
            = { {k} \X MarksAt(case.block, case.par, x, k)[o] : k \in 1..n }
      BY <1>6
    <3> QED BY <3>1, Zenon DEF Marks
  <2> QED BY <2>2, <2>3, <2>4
<1>8. Gone <= n
  BY <1>2, <1>4
<1>9. Promises(n)
  BY <1>2, <1>4, <1>7, <1>8 DEF Promises
<1> QED BY <1>4, <1>9

\* The invariant is about counts that are within bounds,
LEMMA SoundTypes ==
  ASSUME Sound, case.block \in Generated
  PROVE  TypeOK
<1>1. case \in Cases /\ InputsSound /\ OutputsSound /\ RetSound
  BY DEF Sound
<1>2. ASSUME NEW i \in Ins(case) PROVE eaten[i] \in 0..fed[i] /\ fed[i] - eaten[i] \in 0..case.cap[i]
  <2>1. fed[i] \in Nat /\ Gone \in Nat /\ eaten[i] = Gone /\ Gone <= fed[i] /\ fed[i] - Gone <= case.cap[i]
          /\ case.cap[i] \in Nat
    BY <1>1, CaseIs DEF InputsSound
  <2> QED BY <2>1
<1>3. ASSUME NEW o \in Outs(case)
      PROVE  drained[o] \in 0..Len(made[o]) /\ Len(made[o]) - drained[o] <= case.room[o]
  <2>1. Len(made[o]) = Gone /\ Gone \in Nat
    BY <1>1 DEF InputsSound, OutputsSound, Values
  <2>2. drained[o] \in Nat /\ drained[o] <= Gone /\ Gone - drained[o] <= case.room[o]
    BY <1>1 DEF OutputsSound
  <2> QED BY <2>1, <2>2
<1>4. ret.kind \in {"Again", "WaitIn", "WaitOut"} /\ moved \in BOOLEAN
  BY <1>1 DEF RetSound, Again, Simply, WaitIn, WaitOut
<1> QED BY <1>1, <1>2, <1>3, <1>4 DEF TypeOK

\* and says what was written,
LEMMA SoundFaithful ==
  ASSUME Sound, case.block \in Generated
  PROVE  Faithful
<1>1. case \in Cases /\ InputsSound /\ OutputsSound /\ TagsSound
  BY DEF Sound
<1>2. PICK n \in Nat : Promises(n)
  BY PromisedIs
<1>3. Gone \in Nat /\ Gone <= n
  BY <1>1, <1>2 DEF InputsSound, Promises
<1> SUFFICES ASSUME NEW o \in Outs(case)
             PROVE  /\ Follows(made[o], Promised[o].v)
                    /\ Within(Promised[o].t, Len(made[o])) \subseteq ToSet(tagged[o])
                    /\ \A p \in ToSet(tagged[o]) \ Within(Promised[o].t, Len(made[o])) :
                         MayTell(case.block, case.par, p)
                    /\ Len(tagged[o]) = Cardinality(ToSet(tagged[o]))
  BY DEF Faithful
<1>4. Promised[o].v = Values(case, n)[o] /\ Promised[o].t = Marks(case, n, o)
  BY <1>2 DEF Promises
<1>5. made[o] = Values(case, Gone)[o] /\ Len(made[o]) = Gone
  BY <1>1, <1>3 DEF OutputsSound, Values
<1>6. Follows(made[o], Promised[o].v)
  <2> DEFINE f == [k \in Nat |-> SamplesAt(case.block, case.par, case.given, k)[o]]
             a == [k \in 1..Gone |-> f[k]]
             b == [k \in 1..n |-> f[k]]
  <2>1. made[o] = a /\ Promised[o].v = b
    BY <1>3, <1>4, <1>5 DEF Values
  <2>2. IsPrefix(a, b)
    <3> HIDE DEF f
    <3> DEFINE D == { f[k] : k \in 1..n }
    <3>1. a \in Seq(D) /\ b \in Seq(D) /\ Len(a) = Gone /\ Len(b) = n /\ \A k \in 1..Gone : a[k] = b[k]
      BY <1>3
    <3> HIDE DEF a, b, D
    <3>2. SubSeq(b, 1, Len(a)) = a
      BY <1>3, <3>1
    <3> QED BY <1>3, <3>1, <3>2 DEF IsPrefix
  <2>3. ~Loses
    BY DEF Loses, Generated, SyncNames, MathNames
  <2> QED BY <2>1, <2>2, <2>3 DEF Follows
<1>7. Within(Promised[o].t, Gone) = Marks(case, Gone, o)
  <2> DEFINE T(k) == MarksAt(case.block, case.par, case.given, k)[o]
  <2>1. \A j : Marks(case, j, o) = UNION { {k} \X T(k) : k \in 1..j }
    BY DEF Marks
  <2> HIDE DEF T
  <2>2. \A j \in Nat : \A p \in Marks(case, j, o) : p[1] \in 1..j /\ p \in {p[1]} \X T(p[1])
    BY <2>1
  <2>3. \A p \in Marks(case, n, o) : p[1] <= Gone => p \in Marks(case, Gone, o)
    <3> SUFFICES ASSUME NEW p \in Marks(case, n, o), p[1] <= Gone PROVE p \in Marks(case, Gone, o)
      OBVIOUS
    <3>1. p[1] \in 1..Gone /\ p \in {p[1]} \X T(p[1])
      BY <1>3, <2>2
    <3> QED BY <2>1, <3>1
  <2>4. \A p \in Marks(case, Gone, o) : p[1] <= Gone /\ p \in Marks(case, n, o)
    <3> SUFFICES ASSUME NEW p \in Marks(case, Gone, o) PROVE p[1] <= Gone /\ p \in Marks(case, n, o)
      OBVIOUS
    <3>1. p[1] \in 1..Gone /\ p[1] \in 1..n /\ p \in {p[1]} \X T(p[1])
      BY <1>3, <2>2
    <3> QED BY <2>1, <3>1
  <2> QED BY <1>4, <2>3, <2>4 DEF Within
<1>8. ToSet(tagged[o]) = Marks(case, Gone, o) /\ Len(tagged[o]) = Cardinality(Marks(case, Gone, o))
  BY <1>1 DEF TagsSound
<1> QED BY <1>5, <1>6, <1>7, <1>8

\* that it is all when the input is gone,
LEMMA SoundGivesAll ==
  ASSUME Sound, case.block \in Generated
  PROVE  NothingWithheld
<1> SUFFICES ASSUME ret.kind = "WaitIn", ~Ready, NEW o \in Outs(case)
             PROVE  made[o] = Promised[o].v
  BY DEF NothingWithheld
<1>1. case \in Cases /\ InputsSound /\ OutputsSound /\ RetSound
  BY DEF Sound
<1>2. PICK n \in Nat : Promises(n)
  BY PromisedIs
<1>3. PICK i \in Ins(case) : ret = WaitIn(i, 1)
  BY <1>1 DEF RetSound, Again, Simply, WaitIn, WaitOut
<1>4. ret.port = i /\ ret.need = 1
  BY <1>3 DEF WaitIn
<1>5. ~(fed[i] - eaten[i] >= 1)
  BY <1>4 DEF Ready
<1>6. fed[i] \in Nat /\ eaten[i] = Gone /\ Gone \in Nat /\ Gone <= fed[i]
  BY <1>1 DEF InputsSound
<1>7. n = Gone
  BY <1>2, <1>5, <1>6 DEF Promises
<1> QED BY <1>1, <1>2, <1>7 DEF OutputsSound, Promises

\* and what work() returned.
LEMMA SoundReturns ==
  ASSUME Sound, case.block \in Generated
  PROVE  NoPanic /\ NoIdleAgain
<1>1. RetSound
  BY DEF Sound
<1> QED BY <1>1 DEF RetSound, NoPanic, NoIdleAgain, Again, Simply, WaitIn, WaitOut

\* A step of such a block that returns a wait waits for what is not there.
LEMMA SoundWaits ==
  ASSUME Sound, case.block \in Generated, Next, UNCHANGED <<case, fed, drained>>
  PROVE  ~(ret'.kind \in {"WaitIn", "WaitOut"} /\ Ready')
<1>1. case \in Cases /\ InputsSound /\ OutputsSound
  BY DEF Sound
<1>2. ASSUME NEW i \in Ins(case), Feed(i) PROVE FALSE
  <2>1. PICK n \in 1..(Len(case.given[i].v) - fed[i]) : fed' = [fed EXCEPT ![i] = @ + n]
    BY <1>2 DEF Feed
  <2>2. fed \in [Ins(case) -> Nat] /\ fed' = fed
    BY <1>1 DEF InputsSound
  <2>3. fed[i] = fed[i] + n /\ fed[i] \in Nat /\ n > 0
    BY <2>1, <2>2
  <2> QED BY <2>3
<1>3. ASSUME NEW o \in Outs(case), Drain(o) PROVE FALSE
  <2>1. PICK n \in 1..(Len(made[o]) - drained[o]) : drained' = [drained EXCEPT ![o] = @ + n]
    BY <1>3 DEF Drain
  <2>2. drained \in [Outs(case) -> Nat] /\ drained' = drained
    BY <1>1 DEF OutputsSound
  <2>3. drained[o] = drained[o] + n /\ drained[o] \in Nat /\ n > 0
    BY <2>1, <2>2
  <2> QED BY <2>3
<1>4. Work
  BY <1>2, <1>3, OthersSound DEF Next
<1>5. PICK m \in Nat : Moves(m)
  BY <1>4, WorkMoves
<1>6. Gone + m \in Nat
  BY <1>1 DEF InputsSound
<1>7. ASSUME NEW i \in Ins(case), ret' = WaitIn(i, 1), fed[i] = Gone + m PROVE ~Ready'
  <2>1. fed'[i] = Gone + m /\ eaten'[i] = Gone + m
    BY <1>5, <1>7 DEF Moves
  <2>2. ret'.kind = "WaitIn" /\ ret'.port = i /\ ret'.need = 1
    BY <1>7 DEF WaitIn
  <2>3. ~(fed'[i] - eaten'[i] >= 1)
    BY <1>6, <2>1
  <2> QED BY <2>2, <2>3 DEF Ready
<1>8. ASSUME NEW o \in Outs(case), ret' = WaitOut(o, 1), (Gone + m) - drained[o] = case.room[o] PROVE ~Ready'
  <2>1. Len(made'[o]) = Gone + m /\ drained'[o] = drained[o] /\ case' = case /\ case.room[o] \in Nat
    BY <1>1, <1>5, <1>6, CaseIs DEF Moves, Values
  <2>2. Free(o)' = 0
    BY <1>8, <2>1 DEF Free
  <2>3. ret'.kind = "WaitOut" /\ ret'.port = o /\ ret'.need = 1
    BY <1>8 DEF WaitOut
  <2>4. ~(Free(o)' >= 1)
    BY <2>2
  <2> QED BY <2>3, <2>4 DEF Ready
<1> QED BY <1>5, <1>7, <1>8 DEF Moves

-----------------------------------------------------------------------------
(* What is true of a block with a generated work(), whatever its           *)
(* parameters, its input, the capacities of its streams, the pieces in     *)
(* which input comes, and the room it finds                                *)

\* It never consumes what has not come, and never writes more than there is
\* room for.
THEOREM GeneratedTypes == Spec => [](case.block \in Generated => TypeOK)
<1>1. Sound => (case.block \in Generated => TypeOK)
  BY SoundTypes
<1> QED BY <1>1, AlwaysSound, PTL

\* All it has written is the start of what its meaning makes of the input, with
\* each tag once and on its sample: the cuts between calls of work() do not show.
THEOREM GeneratedFaithful == Spec => [](case.block \in Generated => Faithful)
<1>1. Sound => (case.block \in Generated => Faithful)
  BY SoundFaithful
<1> QED BY <1>1, AlwaysSound, PTL

\* While it waits for input, all that can be made of what came was written.
THEOREM GeneratedGivesAll == Spec => [](case.block \in Generated => NothingWithheld)
<1>1. Sound => (case.block \in Generated => NothingWithheld)
  BY SoundGivesAll
<1> QED BY <1>1, AlwaysSound, PTL

\* It neither panics nor fails, whatever the samples are.
THEOREM GeneratedNeverFails == Spec => [](case.block \in Generated => NoPanic)
<1>1. Sound => (case.block \in Generated => NoPanic)
  BY SoundReturns
<1> QED BY <1>1, AlwaysSound, PTL

\* It asks to be called again only before the first call: after it, it waits.
THEOREM GeneratedNeverSpins == Spec => [](case.block \in Generated => NoIdleAgain)
<1>1. Sound => (case.block \in Generated => NoIdleAgain)
  BY SoundReturns
<1> QED BY <1>1, AlwaysSound, PTL

\* It waits only for what is not there.
THEOREM GeneratedWaits ==
  ASSUME \A c \in Cases : c.block \in Generated
  PROVE  Spec => HonestWait
<1> DEFINE Honest == UNCHANGED <<case, fed, drained>> /\ case.block \notin {"SigMFSource", "AudioSink"}
                       => ~(ret'.kind \in {"WaitIn", "WaitOut"} /\ Ready')
           Within_ == case.block \in Generated
<1>1. Init => Within_
  BY DEF Init
<1>2. Sound /\ Within_ /\ [Next]_vars => Within_'
  <2>1. ASSUME Sound, Within_, [Next]_vars PROVE case' = case
    BY <2>1, OthersSound DEF Next, vars, Feed, Drain, Work
  <2> QED BY <2>1
<1>3. Sound /\ Within_ /\ [Next]_vars => [Honest]_vars
  BY SoundWaits
<1>4. HonestWait <=> [][Honest]_vars
  BY DEF HonestWait
<1> HIDE DEF Honest, Within_
<1> QED BY <1>1, <1>2, <1>3, <1>4, AlwaysSound, PTL DEF Spec
=============================================================================
