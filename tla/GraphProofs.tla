---------------------------- MODULE GraphProofs ----------------------------
(***************************************************************************)
(* Theorems about Graph, for any graphs, capacities and lengths.           *)
(*                                                                         *)
(* IInv says of a tree, and of a graph that merges what sources write,     *)
(* between any two calls of work(), that there is room where a turn has    *)
(* passed (Room), and who is done (Ended).  If the blocks are in order and *)
(* no stream is narrowed, it says of the streams from which no way leads   *)
(* to a block that says Again what a turn leaves in them (Drained,         *)
(* Emptied, Fed, Held), and of the others that what is in them is a debt,  *)
(* by which no pass may be the last one (Owed, Through).                   *)
(***************************************************************************)
EXTENDS Graph, TLAPS, SequenceTheorems, WellFoundedInduction

\* The reader u of a stream has had its turn since its writer w had one.
Since(w, u) == IF w < u THEN main.k <= w \/ main.k > u ELSE u < main.k /\ main.k <= w

\* Nobody who gets what is in these streams ever says Again.
Silent(L) == /\ PassedOn(L)
             /\ \A b \in Blocks : ToSet(Inputs(b)) \cap L # {} => Name(b) \notin Steady
Quiet == UNION { L \in SUBSET Streams : Silent(L) }

Lone(u)  == \A r, s \in ToSet(Inputs(u)) : r = s
Ready(u) == \A s \in ToSet(Inputs(u)) : used[s] > 0
Loud(u)  == \E s \in ToSet(Inputs(u)) : s \notin Quiet

\* There is room in a stream whose reader, of no other input, had its turn last.
Room == \A w, u \in Blocks : \A s \in Streams :
          Writes(w, s) /\ Reads(u, s) /\ Lone(u) /\ Since(w, u) => used[s] < graph.cap[s]

\* Only sources are through, and those that somebody reads have no more then.
Ended == /\ eof \subseteq Sources
         /\ \A b \in eof : \A u \in Blocks : \A s \in Streams : Writes(b, s) /\ Reads(u, s) => todo[b] = 0

\* A quiet stream is empty after the turn of its reader, as long as the writer
\* adds nothing that would make for another pass; and after the turn of a block
\* of several inputs, one of which is quiet, some of them is empty.
Drained == \A w, u \in Blocks : \A s \in Quiet :
             Writes(w, s) /\ Reads(u, s) /\ Lone(u) /\ (Since(w, u) \/ (done /\ u < main.k)) => used[s] = 0
Emptied == \A u \in Blocks : \A s \in Quiet : Reads(u, s) /\ ~ Lone(u) /\ u < main.k => ~ Ready(u)

\* A source that had its turn, and whose reader is still to come, left something
\* for it or has no more.
Fed == \A w \in Sources : \A u \in Blocks : \A s \in Streams :
         Writes(w, s) /\ Reads(u, s) /\ w < main.k /\ main.k <= u /\ (done \/ s \in Quiet) =>
           used[s] > 0 \/ todo[w] = 0

\* A quiet stream stays full after the turn of its reader only if that lacks
\* something else which will not come.
Held == \A w \in Sources : \A u \in Blocks : \A s \in Quiet :
          Writes(w, s) /\ Reads(u, s) /\ Since(w, u) => used[s] < graph.cap[s] \/ Lacks(u)

\* A block that has something to do, and is not quiet about it: one such is still
\* to come in a pass that asks for no other one so far, if there is any.
Debt   == \E u \in Blocks : Loud(u) /\ Ready(u)
ToCome == \E u \in Blocks : Loud(u) /\ Ready(u) /\ main.k <= u
Owed   == done => (Debt => ToCome)

\* What a source that had its turn leaves in such a pass: it has no more, or its
\* reader lacks something, or what it gave is a debt.
Settled(w, u, s) == \/ todo[w] = 0
                    \/ Lacks(u)
                    \/ s \notin Quiet /\ used[s] > 0 /\ main.k <= u
Through == done => \/ Debt
                   \/ \A w \in Sources : \A u \in Blocks : \A s \in Streams :
                        Writes(w, s) /\ Reads(u, s) /\ w < main.k => Settled(w, u, s)

Ordered == Merge /\ Downstream /\ Widening /\ Driven

\* Blocks that are no sources have no end of their own.
Typed == graph \in Graphs /\ TypeOK /\ \A b \in Blocks \ Sources : todo[b] = Forever

IInv == /\ Typed
        /\ main.pc = "pass" /\ Merge => Room /\ Ended
        /\ main.pc = "pass" /\ Ordered => Drained /\ Emptied /\ Fed /\ Held /\ Owed /\ Through
        /\ Met

-----------------------------------------------------------------------------
(* The operators                                                           *)

\* A relation on which no descent is without end, in which the smaller of two
\* numbers is below the other.
LEMMA Below == \E R : IsWellFoundedOn(R, Nat) /\ \A m, n \in Nat : m < n => <<m, n>> \in R
<1>1. \A m, n \in Nat : m < n => <<m, n>> \in OpToRel(<, Nat)
  BY DEF OpToRel
<1> QED BY <1>1, NatLessThanWellFounded, Zenon

\* A set of numbers that is not empty has a least one, and Least() is it.
LEMMA LeastIs ==
  ASSUME NEW S, S \subseteq Nat, S # {}
  PROVE  Least(S) \in S /\ \A y \in S : Least(S) <= y
<1>1. PICK R : IsWellFoundedOn(R, Nat) /\ \A m, n \in Nat : m < n => <<m, n>> \in R
  BY Below
<1>2. IsWellFoundedOn(R, Nat)
  BY <1>1
<1>3. \E x \in S : \A y \in S : ~ (<<y, x>> \in R)
  BY <1>2, WFMin, Zenon
<1>4. PICK x \in S : \A y \in S : ~ (<<y, x>> \in R)
  BY <1>3, Zenon
<1>5. ASSUME NEW y \in S PROVE x <= y
  <2>1. x \in Nat /\ y \in Nat
    OBVIOUS
  <2>2. <<y, x>> \notin R
    BY <1>4
  <2>3. ~ (y < x)
    BY <1>1, <2>1, <2>2, Zenon
  <2> QED BY <2>1, <2>3
<1>6. \E z \in S : \A y \in S : z <= y
  BY <1>5
<1> QED BY <1>6, Zenon DEF Least

\* What is in two sequences, one after the other, is in one of them.
LEMMA ToSetConcat ==
  ASSUME NEW T, NEW s \in Seq(T), NEW t \in Seq(T)
  PROVE  ToSet(s \o t) = ToSet(s) \cup ToSet(t)
<1>1. /\ Len(s) \in Nat /\ Len(t) \in Nat /\ DOMAIN s = 1..Len(s) /\ DOMAIN t = 1..Len(t)
      /\ DOMAIN (s \o t) = 1..(Len(s) + Len(t))
      /\ \A i \in 1..(Len(s) + Len(t)) : (s \o t)[i] = IF i <= Len(s) THEN s[i] ELSE t[i - Len(s)]
  BY ConcatProperties, LenProperties
<1>2. ASSUME NEW x \in ToSet(s \o t) PROVE x \in ToSet(s) \cup ToSet(t)
  <2>1. PICK i \in 1..(Len(s) + Len(t)) : x = (s \o t)[i]
    BY <1>1 DEF ToSet
  <2>2. CASE i <= Len(s)
    BY <1>1, <2>1, <2>2 DEF ToSet
  <2>3. CASE i > Len(s)
    <3>1. i - Len(s) \in 1..Len(t)
      BY <1>1, <2>3
    <3> QED BY <1>1, <2>1, <2>3, <3>1 DEF ToSet
  <2> QED BY <1>1, <2>2, <2>3
<1>3. ASSUME NEW x \in ToSet(s) PROVE x \in ToSet(s \o t)
  BY <1>1 DEF ToSet
<1>4. ASSUME NEW x \in ToSet(t) PROVE x \in ToSet(s \o t)
  <2>1. PICK i \in 1..Len(t) : x = t[i]
    BY <1>1 DEF ToSet
  <2>2. /\ Len(s) + i \in 1..(Len(s) + Len(t)) /\ ~ (Len(s) + i <= Len(s))
        /\ (Len(s) + i) - Len(s) = i
    BY <1>1
  <2> QED BY <1>1, <2>1, <2>2 DEF ToSet
<1> QED BY <1>2, <1>3, <1>4

-----------------------------------------------------------------------------
(* The graph                                                               *)

\* What the blocks of a graph are, each for itself.
LEMMA BlocksAre ==
  ASSUME graph \in Graphs
  PROVE  /\ Len(graph.blocks) \in Nat /\ Blocks = 1..Len(graph.blocks)
         /\ \A s \in Streams : graph.cap[s] \in Nat \ {0}
         /\ \A b \in Blocks : Inputs(b) \in Seq(Streams) /\ Outputs(b) \in Seq(Streams)
         /\ graph.total \in [Blocks -> Nat \cup {Forever}]
         /\ \A b \in Blocks : WellMade(graph.blocks[b], graph.total[b])
<1>1. /\ graph.cap \in [Streams -> Nat \ {0}]
      /\ graph.blocks \in Seq([name : STRING, in : Seq(Streams), out : Seq(Streams)])
      /\ graph.total \in [Blocks -> Nat \cup {Forever}]
      /\ \A b \in Blocks : WellMade(graph.blocks[b], graph.total[b])
  BY GraphAssumption DEF Streams, Blocks
<1>2. Len(graph.blocks) \in Nat /\ DOMAIN graph.blocks = 1..Len(graph.blocks)
  BY <1>1, LenProperties
<1>3. ASSUME NEW b \in Blocks PROVE Inputs(b) \in Seq(Streams) /\ Outputs(b) \in Seq(Streams)
  <2>1. graph.blocks[b] \in [name : STRING, in : Seq(Streams), out : Seq(Streams)]
    BY <1>1, <1>2, ElementOfSeq DEF Blocks
  <2> QED BY <2>1 DEF Inputs, Outputs
<1> QED BY <1>1, <1>2, <1>3 DEF Blocks

\* What the ports of a block are.
LEMMA PortsAre ==
  ASSUME graph \in Graphs, NEW b \in Blocks
  PROVE  /\ ToSet(Ports(b)) = { s \in Streams : Reads(b, s) \/ Writes(b, s) }
         /\ \A s : Reads(b, s) \/ Writes(b, s) => s \in Streams
<1>1. Inputs(b) \in Seq(Streams) /\ Outputs(b) \in Seq(Streams)
  BY BlocksAre
<1>2. ToSet(Ports(b)) = ToSet(Inputs(b)) \cup ToSet(Outputs(b))
  BY <1>1, ToSetConcat DEF Ports
<1>3. ToSet(Inputs(b)) \subseteq Streams /\ ToSet(Outputs(b)) \subseteq Streams
  BY <1>1 DEF ToSet
<1> QED BY <1>2, <1>3 DEF Reads, Writes

\* Each end of a stream is in one block, and not both in the same one.
LEMMA EndsAre ==
  ASSUME graph \in Graphs, NEW b \in Blocks, NEW c \in Blocks, NEW s
  PROVE  /\ Reads(b, s) /\ Reads(c, s) => b = c
         /\ Writes(b, s) /\ Writes(c, s) => b = c
         /\ Reads(b, s) /\ Writes(c, s) => b # c
<1>1. /\ Share(Inputs(b), Inputs(c)) \/ Share(Outputs(b), Outputs(c)) => b = c
      /\ Share(Inputs(b), Outputs(c)) => b # c
  BY GraphAssumption DEF Blocks, Inputs, Outputs
<1> QED BY <1>1 DEF Share, Reads, Writes

\* A source writes one stream and reads none.
LEMMA SourceIs ==
  ASSUME graph \in Graphs, NEW b \in Sources
  PROVE  /\ b \in Blocks /\ Name(b) \in SourceNames
         /\ \A s : ~ Reads(b, s)
         /\ Writes(b, Outputs(b)[1])
         /\ \A s : Writes(b, s) => s = Outputs(b)[1]
<1>1. b \in Blocks /\ Inputs(b) = <<>>
  BY DEF Sources
<1>2. Name(b) \in SourceNames /\ Len(Outputs(b)) = 1
  BY <1>1, BlocksAre DEF WellMade, Inputs, Outputs, Name
<1>3. Outputs(b) \in Seq(Streams)
  BY <1>1, BlocksAre
<1>4. DOMAIN Outputs(b) = {1}
  BY <1>2, <1>3, LenProperties
<1>5. DOMAIN Inputs(b) = {}
  BY <1>1
<1> QED BY <1>1, <1>2, <1>4, <1>5 DEF Reads, Writes, ToSet

\* Any other block reads something, and is called something else.
LEMMA OtherIs ==
  ASSUME graph \in Graphs, NEW b \in Blocks \ Sources
  PROVE  /\ Name(b) \notin SourceNames /\ graph.total[b] = Forever
         /\ \E s : Reads(b, s)
<1>1. Inputs(b) # <<>> /\ Inputs(b) \in Seq(Streams)
  BY BlocksAre DEF Sources
<1>2. Name(b) \notin SourceNames /\ graph.total[b] = Forever
  BY <1>1, BlocksAre DEF WellMade, Inputs, Name
<1>3. Len(Inputs(b)) \in Nat /\ DOMAIN Inputs(b) = 1..Len(Inputs(b)) /\ Len(Inputs(b)) # 0
  BY <1>1, LenProperties, EmptySeq
<1>4. 1 \in DOMAIN Inputs(b)
  BY <1>3
<1>5. Inputs(b)[1] \in ToSet(Inputs(b))
  BY <1>4 DEF ToSet
<1> QED BY <1>2, <1>5 DEF Reads

\* A block that reads several streams reads what sources write, and nobody but a
\* source writes a stream that is not read.
LEMMA MergeIs ==
  ASSUME graph \in Graphs, Merge
  PROVE  /\ \A b \in Blocks : Lone(b) \/ \A s : Reads(b, s) => \E w \in Sources : Writes(w, s)
         /\ \A s \in Streams : \E w \in Blocks : Writes(w, s)
         /\ \A w \in Blocks \ Sources : \A s : Writes(w, s) => \E b \in Blocks : Reads(b, s)
<1>1. ASSUME NEW b \in Blocks, Len(Inputs(b)) <= 1 PROVE Lone(b)
  <2>1. Inputs(b) \in Seq(Streams)
    BY BlocksAre
  <2>2. Len(Inputs(b)) \in Nat /\ DOMAIN Inputs(b) = 1..Len(Inputs(b))
    BY <2>1, LenProperties
  <2>3. \A i \in DOMAIN Inputs(b) : i = 1
    BY <1>1, <2>2
  <2> QED BY <2>3 DEF Lone, ToSet
<1>2. \A b \in Blocks : Lone(b) \/ \A s : Reads(b, s) => \E w \in Sources : Writes(w, s)
  BY <1>1 DEF Merge, Reads
<1>3. ASSUME NEW v \in Blocks \ Sources, NEW s, Writes(v, s) PROVE \E b \in Blocks : Reads(b, s)
  <2>1. s \in Streams
    BY <1>3, PortsAre
  <2>2. PICK w \in Blocks : Writes(w, s) /\ (w \in Sources \/ \E b \in Blocks : Reads(b, s))
    BY <2>1 DEF Merge
  <2>3. w = v
    BY <1>3, <2>2, EndsAre
  <2> QED BY <2>2, <2>3
<1> QED BY <1>2, <1>3 DEF Merge

\* A tree is such a graph, in which every stream has somebody at both ends.
LEMMA TreeIs ==
  ASSUME graph \in Graphs, Tree
  PROVE  /\ Merge
         /\ \A b \in Blocks : Lone(b)
         /\ \A s \in Streams : (\E b \in Blocks : Reads(b, s)) /\ (\E b \in Blocks : Writes(b, s))
<1>1. Merge
  BY DEF Tree, Merge
<1>2. ASSUME NEW b \in Blocks PROVE Lone(b)
  <2>1. Inputs(b) \in Seq(Streams) /\ Len(Inputs(b)) <= 1
    BY BlocksAre DEF Tree
  <2>2. Len(Inputs(b)) \in Nat /\ DOMAIN Inputs(b) = 1..Len(Inputs(b))
    BY <2>1, LenProperties
  <2>3. \A i \in DOMAIN Inputs(b) : i = 1
    BY <2>1, <2>2
  <2> QED BY <2>3 DEF Lone, ToSet
<1> QED BY <1>1, <1>2 DEF Tree

\* Who reads a stream that somebody other than a source writes reads nothing else.
LEMMA LoneIs ==
  ASSUME graph \in Graphs, Merge, NEW w \in Blocks \ Sources, NEW u \in Blocks, NEW s, Writes(w, s), Reads(u, s)
  PROVE  /\ Lone(u)
         /\ \A r : Reads(u, r) => r = s
<1>1. Lone(u)
  BY MergeIs, EndsAre DEF Sources
<1> QED BY <1>1 DEF Lone, Reads

\* The graph stays as it is, and with it everything that is said of it alone.
LEMMA Same ==
  ASSUME graph' = graph
  PROVE  /\ Blocks' = Blocks /\ Sources' = Sources /\ Streams' = Streams
         /\ \A b, s : (Reads(b, s)' <=> Reads(b, s)) /\ (Writes(b, s)' <=> Writes(b, s))
         /\ \A b : Inputs(b)' = Inputs(b) /\ Outputs(b)' = Outputs(b) /\ Name(b)' = Name(b)
         /\ (Tree' <=> Tree) /\ (Merge' <=> Merge) /\ (Ordered' <=> Ordered) /\ Quiet' = Quiet
         /\ \A u : (Lone(u)' <=> Lone(u)) /\ (Loud(u)' <=> Loud(u))
<1>1. /\ Blocks' = Blocks /\ Streams' = Streams
      /\ \A b : Inputs(b)' = Inputs(b) /\ Outputs(b)' = Outputs(b) /\ Name(b)' = Name(b)
  BY DEF Blocks, Streams, Inputs, Outputs, Name
<1>2. /\ Sources' = Sources
      /\ \A b, s : (Reads(b, s)' <=> Reads(b, s)) /\ (Writes(b, s)' <=> Writes(b, s))
  BY <1>1 DEF Sources, Reads, Writes
<1>3. (Tree' <=> Tree) /\ (Merge' <=> Merge)
  BY <1>1, <1>2 DEF Tree, Merge
<1>4. \A L : (PassedOn(L)' <=> PassedOn(L)) /\ (Silent(L)' <=> Silent(L))
  BY <1>1 DEF PassedOn, Silent
<1>5. Quiet' = Quiet
  BY <1>1, <1>4 DEF Quiet
<1>6. (Downstream' <=> Downstream) /\ (Widening' <=> Widening) /\ (Driven' <=> Driven)
  <2>1. Downstream' <=> Downstream
    BY <1>1 DEF Downstream
  <2>2. Widening' <=> Widening
    BY <1>1 DEF Widening
  <2>3. Driven' <=> Driven
    BY <1>1, <1>2, <1>4 DEF Driven
  <2> QED BY <2>1, <2>2, <2>3
<1>7. \A u : (Lone(u)' <=> Lone(u)) /\ (Loud(u)' <=> Loud(u))
  BY <1>1, <1>5 DEF Lone, Loud
<1> QED BY <1>1, <1>2, <1>3, <1>5, <1>6, <1>7 DEF Ordered

-----------------------------------------------------------------------------
(* One call of work()                                                      *)

\* A block moves as much as all its ports, and what is left of a source, allow.
LEMMA MovesIs ==
  ASSUME graph \in Graphs, TypeOK, NEW b \in Blocks
  PROVE  /\ moves(b) \in Nat
         /\ \A s : Reads(b, s) => moves(b) <= used[s]
         /\ \A s : Writes(b, s) => moves(b) <= graph.cap[s] - used[s]
         /\ todo[b] # Forever => moves(b) <= todo[b]
         /\ \/ \E s : Reads(b, s) /\ moves(b) = used[s]
            \/ \E s : Writes(b, s) /\ moves(b) = graph.cap[s] - used[s]
            \/ todo[b] # Forever /\ moves(b) = todo[b]
            \/ Name(b) \in OneByOne /\ moves(b) = 1
<1> DEFINE S == { avail(b, s) : s \in ToSet(Ports(b)) }
           T == IF todo[b] = Forever THEN {} ELSE {todo[b]}
           O == IF Name(b) \in OneByOne THEN {1} ELSE {}
<1>1. \A s \in Streams : graph.cap[s] \in Nat /\ used[s] \in Nat /\ graph.cap[s] - used[s] \in Nat
  BY BlocksAre DEF TypeOK
<1>2. \A s : Reads(b, s) => s \in Streams /\ avail(b, s) = used[s] /\ avail(b, s) \in S
  BY PortsAre DEF avail
<1>3. \A s : Writes(b, s) => s \in Streams /\ avail(b, s) = graph.cap[s] - used[s] /\ avail(b, s) \in S
  BY PortsAre, EndsAre DEF avail
<1>4. \A x \in S : (\E s : Reads(b, s) /\ x = used[s]) \/ (\E s : Writes(b, s) /\ x = graph.cap[s] - used[s])
  BY <1>2, <1>3, PortsAre
<1>5. S \subseteq Nat
  BY <1>1, <1>2, <1>3, <1>4
<1>6. S # {}
  <2>1. CASE b \in Sources
    BY <2>1, <1>3, SourceIs
  <2>2. CASE b \notin Sources
    BY <2>2, <1>2, OtherIs
  <2> QED BY <2>1, <2>2
<1>7. T \subseteq Nat /\ O \subseteq Nat
  BY DEF TypeOK
<1>8. moves(b) = Least(S \cup T \cup O)
  BY DEF moves
<1> HIDE DEF S
<1>9. moves(b) \in S \cup T \cup O /\ \A x \in S \cup T \cup O : moves(b) <= x
  <2> HIDE DEF T, O
  <2> QED BY <1>5, <1>6, <1>7, <1>8, LeastIs
<1>10. /\ \A s : Reads(b, s) => moves(b) <= used[s]
       /\ \A s : Writes(b, s) => moves(b) <= graph.cap[s] - used[s]
  <2> HIDE DEF T, O
  <2> QED BY <1>2, <1>3, <1>9
<1>11. moves(b) \in Nat
  <2> HIDE DEF T, O
  <2> QED BY <1>5, <1>7, <1>9
<1>12. todo[b] # Forever => moves(b) <= todo[b]
  BY <1>9
<1>13. CASE moves(b) \in S
  BY <1>4, <1>10, <1>11, <1>12, <1>13
<1>14. CASE moves(b) \in T
  BY <1>10, <1>11, <1>12, <1>14
<1>15. CASE moves(b) \in O
  BY <1>10, <1>11, <1>12, <1>15
<1> QED BY <1>9, <1>13, <1>14, <1>15

\* What a call changes: the streams at its ports, and the block's place in the pass.
Moved(b) ==
  /\ graph' = graph /\ canceled' = canceled
  /\ main = AtBlock(b) /\ main' = AtBlock(b + 1)
  /\ b \notin eof
  /\ DOMAIN used' = Streams
  /\ \A s \in Streams : used'[s] = IF Reads(b, s) THEN used[s] - moves(b)
                                 ELSE IF Writes(b, s) THEN used[s] + moves(b) ELSE used[s]
  /\ todo' = [todo EXCEPT ![b] = IF @ = Forever THEN @ ELSE @ - moves(b)]

Called(b) == Moved(b) /\ \E r \in Rets(b, moves(b)) :
               /\ done' = (done /\ ~asks_for_more(r))
               /\ eof' = IF at_end(b, r) THEN eof \cup {b} ELSE eof

LEMMA WorkIs ==
  ASSUME graph \in Graphs, NEW b \in Blocks, Work(b)
  PROVE  Called(b)
<1>1. main.k = b
  BY DEF Work, InPass, AtBlock
<1>2. PICK r \in Rets(b, moves(b)) : Noted(b, r)
  BY DEF Work
<1>3. /\ graph' = graph /\ canceled' = canceled /\ main' = AtBlock(b + 1)
      /\ done' = (done /\ ~asks_for_more(r))
      /\ eof' = IF at_end(b, r) THEN eof \cup {b} ELSE eof
  BY <1>1, <1>2 DEF Noted, NextBlock
<1>4. used' = [s \in Streams |-> CASE Reads(b, s)  -> used[s] - moves(b)
                                   [] Writes(b, s) -> used[s] + moves(b)
                                   [] OTHER        -> used[s]]
  BY DEF Work
<1>5. \A s \in Streams : used'[s] = IF Reads(b, s) THEN used[s] - moves(b)
                                   ELSE IF Writes(b, s) THEN used[s] + moves(b) ELSE used[s]
  BY <1>4, EndsAre
<1>6. DOMAIN used' = Streams
  BY <1>4
<1>7. main = AtBlock(b) /\ b \notin eof
  BY DEF Work, InPass
<1>8. todo' = [todo EXCEPT ![b] = IF @ = Forever THEN @ ELSE @ - moves(b)]
  BY DEF Work
<1>9. Moved(b)
  BY <1>3, <1>5, <1>6, <1>7, <1>8 DEF Moved
<1> QED BY <1>2, <1>3, <1>9 DEF Called

-----------------------------------------------------------------------------
(* Type correctness                                                        *)

LEMMA TypedInit == Init => Typed
<1> SUFFICES ASSUME Init PROVE Typed
  OBVIOUS
<1>1. graph \in Graphs
  BY DEF Init
<1>2. \A s \in Streams : used[s] \in 0..graph.cap[s]
  BY <1>1, BlocksAre DEF Init
<1>3. todo \in [Blocks -> Nat \cup {Forever}]
  BY <1>1, BlocksAre DEF Init
<1>4. main \in { AtBlock(k) : k \in 1..(Len(graph.blocks) + 1) }
  BY <1>1, BlocksAre DEF Init
<1>5. \A b \in Blocks \ Sources : todo[b] = Forever
  BY <1>1, OtherIs DEF Init
<1> QED BY <1>1, <1>2, <1>3, <1>4, <1>5 DEF Init, Typed, TypeOK

\* A call leaves no stream with less than nothing or with more than its capacity.
LEMMA TypedCall ==
  ASSUME Typed, NEW b \in Blocks, Called(b)
  PROVE  Typed'
<1> DEFINE n == moves(b)
<1>1. /\ n \in Nat
      /\ \A s : Reads(b, s) => n <= used[s]
      /\ \A s : Writes(b, s) => n <= graph.cap[s] - used[s]
      /\ todo[b] # Forever => n <= todo[b]
  BY MovesIs DEF Typed
<1>2. /\ graph' = graph /\ canceled' = canceled /\ main' = AtBlock(b + 1)
      /\ \A s \in Streams : used'[s] = IF Reads(b, s) THEN used[s] - n
                                     ELSE IF Writes(b, s) THEN used[s] + n ELSE used[s]
      /\ todo' = [todo EXCEPT ![b] = IF @ = Forever THEN @ ELSE @ - n]
  BY DEF Called, Moved
<1>3. \E r : /\ done' = (done /\ ~asks_for_more(r))
            /\ eof' = IF at_end(b, r) THEN eof \cup {b} ELSE eof
  BY DEF Called
<1> HIDE DEF n
<1>4. ASSUME NEW s \in Streams PROVE used'[s] \in 0..graph.cap[s]
  <2>1. used[s] \in 0..graph.cap[s] /\ graph.cap[s] \in Nat
    BY BlocksAre DEF Typed, TypeOK
  <2>2. CASE Reads(b, s)
    BY <1>1, <1>2, <2>1, <2>2
  <2>3. CASE ~ Reads(b, s) /\ Writes(b, s)
    BY <1>1, <1>2, <2>1, <2>3
  <2>4. CASE ~ Reads(b, s) /\ ~ Writes(b, s)
    BY <1>2, <2>1, <2>4
  <2> QED BY <2>2, <2>3, <2>4
<1>5. todo' \in [Blocks -> Nat \cup {Forever}]
  <2>1. todo \in [Blocks -> Nat \cup {Forever}]
    BY DEF Typed, TypeOK
  <2>2. (IF todo[b] = Forever THEN todo[b] ELSE todo[b] - n) \in Nat \cup {Forever}
    BY <1>1, <2>1
  <2> QED BY <1>2, <2>1, <2>2
<1>6. main' \in { AtBlock(k) : k \in 1..(Len(graph.blocks) + 1) }
  <2>1. b + 1 \in 1..(Len(graph.blocks) + 1)
    BY BlocksAre DEF Typed
  <2> QED BY <1>2, <2>1
<1>7. eof' \subseteq Blocks /\ done' \in BOOLEAN /\ canceled' \in BOOLEAN
  BY <1>2, <1>3 DEF Typed, TypeOK
<1> QED BY <1>2, <1>4, <1>5, <1>6, <1>7, Same DEF Typed, TypeOK

LEMMA TypedNext == Typed /\ [Next]_vars => Typed'
<1> SUFFICES ASSUME Typed, [Next]_vars PROVE Typed'
  OBVIOUS
<1> DEFINE N == Len(graph.blocks)
<1>1. N \in Nat /\ Blocks = 1..N
  BY BlocksAre DEF Typed
<1>2. ASSUME EndOfPass PROVE Typed'
  <2>1. main' \in { AtBlock(k) : k \in 1..(N + 1) } \cup { Returns(r) : r \in {"ok", "error"} }
    BY <1>1, <1>2 DEF EndOfPass
  <2>2. /\ graph' = graph /\ used' = used /\ todo' = todo /\ eof' = eof /\ canceled' = canceled
        /\ done' = TRUE
    BY <1>2 DEF EndOfPass
  <2> QED BY <2>1, <2>2, Same DEF Typed, TypeOK
<1>3. ASSUME NEW b \in Blocks, Skip(b) PROVE Typed'
  <2>1. main' = AtBlock(b + 1) /\ UNCHANGED <<graph, used, todo, eof, done, canceled>>
    BY <1>3 DEF Skip, InPass, NextBlock, AtBlock
  <2>2. b + 1 \in 1..(N + 1)
    BY <1>1
  <2> QED BY <2>1, <2>2, Same DEF Typed, TypeOK
<1>4. ASSUME NEW b \in Blocks, Work(b) PROVE Typed'
  BY <1>4, WorkIs, TypedCall DEF Typed
<1>5. ASSUME NEW b \in Blocks, NothingYet(b) PROVE Typed'
  <2>1. main' = AtBlock(b + 1) /\ UNCHANGED <<graph, used, todo, canceled>>
    BY <1>5 DEF NothingYet, Noted, InPass, NextBlock, AtBlock
  <2>2. done' \in BOOLEAN /\ eof' \subseteq Blocks
    BY <1>5 DEF NothingYet, Noted, Typed, TypeOK
  <2>3. b + 1 \in 1..(N + 1)
    BY <1>1
  <2> QED BY <2>1, <2>2, <2>3, Same DEF Typed, TypeOK
<1>6. ASSUME NEW b \in Blocks, Fail(b) PROVE Typed'
  BY <1>6, Same DEF Fail, Typed, TypeOK
<1>7. ASSUME Cancel PROVE Typed'
  BY <1>7, Same DEF Cancel, Typed, TypeOK
<1>8. ASSUME UNCHANGED vars PROVE Typed'
  BY <1>8, Same DEF vars, Typed, TypeOK
<1> QED BY <1>2, <1>3, <1>4, <1>5, <1>6, <1>7, <1>8 DEF Next, Run

\* No stream ever has more than its capacity, and no source less left than
\* nothing, however many blocks there are and however they are connected.
THEOREM Typing == Spec => []TypeOK
<1>1. Typed => TypeOK
  BY DEF Typed
<1> QED BY <1>1, TypedInit, TypedNext, PTL DEF Spec

-----------------------------------------------------------------------------
(* What a block answers                                                    *)

\* Both ends of a stream belong to blocks of the graph, unless nobody reads it.
LEMMA NeverClosed ==
  ASSUME graph \in Graphs, Merge, NEW b \in Blocks, NEW s,
         Reads(b, s) \/ (Writes(b, s) /\ \E u \in Blocks : Reads(u, s))
  PROVE  ~ closed(b, s)
<1>1. s \in Streams
  BY PortsAre
<1>2. \E c \in Blocks \ {b} : Reads(c, s) \/ Writes(c, s)
  <2>1. CASE Reads(b, s)
    <3>1. PICK c \in Blocks : Writes(c, s)
      BY <1>1, MergeIs
    <3> QED BY <2>1, <3>1, EndsAre
  <2>2. CASE Writes(b, s) /\ \E u \in Blocks : Reads(u, s)
    <3>1. PICK c \in Blocks : Reads(c, s)
      BY <2>2
    <3> QED BY <2>2, <3>1, EndsAre
  <2> QED BY <2>1, <2>2
<1>3. PICK c \in Blocks \ {b} : s \in ToSet(Ports(c))
  BY <1>1, <1>2, PortsAre
<1> QED BY <1>3 DEF closed

\* A block that finds samples, and room in all that it writes, moves some.
LEMMA MovesSome ==
  ASSUME Typed, NEW b \in Blocks \ Sources, Ready(b), \A t : Writes(b, t) => used[t] < graph.cap[t]
  PROVE  moves(b) > 0
<1>1. moves(b) \in Nat
  BY MovesIs DEF Typed
<1>2. \A t : Reads(b, t) => used[t] > 0
  BY DEF Ready, Reads
<1>3. \A t : Writes(b, t) => t \in Streams /\ graph.cap[t] \in Nat /\ used[t] \in Nat
  BY PortsAre, BlocksAre DEF Typed, TypeOK
<1>4. \A t : Writes(b, t) => graph.cap[t] - used[t] > 0
  BY <1>3
<1>5. todo[b] = Forever
  BY DEF Typed
<1>6. \/ \E t : Reads(b, t) /\ moves(b) = used[t]
      \/ \E t : Writes(b, t) /\ moves(b) = graph.cap[t] - used[t]
      \/ moves(b) = 1
  BY <1>5, MovesIs DEF Typed
<1>7. CASE \E t : Reads(b, t) /\ moves(b) = used[t]
  BY <1>2, <1>7
<1>8. CASE \E t : Writes(b, t) /\ moves(b) = graph.cap[t] - used[t]
  BY <1>4, <1>8
<1>9. CASE moves(b) = 1
  BY <1>9
<1> QED BY <1>6, <1>7, <1>8, <1>9

\* One that misses something at one of its inputs moves nothing.
LEMMA MovesNone ==
  ASSUME Typed, NEW b \in Blocks, ~ Ready(b)
  PROVE  moves(b) = 0
<1>1. PICK s : Reads(b, s) /\ ~ (used[s] > 0)
  BY DEF Ready, Reads
<1>2. used[s] \in Nat
  BY <1>1, PortsAre, BlocksAre DEF Typed, TypeOK
<1>3. moves(b) \in Nat /\ moves(b) <= used[s]
  BY <1>1, MovesIs DEF Typed
<1> QED BY <1>1, <1>2, <1>3

\* The one that it waits for is one of its ports.
LEMMA WaitsForPort ==
  ASSUME Typed, NEW b \in Blocks \ Sources, ~ (Name(b) \in Steady /\ moves(b) > 0)
  PROVE  Reads(b, blocked(b, moves(b))) \/ Writes(b, blocked(b, moves(b)))
<1> DEFINE n == moves(b)
           stuck == { k \in DOMAIN Ports(b) : avail(b, Ports(b)[k]) = n }
<1>1. \/ \E s : Reads(b, s) /\ n = used[s]
      \/ \E s : Writes(b, s) /\ n = graph.cap[s] - used[s]
  <2>1. todo[b] = Forever /\ Name(b) \notin SourceNames
    BY OtherIs DEF Typed
  <2>2. ~ (Name(b) \in OneByOne /\ n = 1)
    BY <2>1 DEF OneByOne, Steady, SourceNames
  <2> QED BY <2>1, <2>2, MovesIs DEF Typed
<1>2. \E s : (Reads(b, s) \/ Writes(b, s)) /\ avail(b, s) = n
  BY <1>1, EndsAre DEF avail, Typed
<1>3. ToSet(Ports(b)) = { s \in Streams : Reads(b, s) \/ Writes(b, s) }
      /\ \A s : Reads(b, s) \/ Writes(b, s) => s \in Streams
  BY PortsAre DEF Typed
<1>4. \E k \in DOMAIN Ports(b) : avail(b, Ports(b)[k]) = n
  BY <1>2, <1>3 DEF ToSet
<1>5. DOMAIN Ports(b) \subseteq Nat
  <2>1. Ports(b) \in Seq(Streams)
    BY BlocksAre, ConcatProperties DEF Ports, Typed
  <2> QED BY <2>1, LenProperties
<1>6. stuck \subseteq Nat /\ stuck # {}
  BY <1>4, <1>5
<1>7. Least(stuck) \in stuck
  <2> HIDE DEF stuck
  <2> QED BY <1>6, LeastIs
<1>8. blocked(b, n) = Ports(b)[Least(stuck)]
  BY DEF blocked
<1>9. blocked(b, n) \in ToSet(Ports(b))
  BY <1>7, <1>8 DEF ToSet
<1> QED BY <1>3, <1>9

\* A block that is no source is never found at its end; if it says Again when it
\* has moved something, then there is another pass.
LEMMA OtherAnswers ==
  ASSUME Typed, Merge, NEW b \in Blocks \ Sources, Called(b)
  PROVE  eof' = eof /\ (Name(b) \in Steady /\ moves(b) > 0 => ~ done')
<1> DEFINE n == moves(b)
<1>1. PICK r \in Rets(b, n) : /\ done' = (done /\ ~asks_for_more(r))
                             /\ eof' = IF at_end(b, r) THEN eof \cup {b} ELSE eof
  BY DEF Called
<1>2. CASE Name(b) \in Steady /\ n > 0
  <2>1. r = Simply("Again")
    BY <1>2 DEF Rets
  <2>2. asks_for_more(r) /\ ~ at_end(b, r)
    BY <2>1 DEF Simply, asks_for_more, at_end
  <2> QED BY <1>1, <2>2
<1>3. CASE ~ (Name(b) \in Steady /\ n > 0)
  <2>1. r = WaitFor(blocked(b, n))
    BY <1>3 DEF Rets
  <2>2. ~ closed(b, blocked(b, n))
    BY <1>3, WaitsForPort, NeverClosed, MergeIs DEF Typed
  <2>3. ~ at_end(b, r)
    BY <2>1, <2>2 DEF WaitFor, at_end
  <2> QED BY <1>1, <1>3, <2>3
<1> QED BY <1>2, <1>3

\* A source that is read either asks for another pass, or has nothing left, or
\* waits after it has produced something, or has no room; it is at its end with
\* nothing left only.
LEMMA SourceAnswers ==
  ASSUME Typed, Merge, NEW b \in Sources, Called(b), NEW u \in Blocks, Reads(u, Outputs(b)[1])
  PROVE  /\ eof' = eof \/ (eof' = eof \cup {b} /\ todo'[b] = 0)
         /\ \/ ~ done'
            \/ todo'[b] = 0
            \/ Name(b) \in Slow \cup {"SigMFSource"} /\ moves(b) > 0
            \/ used[Outputs(b)[1]] = graph.cap[Outputs(b)[1]]
<1> DEFINE n == moves(b)
           s == Outputs(b)[1]
           room == graph.cap[s] - used[s]
<1>1. /\ b \in Blocks /\ Name(b) \in SourceNames /\ Writes(b, s)
      /\ \A t : ~ Reads(b, t)
      /\ \A t : Writes(b, t) => t = s
  BY SourceIs DEF Typed
<1>2. s \in Streams /\ avail(b, s) = room
  BY <1>1, PortsAre DEF avail, Typed
<1>3. room \in Nat /\ (room = 0 => used[s] = graph.cap[s])
  <2>1. graph.cap[s] \in Nat /\ used[s] \in 0..graph.cap[s]
    BY <1>2, BlocksAre DEF Typed, TypeOK
  <2> QED BY <2>1
<1>4. /\ n \in Nat /\ n <= room
      /\ todo[b] # Forever => n <= todo[b]
      /\ \/ n = room
         \/ todo[b] # Forever /\ n = todo[b]
         \/ Name(b) \in OneByOne /\ n = 1
  BY <1>1, MovesIs DEF Typed
<1>5. todo[b] \in Nat \cup {Forever} /\ todo'[b] = IF todo[b] = Forever THEN todo[b] ELSE todo[b] - n
  BY <1>1 DEF Called, Moved, Typed, TypeOK
<1>6. PICK r \in SourceRets(b, n) : /\ done' = (done /\ ~asks_for_more(r))
                                   /\ eof' = IF at_end(b, r) THEN eof \cup {b} ELSE eof
  BY DEF Called, Rets
<1>7. ~ closed(b, s)
  BY <1>1, NeverClosed DEF Typed
<1>8. (full(b, 0) <=> room = 0) /\ (full(b, n) <=> room = n)
  BY <1>2 DEF full
<1>9. \/ r = Simply("Again") \/ r = Simply("Pending")
      \/ r = Simply("EOF") /\ todo'[b] = 0
      \/ r = WaitFor(s) /\ Name(b) \in Slow \cup {"SigMFSource"} /\ n > 0
      \/ r = WaitFor(s) /\ room = 0
  <2> HIDE DEF n, room
  <2>1. CASE Name(b) \in Restless
    <3>1. SourceRets(b, n) = {Simply("Again")}
      BY <2>1 DEF SourceRets, Restless, Slow
    <3> QED BY <1>6, <3>1
  <2>2. CASE Name(b) \in Slow
    <3>1. SourceRets(b, n) = IF full(b, n) THEN {WaitFor(s)}
                             ELSE {Simply("Pending")} \cup (IF todo[b] = n THEN {Simply("EOF")} ELSE {})
      BY <2>2 DEF SourceRets, Restless, Slow
    <3>2. CASE full(b, n)
      BY <1>3, <1>6, <1>8, <2>2, <3>1, <3>2
    <3>3. CASE ~ full(b, n)
      <4>1. r = Simply("Pending") \/ (r = Simply("EOF") /\ todo[b] = n)
        BY <1>6, <3>1, <3>3
      <4>2. todo[b] = n => todo'[b] = 0
        BY <1>4, <1>5 DEF Forever
      <4> QED BY <4>1, <4>2
    <3> QED BY <3>2, <3>3
  <2>3. CASE Name(b) = "VectorSource"
    <3>1. SourceRets(b, n) = IF todo[b] = n THEN {Simply("EOF")}
                             ELSE IF n > 0 THEN {Simply("Again")} ELSE {WaitFor(s)}
      BY <2>3 DEF SourceRets, Restless, Slow
    <3>2. todo[b] = n \/ n > 0 \/ room = 0
      BY <1>3, <1>4
    <3>3. todo[b] = n => todo'[b] = 0
      BY <1>4, <1>5 DEF Forever
    <3> QED BY <1>6, <3>1, <3>2, <3>3
  <2>4. CASE Name(b) = "FileSource"
    <3>1. SourceRets(b, n) = IF full(b, 0) THEN {WaitFor(s)}
                             ELSE IF n > 0 THEN {Simply("Again")} ELSE {Simply("EOF")}
      BY <2>4 DEF SourceRets, Restless, Slow
    <3>2. full(b, 0) => room = 0
      BY <1>8
    <3>3. n > 0 \/ room = 0 \/ todo'[b] = 0
      BY <1>3, <1>4, <1>5, <2>4 DEF OneByOne
    <3>4. full(b, 0) <=> room = 0
      BY <1>8
    <3> QED BY <1>6, <3>1, <3>3, <3>4
  <2>5. CASE Name(b) = "SigMFSource"
    <3>1. SourceRets(b, n) = IF todo[b] = 0 THEN {Simply("EOF")} ELSE {WaitFor(s)}
      BY <2>5 DEF SourceRets, Restless, Slow
    <3>2. CASE todo[b] = 0
      <4>1. todo'[b] = 0
        BY <1>4, <1>5, <3>2 DEF Forever
      <4> QED BY <1>6, <3>1, <3>2, <4>1
    <3>3. CASE todo[b] # 0
      <4>1. n > 0 \/ room = 0
        BY <1>3, <1>4, <1>5, <3>3
      <4> QED BY <1>6, <2>5, <3>1, <3>3, <4>1
    <3> QED BY <3>2, <3>3
  <2> QED BY <1>1, <2>1, <2>2, <2>3, <2>4, <2>5 DEF SourceNames
<1>10. CASE r = Simply("Again") \/ r = Simply("Pending")
  <2>1. asks_for_more(r) /\ ~ at_end(b, r)
    BY <1>10 DEF Simply, asks_for_more, at_end
  <2> QED BY <1>6, <2>1
<1>11. CASE r = Simply("EOF") /\ todo'[b] = 0
  BY <1>6, <1>11
<1>12. CASE r = WaitFor(s) /\ ((Name(b) \in Slow \cup {"SigMFSource"} /\ n > 0) \/ room = 0)
  <2>1. ~ at_end(b, r)
    BY <1>7, <1>12 DEF WaitFor, at_end
  <2> QED BY <1>3, <1>6, <1>12, <2>1
<1> QED BY <1>9, <1>10, <1>11, <1>12

\* After its turn there is something in its stream, or it has nothing left.
LEMMA SourceFeeds ==
  ASSUME Typed, NEW b \in Sources, Called(b)
  PROVE  used'[Outputs(b)[1]] > 0 \/ todo'[b] = 0
<1> DEFINE s == Outputs(b)[1]
           n == moves(b)
<1>1. /\ b \in Blocks /\ Writes(b, s) /\ s \in Streams
      /\ \A t : ~ Reads(b, t)
      /\ \A t : Writes(b, t) => t = s
  BY SourceIs, PortsAre DEF Typed
<1>2. /\ n \in Nat
      /\ \/ n = graph.cap[s] - used[s]
         \/ todo[b] # Forever /\ n = todo[b]
         \/ n = 1
  BY <1>1, MovesIs DEF Typed
<1>3. used[s] \in Nat /\ graph.cap[s] \in Nat \ {0}
  BY <1>1, BlocksAre DEF Typed, TypeOK
<1>4. used'[s] = used[s] + n
  BY <1>1 DEF Called, Moved
<1>5. todo[b] \in Nat \cup {Forever} /\ todo'[b] = IF todo[b] = Forever THEN todo[b] ELSE todo[b] - n
  BY <1>1 DEF Called, Moved, Typed, TypeOK
<1>6. CASE todo[b] # Forever /\ n = todo[b]
  BY <1>5, <1>6
<1>7. CASE n = graph.cap[s] - used[s] \/ n = 1
  <2> HIDE DEF n, s
  <2> QED BY <1>2, <1>3, <1>4, <1>7 DEF s
<1> QED BY <1>2, <1>6, <1>7

-----------------------------------------------------------------------------
(* Room, and the end of sources                                            *)

\* The turn of block b is over.
Turned(b) == main = AtBlock(b) /\ main' = AtBlock(b + 1)

\* A stream whose writer has the turn waits for its reader after it; any other
\* stream for which it is the writer's turn was so before, or its reader had it.
LEMMA SinceNext ==
  ASSUME NEW b \in Int, NEW w \in Int, NEW u \in Int, Turned(b)
  PROVE  Since(w, u)' => w # b /\ (u = b \/ Since(w, u))
BY DEF Turned, AtBlock, Since

\* The block that has the turn was read after it wrote.
LEMMA SinceNow ==
  ASSUME NEW b \in Int, NEW u \in Int, u # b, main = AtBlock(b)
  PROVE  Since(b, u)
BY DEF AtBlock, Since

\* So it finds room in each stream that it writes, and whose reader reads nothing else.
LEMMA RoomNow ==
  ASSUME Typed, Merge, Room, NEW b \in Blocks, main = AtBlock(b), NEW t, Writes(b, t),
         b \notin Sources \/ \E u \in Blocks : Reads(u, t) /\ Lone(u)
  PROVE  used[t] < graph.cap[t]
<1>1. t \in Streams
  BY PortsAre DEF Typed
<1>2. PICK u \in Blocks : Reads(u, t) /\ Lone(u)
  BY MergeIs, LoneIs DEF Typed
<1>3. u # b /\ u \in Int /\ b \in Int
  BY <1>2, EndsAre, BlocksAre DEF Typed
<1>4. Since(b, u)
  BY <1>3, SinceNow
<1> QED BY <1>1, <1>2, <1>4 DEF Room

\* Such a reader with the turn takes something from a stream that is full.
LEMMA RoomCall ==
  ASSUME Typed, Merge, Room, NEW b \in Blocks, Called(b)
  PROVE  Room'
<1> DEFINE n == moves(b)
<1>1. /\ graph' = graph /\ Turned(b)
      /\ \A s \in Streams : used'[s] = IF Reads(b, s) THEN used[s] - n
                                     ELSE IF Writes(b, s) THEN used[s] + n ELSE used[s]
  BY DEF Called, Moved, Turned
<1>2. n \in Nat
  BY MovesIs DEF Typed
<1>3. b \notin Sources => \A t : Writes(b, t) => used[t] < graph.cap[t]
  BY <1>1, RoomNow DEF Turned
<1>4. SUFFICES ASSUME NEW w \in Blocks, NEW u \in Blocks, NEW s \in Streams,
                      Writes(w, s), Reads(u, s), Lone(u), Since(w, u)'
               PROVE  used'[s] < graph.cap[s]
  BY <1>1, Same DEF Room
<1>5. b \in Int /\ w \in Int /\ u \in Int
  BY BlocksAre DEF Typed
<1>6. w # b /\ (u = b \/ Since(w, u))
  BY <1>1, <1>4, <1>5, SinceNext
<1>7. used[s] \in 0..graph.cap[s] /\ graph.cap[s] \in Nat \ {0}
  BY BlocksAre DEF Typed, TypeOK
<1>8. CASE u = b
  <2>1. used'[s] = used[s] - n
    BY <1>1, <1>4, <1>8
  <2>2. b \in Blocks \ Sources
    BY <1>4, <1>8, SourceIs DEF Typed
  <2>3. used[s] > 0 => Ready(b)
    BY <1>4, <1>8 DEF Lone, Ready, Reads
  <2>4. used[s] > 0 => n > 0
    BY <1>3, <2>2, <2>3, MovesSome
  <2> HIDE DEF n
  <2> QED BY <1>2, <1>7, <2>1, <2>4
<1>9. CASE u # b
  <2>1. ~ Reads(b, s) /\ ~ Writes(b, s)
    BY <1>4, <1>6, <1>9, EndsAre DEF Typed
  <2>2. used'[s] = used[s] /\ Since(w, u)
    BY <1>1, <1>6, <1>9, <2>1
  <2> QED BY <1>4, <2>2 DEF Room
<1> QED BY <1>8, <1>9

LEMMA EndedCall ==
  ASSUME Typed, Merge, Ended, NEW b \in Blocks, Called(b)
  PROVE  Ended'
<1>1. /\ graph' = graph /\ main = AtBlock(b) /\ b \notin eof
      /\ todo' = [todo EXCEPT ![b] = IF @ = Forever THEN @ ELSE @ - moves(b)]
      /\ eof' = eof \/ eof' = eof \cup {b}
  BY DEF Called, Moved
<1>2. todo \in [Blocks -> Nat \cup {Forever}] /\ eof \subseteq Sources
  BY DEF Typed, TypeOK, Ended
<1>3. \A c \in eof : todo'[c] = todo[c]
  BY <1>1, <1>2 DEF Sources
<1>4. eof' \subseteq Sources
  BY <1>1, <1>2, OtherAnswers
<1>5. ASSUME NEW c \in eof', NEW u \in Blocks, NEW s \in Streams, Writes(c, s), Reads(u, s) PROVE todo'[c] = 0
  <2>1. CASE c \in eof
    BY <1>3, <1>5, <2>1 DEF Ended
  <2>2. CASE c \notin eof
    <3>1. c = b /\ b \in Sources /\ eof' # eof
      BY <1>1, <1>4, <1>5, <2>2
    <3>2. s = Outputs(b)[1]
      BY <1>5, <3>1, SourceIs DEF Typed
    <3> QED BY <1>5, <3>1, <3>2, SourceAnswers
  <2> QED BY <2>1, <2>2
<1> QED BY <1>1, <1>4, <1>5, Same DEF Ended

\* Blocks that are skipped, or have nothing yet, are sources.
Passed(b) == /\ b \in Sources /\ Turned(b)
             /\ graph' = graph /\ used' = used /\ todo' = todo /\ eof' = eof /\ canceled' = canceled
             /\ b \in eof \/ Name(b) \in Slow
             /\ done' => done /\ b \in eof

LEMMA PassedIs ==
  ASSUME Typed, Ended, NEW b \in Blocks, Skip(b) \/ NothingYet(b)
  PROVE  Passed(b)
<1>1. CASE Skip(b)
  BY <1>1 DEF Skip, InPass, NextBlock, AtBlock, Turned, Ended, Passed
<1>2. CASE NothingYet(b)
  <2>1. b \in Sources
    BY <1>2, OtherIs DEF NothingYet, SourceNames, Typed
  <2>2. asks_for_more(Simply("Pending")) /\ ~ at_end(b, Simply("Pending"))
    BY DEF Simply, asks_for_more, at_end
  <2> QED BY <1>2, <2>1, <2>2 DEF NothingYet, Noted, InPass, NextBlock, AtBlock, Turned, Passed
<1> QED BY <1>1, <1>2

LEMMA RoomPassed ==
  ASSUME Typed, Room, Ended, NEW b \in Blocks, Passed(b)
  PROVE  Room' /\ Ended'
<1>1. graph' = graph /\ used' = used /\ todo' = todo /\ eof' = eof /\ Turned(b) /\ b \in Sources
  BY DEF Passed
<1>2. Ended'
  BY <1>1, Same DEF Ended
<1>3. SUFFICES ASSUME NEW w \in Blocks, NEW u \in Blocks, NEW s \in Streams,
                      Writes(w, s), Reads(u, s), Lone(u), Since(w, u)'
               PROVE  used[s] < graph.cap[s]
  BY <1>1, <1>2, Same DEF Room
<1>4. b \in Int /\ w \in Int /\ u \in Int
  BY BlocksAre DEF Typed
<1>5. u # b
  BY <1>1, <1>3, SourceIs DEF Typed
<1>6. Since(w, u)
  BY <1>1, <1>3, <1>4, <1>5, SinceNext
<1> QED BY <1>3, <1>6 DEF Room

-----------------------------------------------------------------------------
(* Streams that lead to no block that says Again                           *)

\* Who reads such a stream waits, and writes none but such streams.
LEMMA QuietIs ==
  ASSUME NEW b \in Blocks, NEW s \in Quiet, Reads(b, s)
  PROVE  /\ Name(b) \notin Steady
         /\ \A t : Writes(b, t) => t \in Quiet
<1>1. PICK L \in SUBSET Streams : Silent(L) /\ s \in L
  BY DEF Quiet
<1>2. ToSet(Inputs(b)) \cap L # {}
  BY <1>1 DEF Reads
<1>3. Name(b) \notin Steady /\ ToSet(Outputs(b)) \subseteq L
  BY <1>1, <1>2 DEF Silent, PassedOn
<1>4. L \subseteq Quiet
  BY <1>1 DEF Quiet
<1> QED BY <1>3, <1>4 DEF Writes

\* And a block that waits and writes none but such streams reads no other.
LEMMA QuietInput ==
  ASSUME graph \in Graphs, NEW b \in Blocks, NEW s, Reads(b, s), Name(b) \notin Steady,
         \A t : Writes(b, t) => t \in Quiet
  PROVE  s \in Quiet
<1> DEFINE L == Quiet \cup {s}
<1>1. s \in Streams /\ Quiet \subseteq Streams
  BY PortsAre DEF Quiet
<1>2. ASSUME NEW c \in Blocks, ToSet(Inputs(c)) \cap L # {}
      PROVE  Name(c) \notin Steady /\ ToSet(Outputs(c)) \subseteq L
  <2>1. PICK r \in L : Reads(c, r)
    BY <1>2 DEF Reads
  <2>2. CASE r \in Quiet
    BY <2>1, <2>2, QuietIs DEF Writes
  <2>3. CASE r = s
    <3>1. c = b
      BY <2>1, <2>3, EndsAre
    <3> QED BY <3>1 DEF Writes
  <2> QED BY <2>2, <2>3
<1>3. Silent(L)
  BY <1>2 DEF Silent, PassedOn
<1>4. L \in SUBSET Streams
  BY <1>1
<1> QED BY <1>3, <1>4 DEF Quiet

\* So that one input of a block tells of all of them.
LEMMA LoudIs ==
  ASSUME graph \in Graphs, NEW b \in Blocks, NEW s, Reads(b, s)
  PROVE  Loud(b) <=> s \notin Quiet
<1>1. ASSUME s \in Quiet, NEW r, Reads(b, r) PROVE r \in Quiet
  <2>1. Name(b) \notin Steady /\ \A t : Writes(b, t) => t \in Quiet
    BY <1>1, QuietIs
  <2> QED BY <1>1, <2>1, QuietInput
<1> QED BY <1>1 DEF Loud, Reads

\* A source that waits writes no such stream.
LEMMA DrivenOut ==
  ASSUME graph \in Graphs, Driven, NEW b \in Sources, Name(b) \in Slow \cup {"SigMFSource"}
  PROVE  Outputs(b)[1] \notin Quiet
<1> SUFFICES ASSUME Outputs(b)[1] \in Quiet PROVE FALSE
  OBVIOUS
<1>1. PICK L \in SUBSET Streams : Silent(L) /\ Outputs(b)[1] \in L
  BY DEF Quiet
<1>2. ToSet(Outputs(b)) \subseteq L
  BY <1>1, SourceIs DEF Writes
<1>3. \E c \in Blocks : Name(c) \in Steady /\ ToSet(Inputs(c)) \cap L # {}
  BY <1>1, <1>2 DEF Driven, Silent
<1> QED BY <1>1, <1>3 DEF Silent

\* A block that waits comes before those that read what it writes.
LEMMA Before ==
  ASSUME Downstream, NEW w \in Blocks, NEW u \in Blocks, NEW s, Writes(w, s), Reads(u, s)
  PROVE  w < u \/ Name(w) \in Steady
<1>1. Share(Outputs(w), Inputs(u))
  BY DEF Share, Writes, Reads
<1> QED BY <1>1 DEF Downstream

\* Sources do not come after those that read what they write.
LEMMA SourceBefore ==
  ASSUME graph \in Graphs, Downstream, NEW w \in Sources, NEW u \in Blocks, NEW s, Writes(w, s), Reads(u, s)
  PROVE  w < u
<1>1. w \in Blocks /\ Name(w) \in SourceNames
  BY SourceIs
<1>2. Name(w) \notin Steady
  BY <1>1 DEF Steady, SourceNames, Slow, Restless
<1> QED BY <1>1, <1>2, Before

\* A reader of such streams takes all there is in one of them: it has that much room.
LEMMA TakesAll ==
  ASSUME Typed, Ordered, Drained, NEW b \in Blocks, main = AtBlock(b),
         NEW s \in Quiet, Reads(b, s)
  PROVE  \E r : Reads(b, r) /\ moves(b) = used[r]
<1>1. b \in Blocks \ Sources /\ b \in Int
  BY SourceIs, BlocksAre DEF Typed
<1>2. Name(b) \notin Steady /\ Name(b) \notin OneByOne
  BY <1>1, QuietIs, OtherIs DEF OneByOne, Steady, SourceNames, Typed
<1>3. s \in Streams /\ used[s] \in 0..graph.cap[s] /\ graph.cap[s] \in Nat
  BY PortsAre, BlocksAre DEF Typed, TypeOK
<1>4. moves(b) \in Nat /\ moves(b) <= used[s]
  BY MovesIs DEF Typed
<1>5. \/ \E r : Reads(b, r) /\ moves(b) = used[r]
      \/ \E t : Writes(b, t) /\ moves(b) = graph.cap[t] - used[t]
  <2>1. todo[b] = Forever
    BY <1>1 DEF Typed
  <2> QED BY <1>2, <2>1, MovesIs DEF Typed
<1>6. ASSUME NEW t, Writes(b, t), moves(b) = graph.cap[t] - used[t] PROVE moves(b) = used[s]
  <2>1. t \in Quiet /\ t \in Streams
    BY <1>6, QuietIs, PortsAre DEF Typed
  <2>2. PICK u \in Blocks : Reads(u, t) /\ Lone(u)
    <3>1. PICK u \in Blocks : Reads(u, t)
      BY <1>1, <1>6, MergeIs DEF Ordered, Typed
    <3>2. Lone(u)
      BY <1>1, <1>6, <3>1, LoneIs DEF Ordered, Typed
    <3> QED BY <3>1, <3>2
  <2>3. Since(b, u)
    <3>1. graph \in Graphs /\ u \in Int
      BY BlocksAre DEF Typed
    <3>2. u # b
      BY <1>6, <2>2, <3>1, EndsAre
    <3> QED BY <1>1, <3>1, <3>2, SinceNow
  <2>4. used[t] = 0
    BY <1>6, <2>1, <2>2, <2>3 DEF Drained
  <2>5. graph.cap[s] <= graph.cap[t]
    BY <1>2, <1>6 DEF Ordered, Widening, Reads, Writes
  <2>6. graph.cap[t] \in Nat
    BY <2>1, BlocksAre DEF Typed
  <2> QED BY <1>3, <1>4, <1>6, <2>4, <2>5, <2>6
<1> QED BY <1>5, <1>6

LEMMA DrainedCall ==
  ASSUME Typed, Ordered, Drained, NEW b \in Blocks, Called(b)
  PROVE  Drained'
<1> DEFINE n == moves(b)
<1>1. /\ graph' = graph /\ Turned(b) /\ main = AtBlock(b) /\ main'.k = b + 1 /\ main.k = b
      /\ \A s \in Streams : used'[s] = IF Reads(b, s) THEN used[s] - n
                                     ELSE IF Writes(b, s) THEN used[s] + n ELSE used[s]
      /\ done' => done
  BY DEF Called, Moved, Turned, AtBlock
<1>2. SUFFICES ASSUME NEW w \in Blocks, NEW u \in Blocks, NEW s \in Quiet, Writes(w, s), Reads(u, s), Lone(u),
                      Since(w, u)' \/ (done' /\ u < b + 1)
               PROVE  used'[s] = 0
  BY <1>1, Same DEF Drained
<1>3. s \in Streams /\ used[s] \in Nat /\ n \in Nat
  BY <1>2, PortsAre, MovesIs DEF Typed, TypeOK
<1>4. b \in Int /\ w \in Int /\ u \in Int
  BY BlocksAre DEF Typed
<1>5. CASE u = b
  <2>1. PICK r : Reads(b, r) /\ n = used[r]
    BY <1>1, <1>2, <1>5, TakesAll
  <2>2. r = s
    BY <1>2, <1>5, <2>1 DEF Lone, Reads
  <2>3. used'[s] = used[s] - n
    BY <1>1, <1>2, <1>3, <1>5
  <2> HIDE DEF n
  <2> QED BY <1>3, <2>1, <2>2, <2>3
<1>6. CASE w = b /\ u # b
  <2>1. done' /\ done /\ u < b
    BY <1>1, <1>2, <1>4, <1>6, SinceNext
  <2>2. Name(b) \in Steady
    BY <1>2, <1>4, <1>6, <2>1, Before DEF Ordered
  <2>3. b \in Blocks \ Sources
    BY <2>2, SourceIs DEF Steady, SourceNames, Slow, Restless, Typed
  <2>4. n = 0
    <3>1. ~ (n > 0)
      BY <2>1, <2>2, <2>3, OtherAnswers DEF Ordered
    <3> HIDE DEF n
    <3> QED BY <1>3, <3>1
  <2>5. used[s] = 0
    BY <1>1, <1>2, <1>6, <2>1 DEF Drained
  <2>6. used'[s] = used[s] + n
    BY <1>1, <1>2, <1>3, <1>6, EndsAre DEF Typed
  <2> HIDE DEF n
  <2> QED BY <2>4, <2>5, <2>6
<1>7. CASE w # b /\ u # b
  <2>1. ~ Reads(b, s) /\ ~ Writes(b, s)
    BY <1>2, <1>7, EndsAre DEF Typed
  <2>2. used'[s] = used[s]
    BY <1>1, <1>3, <2>1
  <2>3. Since(w, u) \/ (done /\ u < b)
    BY <1>1, <1>2, <1>4, <1>7, SinceNext
  <2> QED BY <1>1, <1>2, <2>2, <2>3 DEF Drained
<1> QED BY <1>5, <1>6, <1>7

LEMMA EmptiedCall ==
  ASSUME Typed, Ordered, Drained, Emptied, NEW b \in Blocks, Called(b)
  PROVE  Emptied'
<1> DEFINE n == moves(b)
<1>1. /\ graph' = graph /\ main = AtBlock(b) /\ main'.k = b + 1 /\ main.k = b
      /\ \A s \in Streams : used'[s] = IF Reads(b, s) THEN used[s] - n
                                     ELSE IF Writes(b, s) THEN used[s] + n ELSE used[s]
  BY DEF Called, Moved, AtBlock
<1>2. SUFFICES ASSUME NEW u \in Blocks, NEW s \in Quiet, Reads(u, s), ~ Lone(u), u < b + 1
               PROVE  \E r : Reads(u, r) /\ used'[r] = 0
  <2>1. \A u : Ready(u)' <=> \A r : Reads(u, r) => used'[r] > 0
    BY <1>1, Same DEF Ready, Reads
  <2> QED BY <1>1, <2>1, Same DEF Emptied
<1>3. b \in Int /\ u \in Int
  BY BlocksAre DEF Typed
<1>4. CASE u = b
  <2>1. PICK r : Reads(b, r) /\ n = used[r]
    BY <1>1, <1>2, <1>4, TakesAll
  <2>2. r \in Streams /\ used[r] \in Nat
    BY <2>1, PortsAre DEF Typed, TypeOK
  <2>3. used'[r] = used[r] - n
    BY <1>1, <2>1, <2>2
  <2> HIDE DEF n
  <2> QED BY <1>4, <2>1, <2>2, <2>3
<1>5. CASE u < b
  <2>1. PICK r : Reads(u, r) /\ ~ (used[r] > 0)
    BY <1>1, <1>2, <1>5 DEF Emptied, Ready, Reads
  <2>2. r \in Streams /\ used[r] \in Nat
    BY <2>1, PortsAre DEF Typed, TypeOK
  <2>3. ~ Reads(b, r)
    BY <1>3, <1>5, <2>1, EndsAre DEF Typed
  <2>4. ~ Writes(b, r)
    <3>1. Writes(b, r) => b \in Sources
      BY <1>2, <2>1, LoneIs DEF Ordered, Typed
    <3> QED BY <1>3, <1>5, <2>1, <3>1, SourceBefore DEF Ordered, Typed
  <2>5. used'[r] = used[r]
    BY <1>1, <2>2, <2>3, <2>4
  <2> QED BY <2>1, <2>2, <2>5
<1> QED BY <1>2, <1>3, <1>4, <1>5

LEMMA DrainedPassed ==
  ASSUME Typed, Drained, Emptied, NEW b \in Blocks, Passed(b)
  PROVE  Drained' /\ Emptied'
<1>1. /\ graph' = graph /\ used' = used /\ Turned(b) /\ b \in Sources /\ main'.k = b + 1 /\ main.k = b
      /\ done' => done
  BY DEF Passed, Turned, AtBlock
<1>2. b \in Int /\ \A u \in Blocks : u \in Int
  BY BlocksAre DEF Typed
<1>3. ASSUME NEW w \in Blocks, NEW u \in Blocks, NEW s \in Quiet, Writes(w, s), Reads(u, s), Lone(u),
             Since(w, u)' \/ (done' /\ u < b + 1)
      PROVE  used[s] = 0
  <2>1. u # b
    BY <1>1, <1>3, SourceIs DEF Typed
  <2>2. Since(w, u) \/ (done /\ u < b)
    BY <1>1, <1>2, <1>3, <2>1, SinceNext
  <2> QED BY <1>1, <1>3, <2>2 DEF Drained
<1>4. ASSUME NEW u \in Blocks, NEW s \in Quiet, Reads(u, s), ~ Lone(u), u < b + 1
      PROVE  ~ Ready(u)
  <2>1. u # b
    BY <1>1, <1>4, SourceIs DEF Typed
  <2>2. u < b
    BY <1>2, <1>4, <2>1
  <2> QED BY <1>1, <1>4, <2>2 DEF Emptied
<1>5. Drained'
  BY <1>1, <1>3, Same DEF Drained
<1>6. Emptied'
  BY <1>1, <1>4, Same DEF Emptied, Ready
<1> QED BY <1>5, <1>6

-----------------------------------------------------------------------------
(* What a block that reads several streams lacks                           *)

\* A block that has the turn, and misses something in a pass that asks for no
\* other one, misses it for good; so it does in any pass if it reads quiet streams.
LEMMA MissesIs ==
  ASSUME Typed, Ordered, Fed, NEW b \in Blocks, main = AtBlock(b), ~ Ready(b), done \/ ~ Loud(b)
  PROVE  Lacks(b)
<1>1. PICK r : Reads(b, r) /\ ~ (used[r] > 0)
  BY DEF Ready, Reads
<1>2. r \in Streams /\ used[r] = 0
  BY <1>1, PortsAre, BlocksAre DEF Typed, TypeOK
<1>3. ASSUME NEW w \in Sources, Writes(w, r) PROVE todo[w] = 0
  <2>1. w < b
    BY <1>1, <1>3, SourceBefore DEF Ordered, Typed
  <2>2. main.k = b /\ b <= b
    BY BlocksAre DEF AtBlock, Typed
  <2>3. done \/ r \in Quiet
    BY <1>1, LoudIs DEF Typed
  <2>4. used[r] > 0 \/ todo[w] = 0
    BY <1>1, <1>2, <1>3, <2>1, <2>2, <2>3 DEF Fed
  <2> QED BY <1>1, <2>4
<1> QED BY <1>1, <1>2, <1>3 DEF Lacks, Reads

\* What a source did not leave to a block stays away.
LEMMA LacksStays ==
  ASSUME Typed, Merge, NEW b \in Blocks, Called(b), NEW w \in Sources, NEW u \in Blocks, NEW s,
         Writes(w, s), Reads(u, s), Lacks(u)
  PROVE  Lacks(u)'
<1> DEFINE n == moves(b)
<1>1. /\ graph' = graph
      /\ \A r \in Streams : used'[r] = IF Reads(b, r) THEN used[r] - n
                                     ELSE IF Writes(b, r) THEN used[r] + n ELSE used[r]
      /\ todo' = [todo EXCEPT ![b] = IF @ = Forever THEN @ ELSE @ - n]
  BY DEF Called, Moved
<1>2. PICK r : Reads(u, r) /\ used[r] = 0 /\ \A v \in Sources : Writes(v, r) => todo[v] = 0
  BY DEF Lacks, Reads
<1>3. r \in Streams
  BY <1>2, PortsAre DEF Typed
<1>4. n \in Nat
  BY MovesIs DEF Typed
<1>5. ASSUME Reads(b, r) \/ Writes(b, r) PROVE n = 0
  <2>1. CASE Reads(b, r)
    <3>1. n <= 0
      BY <1>2, <2>1, MovesIs DEF Typed
    <3> HIDE DEF n
    <3> QED BY <1>4, <3>1
  <2>2. CASE Writes(b, r)
    <3>1. b \in Sources
      <4> SUFFICES ASSUME b \notin Sources PROVE FALSE
        OBVIOUS
      <4>1. s = r
        BY <1>2, <2>2, LoneIs DEF Typed
      <4> QED BY <2>2, <4>1, EndsAre DEF Typed, Sources
    <3>2. todo[b] = 0
      BY <1>2, <2>2, <3>1
    <3>3. n <= 0
      BY <3>2, MovesIs DEF Typed, Forever
    <3> HIDE DEF n
    <3> QED BY <1>4, <3>3
  <2> QED BY <1>5, <2>1, <2>2
<1> HIDE DEF n
<1>6. used'[r] = 0
  BY <1>1, <1>2, <1>3, <1>5
<1>7. ASSUME NEW v \in Sources, Writes(v, r) PROVE todo'[v] = 0
  <2>1. todo[v] = 0 /\ v \in DOMAIN todo
    BY <1>2, <1>7 DEF Sources, Typed, TypeOK
  <2>2. CASE v = b
    BY <1>1, <1>5, <1>7, <2>1, <2>2 DEF Forever
  <2>3. CASE v # b
    BY <1>1, <2>1, <2>3
  <2> QED BY <2>2, <2>3
<1>8. \E q \in ToSet(Inputs(u)) : used'[q] = 0 /\ \A v \in Sources : Writes(v, q) => todo'[v] = 0
  BY <1>2, <1>6, <1>7 DEF Reads
<1> QED BY <1>1, <1>8, Same DEF Lacks

LEMMA FedCall ==
  ASSUME Typed, Ordered, Fed, NEW b \in Blocks, Called(b)
  PROVE  Fed'
<1>1. /\ graph' = graph /\ main'.k = b + 1 /\ main.k = b
      /\ \A s \in Streams : used'[s] = IF Reads(b, s) THEN used[s] - moves(b)
                                     ELSE IF Writes(b, s) THEN used[s] + moves(b) ELSE used[s]
      /\ todo' = [todo EXCEPT ![b] = IF @ = Forever THEN @ ELSE @ - moves(b)]
      /\ done' => done
  BY DEF Called, Moved, AtBlock
<1>2. SUFFICES ASSUME NEW w \in Sources, NEW u \in Blocks, NEW s \in Streams, Writes(w, s), Reads(u, s),
                      w < b + 1, b + 1 <= u, done' \/ s \in Quiet
               PROVE  used'[s] > 0 \/ todo'[w] = 0
  BY <1>1, Same DEF Fed
<1>3. b \in Int /\ w \in Int /\ u \in Int /\ w \in Blocks
  BY BlocksAre DEF Typed, Sources
<1>4. CASE w = b
  <2>1. s = Outputs(b)[1]
    BY <1>2, <1>4, SourceIs DEF Typed
  <2> QED BY <1>4, <2>1, SourceFeeds
<1>5. CASE w # b
  <2>1. w < b /\ b <= u /\ u # b
    BY <1>2, <1>3, <1>5
  <2>2. used[s] > 0 \/ todo[w] = 0
    BY <1>1, <1>2, <2>1 DEF Fed
  <2>3. ~ Reads(b, s) /\ ~ Writes(b, s)
    BY <1>2, <1>3, <1>5, <2>1, EndsAre DEF Typed
  <2>4. used'[s] = used[s] /\ todo'[w] = todo[w]
    BY <1>1, <1>3, <1>5, <2>3 DEF Typed, TypeOK
  <2> QED BY <2>2, <2>4
<1> QED BY <1>4, <1>5

LEMMA HeldCall ==
  ASSUME Typed, Ordered, Room, Fed, Held, NEW b \in Blocks, Called(b)
  PROVE  Held'
<1> DEFINE n == moves(b)
<1>1. /\ graph' = graph /\ Turned(b) /\ main = AtBlock(b)
      /\ \A s \in Streams : used'[s] = IF Reads(b, s) THEN used[s] - n
                                     ELSE IF Writes(b, s) THEN used[s] + n ELSE used[s]
  BY DEF Called, Moved, Turned
<1>2. SUFFICES ASSUME NEW w \in Sources, NEW u \in Blocks, NEW s \in Quiet, Writes(w, s), Reads(u, s), Since(w, u)'
               PROVE  used'[s] < graph.cap[s] \/ Lacks(u)'
  BY <1>1, Same DEF Held
<1>3. b \in Int /\ w \in Int /\ u \in Int /\ w \in Blocks
  BY BlocksAre DEF Typed, Sources
<1>4. w # b /\ (u = b \/ Since(w, u))
  BY <1>1, <1>2, <1>3, SinceNext
<1>5. s \in Streams /\ used[s] \in 0..graph.cap[s] /\ graph.cap[s] \in Nat /\ n \in Nat
  BY <1>2, PortsAre, BlocksAre, MovesIs DEF Typed, TypeOK
<1>6. Lacks(u) => Lacks(u)'
  BY <1>2, LacksStays DEF Ordered
<1>7. CASE u = b
  <2>1. b \in Blocks \ Sources /\ ~ Loud(b)
    BY <1>2, <1>7, SourceIs, LoudIs DEF Typed
  <2>2. CASE Ready(b)
    <3>1. \A t : Writes(b, t) => used[t] < graph.cap[t]
      BY <1>1, <2>1, RoomNow DEF Ordered
    <3>2. n > 0
      BY <2>1, <2>2, <3>1, MovesSome
    <3>3. used'[s] = used[s] - n
      BY <1>1, <1>2, <1>5, <1>7
    <3> HIDE DEF n
    <3> QED BY <1>5, <3>2, <3>3
  <2>3. CASE ~ Ready(b)
    BY <1>1, <1>6, <1>7, <2>1, <2>3, MissesIs
  <2> QED BY <2>2, <2>3
<1>8. CASE u # b
  <2>1. used[s] < graph.cap[s] \/ Lacks(u)
    BY <1>2, <1>4, <1>8 DEF Held
  <2>2. ~ Reads(b, s) /\ ~ Writes(b, s)
    BY <1>2, <1>3, <1>4, <1>8, EndsAre DEF Typed
  <2>3. used'[s] = used[s]
    BY <1>1, <1>5, <2>2
  <2> QED BY <1>6, <2>1, <2>3
<1> QED BY <1>7, <1>8

LEMMA FedHeldPassed ==
  ASSUME Typed, Ordered, Ended, Fed, Held, NEW b \in Blocks, Passed(b)
  PROVE  Fed' /\ Held'
<1>1. /\ graph' = graph /\ used' = used /\ todo' = todo /\ Turned(b) /\ main'.k = b + 1 /\ main.k = b
      /\ b \in Sources /\ (b \in eof \/ Name(b) \in Slow) /\ (done' => done /\ b \in eof)
  BY DEF Passed, Turned, AtBlock
<1>2. b \in Int /\ \A u \in Blocks : u \in Int
  BY BlocksAre DEF Typed
<1>3. ASSUME NEW w \in Sources, NEW u \in Blocks, NEW s \in Streams, Writes(w, s), Reads(u, s),
             w < b + 1, b + 1 <= u, done' \/ s \in Quiet
      PROVE  used[s] > 0 \/ todo[w] = 0
  <2>1. CASE w = b
    <3>1. b \in eof
      <4>1. s = Outputs(b)[1]
        BY <1>3, <2>1, SourceIs DEF Typed
      <4> QED BY <1>1, <1>3, <4>1, DrivenOut DEF Ordered, Typed
    <3> QED BY <1>3, <2>1, <3>1 DEF Ended
  <2>2. CASE w # b
    <3>1. w < b /\ b <= u
      BY <1>2, <1>3, <2>2 DEF Sources
    <3> QED BY <1>1, <1>3, <3>1 DEF Fed
  <2> QED BY <2>1, <2>2
<1>4. ASSUME NEW w \in Sources, NEW u \in Blocks, NEW s \in Quiet, Writes(w, s), Reads(u, s), Since(w, u)'
      PROVE  used[s] < graph.cap[s] \/ Lacks(u)
  <2>1. u # b /\ w \in Int
    BY <1>1, <1>2, <1>4, SourceIs DEF Typed, Sources
  <2>2. Since(w, u)
    BY <1>1, <1>2, <1>4, <2>1, SinceNext
  <2> QED BY <1>4, <2>2 DEF Held
<1>5. \A u : Lacks(u)' <=> Lacks(u)
  BY <1>1, Same DEF Lacks
<1>6. Fed'
  BY <1>1, <1>3, Same DEF Fed
<1>7. Held'
  BY <1>1, <1>4, <1>5, Same DEF Held
<1> QED BY <1>6, <1>7

-----------------------------------------------------------------------------
(* What is owed in a pass that asks for no other one                       *)

\* Samples that somebody has still to take stay a debt.
LEMMA OwedCall ==
  ASSUME Typed, Ordered, Room, NEW b \in Blocks, Called(b), Owed, done', Debt \/ Debt'
  PROVE  ToCome'
<1> DEFINE n == moves(b)
<1>1. /\ graph' = graph /\ main = AtBlock(b) /\ main'.k = b + 1 /\ main.k = b
      /\ \A s \in Streams : used'[s] = IF Reads(b, s) THEN used[s] - n
                                     ELSE IF Writes(b, s) THEN used[s] + n ELSE used[s]
      /\ done
  BY DEF Called, Moved, AtBlock
<1>2. n \in Nat /\ b \in Int /\ \A s \in Streams : used[s] \in Nat
  BY MovesIs, BlocksAre DEF Typed, TypeOK
<1>3. \A u : Ready(u)' <=> \A s : Reads(u, s) => used'[s] > 0
  BY <1>1, Same DEF Ready, Reads
<1>4. \A u \in Blocks : Loud(u) /\ Ready(u)' /\ b < u => ToCome'
  <2>1. \A u \in Blocks : u \in Int
    BY BlocksAre DEF Typed
  <2>2. \A u \in Blocks : Loud(u) /\ Ready(u)' /\ b + 1 <= u => ToCome'
    BY <1>1, Same DEF ToCome
  <2> QED BY <1>2, <2>1, <2>2
\* whoever has samples at all inputs, but b, keeps them
<1>5. ASSUME NEW u \in Blocks, u # b, Ready(u) PROVE Ready(u)'
  <2>1. SUFFICES ASSUME NEW s, Reads(u, s) PROVE used'[s] > 0
    BY <1>3
  <2>2. s \in Streams /\ used[s] > 0 /\ ~ Reads(b, s)
    BY <1>5, <2>1, PortsAre, EndsAre DEF Ready, Reads, Typed
  <2> HIDE DEF n
  <2> QED BY <1>1, <1>2, <2>2
\* so if b has not the samples itself, then those who have had them come after it
<1>6. ASSUME ~ (Loud(b) /\ Ready(b)), \A s : Writes(b, s) /\ s \notin Quiet => Name(b) \notin Steady \/ n = 0
      PROVE  ToCome'
  <2>1. CASE Debt
    <3>1. PICK u \in Blocks : Loud(u) /\ Ready(u) /\ b <= u
      BY <1>1, <2>1 DEF Owed, ToCome
    <3>2. u # b /\ u \in Int
      BY <1>6, <3>1, BlocksAre DEF Typed
    <3> QED BY <1>2, <1>4, <1>5, <3>1, <3>2
  <2>2. CASE ~ Debt
    <3>1. PICK u \in Blocks : Loud(u) /\ Ready(u)'
      BY <1>1, <2>2, Same DEF Debt
    <3>2. PICK s : Reads(u, s) /\ ~ (used[s] > 0) /\ used'[s] > 0
      BY <1>3, <2>2, <3>1 DEF Debt, Ready, Reads
    <3>3. s \in Streams
      BY <3>2, PortsAre DEF Typed
    <3>4. Writes(b, s) /\ n # 0
      <4> HIDE DEF n
      <4> QED BY <1>1, <1>2, <3>2, <3>3
    <3>5. s \notin Quiet
      BY <3>1, <3>2, LoudIs DEF Typed
    <3>6. Name(b) \notin Steady
      BY <1>6, <3>4, <3>5
    <3>7. b < u
      BY <3>2, <3>4, <3>6, Before DEF Ordered
    <3> QED BY <1>4, <3>1, <3>7
  <2> QED BY <2>1, <2>2
<1>7. CASE b \in Sources
  <2>1. ~ Loud(b) /\ Name(b) \notin Steady
    BY <1>7, SourceIs DEF Loud, Reads, Steady, SourceNames, Slow, Restless, Typed
  <2> QED BY <1>6, <2>1
<1>8. CASE b \notin Sources /\ ~ (Loud(b) /\ Ready(b))
  <2>1. Name(b) \in Steady => n = 0
    <3>1. Name(b) \in Steady => ~ (n > 0)
      BY <1>8, OtherAnswers DEF Ordered
    <3> HIDE DEF n
    <3> QED BY <1>2, <3>1
  <2> QED BY <1>6, <1>8, <2>1
<1>9. CASE b \notin Sources /\ Loud(b) /\ Ready(b)
  <2>1. n > 0
    BY <1>1, <1>9, RoomNow, MovesSome DEF Ordered
  <2>2. Name(b) \notin Steady
    BY <1>9, <2>1, OtherAnswers DEF Ordered
  <2>3. PICK t : Writes(b, t) /\ t \notin Quiet
    BY <1>9, <2>2, QuietInput DEF Loud, Reads, Typed
  <2>4. PICK v \in Blocks : Reads(v, t)
    BY <1>9, <2>3, MergeIs DEF Ordered, Typed
  <2>5. \A r : Reads(v, r) => r = t
    BY <1>9, <2>3, <2>4, LoneIs DEF Ordered, Typed
  <2>6. Loud(v) /\ b < v
    BY <2>2, <2>3, <2>4, LoudIs, Before DEF Ordered, Typed
  <2>7. t \in Streams /\ ~ Reads(b, t)
    BY <2>3, PortsAre, EndsAre DEF Typed
  <2>8. used'[t] > 0
    <3> HIDE DEF n
    <3> QED BY <1>1, <1>2, <2>1, <2>3, <2>7
  <2> QED BY <1>3, <1>4, <2>4, <2>5, <2>6, <2>8
<1> QED BY <1>7, <1>8, <1>9

\* What is settled about a source stays so in a call of another block.
LEMMA SettledCall ==
  ASSUME Typed, Ordered, Fed, NEW b \in Blocks, Called(b), done, ~ Debt,
         NEW w \in Sources, w # b, NEW u \in Blocks, NEW s \in Streams, Writes(w, s), Reads(u, s), Settled(w, u, s)
  PROVE  Settled(w, u, s)'
<1>1. /\ graph' = graph /\ main = AtBlock(b) /\ main'.k = b + 1 /\ main.k = b
      /\ \A r \in Streams : used'[r] = IF Reads(b, r) THEN used[r] - moves(b)
                                     ELSE IF Writes(b, r) THEN used[r] + moves(b) ELSE used[r]
      /\ todo' = [todo EXCEPT ![b] = IF @ = Forever THEN @ ELSE @ - moves(b)]
  BY DEF Called, Moved, AtBlock
<1>2. b \in Int /\ u \in Int /\ w \in Blocks
  BY BlocksAre DEF Typed, Sources
<1>3. Lacks(u) => Lacks(u)'
  BY LacksStays DEF Ordered
<1>4. Settled(w, u, s)' <=> \/ todo'[w] = 0
                            \/ Lacks(u)'
                            \/ s \notin Quiet /\ used'[s] > 0 /\ b + 1 <= u
  BY <1>1, Same DEF Settled
<1>5. todo'[w] = todo[w]
  BY <1>1, <1>2 DEF Typed, TypeOK
<1>6. ASSUME s \notin Quiet, used[s] > 0, b <= u, u # b PROVE used'[s] > 0 /\ b + 1 <= u
  <2>1. ~ Reads(b, s) /\ ~ Writes(b, s)
    BY <1>2, <1>6, EndsAre DEF Typed
  <2> QED BY <1>1, <1>2, <1>6, <2>1
<1>7. ASSUME s \notin Quiet, u = b PROVE Lacks(u)
  <2>1. ~ Ready(b)
    BY <1>7, LoudIs DEF Debt, Typed
  <2> QED BY <1>1, <1>7, <2>1, MissesIs
<1> QED BY <1>1, <1>3, <1>4, <1>5, <1>6, <1>7 DEF Settled

\* And the turn of a source settles it.
LEMMA SettledNow ==
  ASSUME Typed, Ordered, Held, NEW b \in Sources, Called(b), done',
         NEW u \in Blocks, NEW s \in Streams, Writes(b, s), Reads(u, s)
  PROVE  Settled(b, u, s)'
<1>1. b \in Blocks /\ s = Outputs(b)[1] /\ ~ Reads(b, s)
  BY SourceIs DEF Typed
<1>2. /\ graph' = graph /\ main = AtBlock(b) /\ main'.k = b + 1
      /\ used'[s] = used[s] + moves(b)
  BY <1>1 DEF Called, Moved, AtBlock
<1>3. b \in Int /\ u \in Int /\ used[s] \in Nat /\ graph.cap[s] \in Nat \ {0} /\ moves(b) \in Nat
  <2>1. b \in Int /\ u \in Int /\ graph.cap[s] \in Nat \ {0}
    BY <1>1, BlocksAre DEF Typed
  <2>2. moves(b) \in Nat
    BY <1>1, MovesIs DEF Typed
  <2>3. used[s] \in Nat
    BY DEF Typed, TypeOK
  <2> QED BY <2>1, <2>2, <2>3
<1>4. b < u /\ u # b
  BY <1>3, SourceBefore DEF Ordered, Typed
<1>5. Settled(b, u, s)' <=> \/ todo'[b] = 0
                            \/ Lacks(u)'
                            \/ s \notin Quiet /\ used'[s] > 0 /\ b + 1 <= u
  BY <1>2, Same DEF Settled
<1>6. CASE todo'[b] = 0
  BY <1>5, <1>6
<1>7. CASE Name(b) \in Slow \cup {"SigMFSource"} /\ moves(b) > 0
  <2>1. s \notin Quiet
    BY <1>1, <1>7, DrivenOut DEF Ordered, Typed
  <2> QED BY <1>2, <1>3, <1>4, <1>5, <1>7, <2>1
<1>8. CASE used[s] = graph.cap[s]
  <2>1. CASE s \in Quiet
    <3>1. Since(b, u)
      BY <1>2, <1>3, <1>4, SinceNow
    <3>2. ~ (used[s] < graph.cap[s])
      BY <1>3, <1>8
    <3>3. Lacks(u)
      BY <2>1, <3>1, <3>2 DEF Held
    <3> QED BY <1>1, <1>5, <3>3, LacksStays DEF Ordered
  <2>2. CASE s \notin Quiet
    BY <1>2, <1>3, <1>4, <1>5, <1>8, <2>2
  <2> QED BY <2>1, <2>2
<1> QED BY <1>1, <1>6, <1>7, <1>8, SourceAnswers DEF Ordered

LEMMA OwedThroughCall ==
  ASSUME Typed, Ordered, Room, Fed, Held, Owed, Through, NEW b \in Blocks, Called(b)
  PROVE  Owed' /\ Through'
<1>1. graph' = graph /\ main'.k = b + 1 /\ main.k = b /\ (done' => done)
  BY DEF Called, Moved, AtBlock
<1>2. ToCome' => Debt'
  BY DEF ToCome, Debt
<1>3. done' /\ (Debt \/ Debt') => ToCome'
  BY OwedCall
<1>4. ASSUME done', ~ Debt, NEW w \in Sources, NEW u \in Blocks, NEW s \in Streams, Writes(w, s), Reads(u, s), w < b + 1
      PROVE  Settled(w, u, s)'
  <2>1. w \in Int /\ b \in Int
    BY BlocksAre DEF Sources, Typed
  <2>2. CASE w = b
    BY <1>4, <2>2, SettledNow
  <2>3. CASE w # b
    <3>1. w < b
      BY <1>4, <2>1, <2>3
    <3>2. Settled(w, u, s)
      BY <1>1, <1>4, <3>1 DEF Through
    <3> QED BY <1>1, <1>4, <2>3, <3>2, SettledCall
  <2> QED BY <2>2, <2>3
<1>5. Owed'
  BY <1>3 DEF Owed
<1>6. Through'
  BY <1>1, <1>2, <1>3, <1>4, Same DEF Through
<1> QED BY <1>5, <1>6

LEMMA OwedThroughPassed ==
  ASSUME Typed, Ended, Owed, Through, NEW b \in Blocks, Passed(b)
  PROVE  Owed' /\ Through'
<1>1. /\ graph' = graph /\ used' = used /\ todo' = todo /\ b \in Sources /\ main'.k = b + 1 /\ main.k = b
      /\ done' => done /\ b \in eof
  BY DEF Passed, Turned, AtBlock
<1>2. b \in Int /\ \A u \in Blocks : u \in Int
  BY BlocksAre DEF Typed
<1>3. \A u : (Ready(u)' <=> Ready(u)) /\ (Lacks(u)' <=> Lacks(u)) /\ (Loud(u)' <=> Loud(u))
  BY <1>1, Same DEF Ready, Lacks
<1>4. Debt' <=> Debt
  BY <1>1, <1>3, Same DEF Debt
<1>5. \A u \in Blocks : b <= u /\ (Loud(u) \/ \E s : Reads(u, s)) => b + 1 <= u
  <2>1. ASSUME NEW u \in Blocks, Loud(u) \/ \E s : Reads(u, s) PROVE u # b
    BY <1>1, <2>1, SourceIs DEF Loud, Reads, Typed
  <2> QED BY <1>2, <2>1
<1>6. ToCome => ToCome'
  BY <1>1, <1>3, <1>5, Same DEF ToCome
<1>7. ASSUME done', ~ Debt, NEW w \in Sources, NEW u \in Blocks, NEW s \in Streams, Writes(w, s), Reads(u, s), w < b + 1
      PROVE  Settled(w, u, s)'
  <2>1. Settled(w, u, s)' <=> \/ todo[w] = 0
                              \/ Lacks(u)
                              \/ s \notin Quiet /\ used[s] > 0 /\ b + 1 <= u
    BY <1>1, <1>3, Same DEF Settled
  <2>2. CASE w = b
    BY <1>1, <1>7, <2>1, <2>2 DEF Ended
  <2>3. CASE w # b
    <3>1. w < b
      BY <1>2, <1>7, <2>3 DEF Sources
    <3>2. Settled(w, u, s)
      BY <1>1, <1>7, <3>1 DEF Through
    <3> QED BY <1>1, <1>5, <1>7, <2>1, <3>2 DEF Settled
  <2> QED BY <2>2, <2>3
<1>8. Owed'
  BY <1>1, <1>4, <1>6 DEF Owed
<1>9. Through'
  BY <1>1, <1>4, <1>7, Same DEF Through
<1> QED BY <1>8, <1>9

-----------------------------------------------------------------------------
(* run()                                                                   *)

LEMMA IInvInit == Init => IInv
<1> SUFFICES ASSUME Init PROVE IInv
  OBVIOUS
<1> DEFINE N == Len(graph.blocks)
<1>1. Typed
  BY TypedInit
<1>2. /\ main.pc = "pass" /\ main.k = N + 1 /\ ~ done /\ eof = {}
      /\ \A s \in Streams : used[s] = 0
  BY DEF Init, AtBlock
<1>3. N \in Nat /\ Blocks = 1..N /\ \A s \in Streams : graph.cap[s] \in Nat \ {0}
  BY <1>1, BlocksAre DEF Typed
<1>4. Room /\ Held
  BY <1>2, <1>3 DEF Room, Held, Quiet
<1>5. Drained /\ Emptied
  BY <1>2, <1>3 DEF Drained, Emptied, Ready, Reads, Quiet
<1>6. Fed
  BY <1>2, <1>3 DEF Fed
<1> QED BY <1>1, <1>2, <1>4, <1>5, <1>6 DEF IInv, Ended, Owed, Through, Met

\* A step from one place in a pass to another.
LEMMA InPassStep ==
  ASSUME IInv, main.pc = "pass", NEW b \in Blocks, Skip(b) \/ Work(b) \/ NothingYet(b)
  PROVE  IInv'
<1>1. Typed
  BY DEF IInv
<1>2. graph' = graph /\ main' = AtBlock(b + 1)
  BY DEF Skip, Work, NothingYet, Noted, InPass, NextBlock, AtBlock
<1>3. Typed'
  <2>1. Next
    BY DEF Next, Run
  <2> QED BY <1>1, <2>1, TypedNext
<1>4. main'.pc = "pass"
  BY <1>2 DEF AtBlock
<1>5. ASSUME Merge PROVE Called(b) \/ Passed(b)
  BY <1>1, <1>5, WorkIs, PassedIs DEF IInv, Typed
<1>6. ASSUME Merge PROVE Room' /\ Ended'
  BY <1>1, <1>5, <1>6, RoomCall, EndedCall, RoomPassed DEF IInv
<1>7. ASSUME Ordered PROVE Drained' /\ Emptied' /\ Fed' /\ Held' /\ Owed' /\ Through'
  <2>1. Merge /\ Room /\ Ended /\ Drained /\ Emptied /\ Fed /\ Held /\ Owed /\ Through
    BY <1>7 DEF IInv, Ordered
  <2>2. CASE Called(b)
    BY <1>1, <1>7, <2>1, <2>2, DrainedCall, EmptiedCall, FedCall, HeldCall, OwedThroughCall
  <2>3. CASE Passed(b)
    BY <1>1, <1>7, <2>1, <2>3, DrainedPassed, FedHeldPassed, OwedThroughPassed
  <2> QED BY <1>5, <2>1, <2>2, <2>3
<1>8. Met'
  BY <1>4 DEF Met
<1> QED BY <1>2, <1>3, <1>6, <1>7, <1>8, Same DEF IInv

\* After a pass in which nobody asked for another one nothing is owed: nobody is
\* still to come.
LEMMA NothingOwed ==
  ASSUME Typed, Ordered, Drained, Emptied, Owed, Through, done, main = AtBlock(Len(graph.blocks) + 1)
  PROVE  \A b \in Blocks \ Sources : Lacks(b)
<1> DEFINE N == Len(graph.blocks)
<1>1. N \in Nat /\ Blocks = 1..N /\ main.k = N + 1
  BY BlocksAre DEF Typed, AtBlock
<1>2. \A u \in Blocks : u < main.k /\ ~ (main.k <= u)
  BY <1>1
<1>3. ~ Debt
  BY <1>2 DEF Owed, ToCome
<1>4. ASSUME NEW b \in Blocks \ Sources PROVE \E r : Reads(b, r) /\ used[r] = 0
  <2>1. \A r : Reads(b, r) => r \in Streams /\ used[r] \in Nat
    BY PortsAre, BlocksAre DEF Typed, TypeOK
  <2>2. CASE ~ Ready(b)
    <3>1. PICK r : Reads(b, r) /\ ~ (used[r] > 0)
      BY <2>2 DEF Ready, Reads
    <3> QED BY <2>1, <3>1
  <2>3. CASE Ready(b)
    <3>1. ~ Loud(b)
      BY <1>3, <2>3 DEF Debt
    <3>2. PICK s : Reads(b, s)
      BY OtherIs DEF Typed
    <3>3. s \in Quiet
      BY <3>1, <3>2, LoudIs DEF Typed
    <3>4. Lone(b)
      BY <1>2, <2>3, <3>2, <3>3 DEF Emptied
    <3>5. PICK w \in Blocks : Writes(w, s)
      BY <2>1, <3>2, MergeIs DEF Ordered, Typed
    <3> QED BY <1>2, <3>2, <3>3, <3>4, <3>5 DEF Drained
  <2> QED BY <2>2, <2>3
<1>5. ASSUME NEW b \in Blocks \ Sources PROVE Lacks(b)
  <2>1. PICK r : Reads(b, r) /\ used[r] = 0
    BY <1>4
  <2>2. r \in Streams
    BY <2>1, PortsAre DEF Typed
  <2>3. \A w \in Sources : w < main.k
    BY <1>2 DEF Sources
  <2>4. \A w \in Sources : Writes(w, r) => todo[w] = 0 \/ Lacks(b)
    BY <1>2, <1>3, <2>1, <2>2, <2>3 DEF Through, Settled
  <2> QED BY <2>1, <2>4 DEF Lacks, Reads
<1> QED BY <1>5

LEMMA EndOfPassStep ==
  ASSUME IInv, EndOfPass
  PROVE  IInv'
<1> DEFINE N == Len(graph.blocks)
<1>1. Typed /\ Typed'
  BY TypedNext DEF IInv, Next, Run
<1>2. /\ graph' = graph /\ used' = used /\ todo' = todo /\ eof' = eof /\ canceled' = canceled /\ done'
      /\ main = AtBlock(N + 1) /\ main.pc = "pass" /\ main.k = N + 1
      /\ main' = IF done \/ canceled THEN Returns("ok") ELSE AtBlock(1)
  BY DEF EndOfPass, AtBlock
<1>3. N \in Nat /\ Blocks = 1..N
  BY <1>1, BlocksAre DEF Typed
<1>4. \A u : (Lacks(u)' <=> Lacks(u)) /\ (Ready(u)' <=> Ready(u)) /\ (Loud(u)' <=> Loud(u))
  BY <1>2, Same DEF Lacks, Ready
<1>5. CASE done \/ canceled
  <2>1. main'.pc = "ok"
    BY <1>2, <1>5 DEF Returns
  <2>2. Ordered /\ ~ canceled => \A b \in Blocks \ Sources : Lacks(b)
    BY <1>1, <1>2, <1>5, NothingOwed DEF IInv
  <2>3. Met'
    BY <1>2, <1>4, <2>2, Same DEF Met, Ordered
  <2> QED BY <1>1, <2>1, <2>3 DEF IInv
<1>6. CASE ~ (done \/ canceled)
  <2>1. main' = AtBlock(1) /\ main'.pc = "pass" /\ main'.k = 1
    BY <1>2, <1>6 DEF AtBlock
  <2>2. \A w, u \in Blocks : Since(w, u)' => Since(w, u)
    BY <1>2, <1>3, <2>1 DEF Since
  <2>3. \A u \in Blocks : 1 <= u /\ ~ (u < 1)
    BY <1>3
  <2>4. ASSUME Merge PROVE Room' /\ Ended'
    <3>1. Room /\ Ended
      BY <1>2, <2>4 DEF IInv
    <3>2. Room'
      BY <1>2, <2>2, <3>1, Same DEF Room
    <3>3. Ended'
      BY <1>2, <3>1, Same DEF Ended
    <3> QED BY <3>2, <3>3
  <2>5. ASSUME Ordered PROVE Drained' /\ Emptied' /\ Fed' /\ Held' /\ Owed' /\ Through'
    <3>1. Drained /\ Held
      BY <1>2, <2>5 DEF IInv, Ordered
    <3>2. Drained'
      BY <1>2, <2>1, <2>2, <2>3, <3>1, Same DEF Drained
    <3>3. Emptied' /\ Fed'
      BY <1>2, <2>1, <2>3, Same DEF Emptied, Fed, Sources
    <3>4. Held'
      BY <1>2, <1>4, <2>2, <3>1, Same DEF Held, Sources
    <3>5. Owed'
      BY <1>2, <2>1, <2>3, Same DEF Owed, Debt, ToCome
    <3>6. Through'
      BY <1>2, <2>1, <2>3, Same DEF Through, Sources
    <3> QED BY <3>2, <3>3, <3>4, <3>5, <3>6
  <2>6. Met'
    BY <2>1 DEF Met
  <2> QED BY <1>1, <1>2, <2>4, <2>5, <2>6, Same DEF IInv
<1> QED BY <1>5, <1>6

\* Whatever else is left of a run changes no stream and no source.
LEMMA IInvNext == IInv /\ [Next]_vars => IInv'
<1> SUFFICES ASSUME IInv, [Next]_vars PROVE IInv'
  OBVIOUS
<1>1. Typed /\ Typed'
  BY TypedNext DEF IInv
<1>2. CASE EndOfPass
  BY <1>2, EndOfPassStep
<1>3. ASSUME NEW b \in Blocks, Skip(b) \/ Work(b) \/ NothingYet(b) PROVE IInv'
  <2>1. main.pc = "pass"
    BY <1>3 DEF Skip, Work, NothingYet, InPass, AtBlock
  <2> QED BY <1>3, <2>1, InPassStep
<1>4. ASSUME NEW b \in Blocks, Fail(b) PROVE IInv'
  <2>1. main'.pc = "error"
    BY <1>4 DEF Fail, Returns
  <2> QED BY <1>1, <2>1 DEF IInv, Met
<1>5. ASSUME UNCHANGED <<graph, used, todo, eof, main, done>>, canceled => canceled'
      PROVE  IInv'
  <2>1. \A u : (Lacks(u)' <=> Lacks(u)) /\ (Ready(u)' <=> Ready(u)) /\ (Loud(u)' <=> Loud(u)) /\ (Lone(u)' <=> Lone(u))
    BY <1>5, Same DEF Lacks, Ready
  <2>2. (Room' <=> Room) /\ (Ended' <=> Ended)
    BY <1>5, Same DEF Room, Ended, Since
  <2>3. (Drained' <=> Drained) /\ (Emptied' <=> Emptied)
    BY <1>5, <2>1, Same DEF Drained, Emptied, Since
  <2>4. (Fed' <=> Fed) /\ (Held' <=> Held)
    BY <1>5, <2>1, Same DEF Fed, Held, Since
  <2>5. (Owed' <=> Owed) /\ (Through' <=> Through)
    <3>1. (Debt' <=> Debt) /\ (ToCome' <=> ToCome)
      BY <1>5, <2>1, Same DEF Debt, ToCome
    <3>2. \A w, u, s : Settled(w, u, s)' <=> Settled(w, u, s)
      BY <1>5, <2>1, Same DEF Settled
    <3> QED BY <1>5, <3>1, <3>2, Same DEF Owed, Through
  <2>6. Met'
    BY <1>5, <2>1, Same DEF Met, IInv, Ordered
  <2> QED BY <1>1, <1>5, <2>2, <2>3, <2>4, <2>5, <2>6, Same DEF IInv
<1>6. CASE Cancel
  BY <1>5, <1>6 DEF Cancel
<1>7. CASE UNCHANGED vars
  BY <1>5, <1>7 DEF vars
<1> QED BY <1>2, <1>3, <1>4, <1>6, <1>7 DEF Next, Run

LEMMA Invariance == Spec => []IInv
BY IInvInit, IInvNext, PTL DEF Spec

\* In a tree no block that has the turn finds a stream full that it writes, in
\* whatever order the blocks were added: who is full waits for nobody else.
THEOREM NeverHindered == Spec => []Unhindered
<1>1. ASSUME IInv PROVE Unhindered
  <2>1. SUFFICES ASSUME main.pc = "pass", Tree, NEW b \in Blocks, InPass(b), NEW s \in ToSet(Outputs(b))
                 PROVE  used[s] < graph.cap[s]
    BY DEF Unhindered
  <2>2. Typed /\ Merge /\ Room /\ main = AtBlock(b) /\ Writes(b, s)
    BY <1>1, <2>1, TreeIs DEF IInv, InPass, Writes, Typed
  <2>3. PICK u \in Blocks : Reads(u, s) /\ Lone(u)
    BY <2>1, <2>2, TreeIs, PortsAre DEF Typed
  <2> QED BY <2>2, <2>3, RoomNow
<1> QED BY <1>1, Invariance, PTL

\* When run() returns and nobody canceled it, in a graph that merges what sources
\* write, with its blocks in order, no stream narrowed, and all that waits driven by a
\* block that does not, no block is left with work: each one lacks at one of its
\* inputs what the source of that one has no more of.
THEOREM AllMet == Spec => []Met
<1>1. IInv => Met
  BY DEF IInv
<1> QED BY <1>1, Invariance, PTL

\* So a tree has taken all that its sources had to the end of every branch.
THEOREM AllFinished == Spec => []Finished
<1>1. ASSUME IInv PROVE Finished
  <2>1. SUFFICES ASSUME main.pc = "ok", ~ canceled, Tree, Downstream, Widening, Driven
                 PROVE  /\ \A b \in Sources : todo[b] = 0
                        /\ \A s \in Streams : used[s] = 0
    BY DEF Finished
  <2>2. graph \in Graphs /\ \A b \in Blocks \ Sources : Lacks(b)
    BY <1>1, <2>1, TreeIs DEF IInv, Met, Typed
  <2>3. ASSUME NEW s \in Streams PROVE used[s] = 0 /\ \A w \in Sources : Writes(w, s) => todo[w] = 0
    <3>1. PICK u \in Blocks : Reads(u, s) /\ Lone(u)
      BY <2>1, <2>2, TreeIs
    <3>2. Lacks(u)
      BY <2>2, <3>1, SourceIs
    <3> QED BY <3>1, <3>2 DEF Lacks, Lone, Reads
  <2>4. ASSUME NEW b \in Sources PROVE todo[b] = 0
    <3>1. Writes(b, Outputs(b)[1]) /\ Outputs(b)[1] \in Streams
      BY <2>2, SourceIs, PortsAre
    <3> QED BY <2>3, <3>1
  <2> QED BY <2>3, <2>4
<1> QED BY <1>1, Invariance, PTL

=============================================================================
