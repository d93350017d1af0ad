---------------------------- MODULE MTGraphProofs ----------------------------
(***************************************************************************)
(* What the threads and the tasks of a graph keep, whatever blocks it has  *)
(* and however they are connected: no stream is ever over-full or consumed *)
(* beyond what it has; and, unless samples of several sources meet in a    *)
(* block, blocks end behind the data.                                      *)
(***************************************************************************)
EXTENDS MTGraph, SequenceTheorems, TLAPS

\* What can be moved through the k-th port of b.
Room(b, k) == IF k <= Len(Inputs[b]) THEN used[Ports(b)[k]] ELSE Cap[Ports(b)[k]] - used[Ports(b)[k]]

RestTypes ==
  /\ plan \in Plans
  /\ open \in [Streams -> SUBSET {"r", "w"}]
  /\ canceled \in BOOLEAN
  /\ notified \subseteq Streams \X {"r", "w"} /\ late \subseteq Streams \X {"timed out", "unheard"}
  /\ main.pc \in {"spawn", "join", "returned", "panicked"}

Types ==
  /\ RestTypes
  /\ used \in [Streams -> Nat] /\ \A s \in Streams : used[s] <= Cap[s]
  /\ thread \in [Blocks -> [at : Places, port : Nat, n : Nat]]
  /\ \A b \in Blocks : thread[b].port \in 1..Len(Ports(b))
  /\ todo \in [Blocks -> Nat \cup {Forever}]

\* The n of a thread fits through all ports that it has looked at and has still
\* to move something through; a source moves no more than it has.
Fits(b, t) ==
  /\ t.at = "look" => \A k \in 1..(t.port - 1) : t.n <= Room(b, k)
  /\ t.at = "move" => \A k \in t.port..Len(Ports(b)) : t.n <= Room(b, k)
  /\ t.at = "move" /\ b \in Sources /\ todo[b] > 0 => t.n <= todo[b]

IInv == Types /\ \A b \in Blocks : Fits(b, thread[b])

-----------------------------------------------------------------------------
(* The ends of the blocks                                                  *)

\* A block that has not been started is where it was.
Unborn == main.pc = "spawn" =>
            /\ main.k \in 1..Newest
            /\ \A j \in 1..main.k : thread[added[j]].at = "unborn"

\* Only a block that ended drops its ends.
DeadEnds == \A s \in Streams :
              /\ "r" \notin open[s] => \E b \in Blocks : Reads(b, s) /\ ended(b)
              /\ "w" \notin open[s] => \E b \in Blocks : Writes(b, s) /\ ended(b)

\* Samples came to s that its reader does not see before it reads the count.
Missed(s) == \E what \in {"timed out", "unheard"} : <<s, what>> \in late

\* A block that is going to read the count of a stream has found it empty.
FoundEmpty(b) == IsIn(b) =>
  /\ thread[b].at = "count" \/ (Tasks /\ thread[b].at \in {"wait", "await"})
       => used[Port(b)] = 0 \/ Missed(Port(b))
  /\ Tasks /\ b \in Sinks /\ thread[b].at = "move" => thread[b].n = used[Port(b)] \/ Missed(Port(b))

\* A block ended with samples in its input that it has not seen.
Lost == \E b \in Blocks : ended(b) /\ \E s \in ToSet(Inputs[b]) : Missed(s)

\* A source that is in work() has something left.
HasMore == \A b \in Sources : thread[b].at \in {"look", "move"} => todo[b] # 0

\* How much a block has moved so far.  pos[b] is what has gone through all of its
\* ports.  What it is moving now has gone through those it has served, and if it
\* has served any, that is the most that has gone through one of them.
Served(b)       == { Ports(b)[k] : k \in 1..(thread[b].port - 1) }
Went(pos, b, s) == pos[b] + (IF thread[b].at = "move" /\ s \in Served(b) THEN thread[b].n ELSE 0)
Most(pos, b)    == pos[b] + (IF thread[b].at = "move" /\ thread[b].port > 1 THEN thread[b].n ELSE 0)

\* A stream has what its writer has moved and its reader has not.
Balance(pos) == \A b, c \in Blocks : \A s \in Streams :
                  Writes(b, s) /\ Reads(c, s) => used[s] = Went(pos, b, s) - Went(pos, c, s)

\* What a block has moved has come from a source.
Behind(pos) == \A b \in Blocks :
                 Most(pos, b) = 0 \/ \E c \in Upstream[b] \cap Sources : Most(pos, b) <= Most(pos, c)

\* A block that waits for its reader has moved something.
Pushed(pos) == \A b \in Blocks : ~IsIn(b) /\ thread[b].at \in {"wait", "await", "count"} => pos[b] > 0

\* All that leads to b has moved as much as b has, and there is no more.
Complete(pos, b) ==
  /\ Upstream[b] \cap Sources # {}
  /\ \A c \in Upstream[b] : /\ Most(pos, c) = pos[b]
                            /\ c \in Sources => todo[c] = 0
                            /\ \A s \in ToSet(Inputs[c]) : used[s] = 0 /\ Went(pos, c, s) = pos[b]

Positions(pos) == /\ Balance(pos) /\ Behind(pos) /\ Pushed(pos)
                  /\ Lost \/ Disturbed \/ \A b \in Blocks : ended(b) => Complete(pos, b)

\* Unless something went wrong, what leads to a block that ended is complete.
EInv ==
  /\ Unborn /\ DeadEnds /\ HasMore
  /\ \A b \in Blocks : FoundEmpty(b)
  /\ \A b \in Blocks \ Sources : todo[b] = Forever
  /\ \E pos \in [Blocks -> Nat] : Positions(pos)

\* Each stream leads from one block of the graph to another.
Whole == \A s \in Streams : (\E b \in Blocks : Reads(b, s)) /\ (\E b \in Blocks : Writes(b, s))

\* What meets in a block of several inputs comes from one source, and such a block
\* is not a sink, whose work() would have to wait for the right one of them.
Matched == \A b \in Blocks : Len(Inputs[b]) > 1 =>
             b \notin Sinks /\ \A c, d \in Upstream[b] \cap Sources : c = d
-----------------------------------------------------------------------------
(* Ports and streams                                                       *)

\* Numbers of two sequences in a row.
LEMMA Offset ==
  ASSUME NEW m \in Nat, NEW n \in Nat, NEW l, l = m + n
  PROVE  \A k \in 1..l : /\ k \in 1..(m + n) /\ k \in Nat /\ 1 <= k
                         /\ ~(k <= m) => k - m \in 1..n
  OBVIOUS

\* The ports before one and those from it on.
LEMMA Around ==
  ASSUME NEW l \in Nat, NEW p \in 1..l
  PROVE  /\ p \in Nat /\ p + 1 \in Nat
         /\ \A k \in 1..(p - 1) : k \in 1..l
         /\ \A k \in p..l : k \in 1..l
         /\ \A k \in (p + 1)..l : k \in 1..l /\ k # p /\ k \in p..l
  OBVIOUS

\* The ports of a block are its inputs and then its outputs.
LEMMA PortsAre ==
  ASSUME NEW b \in Blocks
  PROVE  /\ Inputs[b] \in Seq(Streams) /\ Outputs[b] \in Seq(Streams)
         /\ Len(Ports(b)) \in Nat /\ 1 \in 1..Len(Ports(b)) /\ Len(Ports(b)) = Len(Inputs[b]) + Len(Outputs[b])
         /\ \A k \in 1..Len(Ports(b)) :
              /\ Ports(b)[k] \in Streams
              /\ IF k <= Len(Inputs[b]) THEN Reads(b, Ports(b)[k]) /\ Ports(b)[k] = Inputs[b][k]
                                       ELSE Writes(b, Ports(b)[k])
         /\ \A j, k \in 1..Len(Ports(b)) : Ports(b)[j] = Ports(b)[k] => j = k
<1>1. Inputs[b] \in Seq(Streams) /\ Outputs[b] \in Seq(Streams)
  BY FlowgraphAssumption
<1>2. Ports(b) \in Seq(Streams) /\ Len(Ports(b)) = Len(Inputs[b]) + Len(Outputs[b])
  BY <1>1, ConcatProperties DEF Ports
<1>p. \A k \in 1..(Len(Inputs[b]) + Len(Outputs[b])) :
        Ports(b)[k] = IF k <= Len(Inputs[b]) THEN Inputs[b][k] ELSE Outputs[b][k - Len(Inputs[b])]
  BY <1>1, ConcatProperties DEF Ports
<1>3. /\ Len(Inputs[b]) \in Nat /\ Inputs[b] \in [1..Len(Inputs[b]) -> Streams]
      /\ Len(Outputs[b]) \in Nat /\ Outputs[b] \in [1..Len(Outputs[b]) -> Streams]
      /\ Len(Ports(b)) \in Nat /\ Ports(b) \in [1..Len(Ports(b)) -> Streams]
  BY <1>1, <1>2, LenProperties
<1>n. /\ Len(Inputs[b]) \in Nat /\ Len(Outputs[b]) \in Nat /\ Len(Ports(b)) \in Nat
      /\ Len(Ports(b)) = Len(Inputs[b]) + Len(Outputs[b])
  BY <1>2, <1>3
<1>4. 1 \in 1..Len(Ports(b))
  <2>1. Ports(b) # <<>>
    BY FlowgraphAssumption
  <2>2. Len(Ports(b)) # 0
    BY <2>1, <1>2, EmptySeq
  <2> QED
    BY <2>2, <1>3
<1>5. ASSUME NEW k \in 1..Len(Ports(b))
      PROVE  /\ Ports(b)[k] \in Streams
             /\ IF k <= Len(Inputs[b]) THEN Reads(b, Ports(b)[k]) /\ Ports(b)[k] = Inputs[b][k]
                                      ELSE Writes(b, Ports(b)[k])
  <2>1. Ports(b)[k] \in Streams
    BY <1>3
  <2>k. k \in 1..(Len(Inputs[b]) + Len(Outputs[b])) /\ k \in Nat /\ 1 <= k
    BY <1>n, Offset
  <2>p. Ports(b)[k] = IF k <= Len(Inputs[b]) THEN Inputs[b][k] ELSE Outputs[b][k - Len(Inputs[b])]
    BY <1>p, <2>k
  <2>2. CASE k <= Len(Inputs[b])
    <3>1. Ports(b)[k] = Inputs[b][k] /\ k \in DOMAIN Inputs[b]
      BY <1>3, <2>k, <2>p, <2>2
    <3> QED
      BY <2>1, <2>2, <3>1 DEF Reads, ToSet
  <2>3. CASE ~(k <= Len(Inputs[b]))
    <3>1. Ports(b)[k] = Outputs[b][k - Len(Inputs[b])]
      BY <2>p, <2>3
    <3>2. k - Len(Inputs[b]) \in 1..Len(Outputs[b])
      BY <1>n, <2>3, Offset
    <3>3. k - Len(Inputs[b]) \in DOMAIN Outputs[b]
      BY <1>3, <3>2
    <3> QED
      BY <2>1, <2>3, <3>1, <3>3 DEF Writes, ToSet
  <2> QED
    BY <2>2, <2>3
<1>6. \A j, k \in 1..Len(Ports(b)) : Ports(b)[j] = Ports(b)[k] => j = k
  <2>1. IsInjective(Ports(b)) /\ DOMAIN Ports(b) = 1..Len(Ports(b))
    BY <1>3, FlowgraphAssumption
  <2> QED
    BY <2>1 DEF IsInjective
<1> QED
  BY <1>1, <1>2, <1>3, <1>4, <1>5, <1>6

\* Only one port of one block is on the same side of the same stream.
LEMMA SamePort ==
  ASSUME NEW b \in Blocks, NEW c \in Blocks,
         NEW j \in 1..Len(Ports(b)), NEW k \in 1..Len(Ports(c)), Ports(b)[j] = Ports(c)[k],
         j <= Len(Inputs[b]) <=> k <= Len(Inputs[c])
  PROVE  b = c /\ j = k
<1>1. \/ Reads(b, Ports(b)[j]) /\ Reads(c, Ports(b)[j])
      \/ Writes(b, Ports(b)[j]) /\ Writes(c, Ports(b)[j])
  BY PortsAre
<1>2. Ports(b)[j] \in Streams
  BY PortsAre
<1>3. b = c
  BY <1>1, <1>2, FlowgraphAssumption
<1> QED
  BY <1>3, PortsAre

\* The reader and the writer of a stream, if there are any.
LEMMA TheOnlyOne ==
  ASSUME NEW b \in Blocks, NEW s \in Streams
  PROVE  /\ Reads(b, s) => ReaderOf(s) = b
         /\ Writes(b, s) => WriterOf(s) = b
  BY FlowgraphAssumption DEF ReaderOf, WriterOf

\* What avail() is, and that it is a number.
LEMMA RoomIs ==
  ASSUME Types, NEW b \in Blocks
  PROVE  /\ avail(b) = Room(b, thread[b].port) /\ Port(b) = Ports(b)[thread[b].port]
         /\ thread[b].port \in 1..Len(Ports(b)) /\ Port(b) \in Streams /\ thread[b].n \in Nat
         /\ \A k \in 1..Len(Ports(b)) : Room(b, k) \in Nat
<1>1. thread[b].port \in 1..Len(Ports(b)) /\ thread[b].n \in Nat
  BY DEF Types
<1>2. avail(b) = Room(b, thread[b].port)
  BY DEF avail, Room, IsIn, Port
<1>3. ASSUME NEW k \in 1..Len(Ports(b)) PROVE Room(b, k) \in Nat
  <2>1. Ports(b)[k] \in Streams
    BY PortsAre
  <2>2. used[Ports(b)[k]] \in Nat /\ Cap[Ports(b)[k]] \in Nat /\ used[Ports(b)[k]] <= Cap[Ports(b)[k]]
    BY <2>1, MTGraphAssumption DEF Types
  <2> QED
    BY <2>2 DEF Room
<1> QED
  BY <1>1, <1>2, <1>3, PortsAre DEF Port

-----------------------------------------------------------------------------
(* Typing                                                                  *)

Placed == [at : Places, port : Nat, n : Nat]

LEMMA InitIInv == Init => IInv
<1> SUFFICES ASSUME Init PROVE IInv
  OBVIOUS
<1>1. thread = [b \in Blocks |-> At("unborn")] /\ At("unborn") \in Placed
  BY DEF Init, At, Placed, Places
<1>2. \A b \in Blocks : thread[b].at = "unborn" /\ thread[b].port = 1
  BY <1>1 DEF At
<1>3. todo \in [Blocks -> Nat \cup {Forever}]
  <2>1. todo \in Loads
    BY DEF Init
  <2>2. DOMAIN todo = Blocks /\ todo = [b \in Blocks |-> todo[b]]
    BY <2>1 DEF Loads
  <2>3. \A b \in Blocks : todo[b] \in Nat \cup {Forever}
    BY <2>1, FlowgraphAssumption DEF Loads
  <2> QED
    BY <2>2, <2>3
<1>4. used \in [Streams -> Nat] /\ \A s \in Streams : used[s] <= Cap[s]
  BY MTGraphAssumption DEF Init
<1>5. Types
  BY <1>1, <1>2, <1>3, <1>4, PortsAre DEF Types, RestTypes, Init, Placed, InMain
<1> QED
  BY <1>2, <1>5 DEF IInv, Fits

\* Where a thread may be without having looked at any port.
LEMMA AnywhereElse ==
  ASSUME NEW b \in Blocks, NEW t, t.at \in {"look", "move"} => t = At("look")
  PROVE  Fits(b, t)
  BY DEF Fits, At

\* What At and AtPort are.
LEMMA PlacesTyped ==
  /\ \A place \in Places : At(place) \in Placed /\ At(place).at = place /\ At(place).port = 1 /\ At(place).n = 0
  /\ \A place \in Places, k \in Nat, n \in Nat :
       /\ AtPort(place, k, n) \in Placed
       /\ AtPort(place, k, n).at = place /\ AtPort(place, k, n).port = k /\ AtPort(place, k, n).n = n
  BY DEF At, AtPort, Placed

\* A step that moves no samples.
LEMMA StillIInv ==
  ASSUME IInv, NEW b \in Blocks, NEW t \in Placed, t.port \in 1..Len(Ports(b)), Fits(b, t),
         Goto(b, t), used' = used, todo' = todo, RestTypes'
  PROVE  IInv'
<1>1. Types'
  BY DEF IInv, Types, Goto, Placed
<1>2. ASSUME NEW c \in Blocks PROVE Fits(c, thread[c])'
  <2>1. thread'[c] = IF c = b THEN t ELSE thread[c]
    BY DEF IInv, Types, Goto
  <2>2. Fits(c, thread'[c])
    BY <2>1 DEF IInv
  <2>3. \A k : Room(c, k)' = Room(c, k)
    BY DEF Room
  <2> QED
    BY <2>2, <2>3 DEF Fits
<1> QED
  BY <1>1, <1>2 DEF IInv

\* The same if it is a thread that goes to a place without a port.
LEMMA GoneIInv ==
  ASSUME IInv, NEW b \in Blocks, NEW place \in Places \ {"move"}, Goto(b, At(place)),
         used' = used, todo' = todo, RestTypes'
  PROVE  IInv'
<1>1. At(place) \in Placed /\ At(place).port \in 1..Len(Ports(b)) /\ At(place).at = place
  BY PlacesTyped, PortsAre
<1>2. Fits(b, At(place))
  BY <1>1, AnywhereElse
<1> QED
  BY <1>1, <1>2, StillIInv

\* The next port, if there is one.
LEMMA NextPortIs ==
  ASSUME Types, NEW b \in Blocks, NEW n \in Nat, NEW t
  PROVE  \/ thread[b].port = Len(Ports(b)) /\ NextPort(b, n, t) = t
         \/ /\ thread[b].port + 1 \in 1..Len(Ports(b)) /\ thread[b].port # Len(Ports(b))
            /\ NextPort(b, n, t) = AtPort(thread[b].at, thread[b].port + 1, n)
<1>1. thread[b].port \in 1..Len(Ports(b)) /\ Len(Ports(b)) \in Nat
  BY PortsAre DEF Types
<1> QED
  BY <1>1 DEF NextPort, LastPort

\* A source has a single port.
LEMMA SourcePort ==
  ASSUME NEW b \in Sources
  PROVE  b \in Blocks /\ Len(Inputs[b]) = 0 /\ Len(Ports(b)) = 1
<1>1. b \in Blocks /\ Inputs[b] = <<>> /\ Len(Outputs[b]) = 1
  BY FlowgraphAssumption DEF Sources
<1>2. Len(Inputs[b]) = 0
  BY <1>1, EmptySeq
<1>3. Len(Ports(b)) = Len(Inputs[b]) + Len(Outputs[b])
  BY <1>1, PortsAre
<1> QED
  BY <1>1, <1>2, <1>3

\* What is in a stream with u of c samples, and what there is room for, when n are
\* moved.
LEMMA Moving ==
  ASSUME NEW c \in Nat, NEW u \in Nat, NEW n \in Nat, u <= c
  PROVE  /\ n <= u => u - n \in Nat /\ u - n <= c
         /\ n <= c - u => u + n \in Nat /\ u + n <= c
         /\ c - u <= c - (u - n) /\ u <= u + n
  OBVIOUS

\* A step of b that changes what is in its port's stream makes no port of another
\* block, and no other port of its own, narrower.
LEMMA RoomGrows ==
  ASSUME IInv, NEW b \in Blocks, thread[b].n <= avail(b),
         used' = [used EXCEPT ![Port(b)] = IF IsIn(b) THEN @ - thread[b].n ELSE @ + thread[b].n]
  PROVE  /\ used' \in [Streams -> Nat] /\ \A s \in Streams : used'[s] <= Cap[s]
         /\ \A c \in Blocks : \A k \in 1..Len(Ports(c)) :
              c # b \/ k # thread[b].port => Room(c, k) <= Room(c, k)'
<1> DEFINE n == thread[b].n
           s == Port(b)
<1>1. /\ s \in Streams /\ n \in Nat /\ thread[b].port \in 1..Len(Ports(b)) /\ s = Ports(b)[thread[b].port]
      /\ used[s] \in Nat /\ Cap[s] \in Nat /\ used[s] <= Cap[s] /\ used \in [Streams -> Nat]
  BY RoomIs, MTGraphAssumption DEF IInv, Types
<1>2. n <= IF IsIn(b) THEN used[s] ELSE Cap[s] - used[s]
  BY DEF avail
<1>3. /\ used'[s] = IF IsIn(b) THEN used[s] - n ELSE used[s] + n
      /\ \A r \in Streams : r # s => used'[r] = used[r]
      /\ used' = [used EXCEPT ![s] = used'[s]]
  BY <1>1
<1>4. used'[s] \in Nat /\ used'[s] <= Cap[s]
  <2>1. /\ n <= used[s] => used[s] - n \in Nat /\ used[s] - n <= Cap[s]
        /\ n <= Cap[s] - used[s] => used[s] + n \in Nat /\ used[s] + n <= Cap[s]
    BY <1>1, Moving
  <2>2. CASE IsIn(b)
    <3>1. n <= used[s] /\ used'[s] = used[s] - n
      BY <1>2, <1>3, <2>2
    <3> HIDE DEF n, s
    <3> QED
      BY <2>1, <3>1
  <2>3. CASE ~IsIn(b)
    <3>1. n <= Cap[s] - used[s] /\ used'[s] = used[s] + n
      BY <1>2, <1>3, <2>3
    <3> HIDE DEF n, s
    <3> QED
      BY <2>1, <3>1
  <2> QED
    BY <2>2, <2>3
<1>5. used' \in [Streams -> Nat] /\ \A r \in Streams : used'[r] <= Cap[r]
  BY <1>1, <1>3, <1>4 DEF IInv, Types
<1>6. ASSUME NEW c \in Blocks, NEW k \in 1..Len(Ports(c)), c # b \/ k # thread[b].port
      PROVE  Room(c, k) <= Room(c, k)'
  <2>1. Ports(c)[k] \in Streams /\ Room(c, k) \in Nat
    BY PortsAre, RoomIs DEF IInv
  <2>2. CASE Ports(c)[k] # s
    <3>1. Room(c, k)' = Room(c, k)
      BY <1>3, <2>1, <2>2 DEF Room
    <3> QED
      BY <2>1, <3>1
  <2>3. CASE Ports(c)[k] = s
    <3>1. ~(k <= Len(Inputs[c]) <=> IsIn(b))
      <4>1. (k <= Len(Inputs[c]) <=> thread[b].port <= Len(Inputs[b])) => c = b /\ k = thread[b].port
        BY <1>1, <2>3, SamePort
      <4> QED
        BY <1>6, <4>1 DEF IsIn
    <3>2. CASE IsIn(b)
      <4>1. Room(c, k) = Cap[s] - used[s] /\ Room(c, k)' = Cap[s] - used'[s] /\ used'[s] = used[s] - n
        BY <1>3, <2>3, <3>1, <3>2 DEF Room
      <4>2. Cap[s] - used[s] <= Cap[s] - (used[s] - n)
        BY <1>1, Moving
      <4> HIDE DEF n, s
      <4> QED
        BY <4>1, <4>2
    <3>3. CASE ~IsIn(b)
      <4>1. Room(c, k) = used[s] /\ Room(c, k)' = used'[s] /\ used'[s] = used[s] + n
        BY <1>3, <2>3, <3>1, <3>3 DEF Room
      <4>2. used[s] <= used[s] + n
        BY <1>1, Moving
      <4> HIDE DEF n, s
      <4> QED
        BY <4>1, <4>2
    <3> QED
      BY <3>2, <3>3
  <2> QED
    BY <2>2, <2>3
<1> QED
  BY <1>5, <1>6

\* A step that moves samples through the port that b is at.
LEMMA MovedIInv ==
  ASSUME IInv, NEW b \in Blocks, thread[b].at = "move",
         used' = [used EXCEPT ![Port(b)] = IF IsIn(b) THEN @ - thread[b].n ELSE @ + thread[b].n],
         todo' \in [Blocks -> Nat \cup {Forever}], \A c \in Blocks : c # b => todo'[c] = todo[c],
         Goto(b, NextPort(b, thread[b].n, AfterMove(b))), RestTypes'
  PROVE  IInv'
<1> DEFINE n == thread[b].n
           t == NextPort(b, n, AfterMove(b))
<1>1. Types /\ thread[b].port \in 1..Len(Ports(b)) /\ n \in Nat /\ Len(Ports(b)) \in Nat
  BY PortsAre, RoomIs DEF IInv
<1>2. \A k \in thread[b].port..Len(Ports(b)) : n <= Room(b, k)
  BY DEF IInv, Fits
<1>3. n <= avail(b)
  BY <1>1, <1>2, RoomIs
<1>4. AfterMove(b) \in {At("look"), At("drop"), At("loop"), At("wait")}
  BY DEF AfterMove, Syncs
<1>5. /\ used' \in [Streams -> Nat] /\ \A s \in Streams : used'[s] <= Cap[s]
      /\ \A c \in Blocks : \A k \in 1..Len(Ports(c)) : c # b \/ k # thread[b].port => Room(c, k) <= Room(c, k)'
  BY <1>3, RoomGrows
<1>6. /\ \A c \in Blocks : \A k \in 1..Len(Ports(c)) : Room(c, k) \in Nat
      /\ \A c \in Blocks : \A k \in 1..Len(Ports(c)) : Room(c, k)' \in Int
  <2> SUFFICES ASSUME NEW c \in Blocks, NEW k \in 1..Len(Ports(c))
               PROVE  Room(c, k) \in Nat /\ Room(c, k)' \in Int
    OBVIOUS
  <2>1. Ports(c)[k] \in Streams
    BY PortsAre
  <2>2. used'[Ports(c)[k]] \in Int /\ Cap[Ports(c)[k]] \in Int
    BY <1>5, <2>1, MTGraphAssumption
  <2> QED
    BY <1>1, <2>2, RoomIs DEF Room
<1>m. AtPort(thread[b].at, thread[b].port + 1, n) = AtPort("move", thread[b].port + 1, n)
  OBVIOUS
<1>u. LET u == AtPort("move", thread[b].port + 1, n)
      IN  u \in Placed /\ u.at = "move" /\ u.port = thread[b].port + 1 /\ u.n = n
  <2>1. thread[b].port + 1 \in Nat /\ "move" \in Places
    BY <1>1, Around DEF Places
  <2> DEFINE q == thread[b].port + 1
  <2> HIDE DEF n, q
  <2>2. q \in Nat /\ n \in Nat
    BY <1>1, <2>1 DEF q
  <2>3. LET u == AtPort("move", q, n)
        IN  u \in Placed /\ u.at = "move" /\ u.port = q /\ u.n = n
    BY <2>1, <2>2, PlacesTyped, SMTT(30)
  <2> QED
    BY <2>3 DEF q
<1>7. t \in Placed /\ t.port \in 1..Len(Ports(b))
  <2>1. CASE t = AfterMove(b)
    <3>1. PICK place \in {"look", "drop", "loop", "wait"} : AfterMove(b) = At(place)
      BY <1>4
    <3>2. AfterMove(b) \in Placed /\ AfterMove(b).port = 1
      BY <3>1, PlacesTyped DEF Places
    <3> QED
      BY <2>1, <3>2, PortsAre
  <2>2. CASE t = AtPort(thread[b].at, thread[b].port + 1, n) /\ thread[b].port + 1 \in 1..Len(Ports(b))
    BY <1>m, <1>u, <2>2
  <2> QED
    BY <1>1, <2>1, <2>2, NextPortIs
<1>8. Types'
  BY <1>1, <1>5, <1>7 DEF Types, Goto, Placed
<1>9. ASSUME NEW c \in Blocks, c # b PROVE Fits(c, thread[c])'
  <2>1. thread'[c] = thread[c] /\ todo'[c] = todo[c] /\ Fits(c, thread[c])
    BY <1>1, <1>9 DEF Types, Goto, IInv
  <2>2. \A k \in 1..Len(Ports(c)) : Room(c, k) <= Room(c, k)' /\ Room(c, k) \in Nat /\ Room(c, k)' \in Int
    BY <1>5, <1>6, <1>9
  <2>3. thread[c].port \in 1..Len(Ports(c)) /\ thread[c].n \in Nat /\ Len(Ports(c)) \in Nat
    BY <1>1, PortsAre, RoomIs
  <2>4. /\ \A k \in 1..(thread[c].port - 1) : k \in 1..Len(Ports(c))
        /\ \A k \in thread[c].port..Len(Ports(c)) : k \in 1..Len(Ports(c))
    BY <2>3, Around
  <2>5. \A k \in 1..Len(Ports(c)) : thread[c].n <= Room(c, k) => thread[c].n <= Room(c, k)'
    BY <2>2, <2>3
  <2> QED
    BY <2>1, <2>4, <2>5 DEF Fits
<1>10. Fits(b, thread[b])'
  <2>1. thread'[b] = t
    BY <1>1 DEF Types, Goto
  <2>2. CASE t = AfterMove(b)
    <3>1. t.at \in {"look", "move"} => t = At("look")
      BY <1>4, <2>2, PlacesTyped DEF Places
    <3>2. (t.at = "look" => t.port = 1) /\ t.at # "move"
      BY <1>4, <2>2, <3>1, PlacesTyped DEF Places
    <3> QED
      BY <2>1, <3>2 DEF Fits
  <2>3. CASE /\ thread[b].port + 1 \in 1..Len(Ports(b)) /\ thread[b].port # Len(Ports(b))
             /\ t = AtPort(thread[b].at, thread[b].port + 1, n)
    <3>1. t.at = "move" /\ t.port = thread[b].port + 1 /\ t.n = n
      BY <1>m, <1>u, <2>3
    <3>2. b \notin Sources
      <4>1. SUFFICES ASSUME b \in Sources PROVE FALSE
        OBVIOUS
      <4>2. thread[b].port \in 1..1 /\ thread[b].port # 1
        BY <1>1, <2>3, <4>1, SourcePort
      <4> QED
        BY <4>2
    <3>3. ASSUME NEW k \in t.port..Len(Ports(b)) PROVE n <= Room(b, k)'
      <4>1. k \in 1..Len(Ports(b)) /\ k # thread[b].port /\ k \in thread[b].port..Len(Ports(b))
        BY <1>1, <3>1, Around
      <4>2. n <= Room(b, k) /\ Room(b, k) <= Room(b, k)' /\ Room(b, k) \in Nat /\ Room(b, k)' \in Int
        BY <1>2, <1>5, <1>6, <4>1
      <4> QED
        BY <1>1, <4>2
    <3> QED
      BY <2>1, <3>1, <3>2, <3>3 DEF Fits
  <2> QED
    BY <1>1, <2>2, <2>3, NextPortIs
<1> QED
  BY <1>8, <1>9, <1>10 DEF IInv

\* Taking a window: what fits through the ports so far fits through this one.
LEMMA LookIInv ==
  ASSUME IInv, NEW b \in Blocks, Look(b)
  PROVE  IInv'
<1> DEFINE m == Clamped(b)
           p == thread[b].port
<1>1. /\ Types /\ p \in 1..Len(Ports(b)) /\ Len(Ports(b)) \in Nat /\ p \in Nat /\ thread[b].n \in Nat
      /\ avail(b) = Room(b, p) /\ \A k \in 1..Len(Ports(b)) : Room(b, k) \in Nat
  BY PortsAre, RoomIs DEF IInv
<1>2. thread[b].at = "look" /\ \A k \in 1..(p - 1) : thread[b].n <= Room(b, k)
  BY DEF Look, IInv, Fits
<1>3. Wanted(b) \in Nat /\ (todo[b] > 0 => Wanted(b) = todo[b])
  <2>1. todo[b] \in Nat \cup {-1} /\ Cap[Ports(b)[1]] \in Nat
    BY <1>1, PortsAre, MTGraphAssumption DEF Types, Forever
  <2> QED
    BY <2>1 DEF Wanted
<1>4. /\ m \in Nat /\ m <= avail(b)
      /\ p # 1 => m <= thread[b].n
      /\ b \in Sources => p = 1 /\ m <= Wanted(b)
  <2>1. avail(b) \in Nat
    BY <1>1
  <2>2. b \in Sources => p = 1
    <3>1. b \in Sources => p \in 1..1
      BY <1>1, SourcePort
    <3> QED
      BY <3>1
  <2> QED
    BY <1>1, <1>3, <2>1, <2>2 DEF Clamped, Min2
<1>5. \A k \in 1..p : k \in 1..Len(Ports(b)) /\ m <= Room(b, k)
  <2> SUFFICES ASSUME NEW k \in 1..p
               PROVE  k \in 1..Len(Ports(b)) /\ m <= Room(b, k)
    OBVIOUS
  <2>1. k \in 1..Len(Ports(b)) /\ k \in Nat /\ (k = p \/ (k \in 1..(p - 1) /\ p # 1))
    BY <1>1
  <2>2. Room(b, k) \in Nat
    BY <1>1, <2>1
  <2>3. CASE k = p
    BY <1>1, <1>4, <2>1, <2>3
  <2>4. CASE k \in 1..(p - 1) /\ p # 1
    <3>1. thread[b].n <= Room(b, k) /\ m <= thread[b].n
      BY <1>2, <1>4, <2>4
    <3> QED
      BY <1>1, <1>4, <2>1, <2>2, <3>1
  <2> QED
    BY <2>1, <2>3, <2>4
<1>6. PICK t : /\ Goto(b, t)
               /\ \/ t = AtPort("wait", p, 0)
                  \/ t = NextPort(b, m, AtPort("move", 1, m))
  BY DEF Look
<1> HIDE DEF m, p
<1>7. /\ used' = used /\ todo' = todo /\ RestTypes'
  BY <1>1 DEF Look, streams, rest, RestTypes, Types
<1>8. CASE t = AtPort("wait", p, 0)
  <2>w. "wait" \in Places /\ 0 \in Nat
    BY DEF Places
  <2>1. t \in Placed /\ t.port = p /\ t.at = "wait"
    BY <1>1, <1>8, <2>w, PlacesTyped
  <2>2. Fits(b, t) /\ t.port \in 1..Len(Ports(b))
    BY <1>1, <2>1 DEF Fits
  <2> QED
    BY <1>6, <1>7, <2>1, <2>2, StillIInv
<1>9. CASE t = AtPort("move", 1, m) /\ p = Len(Ports(b))
  <2>m. "move" \in Places /\ 1 \in Nat
    BY DEF Places
  <2>1. t \in Placed /\ t.port = 1 /\ t.at = "move" /\ t.n = m
    BY <1>4, <1>9, <2>m, PlacesTyped
  <2>2. Fits(b, t)
    BY <1>3, <1>4, <1>5, <1>9, <2>1 DEF Fits
  <2> QED
    BY <1>6, <1>7, <2>1, <2>2, PortsAre, StillIInv
<1>10. CASE t = AtPort("look", p + 1, m) /\ p + 1 \in 1..Len(Ports(b))
  <2>1. p + 1 \in Nat
    BY <1>1
  <2>2. t \in Placed /\ t.port = p + 1 /\ t.at = "look" /\ t.n = m
    BY <1>4, <1>10, <2>1, PlacesTyped DEF Places
  <2>3. \A k \in 1..(t.port - 1) : k \in 1..p
    BY <1>1, <2>2
  <2>4. Fits(b, t)
    BY <1>5, <2>2, <2>3 DEF Fits
  <2> QED
    BY <1>6, <1>7, <1>10, <2>2, <2>4, StillIInv
<1>11. \/ NextPort(b, m, AtPort("move", 1, m)) = AtPort("move", 1, m) /\ p = Len(Ports(b))
       \/ NextPort(b, m, AtPort("move", 1, m)) = AtPort("look", p + 1, m) /\ p + 1 \in 1..Len(Ports(b))
  BY <1>1, <1>2, <1>4, NextPortIs DEF p
<1> QED
  BY <1>6, <1>8, <1>9, <1>10, <1>11

\* Consuming.
LEMMA ConsumeIInv ==
  ASSUME IInv, NEW b \in Blocks, Consume(b)
  PROVE  IInv'
<1>1. /\ thread[b].at = "move" /\ IsIn(b) /\ todo' = todo
      /\ used' = [used EXCEPT ![Port(b)] = IF IsIn(b) THEN @ - thread[b].n ELSE @ + thread[b].n]
      /\ Goto(b, NextPort(b, thread[b].n, AfterMove(b)))
  BY DEF Consume, rest
<1>2. RestTypes'
  <2>1. Port(b) \in Streams
    BY RoomIs DEF IInv
  <2>2. notified' \subseteq Streams \X {"r", "w"}
    <3>1. notified' = notified \/ notified' = notified \cup {<<Port(b), "w">>}
      BY DEF Consume
    <3>2. notified \subseteq Streams \X {"r", "w"} /\ <<Port(b), "w">> \in Streams \X {"r", "w"}
      BY <2>1 DEF IInv, Types, RestTypes
    <3> QED
      BY <3>1, <3>2
  <2> QED
    BY <2>2 DEF Consume, rest, IInv, Types, RestTypes
<1> QED
  BY <1>1, <1>2, MovedIInv DEF IInv, Types

\* Producing, which counts down what a source has.
LEMMA ProduceIInv ==
  ASSUME IInv, NEW b \in Blocks, Produce(b)
  PROVE  IInv'
<1>1. /\ thread[b].at = "move" /\ ~IsIn(b)
      /\ used' = [used EXCEPT ![Port(b)] = IF IsIn(b) THEN @ - thread[b].n ELSE @ + thread[b].n]
      /\ todo' = [todo EXCEPT ![b] = IF b \in Sources /\ @ > 0 THEN @ - thread[b].n ELSE @]
      /\ Goto(b, NextPort(b, thread[b].n, AfterMove(b)))
  BY DEF Produce
<1>2. todo \in [Blocks -> Nat \cup {Forever}] /\ todo[b] \in Nat \cup {-1} /\ thread[b].n \in Nat
  BY RoomIs DEF IInv, Types, Forever
<1>3. b \in Sources /\ todo[b] > 0 => todo[b] - thread[b].n \in Nat
  <2>1. b \in Sources /\ todo[b] > 0 => thread[b].n <= todo[b]
    BY <1>1 DEF IInv, Fits
  <2> QED
    BY <1>2, <2>1
<1>4. todo' \in [Blocks -> Nat \cup {Forever}] /\ \A c \in Blocks : c # b => todo'[c] = todo[c]
  BY <1>1, <1>2, <1>3
<1>5. RestTypes'
  <2>1. Port(b) \in Streams
    BY RoomIs DEF IInv
  <2>2. notified' \subseteq Streams \X {"r", "w"}
    <3>1. notified' = notified \/ notified' = notified \cup {<<Port(b), "r">>}
      BY DEF Produce
    <3>2. notified \subseteq Streams \X {"r", "w"} /\ <<Port(b), "r">> \in Streams \X {"r", "w"}
      BY <2>1 DEF IInv, Types, RestTypes
    <3> QED
      BY <3>1, <3>2
  <2>3. late' \subseteq Streams \X {"timed out", "unheard"}
    <3>1. <<Port(b), "timed out">> \in Streams \X {"timed out", "unheard"} /\ <<Port(b), "unheard">> \in Streams \X {"timed out", "unheard"}
      BY <2>1
    <3>2. late \subseteq Streams \X {"timed out", "unheard"}
      BY DEF IInv, Types, RestTypes
    <3> QED
      BY <3>1, <3>2 DEF Produce
  <2> QED
    BY <2>2, <2>3 DEF Produce, IInv, Types, RestTypes
<1> QED
  BY <1>1, <1>4, <1>5, MovedIInv

\* Every step keeps the invariant.
LEMMA NextIInv == IInv /\ [Next]_vars => IInv'
<1> SUFFICES ASSUME IInv, [Next]_vars PROVE IInv'
  OBVIOUS
<1>t. Types /\ RestTypes
  BY DEF IInv, Types
<1>a. {"loop", "look", "eof", "drop"} \subseteq Places \ {"move"}
  BY DEF Places
<1>b. \A b \in Blocks : LooksAgain(b) => late' \subseteq late
  BY DEF LooksAgain
<1>1. ASSUME NEW b \in Blocks, Loop(b) PROVE IInv'
  <2>1. RestTypes' /\ used' = used /\ todo' = todo
    BY <1>t, <1>1 DEF Loop, RestTypes, streams, rest
  <2>2. PICK place \in {"drop", "look"} : Goto(b, At(place))
    BY <1>1 DEF Loop
  <2> QED
    BY <1>a, <2>1, <2>2, GoneIInv
<1>2. ASSUME NEW b \in Blocks, NothingYet(b) PROVE IInv'
  <2>1. RestTypes' /\ used' = used /\ todo' = todo
    BY <1>t, <1>2 DEF NothingYet, RestTypes, streams, rest
  <2>2. PICK place \in {"loop", "eof"} : Goto(b, At(place))
    BY <1>2 DEF NothingYet
  <2> QED
    BY <1>a, <2>1, <2>2, GoneIInv
<1>3. ASSUME NEW b \in Blocks, Fail(b) PROVE IInv'
  <2>1. RestTypes' /\ used' = used /\ todo' = todo
    BY <1>t, <1>3 DEF Fail, RestTypes, streams, rest
  <2>2. "drop" \in Places /\ 1 \in Nat
    BY DEF Places
  <2>3. AtPort("drop", 1, 1) \in Placed /\ AtPort("drop", 1, 1).port = 1 /\ AtPort("drop", 1, 1).at = "drop"
    BY <2>2, PlacesTyped
  <2>4. Fits(b, AtPort("drop", 1, 1))
    BY <2>3 DEF Fits
  <2>5. Goto(b, AtPort("drop", 1, 1))
    BY <1>3 DEF Fail
  <2> QED
    BY <2>1, <2>3, <2>4, <2>5, PortsAre, StillIInv
<1>4. ASSUME NEW b \in Blocks, Woken(b) PROVE IInv'
  <2>1. RestTypes' /\ used' = used /\ todo' = todo /\ Goto(b, At("eof"))
    BY <1>t, <1>4 DEF Woken, RestTypes, streams, rest
  <2> QED
    BY <1>a, <2>1, GoneIInv
<1>5. ASSUME NEW b \in Blocks, TimedOut(b) \/ Await(b) \/ Slept(b) PROVE IInv'
  <2>1. PICK place \in {"await", "count"} : Goto(b, [thread[b] EXCEPT !.at = place])
    BY <1>5 DEF TimedOut, Await, Slept
  <2>2. thread[b] \in Placed /\ thread[b].port \in 1..Len(Ports(b)) /\ place \in Places
    BY <1>t DEF Types, Placed, Places
  <2> DEFINE t == [thread[b] EXCEPT !.at = place]
  <2>3. t \in Placed /\ t.port = thread[b].port /\ t.at = place
    BY <2>2 DEF Placed
  <2>4. Fits(b, t)
    BY <2>3 DEF Fits
  <2>5. used' = used /\ todo' = todo /\ notified' \subseteq notified
    BY <1>5 DEF TimedOut, Await, Slept, streams, rest
  <2>6. RestTypes'
    BY <1>t, <1>5, <2>5 DEF TimedOut, Await, Slept, RestTypes, streams, rest
  <2> QED
    BY <2>1, <2>2, <2>3, <2>4, <2>5, <2>6, StillIInv
<1>6. ASSUME NEW b \in Blocks, Notified(b) PROVE IInv'
  <2>1. used' = used /\ todo' = todo /\ Goto(b, At("eof")) /\ notified' \subseteq notified /\ late' \subseteq late
    BY <1>b, <1>6 DEF Notified, rest
  <2>2. RestTypes'
    BY <1>t, <1>6, <2>1 DEF Notified, RestTypes, rest
  <2> QED
    BY <1>a, <2>1, <2>2, GoneIInv
<1>7. ASSUME NEW b \in Blocks, Counted(b) PROVE IInv'
  <2>1. used' = used /\ todo' = todo /\ notified' = notified /\ late' \subseteq late
    BY <1>b, <1>7 DEF Counted, rest, streams
  <2>2. RestTypes'
    BY <1>t, <1>7, <2>1 DEF Counted, RestTypes, rest, streams
  <2>3. PICK place \in {"drop", "eof"} : Goto(b, At(place))
    BY <1>7 DEF Counted
  <2> QED
    BY <1>a, <2>1, <2>2, <2>3, GoneIInv
<1>8. ASSUME NEW b \in Blocks, Eof(b) PROVE IInv'
  <2>1. RestTypes' /\ used' = used /\ todo' = todo
    BY <1>t, <1>8 DEF Eof, RestTypes, streams, rest
  <2>2. PICK place \in {"drop", "loop"} : Goto(b, At(place))
    BY <1>8 DEF Eof
  <2> QED
    BY <1>a, <2>1, <2>2, GoneIInv
<1>9. ASSUME NEW b \in Blocks, Drop(b) PROVE IInv'
  <2> DEFINE n == thread[b].n
             t == NextPort(b, n, AtPort("done", 1, n))
  <2>1. /\ thread[b].at = "drop" /\ Goto(b, t) /\ used' = used /\ todo' = todo
        /\ open' = [open EXCEPT ![Port(b)] = @ \ {IF IsIn(b) THEN "r" ELSE "w"}]
    BY <1>9 DEF Drop, rest
  <2>2. open' \in [Streams -> SUBSET {"r", "w"}]
    BY <1>t, <2>1 DEF RestTypes
  <2>3. RestTypes'
    BY <1>t, <1>9, <2>2 DEF Drop, RestTypes, rest
  <2>4. n \in Nat /\ thread[b].port + 1 \in Nat
    BY <1>t, RoomIs
  <2>5. {"drop", "done"} \subseteq Places /\ 1 \in Nat
    BY DEF Places
  <2>6. t \in Placed /\ t.port \in 1..Len(Ports(b)) /\ t.at \in {"drop", "done"}
    <3>1. CASE t = AtPort("done", 1, n)
      <4>1. "done" \in Places /\ 1 \in Nat
        BY <2>5
      <4>2. t \in Placed /\ t.port = 1 /\ t.at = "done"
        BY <2>4, <3>1, <4>1, PlacesTyped
      <4> QED
        BY <4>2, PortsAre
    <3>2. CASE t = AtPort("drop", thread[b].port + 1, n) /\ thread[b].port + 1 \in 1..Len(Ports(b))
      BY <2>4, <2>5, <3>2, PlacesTyped
    <3> QED
      BY <1>t, <2>1, <2>4, <3>1, <3>2, NextPortIs
  <2>7. Fits(b, t)
    BY <2>6 DEF Fits
  <2> QED
    BY <2>1, <2>3, <2>6, <2>7, StillIInv
<1>10. ASSUME Spawn \/ SpawnTask \/ SpawnFails PROVE IInv'
  <2>1. PICK place \in {"loop", "drop"} : Goto(added[main.k], At(place))
    BY <1>10 DEF Spawn, SpawnTask, SpawnFails
  <2>2. used' = used /\ todo' = todo
    BY <1>10 DEF Spawn, SpawnTask, SpawnFails, streams
  <2>3. RestTypes'
    <3>1. canceled' \in BOOLEAN /\ UNCHANGED <<plan, open, notified, late>>
      BY <1>t, <1>10 DEF Spawn, SpawnTask, SpawnFails, streams, RestTypes
    <3>2. main'.pc \in {"spawn", "join", "panicked"}
      BY <1>10 DEF Spawn, SpawnTask, SpawnFails, InMain
    <3> QED
      BY <1>t, <3>1, <3>2 DEF RestTypes
  <2>4. CASE added[main.k] \in Blocks
    BY <1>a, <2>1, <2>2, <2>3, <2>4, GoneIInv
  <2>5. CASE added[main.k] \notin Blocks
    <3>1. thread' = thread
      BY <1>t, <2>1, <2>5 DEF Goto, Types
    <3> QED
      BY <1>t, <2>2, <2>3, <3>1 DEF IInv, Types, Fits, Room
  <2> QED
    BY <2>4, <2>5
<1>11. ASSUME Join \/ JoinTask \/ Cancel \/ UNCHANGED vars PROVE IInv'
  <2>1. thread' = thread /\ used' = used /\ todo' = todo
    BY <1>11 DEF Join, JoinTask, Cancel, vars, streams
  <2>2. RestTypes'
    <3>1. CASE Cancel
      BY <1>t, <3>1 DEF Cancel, streams, RestTypes
    <3>2. CASE UNCHANGED vars
      BY <1>t, <3>2 DEF vars, RestTypes
    <3>3. CASE Join \/ JoinTask
      <4>1. main'.pc \in {"join", "returned", "panicked"}
        BY <3>3 DEF Join, JoinTask, InMain
      <4> QED
        BY <1>t, <3>3, <4>1 DEF Join, JoinTask, streams, RestTypes
    <3> QED
      BY <1>11, <3>1, <3>2, <3>3
  <2> QED
    BY <1>t, <2>1, <2>2 DEF IInv, Types, Fits, Room
<1>12. ASSUME NEW b \in Blocks, Step(b) PROVE IInv'
  BY <1>1, <1>4, <1>5, <1>6, <1>7, <1>8, <1>9, <1>12, LookIInv, ConsumeIInv, ProduceIInv
     DEF Step, ThreadStep, TaskStep, Common
<1> QED
  BY <1>2, <1>3, <1>10, <1>11, <1>12 DEF Next, Run

LEMMA AlwaysIInv == Spec => []IInv
BY InitIInv, NextIInv, PTL DEF Spec

\* Whatever the graph and the order in which its threads or tasks take their
\* steps: no block consumes more than is in the stream or produces more than is
\* free, though it took its windows earlier and others went on since.
THEOREM Typing == Spec => []TypeOK
<1>1. IInv => TypeOK
  <2> SUFFICES ASSUME IInv PROVE TypeOK
    OBVIOUS
  <2>1. \A s \in Streams : used[s] \in 0..Cap[s] /\ open[s] \subseteq {"r", "w"}
    <3> SUFFICES ASSUME NEW s \in Streams PROVE used[s] \in 0..Cap[s] /\ open[s] \subseteq {"r", "w"}
      OBVIOUS
    <3>1. Cap[s] \in Nat /\ used[s] \in Nat /\ used[s] <= Cap[s]
      BY MTGraphAssumption DEF IInv, Types
    <3>2. open[s] \subseteq {"r", "w"}
      BY DEF IInv, Types, RestTypes
    <3> QED
      BY <3>1, <3>2
  <2>2. ASSUME NEW b \in Blocks, thread[b].at = "move" PROVE thread[b].n <= avail(b)
    <3>1. thread[b].port \in thread[b].port..Len(Ports(b)) /\ avail(b) = Room(b, thread[b].port)
      BY PortsAre, RoomIs DEF IInv
    <3> QED
      BY <2>2, <3>1 DEF IInv, Fits
  <2>3. \A b \in Blocks : /\ thread[b].at \in Places /\ thread[b].port \in 1..Len(Ports(b))
                          /\ todo[b] \in Nat \cup {Forever}
    BY DEF IInv, Types
  <2> QED
    BY <2>1, <2>2, <2>3 DEF TypeOK, IInv, Types, RestTypes
<1> QED
  BY <1>1, AlwaysIInv, PTL

-----------------------------------------------------------------------------
(* The end of the data                                                     *)

\* Who reads and who writes a stream is told by the ports.
LEMMA OwnPort ==
  ASSUME Types, NEW b \in Blocks
  PROVE  /\ Port(b) \in Streams
         /\ IF IsIn(b) THEN Reads(b, Port(b)) ELSE Writes(b, Port(b))
         /\ \A c \in Blocks : IF IsIn(b) THEN Reads(c, Port(b)) => c = b ELSE Writes(c, Port(b)) => c = b
         /\ \A c \in Blocks : IsIn(b) /\ IsIn(c) /\ Port(b) = Port(c) => c = b
<1>1. thread[b].port \in 1..Len(Ports(b)) /\ Port(b) = Ports(b)[thread[b].port] /\ Port(b) \in Streams
  BY RoomIs
<1>2. IF IsIn(b) THEN Reads(b, Port(b)) ELSE Writes(b, Port(b))
  <2>1. \A k \in 1..Len(Ports(b)) : IF k <= Len(Inputs[b]) THEN Reads(b, Ports(b)[k]) ELSE Writes(b, Ports(b)[k])
    BY PortsAre
  <2> QED
    BY <1>1, <2>1 DEF IsIn
<1>3. \A c \in Blocks : IF IsIn(b) THEN Reads(c, Port(b)) => c = b ELSE Writes(c, Port(b)) => c = b
  <2>1. \A c \in Blocks, s \in Streams : (Reads(b, s) /\ Reads(c, s)) \/ (Writes(b, s) /\ Writes(c, s)) => b = c
    BY FlowgraphAssumption
  <2> QED
    BY <1>1, <1>2, <2>1
<1>4. \A c \in Blocks : IsIn(c) => Reads(c, Port(c))
  BY RoomIs, PortsAre DEF IsIn
<1> QED
  BY <1>1, <1>2, <1>3, <1>4

\* The block whose thread is started is not known to any other before.
LEMMA Newborn ==
  ASSUME Types, Unborn, main.pc = "spawn"
  PROVE  /\ added[main.k] \in Blocks /\ thread[added[main.k]].at = "unborn" /\ main.k \in 1..Newest
         /\ Newest \in Nat
         /\ \A j \in 1..Newest : j # main.k => added[j] \in Blocks /\ added[j] # added[main.k]
<1>1. added \in Seq(Blocks) /\ IsInjective(added)
  BY MTGraphAssumption DEF Types, RestTypes, added
<1>2. Newest \in Nat /\ DOMAIN added = 1..Newest /\ \A j \in 1..Newest : added[j] \in Blocks
  <2>1. Newest \in Nat /\ added \in [1..Newest -> Blocks]
    BY <1>1, LenProperties DEF Newest
  <2> QED
    BY <2>1
<1>3. main.k \in 1..Newest /\ \A j \in 1..main.k : thread[added[j]].at = "unborn"
  BY DEF Unborn
<1>4. main.k \in 1..main.k
  BY <1>2, <1>3
<1>5. \A j \in 1..Newest : j # main.k => added[j] # added[main.k]
  BY <1>1, <1>2, <1>3 DEF IsInjective
<1> QED
  BY <1>2, <1>3, <1>4, <1>5

\* What a step of the thread or task of b does to the rest of the graph.
LEMMA Outside ==
  ASSUME Types, NEW b \in Blocks, Step(b) \/ NothingYet(b) \/ Fail(b)
  PROVE  /\ thread[b].at \notin {"unborn", "done"}
         /\ \A c \in Blocks : c # b => thread'[c] = thread[c] /\ todo'[c] = todo[c]
         /\ ended(b) => ended(b)' /\ thread'[b].n = thread[b].n /\ UNCHANGED <<todo, used, late>>
         /\ UNCHANGED <<plan, main, canceled>>
         /\ \A s \in Streams : open'[s] \subseteq open[s]
         /\ \A s \in Streams : used'[s] # used[s] => s = Port(b) /\ thread[b].at = "move"
         /\ \A e \in late \ late' : IsIn(b) /\ e \in {Port(b)} \X {"timed out", "unheard"} /\ ~ended(b)
<1>t. /\ used \in [Streams -> Nat] /\ todo \in [Blocks -> Nat \cup {Forever}]
      /\ thread \in [Blocks -> Placed] /\ open \in [Streams -> SUBSET {"r", "w"}]
  BY DEF Types, RestTypes, Placed
<1>g. ASSUME NEW t, Goto(b, t)
      PROVE  thread'[b] = t /\ \A c \in Blocks : c # b => thread'[c] = thread[c]
  BY <1>t, <1>g DEF Goto
<1>1. CASE Loop(b) \/ NothingYet(b) \/ Fail(b) \/ Look(b) \/ Eof(b) \/ Woken(b) \/ TimedOut(b) \/ Await(b)
  <2>1. thread[b].at \in {"loop", "look", "eof", "wait"}
    BY <1>1 DEF Loop, NothingYet, Fail, Look, Eof, Woken, TimedOut, Await, At
  <2>2. (\E t : Goto(b, t)) /\ UNCHANGED <<streams, rest, late>>
    BY <1>1 DEF Loop, NothingYet, Fail, Look, Eof, Woken, TimedOut, Await
  <2> QED
    BY <1>g, <2>1, <2>2 DEF ended, streams, rest
<1>2. CASE Consume(b) \/ Produce(b)
  <2>1. thread[b].at = "move" /\ (\E t : Goto(b, t)) /\ UNCHANGED <<plan, open, canceled, main>>
    BY <1>2 DEF Consume, Produce, rest
  <2>2. \A s \in Streams : used'[s] # used[s] => s = Port(b)
    BY <1>t, <1>2 DEF Consume, Produce
  <2>3. late \subseteq late'
    BY <1>2 DEF Consume, Produce
  <2>4. \A c \in Blocks : c # b => todo'[c] = todo[c]
    BY <1>t, <1>2 DEF Consume, Produce, rest
  <2> QED
    BY <1>g, <2>1, <2>2, <2>3, <2>4 DEF ended
<1>3. CASE Notified(b) \/ Slept(b) \/ Counted(b)
  <2>1. thread[b].at \in {"await", "count"} /\ (\E t : Goto(b, t)) /\ UNCHANGED <<used, open, rest>>
    BY <1>3 DEF Notified, Slept, Counted, streams
  <2>2. late' = late \/ (IsIn(b) /\ late' = late \ ({Port(b)} \X {"timed out", "unheard"}))
    BY <1>3 DEF Notified, Slept, Counted, LooksAgain
  <2> QED
    BY <1>g, <2>1, <2>2 DEF ended, rest
<1>4. CASE Drop(b)
  <2>1. thread[b].at = "drop" /\ UNCHANGED <<used, notified, rest, late>>
    BY <1>4 DEF Drop
  <2>2. \A s \in Streams : open'[s] \subseteq open[s]
    BY <1>t, <1>4 DEF Drop
  <2>3. thread[b].n \in Nat /\ thread[b].port + 1 \in Nat
    BY RoomIs
  <2>4. PICK t : /\ Goto(b, t)
                 /\ \/ t = AtPort("done", 1, thread[b].n)
                    \/ t = AtPort("drop", thread[b].port + 1, thread[b].n)
    BY <1>4, <2>1, <2>3, NextPortIs DEF Drop
  <2>5. t.at \in {"drop", "done"} /\ t.n = thread[b].n
    BY <2>4 DEF AtPort
  <2> QED
    BY <1>g, <2>1, <2>2, <2>4, <2>5 DEF ended, rest
<1> QED
  BY <1>1, <1>2, <1>3, <1>4 DEF Step, ThreadStep, TaskStep, Common

\* Threads and tasks are started once.
LEMMA UnbornNext ==
  ASSUME Types, Unborn, [Next]_vars
  PROVE  Unborn'
<1>1. ASSUME NEW b \in Blocks, Step(b) \/ NothingYet(b) \/ Fail(b) PROVE Unborn'
  <2> SUFFICES ASSUME main'.pc = "spawn"
               PROVE  (main.k \in 1..Newest /\ \A j \in 1..main.k : thread[added[j]].at = "unborn")'
    BY DEF Unborn
  <2>1. main' = main /\ plan' = plan /\ thread[b].at # "unborn"
    BY <1>1, Outside
  <2>2. main.k \in 1..Newest /\ Newest \in Nat
    BY <2>1, Newborn
  <2>3. ASSUME NEW j \in 1..main.k PROVE thread'[added[j]].at = "unborn"
    <3>1. thread[added[j]].at = "unborn"
      BY <2>1 DEF Unborn
    <3>2. added[j] \in Blocks
      <4>1. j \in 1..Newest
        BY <2>2
      <4> QED
        BY <2>1, <4>1, Newborn
    <3>3. added[j] # b
      BY <2>1, <3>1
    <3> QED
      BY <1>1, <3>1, <3>2, <3>3, Outside
  <2> QED
    BY <2>1, <2>2, <2>3 DEF added, Newest
<1>2. ASSUME Spawn \/ SpawnTask PROVE Unborn'
  <2> SUFFICES ASSUME main'.pc = "spawn"
               PROVE  (main.k \in 1..Newest /\ \A j \in 1..main.k : thread[added[j]].at = "unborn")'
    BY DEF Unborn
  <2>1. main.pc = "spawn" /\ plan' = plan /\ thread' = [thread EXCEPT ![added[main.k]] = At("loop")]
    BY <1>2 DEF Spawn, SpawnTask, Goto
  <2>2. main'.k = main.k - 1 /\ main.k > 1
    BY <1>2 DEF Spawn, SpawnTask, InMain
  <2>3. main.k \in 1..Newest /\ Newest \in Nat
    BY <2>1, Newborn
  <2>4. \A j \in 1..(main.k - 1) : j \in 1..main.k /\ j \in 1..Newest /\ j # main.k
    BY <2>2, <2>3
  <2>5. ASSUME NEW j \in 1..(main.k - 1) PROVE thread'[added[j]].at = "unborn"
    <3>1. thread[added[j]].at = "unborn"
      BY <2>1, <2>4 DEF Unborn
    <3>2. added[j] \in Blocks /\ added[j] # added[main.k]
      BY <2>1, <2>4, Newborn
    <3> QED
      BY <2>1, <3>1, <3>2 DEF Types
  <2>6. main'.k \in 1..Newest
    BY <2>2, <2>3
  <2> QED
    BY <2>1, <2>2, <2>5, <2>6 DEF added, Newest
<1>3. ASSUME SpawnFails \/ Join \/ JoinTask PROVE Unborn'
  BY <1>3 DEF SpawnFails, Join, JoinTask, InMain, Unborn
<1>4. ASSUME Cancel \/ UNCHANGED vars PROVE Unborn'
  BY <1>4 DEF Cancel, vars, Unborn, added, Newest
<1> QED
  BY <1>1, <1>2, <1>3, <1>4 DEF Next, Run

\* What is over stays as it is.
LEMMA StaysOver ==
  ASSUME Types, Unborn, [Next]_vars
  PROVE  /\ \A c \in Blocks : ended(c) => ended(c)' /\ thread'[c].n = thread[c].n
         /\ \A s \in Streams : open'[s] \subseteq open[s]
         /\ Disturbed => Disturbed'
<1>1. /\ \A c \in Blocks : ended(c) => ended(c)' /\ thread'[c].n = thread[c].n
      /\ \A s \in Streams : open'[s] \subseteq open[s]
      /\ canceled => canceled'
  <2>1. ASSUME NEW b \in Blocks, Step(b) \/ NothingYet(b) \/ Fail(b)
        PROVE  /\ \A c \in Blocks : ended(c) => ended(c)' /\ thread'[c].n = thread[c].n
               /\ \A s \in Streams : open'[s] \subseteq open[s]
               /\ canceled => canceled'
    <3>1. ASSUME NEW c \in Blocks, ended(c) PROVE ended(c)' /\ thread'[c].n = thread[c].n
      BY <2>1, <3>1, Outside DEF ended
    <3>2. \A s \in Streams : open'[s] \subseteq open[s]
      BY <2>1, Outside
    <3>3. canceled' = canceled
      BY <2>1, Outside
    <3>4. canceled => canceled'
      BY <3>3
    <3> QED
      BY <3>1, <3>2, <3>4
  <2>2. ASSUME Spawn \/ SpawnTask \/ SpawnFails
        PROVE  /\ \A c \in Blocks : ended(c) => ended(c)' /\ thread'[c].n = thread[c].n
               /\ open' = open
               /\ canceled => canceled'
    <3>1. main.pc = "spawn" /\ open' = open /\ (canceled => canceled')
      BY <2>2 DEF Spawn, SpawnTask, SpawnFails, streams
    <3>2. PICK t : thread' = [thread EXCEPT ![added[main.k]] = t]
      BY <2>2 DEF Spawn, SpawnTask, SpawnFails, Goto
    <3>3. thread[added[main.k]].at = "unborn"
      BY <3>1, Newborn
    <3>4. ASSUME NEW c \in Blocks, ended(c) PROVE thread'[c] = thread[c]
      BY <3>2, <3>3, <3>4 DEF Types, ended
    <3> QED
      BY <3>1, <3>4 DEF ended
  <2>3. ASSUME Join \/ JoinTask \/ Cancel \/ UNCHANGED vars
        PROVE  thread' = thread /\ open' = open /\ (canceled => canceled')
    BY <2>3 DEF Join, JoinTask, Cancel, vars, streams
  <2> QED
    BY <2>1, <2>2, <2>3 DEF Next, Run, ended
<1> QED
  BY <1>1 DEF Disturbed, failed

\* Only the drop of a block closes ends.
LEMMA DeadEndsNext ==
  ASSUME Types, Unborn, DeadEnds, [Next]_vars
  PROVE  DeadEnds'
<1>1. ASSUME NEW s \in Streams, NEW e \in {"r", "w"}, e \in open[s], e \notin open'[s]
      PROVE  \E b \in Blocks : (IF e = "r" THEN Reads(b, s) ELSE Writes(b, s)) /\ ended(b)
  <2>1. PICK b \in Blocks : Drop(b)
    <3>1. ASSUME NEW b \in Blocks, Step(b) \/ NothingYet(b) \/ Fail(b) PROVE Drop(b) \/ open' = open
      <4>1. CASE Common(b) \/ NothingYet(b) \/ Fail(b)
        BY <4>1 DEF Common, Loop, Look, Consume, Produce, Counted, Eof, NothingYet, Fail, streams
      <4>2. CASE Woken(b) \/ TimedOut(b) \/ Await(b) \/ Notified(b) \/ Slept(b)
        BY <4>2 DEF Woken, TimedOut, Await, Notified, Slept, streams
      <4> QED
        BY <3>1, <4>1, <4>2 DEF Step, ThreadStep, TaskStep
    <3>2. ASSUME Run \/ SpawnFails \/ Cancel \/ UNCHANGED vars PROVE open' = open
      BY <3>2 DEF Run, Spawn, SpawnTask, SpawnFails, Join, JoinTask, Cancel, vars, streams
    <3>3. (\E b \in Blocks : Drop(b)) \/ open' = open
      BY <3>1, <3>2 DEF Next
    <3> QED
      BY <1>1, <3>3
  <2>2. ended(b) /\ open' = [open EXCEPT ![Port(b)] = @ \ {IF IsIn(b) THEN "r" ELSE "w"}]
    BY <2>1 DEF Drop, ended
  <2>3. s = Port(b) /\ e = IF IsIn(b) THEN "r" ELSE "w"
    BY <1>1, <2>2 DEF Types, RestTypes
  <2> QED
    BY <2>2, <2>3, OwnPort
<1>2. ASSUME NEW s \in Streams
      PROVE  /\ "r" \notin open'[s] => \E b \in Blocks : Reads(b, s) /\ ended(b)
             /\ "w" \notin open'[s] => \E b \in Blocks : Writes(b, s) /\ ended(b)
  BY <1>1 DEF DeadEnds
<1> QED
  BY <1>2, StaysOver DEF DeadEnds

LEMMA AtMostOne ==
  ASSUME NEW l \in Nat, NEW m \in Nat, NEW n, l = m + n, n = 0, m <= 1, 1 \in 1..l
  PROVE  l = 1 /\ m = 1
  OBVIOUS

\* A sink has a single port.
LEMMA SinkPort ==
  ASSUME Matched, NEW b \in Sinks
  PROVE  b \in Blocks /\ b \notin Sources /\ Len(Ports(b)) = 1 /\ Len(Inputs[b]) = 1
<1>1. b \in Blocks /\ Outputs[b] = <<>>
  BY DEF Sinks
<1>2. Len(Outputs[b]) = 0
  BY <1>1, EmptySeq
<1>3. Len(Ports(b)) = Len(Inputs[b]) + Len(Outputs[b]) /\ Len(Ports(b)) \in Nat /\ 1 \in 1..Len(Ports(b))
  BY <1>1, PortsAre
<1>4. Len(Inputs[b]) \in Nat /\ Len(Inputs[b]) <= 1
  BY <1>1, PortsAre, LenProperties DEF Matched
<1>5. Len(Ports(b)) = 1 /\ Len(Inputs[b]) = 1
  BY <1>2, <1>3, <1>4, AtMostOne
<1>6. ASSUME b \in Sources PROVE FALSE
  <2>1. Len(Inputs[b]) = 0
    BY <1>6, SourcePort
  <2>2. \A n : n = 1 => n # 0
    OBVIOUS
  <2> QED
    BY <1>5, <2>1, <2>2
<1> QED
  BY <1>1, <1>5, <1>6

\* What others do to the stream of a block that is about to look at the count
\* is recorded.
LEMMA OthersFoundEmpty ==
  ASSUME Types, NEW b \in Blocks, Step(b) \/ NothingYet(b) \/ Fail(b), NEW c \in Blocks, c # b, FoundEmpty(c)
  PROVE  FoundEmpty(c)'
<1> DEFINE MissedNext(s) == \E what \in {"timed out", "unheard"} : <<s, what>> \in late'
<1>1. thread'[c] = thread[c] /\ plan' = plan
  BY Outside
<1>2. Port(c)' = Port(c) /\ (IsIn(c)' <=> IsIn(c)) /\ (Tasks' <=> Tasks)
  BY <1>1 DEF Port, IsIn, Tasks
<1> SUFFICES ASSUME IsIn(c)
             PROVE  /\ thread[c].at = "count" \/ (Tasks /\ thread[c].at \in {"wait", "await"})
                         => used'[Port(c)] = 0 \/ MissedNext(Port(c))
                    /\ Tasks /\ c \in Sinks /\ thread[c].at = "move"
                         => thread[c].n = used'[Port(c)] \/ MissedNext(Port(c))
  BY <1>1, <1>2 DEF FoundEmpty, Missed
<1>3. Port(c) \in Streams /\ Reads(c, Port(c)) /\ ReaderOf(Port(c)) = c
  BY OwnPort, TheOnlyOne
<1>4. Missed(Port(c)) => MissedNext(Port(c))
  <2>1. ASSUME NEW e \in late \ late' PROVE IsIn(b) /\ e \in {Port(b)} \X {"timed out", "unheard"}
    BY Outside
  <2>2. ~(IsIn(b) /\ Port(b) = Port(c))
    BY OwnPort
  <2>3. ASSUME NEW what \in {"timed out", "unheard"}, <<Port(c), what>> \in late PROVE <<Port(c), what>> \in late'
    <3>1. <<Port(c), what>> \in late \ late' => Port(c) = Port(b) /\ IsIn(b)
      BY <2>1
    <3> QED
      BY <2>2, <2>3, <3>1
  <2> QED
    BY <2>3 DEF Missed
<1>5. CASE used'[Port(c)] = used[Port(c)]
  BY <1>4, <1>5 DEF FoundEmpty
<1>6. CASE used'[Port(c)] # used[Port(c)]
  <2>1. Port(c) = Port(b) /\ thread[b].at = "move"
    BY <1>3, <1>6, Outside
  <2>2. Produce(b)
    <3>1. ~IsIn(b)
      BY <2>1, OwnPort
    <3>2. Consume(b) \/ Produce(b)
      BY <2>1 DEF Step, ThreadStep, TaskStep, Common, Loop, Look, Counted, Eof, Drop, Woken, TimedOut,
                  Await, Notified, Slept, NothingYet, Fail, At
    <3> QED
      BY <3>1, <3>2 DEF Consume
  <2>3. late' = late \cup (IF ReaderAt(Port(b), "count") THEN {<<Port(b), "timed out">>} ELSE {})
                     \cup (IF Deaf(Port(b)) THEN {<<Port(b), "unheard">>} ELSE {})
    BY <2>2 DEF Produce
  <2>r. ReaderOf(Port(b)) = c /\ Port(c) = Port(b) /\ IsIn(c)
    BY <1>3, <2>1
  <2>4. thread[c].at = "count" => <<Port(c), "timed out">> \in late'
    BY <2>r, <2>3 DEF ReaderAt
  <2>5. Tasks /\ thread[c].at \in {"wait", "await"} => <<Port(c), "unheard">> \in late'
    BY <2>r, <2>3 DEF Deaf, ReaderAt
  <2>6. Tasks /\ c \in Sinks /\ thread[c].at = "move" => <<Port(c), "unheard">> \in late'
    BY <2>r, <2>3 DEF Deaf, ReaderAt
  <2> QED
    BY <2>4, <2>5, <2>6
<1> QED
  BY <1>5, <1>6

\* A block goes to look at the count only from an empty stream.
LEMMA OwnFoundEmpty ==
  ASSUME Matched, IInv, NEW b \in Blocks, Step(b) \/ NothingYet(b) \/ Fail(b), FoundEmpty(b)
  PROVE  FoundEmpty(b)'
<1>t. /\ Types /\ plan' = plan /\ thread[b] \in Placed /\ thread[b].port \in 1..Len(Ports(b))
      /\ used \in [Streams -> Nat] /\ Port(b) \in Streams /\ (Tasks' <=> Tasks)
  BY Outside, RoomIs DEF IInv, Types, Placed, Tasks
<1>g. ASSUME NEW t, Goto(b, t)
      PROVE  thread'[b] = t
  BY <1>t, <1>g DEF Types, Goto
<1>a. ASSUME NEW t, Goto(b, t), t.at \notin {"count", "wait", "await", "move"} PROVE FoundEmpty(b)'
  BY <1>a, <1>g DEF FoundEmpty
<1>b. \A place : At(place).at = place
  BY DEF At
<1>c. \A place, k, n : AtPort(place, k, n) = [at |-> place, port |-> k, n |-> n]
  BY DEF AtPort
<1>1. CASE Loop(b) \/ NothingYet(b) \/ Eof(b) \/ Woken(b) \/ Notified(b) \/ Counted(b)
  <2>1. PICK place \in {"loop", "look", "drop", "eof"} : Goto(b, At(place))
    BY <1>1 DEF Loop, NothingYet, Eof, Woken, Notified, Counted
  <2> QED
    BY <1>a, <1>b, <2>1
<1>2. CASE Fail(b)
  BY <1>2, <1>a, <1>c DEF Fail
<1>3. CASE Drop(b)
  <2>1. thread[b].at = "drop" /\ thread[b].n \in Nat
    BY <1>3, <1>t, RoomIs DEF Drop
  <2>2. PICK t : Goto(b, t) /\ t.at \in {"drop", "done"}
    BY <1>t, <1>3, <1>c, <2>1, NextPortIs DEF Drop
  <2> QED
    BY <1>a, <2>2
<1>4. CASE TimedOut(b) \/ (Tasks /\ (Await(b) \/ Slept(b)))
  <2>1. PICK place \in {"count", "await"} : Goto(b, [thread[b] EXCEPT !.at = place])
    BY <1>4 DEF TimedOut, Await, Slept
  <2>2. thread'[b].at = place /\ thread'[b].port = thread[b].port
    BY <1>t, <1>g, <2>1 DEF Placed
  <2>3. UNCHANGED <<used, late>>
    BY <1>4 DEF TimedOut, Await, Slept, streams, rest
  <2>4. IsIn(b) => used[Port(b)] = 0 \/ Missed(Port(b))
    <3>1. CASE TimedOut(b)
      BY <3>1 DEF TimedOut, avail
    <3>2. CASE Tasks /\ (Await(b) \/ Slept(b))
      BY <3>2 DEF Await, Slept, FoundEmpty
    <3> QED
      BY <1>4, <3>1, <3>2
  <2> QED
    BY <2>2, <2>3, <2>4 DEF FoundEmpty, IsIn, Port, Missed
<1>p. b \in Sinks => /\ thread[b].port = 1 /\ Len(Ports(b)) = 1 /\ Len(Inputs[b]) = 1
                     /\ b \notin Sources /\ IsIn(b)
  <2>1. b \in Sinks => /\ Len(Ports(b)) = 1 /\ Len(Inputs[b]) = 1
                       /\ thread[b].port \in 1..1 /\ b \notin Sources
    BY <1>t, SinkPort
  <2>2. b \in Sinks => thread[b].port = 1
    BY <2>1
  <2>3. \A x, y : x = 1 /\ y = 1 => x <= y
    OBVIOUS
  <2> QED
    BY <2>1, <2>2, <2>3 DEF IsIn
<1>q. AfterMove(b) \in {At("look"), At("drop"), At("loop")} \/ (b \in Sinks /\ AfterMove(b) = At("wait"))
  BY <1>p DEF AfterMove, Syncs
<1>r. ASSUME NEW t, Goto(b, NextPort(b, thread[b].n, t)), thread[b].at = "move"
      PROVE  Goto(b, t) \/ (b \notin Sinks /\ \E u : Goto(b, u) /\ u.at = "move")
  <2>1. CASE thread[b].port = Len(Ports(b)) /\ NextPort(b, thread[b].n, t) = t
    BY <1>r, <2>1
  <2>2. CASE /\ thread[b].port # Len(Ports(b))
             /\ NextPort(b, thread[b].n, t) = AtPort(thread[b].at, thread[b].port + 1, thread[b].n)
    <3>1. b \notin Sinks
      BY <1>p, <2>2
    <3> DEFINE u == AtPort("move", thread[b].port + 1, thread[b].n)
    <3>2. u.at = "move"
      BY DEF AtPort
    <3>3. Goto(b, u)
      BY <1>r, <2>2
    <3> QED
      BY <3>1, <3>2, <3>3
  <2> QED
    BY <1>t, <2>1, <2>2, NextPortIs, RoomIs
<1>5. CASE Look(b)
  <2>1. UNCHANGED <<used, late>>
    BY <1>5 DEF Look, streams
  <2>2. CASE avail(b) = 0 /\ Goto(b, AtPort("wait", thread[b].port, 0))
    <3>1. thread'[b].at = "wait" /\ thread'[b].port = thread[b].port
      BY <1>c, <1>g, <2>2
    <3>2. IsIn(b) => used[Port(b)] = 0
      BY <2>2 DEF avail
    <3> QED
      BY <2>1, <3>1, <3>2 DEF FoundEmpty, IsIn, Port
  <2>3. CASE Goto(b, NextPort(b, Clamped(b), AtPort("move", 1, Clamped(b))))
    <3>1. Goto(b, AtPort("move", 1, Clamped(b))) \/ \E t : Goto(b, t) /\ t.at = "look"
      BY <1>5, <1>c, <2>3 DEF NextPort, Look
    <3>2. CASE Goto(b, AtPort("move", 1, Clamped(b)))
      <4>1. thread'[b] = [at |-> "move", port |-> 1, n |-> Clamped(b)]
        BY <1>c, <1>g, <3>2
      <4>2. b \in Sinks => /\ IsIn(b)' <=> IsIn(b)
                           /\ Port(b)' = Port(b)
                           /\ Clamped(b) = avail(b)
        BY <1>p, <4>1 DEF IsIn, Port, Clamped
      <4>3. IsIn(b) => avail(b) = used[Port(b)]
        BY DEF avail
      <4> QED
        BY <2>1, <4>1, <4>2, <4>3 DEF FoundEmpty
    <3> QED
      BY <1>a, <3>1, <3>2
  <2> QED
    BY <1>5, <2>2, <2>3 DEF Look
<1>6. CASE Consume(b) \/ Produce(b)
  <2>1. thread[b].at = "move" /\ Goto(b, NextPort(b, thread[b].n, AfterMove(b)))
    BY <1>6 DEF Consume, Produce
  <2>2. CASE b \notin Sinks /\ \E u : Goto(b, u) /\ u.at = "move"
    BY <1>g, <2>2 DEF FoundEmpty
  <2>3. CASE Goto(b, AfterMove(b)) /\ AfterMove(b) \in {At("look"), At("drop"), At("loop")}
    BY <1>a, <1>b, <2>3
  <2>4. CASE b \in Sinks /\ Goto(b, At("wait"))
    <3>1. thread'[b].at = "wait" /\ thread'[b].port = thread[b].port
      BY <1>g, <1>p, <2>4 DEF At
    <3>2. IsIn(b)
      BY <1>p, <2>4
    <3>3. used'[Port(b)] = used[Port(b)] - thread[b].n /\ late' = late
      BY <1>6, <1>t, <3>2 DEF Consume, Produce
    <3>4. Tasks => thread[b].n = used[Port(b)] \/ Missed(Port(b))
      BY <2>1, <2>4, <3>2 DEF FoundEmpty
    <3>5. Tasks => used'[Port(b)] = 0 \/ Missed(Port(b))
      BY <1>t, <3>3, <3>4
    <3> QED
      BY <1>t, <3>1, <3>3, <3>5 DEF FoundEmpty, IsIn, Port, Missed
  <2> QED
    BY <1>q, <1>r, <2>1, <2>2, <2>3, <2>4
<1> QED
  BY <1>1, <1>2, <1>3, <1>4, <1>5, <1>6 DEF Step, ThreadStep, TaskStep, Common

\* Every step keeps what a block has found.
LEMMA FoundEmptyNext ==
  ASSUME Matched, IInv, Unborn, \A c \in Blocks : FoundEmpty(c), [Next]_vars
  PROVE  \A c \in Blocks : FoundEmpty(c)'
<1> SUFFICES ASSUME NEW c \in Blocks PROVE FoundEmpty(c)'
  OBVIOUS
<1>1. FoundEmpty(c) /\ Types
  BY DEF IInv
<1>2. ASSUME NEW b \in Blocks, Step(b) \/ NothingYet(b) \/ Fail(b) PROVE FoundEmpty(c)'
  <2>1. CASE b = c
    BY <1>1, <1>2, <2>1, OwnFoundEmpty
  <2>2. CASE b # c
    BY <1>1, <1>2, <2>2, OthersFoundEmpty
  <2> QED
    BY <2>1, <2>2
<1>3. ASSUME Spawn \/ SpawnTask \/ SpawnFails PROVE FoundEmpty(c)'
  <2>1. PICK place \in {"loop", "drop"} : thread' = [thread EXCEPT ![added[main.k]] = At(place)]
    BY <1>3 DEF Spawn, SpawnTask, SpawnFails, Goto
  <2>2. UNCHANGED <<plan, used, late>>
    BY <1>3 DEF Spawn, SpawnTask, SpawnFails, streams
  <2>3. CASE c = added[main.k]
    <3>1. thread'[c].at = place
      BY <1>1, <2>1, <2>3 DEF At, Types
    <3> QED
      BY <3>1 DEF FoundEmpty
  <2>4. CASE c # added[main.k]
    <3>1. thread'[c] = thread[c]
      BY <1>1, <2>1, <2>4 DEF Types
    <3> QED
      BY <1>1, <2>2, <3>1 DEF FoundEmpty, IsIn, Port, Missed, Tasks
  <2> QED
    BY <2>3, <2>4
<1>4. ASSUME Join \/ JoinTask \/ Cancel \/ UNCHANGED vars PROVE FoundEmpty(c)'
  <2>1. UNCHANGED <<plan, used, late, thread>>
    BY <1>4 DEF Join, JoinTask, Cancel, vars, streams
  <2> QED
    BY <1>1, <2>1 DEF FoundEmpty, IsIn, Port, Missed, Tasks
<1> QED
  BY <1>2, <1>3, <1>4 DEF Next, Run

\* The record of samples that a block has not seen stays when it has ended.
LEMMA LostNext ==
  ASSUME Types, Unborn, Lost, [Next]_vars
  PROVE  Lost'
<1>0. PICK c \in Blocks : ended(c) /\ \E s \in ToSet(Inputs[c]) : Missed(s)
  BY DEF Lost
<1>1. PICK s \in ToSet(Inputs[c]), what \in {"timed out", "unheard"} : ended(c) /\ <<s, what>> \in late
  BY <1>0 DEF Missed
<1>2. <<s, what>> \in late'
  <2>1. ASSUME NEW b \in Blocks, Step(b) \/ NothingYet(b) \/ Fail(b), <<s, what>> \notin late' PROVE FALSE
    <3>1. IsIn(b) /\ <<s, what>> \in {Port(b)} \X {"timed out", "unheard"} /\ ~ended(b)
      BY <1>1, <2>1, Outside
    <3>2. s = Port(b) /\ Reads(c, Port(b))
      BY <3>1 DEF Reads
    <3>3. c = b
      BY <3>1, <3>2, OwnPort
    <3> QED
      BY <1>1, <3>1, <3>3
  <2>2. ASSUME Run \/ SpawnFails \/ Cancel \/ UNCHANGED vars PROVE late' = late
    BY <2>2 DEF Run, Spawn, SpawnTask, SpawnFails, Join, JoinTask, Cancel, vars
  <2> QED
    BY <1>1, <2>1, <2>2 DEF Next
<1>3. ended(c)'
  BY <1>1, StaysOver
<1> QED
  BY <1>2, <1>3 DEF Lost, Missed

LEMMA NoInputs ==
  ASSUME NEW b \in Sources
  PROVE  ToSet(Inputs[b]) = {}
BY DEF Sources, ToSet

-----------------------------------------------------------------------------
(* What leads to a block, and how much it has moved                        *)

LEMMA Closed ==
  ASSUME Whole, NEW b \in Blocks
  PROVE  /\ Upstream[b] \subseteq Blocks /\ b \in Upstream[b]
         /\ \A c \in Upstream[b] : \A s \in ToSet(Inputs[c]) : WriterOf(s) \in Upstream[b]
<1>1. \A c : c \in Upstream[b] <=> /\ c \in Blocks
                                   /\ \A R \in SUBSET Blocks :
                                        b \in R /\ (\A d \in R : \A s \in ToSet(Inputs[d]) : WriterOf(s) \in R) => c \in R
  BY DEF Upstream
<1>2. ASSUME NEW c \in Upstream[b], NEW s \in ToSet(Inputs[c]) PROVE WriterOf(s) \in Upstream[b]
  <2>1. PICK w \in Blocks : Writes(w, s)
    BY <1>1 DEF Streams, Whole
  <2>2. WriterOf(s) \in Blocks
    BY <2>1 DEF WriterOf
  <2>3. ASSUME NEW R \in SUBSET Blocks, b \in R, \A d \in R : \A r \in ToSet(Inputs[d]) : WriterOf(r) \in R
        PROVE  WriterOf(s) \in R
    BY <1>1, <2>3
  <2> QED
    BY <1>1, <2>2, <2>3
<1> QED
  BY <1>1, <1>2

\* What holds of b, and of the writer of what any block reads of which it holds,
\* holds of all that leads to b.
LEMMA AllUpstream ==
  ASSUME NEW b \in Blocks, NEW R \in SUBSET Blocks, b \in R,
         \A d \in R : \A s \in ToSet(Inputs[d]) : WriterOf(s) \in R
  PROVE  Upstream[b] \subseteq R
  BY DEF Upstream

LEMMA UpstreamOf ==
  ASSUME Whole, NEW b \in Blocks, NEW c \in Upstream[b]
  PROVE  c \in Blocks /\ Upstream[c] \subseteq Upstream[b]
<1>1. c \in Blocks /\ Upstream[b] \in SUBSET Blocks
  BY Closed
<1> QED
  BY <1>1, Closed, AllUpstream

LEMMA UpstreamSplit ==
  ASSUME Whole, NEW b \in Blocks, NEW c \in Upstream[b], c # b
  PROVE  \E s \in ToSet(Inputs[b]) : c \in Upstream[WriterOf(s)]
<1> DEFINE R == {b} \cup UNION { Upstream[WriterOf(s)] : s \in ToSet(Inputs[b]) }
<1>1. \A s \in ToSet(Inputs[b]) : WriterOf(s) \in Blocks
  BY Closed
<1>2. R \in SUBSET Blocks /\ b \in R
  BY <1>1, Closed
<1>3. ASSUME NEW d \in R, NEW s \in ToSet(Inputs[d]) PROVE WriterOf(s) \in R
  <2>1. CASE d = b
    BY <1>1, <1>3, <2>1, Closed
  <2>2. CASE d # b
    <3>1. PICK r \in ToSet(Inputs[b]) : d \in Upstream[WriterOf(r)]
      BY <2>2
    <3>2. WriterOf(s) \in Upstream[WriterOf(r)]
      BY <1>1, <3>1, Closed
    <3> QED
      BY <3>2
  <2> QED
    BY <2>1, <2>2
<1>4. Upstream[b] \subseteq R
  <2> HIDE DEF R
  <2> QED
    BY <1>2, <1>3, AllUpstream
<1> QED
  BY <1>4

LEMMA InARow ==
  ASSUME NEW m \in Nat, NEW n \in Nat, NEW l, l = m + n
  PROVE  /\ l \in Nat
         /\ \A k \in 1..m : k \in 1..l /\ k \in 1..(m + n) /\ k <= m
         /\ \A k \in 1..n : m + k \in 1..l /\ m + k \in 1..(m + n) /\ ~(m + k <= m) /\ (m + k) - m = k
  OBVIOUS

\* The ports of the streams.
LEMMA PortsOf ==
  ASSUME NEW b \in Blocks
  PROVE  /\ Len(Inputs[b]) \in Nat /\ Len(Ports(b)) \in Nat
         /\ \A s \in ToSet(Inputs[b]) : s \in Streams /\ \E k \in 1..Len(Ports(b)) : k <= Len(Inputs[b]) /\ Ports(b)[k] = s
         /\ \A s \in ToSet(Outputs[b]) : s \in Streams /\ \E k \in 1..Len(Ports(b)) : ~(k <= Len(Inputs[b])) /\ Ports(b)[k] = s
<1>1. Inputs[b] \in Seq(Streams) /\ Outputs[b] \in Seq(Streams)
  BY PortsAre
<1>2. /\ Len(Inputs[b]) \in Nat /\ DOMAIN Inputs[b] = 1..Len(Inputs[b]) /\ \A k \in 1..Len(Inputs[b]) : Inputs[b][k] \in Streams
      /\ Len(Outputs[b]) \in Nat /\ DOMAIN Outputs[b] = 1..Len(Outputs[b]) /\ \A k \in 1..Len(Outputs[b]) : Outputs[b][k] \in Streams
      /\ Len(Ports(b)) = Len(Inputs[b]) + Len(Outputs[b])
  BY <1>1, PortsAre, LenProperties
<1>3. \A k \in 1..(Len(Inputs[b]) + Len(Outputs[b])) :
        Ports(b)[k] = IF k <= Len(Inputs[b]) THEN Inputs[b][k] ELSE Outputs[b][k - Len(Inputs[b])]
  BY <1>1, ConcatProperties DEF Ports
<1>m. /\ Len(Inputs[b]) \in Nat /\ Len(Outputs[b]) \in Nat
      /\ Len(Ports(b)) = Len(Inputs[b]) + Len(Outputs[b])
  BY <1>2
<1>4. ASSUME NEW s \in ToSet(Inputs[b])
      PROVE  s \in Streams /\ \E k \in 1..Len(Ports(b)) : k <= Len(Inputs[b]) /\ Ports(b)[k] = s
  <2>1. PICK k \in 1..Len(Inputs[b]) : Inputs[b][k] = s
    BY <1>2 DEF ToSet
  <2>2. k \in 1..Len(Ports(b)) /\ k \in 1..(Len(Inputs[b]) + Len(Outputs[b])) /\ k <= Len(Inputs[b])
    BY <1>m, InARow
  <2>3. Ports(b)[k] = s
    BY <1>3, <2>1, <2>2
  <2> QED
    BY <1>2, <2>1, <2>2, <2>3
<1>5. ASSUME NEW s \in ToSet(Outputs[b])
      PROVE  s \in Streams /\ \E k \in 1..Len(Ports(b)) : ~(k <= Len(Inputs[b])) /\ Ports(b)[k] = s
  <2>1. PICK j \in 1..Len(Outputs[b]) : Outputs[b][j] = s
    BY <1>2 DEF ToSet
  <2> DEFINE k == Len(Inputs[b]) + j
  <2>2. k \in 1..Len(Ports(b)) /\ k \in 1..(Len(Inputs[b]) + Len(Outputs[b]))
    BY <1>m, InARow
  <2>3. ~(k <= Len(Inputs[b]))
    BY <1>m, InARow
  <2>4. k - Len(Inputs[b]) = j
    BY <1>m, InARow
  <2>5. Ports(b)[k] = s
    BY <1>3, <2>1, <2>2, <2>3, <2>4
  <2> QED
    BY <1>2, <2>1, <2>2, <2>3, <2>5
<1>6. Len(Ports(b)) \in Nat
  BY <1>m, InARow
<1> QED
  BY <1>m, <1>4, <1>5, <1>6

\* What has gone through a port lies between what has gone through all and the most.
LEMMA WentIs ==
  ASSUME Types, NEW pos \in [Blocks -> Nat], NEW b \in Blocks
  PROVE  /\ pos[b] \in Nat /\ Most(pos, b) \in Nat /\ pos[b] <= Most(pos, b)
         /\ \A s : Went(pos, b, s) \in Nat /\ pos[b] <= Went(pos, b, s) /\ Went(pos, b, s) <= Most(pos, b)
         /\ thread[b].at # "move" => Most(pos, b) = pos[b] /\ \A s : Went(pos, b, s) = pos[b]
<1>1. pos[b] \in Nat /\ thread[b].n \in Nat /\ thread[b].port \in Nat /\ 1 <= thread[b].port
  <2>1. thread[b].port \in 1..Len(Ports(b)) /\ Len(Ports(b)) \in Nat
    BY RoomIs, PortsAre
  <2> QED
    BY <2>1, RoomIs
<1>2. \A s \in Served(b) : thread[b].port > 1
  BY <1>1 DEF Served
<1>3. Most(pos, b) \in Nat /\ pos[b] <= Most(pos, b)
  BY <1>1 DEF Most
<1>4. ASSUME NEW s PROVE Went(pos, b, s) \in Nat /\ pos[b] <= Went(pos, b, s) /\ Went(pos, b, s) <= Most(pos, b)
  BY <1>1, <1>2 DEF Most, Went
<1>5. thread[b].at # "move" => Most(pos, b) = pos[b] /\ \A s : Went(pos, b, s) = pos[b]
  BY <1>1 DEF Most, Went
<1> QED
  BY <1>1, <1>3, <1>4, <1>5

\* The inputs come first.
LEMMA InputsFirst ==
  ASSUME Types, NEW pos \in [Blocks -> Nat], NEW b \in Blocks, NEW s \in ToSet(Inputs[b]), NEW t \in ToSet(Outputs[b])
  PROVE  Went(pos, b, t) <= Went(pos, b, s)
<1>1. pos[b] \in Nat /\ thread[b].n \in Nat
  BY RoomIs
<1>2. PICK j \in 1..Len(Ports(b)) : j <= Len(Inputs[b]) /\ Ports(b)[j] = s
  BY PortsOf
<1>3. PICK k \in 1..Len(Ports(b)) : ~(k <= Len(Inputs[b])) /\ Ports(b)[k] = t
  BY PortsOf
<1>4. t \in Served(b) => s \in Served(b)
  <2> SUFFICES ASSUME NEW i \in 1..(thread[b].port - 1), Ports(b)[i] = t PROVE s \in Served(b)
    BY DEF Served
  <2>1. thread[b].port \in 1..Len(Ports(b)) /\ Len(Ports(b)) \in Nat /\ Len(Inputs[b]) \in Nat
    BY RoomIs, PortsOf
  <2>2. i \in 1..Len(Ports(b))
    BY <2>1
  <2>3. i = k
    BY <1>3, <2>2, PortsAre
  <2>4. j \in 1..(thread[b].port - 1)
    BY <1>2, <1>3, <2>1, <2>3
  <2> QED
    BY <1>2, <2>4 DEF Served
<1> QED
  BY <1>1, <1>4 DEF Went
-----------------------------------------------------------------------------
(* Steps                                                                   *)

Moves(b) == Consume(b) \/ Produce(b)

\* A step that moves nothing.
Still == /\ used' = used /\ todo' = todo
         /\ \A c \in Blocks :
              /\ thread[c].at = "move" => thread'[c] = thread[c]
              /\ thread'[c].at = "move" => thread'[c] = thread[c] \/ thread'[c].port = 1

LEMMA OtherSteps ==
  ASSUME Types, Unborn, [Next]_vars
  PROVE  (\E b \in Blocks : Moves(b)) \/ Still
<1>t. thread \in [Blocks -> Placed]
  BY DEF Types, Placed
<1>a. \A place, k, n : /\ At(place).at = place
                       /\ AtPort(place, k, n).at = place /\ AtPort(place, k, n).port = k /\ AtPort(place, k, n).n = n
  BY DEF At, AtPort
<1>g. ASSUME NEW b \in Blocks, NEW t, Goto(b, t), used' = used, todo' = todo,
             thread[b].at # "move", t.at = "move" => t.port = 1
      PROVE  Still
  BY <1>t, <1>g DEF Goto, Still
<1>1. ASSUME NEW b \in Blocks, Step(b) \/ NothingYet(b) \/ Fail(b) PROVE Moves(b) \/ Still
  <2>1. CASE Loop(b) \/ NothingYet(b) \/ Eof(b) \/ Woken(b) \/ Notified(b) \/ Counted(b)
    <3>1. PICK place \in {"loop", "look", "drop", "eof"} : Goto(b, At(place))
      BY <2>1 DEF Loop, NothingYet, Eof, Woken, Notified, Counted
    <3>2. /\ used' = used /\ todo' = todo
          /\ thread[b].at \in {"loop", "look", "eof", "wait", "await", "count"}
      BY <2>1, <1>a DEF Loop, NothingYet, Eof, Woken, Notified, Counted, streams, rest
    <3>3. thread[b].at # "move" /\ At(place).at # "move"
      BY <1>a, <3>2
    <3> QED
      BY <1>g, <3>1, <3>2, <3>3
  <2>2. CASE Fail(b)
    <3>1. Goto(b, AtPort("drop", 1, 1)) /\ used' = used /\ todo' = todo /\ thread[b].at = "look"
      BY <2>2, <1>a DEF Fail, streams, rest
    <3>2. AtPort("drop", 1, 1).at # "move"
      BY <1>a
    <3> QED
      BY <1>g, <3>1, <3>2
  <2>3. CASE TimedOut(b) \/ Await(b) \/ Slept(b)
    <3>1. PICK place \in {"count", "await"} : Goto(b, [thread[b] EXCEPT !.at = place])
      BY <2>3 DEF TimedOut, Await, Slept
    <3>2. used' = used /\ todo' = todo /\ thread[b].at \in {"wait", "await"}
      BY <2>3 DEF TimedOut, Await, Slept, streams, rest
    <3>3. [thread[b] EXCEPT !.at = place].at # "move"
      BY <1>t DEF Placed
    <3> QED
      BY <1>g, <3>1, <3>2, <3>3
  <2>4. CASE Look(b)
    <3>1. used' = used /\ todo' = todo /\ thread[b].at = "look"
      BY <2>4 DEF Look, streams, rest
    <3>2. PICK t : Goto(b, t) /\ (t.at = "move" => t.port = 1)
      <4>1. PICK t : Goto(b, t) /\ t \in {AtPort("wait", thread[b].port, 0), AtPort("move", 1, Clamped(b)),
                                          AtPort("look", thread[b].port + 1, Clamped(b))}
        BY <2>4, <3>1 DEF Look, NextPort
      <4> QED
        BY <1>a, <4>1
    <3> QED
      BY <1>g, <3>1, <3>2
  <2>5. CASE Drop(b)
    <3>1. used' = used /\ todo' = todo /\ thread[b].at = "drop"
      BY <2>5 DEF Drop, rest
    <3>2. PICK t : Goto(b, t) /\ t \in {AtPort("done", 1, thread[b].n), AtPort("drop", thread[b].port + 1, thread[b].n)}
      BY <2>5, <3>1 DEF Drop, NextPort
    <3>3. t.at # "move"
      BY <1>a, <3>2
    <3> QED
      BY <1>g, <3>1, <3>2, <3>3
  <2> QED
    BY <1>1, <2>1, <2>2, <2>3, <2>4, <2>5 DEF Step, ThreadStep, TaskStep, Common, Moves
<1>2. ASSUME Spawn \/ SpawnTask \/ SpawnFails PROVE Still
  <2>1. PICK place \in {"loop", "drop"} : Goto(added[main.k], At(place))
    BY <1>2 DEF Spawn, SpawnTask, SpawnFails
  <2>2. main.pc = "spawn" /\ used' = used /\ todo' = todo
    BY <1>2 DEF Spawn, SpawnTask, SpawnFails, streams
  <2>3. added[main.k] \in Blocks /\ thread[added[main.k]].at = "unborn"
    BY <2>2, Newborn
  <2>4. At(place).at # "move"
    BY <1>a
  <2> QED
    BY <1>g, <2>1, <2>2, <2>3, <2>4
<1>3. ASSUME Join \/ JoinTask \/ Cancel \/ UNCHANGED vars PROVE Still
  <2>1. UNCHANGED <<used, todo, thread>>
    BY <1>3 DEF Join, JoinTask, Cancel, vars, streams
  <2> QED
    BY <2>1 DEF Still
<1> QED
  BY <1>1, <1>2, <1>3 DEF Next, Run

LEMMA StillWent ==
  ASSUME Types, Types', Still, NEW pos \in [Blocks -> Nat], NEW c \in Blocks
  PROVE  Most(pos, c)' = Most(pos, c) /\ \A s : Went(pos, c, s)' = Went(pos, c, s)
<1>1. CASE thread'[c] = thread[c]
  BY <1>1 DEF Most, Went, Served
<1>2. CASE thread[c].at # "move" /\ thread'[c].at # "move"
  BY <1>2 DEF Most, Went
<1>3. CASE thread[c].at # "move" /\ thread'[c].port = 1
  <2>1. Served(c)' = {}
    BY <1>3 DEF Served
  <2>2. ~(thread'[c].port > 1)
    BY <1>3
  <2> QED
    BY <1>3, <2>1, <2>2 DEF Most, Went
<1> QED
  BY <1>1, <1>2, <1>3 DEF Still

\* What has moved when b has moved n through its port.
Moved(b, pos, q) ==
  /\ q \in [Blocks -> Nat]
  /\ pos[b] <= q[b]
  /\ Most(q, b)' = Most(pos, b) + (IF thread[b].port = 1 THEN thread[b].n ELSE 0)
  /\ \A s : Reads(b, s) \/ Writes(b, s) =>
       Went(q, b, s)' = Went(pos, b, s) + (IF s = Port(b) THEN thread[b].n ELSE 0)
  /\ \A c \in Blocks : c # b => /\ q[c] = pos[c] /\ Most(q, c)' = Most(pos, c)
                                /\ \A s : Went(q, c, s)' = Went(pos, c, s)

LEMMA NotServed ==
  ASSUME Types, NEW b \in Blocks
  PROVE  Port(b) \notin Served(b)
<1>1. thread[b].port \in 1..Len(Ports(b)) /\ Len(Ports(b)) \in Nat /\ Port(b) = Ports(b)[thread[b].port]
  BY RoomIs, PortsAre
<1>2. ASSUME NEW k \in 1..(thread[b].port - 1), Ports(b)[k] = Port(b) PROVE FALSE
  <2>1. k \in 1..Len(Ports(b)) /\ k # thread[b].port
    BY <1>1
  <2> QED
    BY <1>1, <1>2, <2>1, PortsAre
<1> QED
  BY <1>2 DEF Served

LEMMA MovesWent ==
  ASSUME Types, NEW b \in Blocks, Moves(b), NEW pos \in [Blocks -> Nat]
  PROVE  \E q : Moved(b, pos, q)
<1> DEFINE n == thread[b].n
           p == thread[b].port
<1>t. /\ thread \in [Blocks -> Placed] /\ n \in Nat /\ p \in 1..Len(Ports(b)) /\ Len(Ports(b)) \in Nat
      /\ p \in Nat /\ 1 <= p /\ Port(b) = Ports(b)[p] /\ pos[b] \in Nat
  <2>1. p \in 1..Len(Ports(b)) /\ Len(Ports(b)) \in Nat /\ n \in Nat /\ Port(b) = Ports(b)[p]
    BY RoomIs, PortsAre
  <2> QED
    BY <2>1 DEF Types, Placed
<1>1. thread[b].at = "move" /\ Goto(b, NextPort(b, n, AfterMove(b)))
  BY DEF Moves, Consume, Produce
<1>2. \A c \in Blocks : c # b => thread'[c] = thread[c]
  BY <1>t, <1>1 DEF Goto
<1>3. \A c \in Blocks : c # b => Most(pos, c)' = Most(pos, c) /\ \A s : Went(pos, c, s)' = Went(pos, c, s)
  BY <1>2 DEF Most, Went, Served
<1>4. /\ Port(b) \notin Served(b)
      /\ Most(pos, b) = pos[b] + (IF p > 1 THEN n ELSE 0)
      /\ \A s : Went(pos, b, s) = pos[b] + (IF s \in Served(b) THEN n ELSE 0)
  BY <1>1, NotServed DEF Most, Went
<1>5. CASE p # Len(Ports(b)) /\ p + 1 \in 1..Len(Ports(b)) /\ NextPort(b, n, AfterMove(b)) = AtPort("move", p + 1, n)
  <2>1. thread'[b].at = "move" /\ thread'[b].port = p + 1 /\ thread'[b].n = n
    BY <1>t, <1>1, <1>5 DEF Goto, AtPort
  <2>2. Served(b)' = Served(b) \cup {Port(b)}
    <3>1. Served(b)' = { Ports(b)[k] : k \in 1..((p + 1) - 1) }
      BY <2>1 DEF Served
    <3>2. 1..((p + 1) - 1) = 1..(p - 1) \cup {p}
      BY <1>t
    <3> QED
      BY <1>t, <3>1, <3>2 DEF Served
  <2>3. Most(pos, b)' = pos[b] + n
    BY <1>t, <2>1 DEF Most
  <2>4. \A s : Went(pos, b, s)' = pos[b] + (IF s \in Served(b) \cup {Port(b)} THEN n ELSE 0)
    BY <2>1, <2>2 DEF Went
  <2>5. Most(pos, b)' = Most(pos, b) + (IF p = 1 THEN n ELSE 0)
    BY <1>t, <1>4, <2>3
  <2>6. \A s : Went(pos, b, s)' = Went(pos, b, s) + (IF s = Port(b) THEN n ELSE 0)
    BY <1>t, <1>4, <2>4
  <2> QED
    BY <1>t, <1>3, <2>5, <2>6 DEF Moved
<1>6. CASE p = Len(Ports(b)) /\ NextPort(b, n, AfterMove(b)) = AfterMove(b)
  <2>1. PICK q : q = [pos EXCEPT ![b] = pos[b] + n]
    OBVIOUS
  <2>2. q \in [Blocks -> Nat] /\ q[b] = pos[b] + n /\ pos[b] <= q[b] /\ \A c \in Blocks : c # b => q[c] = pos[c]
    BY <1>t, <2>1
  <2>3. thread'[b].at # "move"
    <3>1. AfterMove(b).at # "move"
      BY DEF AfterMove, At, Syncs, Sources, Sinks
    <3> QED
      BY <1>t, <1>1, <1>6, <3>1 DEF Goto
  <2>4. Most(q, b)' = pos[b] + n /\ \A s : Went(q, b, s)' = pos[b] + n
    BY <1>t, <2>2, <2>3 DEF Most, Went
  <2>5. Most(q, b)' = Most(pos, b) + (IF p = 1 THEN n ELSE 0)
    BY <1>t, <1>4, <2>4
  <2>6. ASSUME NEW s, Reads(b, s) \/ Writes(b, s)
        PROVE  Went(q, b, s)' = Went(pos, b, s) + (IF s = Port(b) THEN n ELSE 0)
    <3>1. s \in Served(b) \/ s = Port(b)
      <4>1. PICK k \in 1..Len(Ports(b)) : Ports(b)[k] = s
        BY <2>6, PortsOf DEF Reads, Writes
      <4>2. k = p \/ k \in 1..(p - 1)
        BY <1>t, <1>6
      <4> QED
        BY <1>t, <4>1, <4>2 DEF Served
    <3> QED
      BY <1>t, <1>4, <2>4, <3>1
  <2>7. \A c \in Blocks : c # b => Most(q, c)' = Most(pos, c) /\ \A s : Went(q, c, s)' = Went(pos, c, s)
    BY <1>2, <2>2 DEF Most, Went, Served
  <2> QED
    BY <2>2, <2>5, <2>6, <2>7 DEF Moved
<1> QED
  BY <1>t, <1>1, <1>5, <1>6, NextPortIs

LEMMA MovesUsed ==
  ASSUME IInv, NEW b \in Blocks, Moves(b)
  PROVE  /\ thread[b].at = "move" /\ thread[b].n \in Nat
         /\ IsIn(b) => thread[b].n <= used[Port(b)] /\ used'[Port(b)] = used[Port(b)] - thread[b].n
         /\ ~IsIn(b) => used'[Port(b)] = used[Port(b)] + thread[b].n
         /\ \A s \in Streams : used[s] \in Nat /\ (s # Port(b) => used'[s] = used[s])
<1>1. /\ used \in [Streams -> Nat] /\ Port(b) \in Streams /\ thread[b].n \in Nat
      /\ thread[b].port \in 1..Len(Ports(b)) /\ Len(Ports(b)) \in Nat /\ avail(b) = Room(b, thread[b].port)
  BY RoomIs, PortsAre DEF IInv, Types
<1>2. thread[b].at = "move"
  BY DEF Moves, Consume, Produce
<1>3. thread[b].n <= avail(b)
  <2>1. thread[b].port \in thread[b].port..Len(Ports(b))
    BY <1>1
  <2>2. \A k \in thread[b].port..Len(Ports(b)) : thread[b].n <= Room(b, k)
    BY <1>2 DEF IInv, Fits
  <2> QED
    BY <1>1, <2>1, <2>2
<1>4. CASE IsIn(b)
  BY <1>1, <1>2, <1>3, <1>4 DEF Moves, Consume, Produce, avail
<1>5. CASE ~IsIn(b)
  BY <1>1, <1>2, <1>5 DEF Moves, Consume, Produce
<1> QED
  BY <1>4, <1>5

\* Whatever is read is written by another block.
LEMMA Between ==
  ASSUME Whole, NEW c \in Blocks, NEW s, Reads(c, s)
  PROVE  s \in Streams /\ WriterOf(s) \in Blocks /\ Writes(WriterOf(s), s) /\ WriterOf(s) # c
<1>1. s \in Streams
  BY PortsOf DEF Reads
<1>2. WriterOf(s) \in Blocks /\ Writes(WriterOf(s), s)
  BY <1>1 DEF WriterOf, Whole
<1>3. ~ Writes(c, s)
  <2> SUFFICES ASSUME Writes(c, s) PROVE FALSE
    OBVIOUS
  <2>1. PICK j \in 1..Len(Ports(c)) : j <= Len(Inputs[c]) /\ Ports(c)[j] = s
    BY PortsOf DEF Reads
  <2>2. PICK k \in 1..Len(Ports(c)) : ~(k <= Len(Inputs[c])) /\ Ports(c)[k] = s
    BY PortsOf DEF Writes
  <2>3. j = k
    BY <2>1, <2>2, PortsAre
  <2> QED
    BY <2>1, <2>2, <2>3
<1> QED
  BY <1>1, <1>2, <1>3

LEMMA BalanceStill ==
  ASSUME Types, Types', Still, NEW pos \in [Blocks -> Nat], Balance(pos)
  PROVE  Balance(pos)'
<1>1. used' = used
  BY DEF Still
<1>2. \A c \in Blocks : \A s : Went(pos, c, s)' = Went(pos, c, s)
  BY StillWent
<1> QED
  BY <1>1, <1>2 DEF Balance

LEMMA BalanceMoves ==
  ASSUME Whole, IInv, NEW b \in Blocks, Moves(b), NEW pos \in [Blocks -> Nat], NEW q, Moved(b, pos, q), Balance(pos)
  PROVE  Balance(q)'
<1> SUFFICES ASSUME NEW w \in Blocks, NEW r \in Blocks, NEW s \in Streams, Writes(w, s), Reads(r, s)
             PROVE  used'[s] = Went(q, w, s)' - Went(q, r, s)'
  BY DEF Balance
<1>t. /\ Types /\ used[s] \in Nat /\ thread[b].n \in Nat
      /\ Went(pos, w, s) \in Nat /\ Went(pos, r, s) \in Nat
  BY WentIs, MovesUsed DEF IInv
<1>1. used[s] = Went(pos, w, s) - Went(pos, r, s) /\ w # r
  BY Between, TheOnlyOne DEF Balance
<1>2. CASE s # Port(b)
  <2>1. used'[s] = used[s]
    BY <1>2, MovesUsed
  <2>2. Went(q, w, s)' = Went(pos, w, s)
    BY <1>t, <1>2 DEF Moved
  <2>3. Went(q, r, s)' = Went(pos, r, s)
    BY <1>t, <1>2 DEF Moved
  <2> QED
    BY <1>1, <2>1, <2>2, <2>3
<1>3. CASE s = Port(b) /\ IsIn(b)
  <2>1. r = b
    BY <1>t, <1>3, OwnPort
  <2>2. used'[s] = used[s] - thread[b].n
    BY <1>3, MovesUsed
  <2>3. Went(q, w, s)' = Went(pos, w, s)
    BY <1>1, <2>1 DEF Moved
  <2>4. Went(q, r, s)' = Went(pos, r, s) + thread[b].n
    BY <1>3, <2>1 DEF Moved
  <2> QED
    BY <1>t, <1>1, <2>2, <2>3, <2>4
<1>4. CASE s = Port(b) /\ ~IsIn(b)
  <2>1. w = b
    BY <1>t, <1>4, OwnPort
  <2>2. used'[s] = used[s] + thread[b].n
    BY <1>4, MovesUsed
  <2>3. Went(q, w, s)' = Went(pos, w, s) + thread[b].n
    BY <1>4, <2>1 DEF Moved
  <2>4. Went(q, r, s)' = Went(pos, r, s)
    BY <1>1, <2>1 DEF Moved
  <2> QED
    BY <1>t, <1>1, <2>2, <2>3, <2>4
<1> QED
  BY <1>2, <1>3, <1>4

\* What can be moved from a stream has been moved into it.
LEMMA FromWriter ==
  ASSUME Whole, IInv, NEW pos \in [Blocks -> Nat], Balance(pos), NEW c \in Blocks, NEW s, Reads(c, s)
  PROVE  /\ WriterOf(s) \in Upstream[c] /\ WriterOf(s) \in Blocks /\ WriterOf(s) # c
         /\ used[s] = Went(pos, WriterOf(s), s) - Went(pos, c, s) /\ used[s] \in Nat
         /\ Went(pos, WriterOf(s), s) \in Nat /\ Went(pos, WriterOf(s), s) <= Most(pos, WriterOf(s))
         /\ Went(pos, c, s) \in Nat
<1>1. s \in Streams /\ WriterOf(s) \in Blocks /\ Writes(WriterOf(s), s) /\ WriterOf(s) # c
  BY Between
<1>2. WriterOf(s) \in Upstream[c]
  BY Closed DEF Reads
<1>3. used[s] = Went(pos, WriterOf(s), s) - Went(pos, c, s)
  BY <1>1 DEF Balance
<1>4. used[s] \in Nat
  BY <1>1 DEF IInv, Types
<1> QED
  BY <1>1, <1>2, <1>3, <1>4, WentIs DEF IInv

LEMMA BehindStill ==
  ASSUME Whole, Types, Types', Still, NEW pos \in [Blocks -> Nat], Behind(pos)
  PROVE  Behind(pos)'
<1>1. \A c \in Blocks : Most(pos, c)' = Most(pos, c)
  BY StillWent
<1>2. \A b \in Blocks : \A c \in Upstream[b] : c \in Blocks
  BY Closed
<1> QED
  BY <1>1, <1>2 DEF Behind

LEMMA BehindMoves ==
  ASSUME Whole, IInv, NEW b \in Blocks, Moves(b), NEW pos \in [Blocks -> Nat], NEW q, Moved(b, pos, q), Balance(pos), Behind(pos)
  PROVE  Behind(q)'
<1> DEFINE n == thread[b].n
<1>t. /\ Types /\ n \in Nat /\ thread[b].port \in 1..Len(Ports(b)) /\ Len(Ports(b)) \in Nat /\ Len(Inputs[b]) \in Nat
      /\ \A c \in Blocks : Most(pos, c) \in Nat
  BY WentIs, MovesUsed, RoomIs, PortsOf DEF IInv
<1>1. \A c \in Blocks : /\ Most(pos, c) <= Most(q, c)'
                        /\ c # b \/ thread[b].port # 1 => Most(q, c)' = Most(pos, c)
  BY <1>t DEF Moved
<1>2. ASSUME NEW c \in Blocks, Most(q, c)' = Most(pos, c)
      PROVE  Most(q, c)' = 0 \/ \E d \in Upstream[c] \cap Sources : Most(q, c)' <= Most(q, d)'
  <2>1. CASE Most(pos, c) = 0
    BY <1>2, <2>1
  <2>2. CASE Most(pos, c) # 0
    <3>1. PICK d \in Upstream[c] \cap Sources : Most(pos, c) <= Most(pos, d)
      BY <2>2 DEF Behind
    <3>2. d \in Blocks
      BY Closed
    <3>3. Most(pos, d) <= Most(q, d)' /\ Most(q, d)' \in Nat
      <4>1. Most(q, d)' = Most(pos, d) \/ Most(q, d)' = Most(pos, d) + n
        BY <1>t, <3>2 DEF Moved
      <4> QED
        BY <1>t, <3>2, <4>1
    <3>4. Most(q, c)' <= Most(q, d)'
      BY <1>t, <1>2, <3>1, <3>2, <3>3
    <3> QED
      BY <3>1, <3>4
  <2> QED
    BY <2>1, <2>2
<1>3. ASSUME thread[b].port = 1, IsIn(b)
      PROVE  Most(q, b)' = 0 \/ \E d \in Upstream[b] \cap Sources : Most(q, b)' <= Most(q, d)'
  <2>1. Reads(b, Port(b))
    BY <1>t, <1>3, OwnPort
  <2>2. PICK w : /\ w \in Upstream[b] /\ w \in Blocks /\ w # b
                 /\ used[Port(b)] = Went(pos, w, Port(b)) - Went(pos, b, Port(b)) /\ used[Port(b)] \in Nat
                 /\ Went(pos, w, Port(b)) \in Nat /\ Went(pos, w, Port(b)) <= Most(pos, w) /\ Went(pos, b, Port(b)) \in Nat
    BY <2>1, FromWriter
  <2>3. Most(pos, b) = Went(pos, b, Port(b))
    <3>1. Most(pos, b) = pos[b]
      BY <1>t, <1>3 DEF Most
    <3>2. Served(b) = {}
      BY <1>3 DEF Served
    <3> QED
      BY <3>1, <3>2 DEF Went
  <2>4. n <= used[Port(b)]
    BY <1>3, MovesUsed
  <2>5. Most(q, b)' = Most(pos, b) + n /\ Most(q, w)' = Most(pos, w) /\ Most(pos, w) \in Nat /\ Most(pos, b) \in Nat
    <3>1. Most(q, b)' = Most(pos, b) + n
      BY <1>3 DEF Moved
    <3>2. Most(q, w)' = Most(pos, w)
      BY <2>2 DEF Moved
    <3> QED
      BY <1>t, <2>2, <3>1, <3>2
  <2>6. Most(q, b)' <= Most(q, w)' /\ Most(q, b)' \in Nat
    <3> HIDE DEF n
    <3> QED
      BY <1>t, <2>2, <2>3, <2>4, <2>5
  <2>7. CASE Most(q, w)' = 0
    BY <2>6, <2>7
  <2>8. CASE Most(q, w)' # 0
    <3>1. PICK d \in Upstream[w] \cap Sources : Most(q, w)' <= Most(q, d)'
      BY <1>2, <2>2, <2>5, <2>8
    <3>2. d \in Upstream[b] /\ d \in Blocks
      BY <2>2, <3>1, UpstreamOf, Closed
    <3>3. d # b
      BY <1>t, <1>3, <3>1, SourcePort DEF IsIn
    <3>4. Most(q, d)' \in Nat
      BY <1>t, <3>2, <3>3 DEF Moved
    <3>5. Most(q, b)' <= Most(q, d)'
      <4> HIDE DEF n
      <4> QED
        BY <2>5, <2>6, <3>1, <3>4
    <3> QED
      BY <3>1, <3>2, <3>5
  <2> QED
    BY <2>7, <2>8
<1>4. ASSUME thread[b].port = 1, ~IsIn(b)
      PROVE  \E d \in Upstream[b] \cap Sources : Most(q, b)' <= Most(q, d)'
  <2>1. b \in Sources
    <3>1. Len(Inputs[b]) = 0
      BY <1>t, <1>4 DEF IsIn
    <3>2. Inputs[b] = <<>>
      BY <3>1, PortsAre, EmptySeq
    <3> QED
      BY <3>2 DEF Sources
  <2>2. Most(q, b)' \in Nat
    BY <1>t, <1>4 DEF Moved
  <2> QED
    BY <2>1, <2>2, Closed
<1>5. ASSUME NEW c \in Blocks PROVE Most(q, c)' = 0 \/ \E d \in Upstream[c] \cap Sources : Most(q, c)' <= Most(q, d)'
  BY <1>1, <1>2, <1>3, <1>4
<1> QED
  BY <1>5 DEF Behind

\* A block comes to wait for its reader when it finds the stream full.
LEMMA OwnWait ==
  ASSUME IInv, NEW b \in Blocks, Step(b) \/ NothingYet(b) \/ Fail(b),
         thread'[b].at \in {"wait", "await", "count"}, ~IsIn(b)'
  PROVE  /\ thread'[b].port = thread[b].port
         /\ thread[b].at \in {"wait", "await"} \/ (thread[b].at = "look" /\ avail(b) = 0)
<1>t. thread \in [Blocks -> Placed] /\ Types
  BY DEF IInv, Types, Placed
<1>a. \A place, k, n : /\ At(place).at = place /\ At(place).port = 1
                       /\ AtPort(place, k, n).at = place /\ AtPort(place, k, n).port = k
  BY DEF At, AtPort
<1>g. ASSUME NEW t, Goto(b, t) PROVE thread'[b] = t
  BY <1>t, <1>g DEF Goto
<1>1. CASE Loop(b) \/ NothingYet(b) \/ Eof(b) \/ Woken(b) \/ Notified(b) \/ Counted(b)
  <2>1. PICK place \in {"loop", "look", "drop", "eof"} : Goto(b, At(place))
    BY <1>1 DEF Loop, NothingYet, Eof, Woken, Notified, Counted
  <2> QED
    BY <1>a, <1>g, <2>1
<1>2. CASE Fail(b) \/ Drop(b)
  <2>1. PICK t : Goto(b, t) /\ t \in {AtPort("drop", 1, 1), AtPort("done", 1, thread[b].n),
                                      AtPort("drop", thread[b].port + 1, thread[b].n)}
    BY <1>2 DEF Fail, Drop, NextPort
  <2> QED
    BY <1>a, <1>g, <2>1
<1>3. CASE TimedOut(b) \/ Await(b) \/ Slept(b)
  <2>1. PICK place \in {"count", "await"} : Goto(b, [thread[b] EXCEPT !.at = place])
    BY <1>3 DEF TimedOut, Await, Slept
  <2>2. thread'[b].port = thread[b].port
    BY <1>t, <1>g, <2>1 DEF Placed
  <2> QED
    BY <1>3, <2>2 DEF TimedOut, Await, Slept
<1>4. CASE Look(b)
  <2>1. CASE avail(b) = 0 /\ Goto(b, AtPort("wait", thread[b].port, 0))
    <3>1. thread'[b].port = thread[b].port
      BY <1>a, <1>g, <2>1
    <3> QED
      BY <1>4, <2>1, <3>1 DEF Look
  <2>2. CASE Goto(b, NextPort(b, Clamped(b), AtPort("move", 1, Clamped(b))))
    <3>1. PICK t : Goto(b, t) /\ t \in {AtPort("move", 1, Clamped(b)), AtPort("look", thread[b].port + 1, Clamped(b))}
      BY <1>4, <2>2 DEF Look, NextPort
    <3> QED
      BY <1>a, <1>g, <3>1
  <2> QED
    BY <1>4, <2>1, <2>2 DEF Look
<1>5. CASE Moves(b)
  <2>1. Goto(b, NextPort(b, thread[b].n, AfterMove(b))) /\ thread[b].at = "move"
    BY <1>5 DEF Moves, Consume, Produce
  <2>2. CASE Goto(b, AtPort("move", thread[b].port + 1, thread[b].n))
    BY <1>a, <1>g, <2>2
  <2>3. CASE Goto(b, AfterMove(b))
    <3>1. b \in Sinks /\ thread'[b].port = 1
      BY <1>a, <1>g, <2>3 DEF AfterMove, Syncs
    <3>2. Len(Inputs[b]) \in Nat /\ Len(Ports(b)) = Len(Inputs[b]) + Len(Outputs[b]) /\ 1 \in 1..Len(Ports(b))
      BY PortsAre, PortsOf
    <3>3. Len(Outputs[b]) = 0
      BY <3>1, EmptySeq DEF Sinks
    <3>4. 1 <= Len(Inputs[b])
      BY <3>2, <3>3
    <3> QED
      BY <3>1, <3>4 DEF IsIn
  <2> QED
    BY <2>1, <2>2, <2>3 DEF NextPort
<1> QED
  BY <1>1, <1>2, <1>3, <1>4, <1>5 DEF Step, ThreadStep, TaskStep, Common, Moves

LEMMA PushedNext ==
  ASSUME Whole, IInv, Unborn, [Next]_vars, NEW pos \in [Blocks -> Nat], NEW q \in [Blocks -> Nat],
         \A c \in Blocks : pos[c] <= q[c], Balance(pos), Pushed(pos)
  PROVE  Pushed(q)'
<1> SUFFICES ASSUME NEW c \in Blocks, ~IsIn(c)', thread'[c].at \in {"wait", "await", "count"} PROVE q[c] > 0
  BY DEF Pushed
<1>t. Types /\ pos[c] \in Nat /\ q[c] \in Nat /\ pos[c] <= q[c]
  BY DEF IInv
<1>1. SUFFICES pos[c] > 0
  BY <1>t, <1>1
<1>2. CASE thread'[c] = thread[c]
  BY <1>2 DEF Pushed, IsIn
<1>3. CASE thread'[c] # thread[c]
  <2>1. ASSUME NEW b \in Blocks, Step(b) \/ NothingYet(b) \/ Fail(b) PROVE pos[c] > 0
    <3>1. b = c
      BY <1>t, <1>3, <2>1, Outside
    <3>2. /\ thread'[c].port = thread[c].port
          /\ thread[c].at \in {"wait", "await"} \/ (thread[c].at = "look" /\ avail(c) = 0)
      BY <2>1, <3>1, OwnWait
    <3>3. ~IsIn(c)
      BY <3>2 DEF IsIn
    <3>4. CASE thread[c].at \in {"wait", "await"}
      BY <3>3, <3>4 DEF Pushed
    <3>5. CASE thread[c].at = "look" /\ avail(c) = 0
      <4>1. Port(c) \in Streams /\ Writes(c, Port(c))
        BY <1>t, <3>3, OwnPort
      <4>2. used[Port(c)] \in Nat /\ Cap[Port(c)] \in Nat \ {0} /\ Cap[Port(c)] - used[Port(c)] = 0
        BY <3>3, <3>5, <4>1, MTGraphAssumption DEF avail, IInv, Types
      <4>3. PICK r \in Blocks : Reads(r, Port(c))
        BY <4>1 DEF Whole
      <4>4. used[Port(c)] = Went(pos, c, Port(c)) - Went(pos, r, Port(c))
        BY <4>1, <4>3 DEF Balance
      <4>5. Went(pos, r, Port(c)) \in Nat /\ Went(pos, c, Port(c)) = pos[c]
        BY <1>t, <3>5, WentIs
      <4> QED
        BY <1>t, <4>2, <4>4, <4>5
    <3> QED
      BY <3>2, <3>4, <3>5
  <2>2. ASSUME Spawn \/ SpawnTask \/ SpawnFails PROVE FALSE
    <3>1. PICK place \in {"loop", "drop"} : Goto(added[main.k], At(place))
      BY <2>2 DEF Spawn, SpawnTask, SpawnFails
    <3>2. thread'[c] = thread[c] \/ thread'[c].at = place
      BY <1>t, <3>1 DEF Goto, Types, At
    <3> QED
      BY <1>3, <3>2
  <2>3. ASSUME Join \/ JoinTask \/ Cancel \/ UNCHANGED vars PROVE FALSE
    BY <1>3, <2>3 DEF Join, JoinTask, Cancel, vars
  <2> QED
    BY <2>1, <2>2, <2>3 DEF Next, Run
<1> QED
  BY <1>2, <1>3

LEMMA HasMoreNext ==
  ASSUME IInv, Unborn, [Next]_vars, HasMore
  PROVE  HasMore'
<1> SUFFICES ASSUME NEW b \in Sources, thread'[b].at \in {"look", "move"} PROVE todo'[b] # 0
  BY DEF HasMore
<1>t. /\ b \in Blocks /\ Types /\ thread \in [Blocks -> Placed]
      /\ thread[b].port \in 1..1 /\ Len(Ports(b)) = 1
  BY SourcePort DEF IInv, Types, Placed
<1>a. \A place, k, n : At(place).at = place /\ AtPort(place, k, n).at = place
  BY DEF At, AtPort
<1>1. CASE \E c \in Blocks : Moves(c)
  <2>1. PICK c \in Blocks : Moves(c)
    BY <1>1
  <2>2. CASE c = b
    <3>0. Goto(b, NextPort(b, thread[b].n, AfterMove(b)))
      BY <2>1, <2>2 DEF Moves, Consume, Produce
    <3>p. thread[b].port = Len(Ports(b))
      BY <1>t
    <3>n. NextPort(b, thread[b].n, AfterMove(b)) = AfterMove(b)
      BY <3>p DEF NextPort, LastPort
    <3>1. thread'[b] = AfterMove(b)
      BY <1>t, <3>0, <3>n DEF Goto
    <3>2. AfterMove(b).at \notin {"look", "move"}
      BY <1>a DEF AfterMove, Syncs, Sources, Sinks
    <3> QED
      BY <3>1, <3>2
  <2>3. CASE c # b
    <3>1. Step(c)
      BY <1>t, <2>1 DEF Moves, Step, ThreadStep, TaskStep, Common, IInv, Types, RestTypes
    <3>2. thread'[b] = thread[b] /\ todo'[b] = todo[b]
      BY <1>t, <2>3, <3>1, Outside
    <3> QED
      BY <3>2 DEF HasMore
  <2> QED
    BY <2>2, <2>3
<1>2. CASE Still
  <2>1. todo' = todo
    BY <1>2 DEF Still
  <2>2. CASE thread[b].at \in {"look", "move"}
    BY <2>1, <2>2 DEF HasMore
  <2>3. CASE thread[b].at \notin {"look", "move"}
    <3>1. ASSUME NEW c \in Blocks, Step(c) \/ NothingYet(c) \/ Fail(c) PROVE todo[b] # 0
      <4>1. c = b
        BY <1>t, <2>3, <3>1, Outside
      <4>2. CASE Loop(b)
        BY <1>t, <1>a, <4>2 DEF Loop, Goto
      <4>3. CASE \E place \in {"loop", "drop", "eof"} : Goto(b, At(place))
        BY <1>t, <1>a, <4>3 DEF Goto
      <4>4. CASE \E place \in {"count", "await"} : Goto(b, [thread[b] EXCEPT !.at = place])
        BY <1>t, <4>4 DEF Goto, Placed
      <4>5. CASE \E t : Goto(b, t) /\ t.at \in {"drop", "done"}
        BY <1>t, <4>5 DEF Goto
      <4>6. CASE NothingYet(b) \/ Eof(b) \/ Woken(b) \/ Notified(b) \/ Counted(b)
        BY <4>3, <4>6 DEF NothingYet, Eof, Woken, Notified, Counted
      <4>7. CASE TimedOut(b) \/ Await(b) \/ Slept(b)
        BY <4>4, <4>7 DEF TimedOut, Await, Slept
      <4>8. CASE Fail(b) \/ Drop(b)
        <5>1. PICK t : Goto(b, t) /\ t \in {AtPort("drop", 1, 1), AtPort("done", 1, thread[b].n),
                                            AtPort("drop", thread[b].port + 1, thread[b].n)}
          BY <4>8 DEF Fail, Drop, NextPort
        <5> QED
          BY <1>a, <4>5, <5>1
      <4>9. CASE Look(b) \/ Consume(b) \/ Produce(b)
        BY <2>3, <4>9 DEF Look, Consume, Produce
      <4> QED
        BY <3>1, <4>1, <4>2, <4>6, <4>7, <4>8, <4>9 DEF Step, ThreadStep, TaskStep, Common
    <3>2. ASSUME Spawn \/ SpawnTask \/ SpawnFails PROVE FALSE
      <4>1. PICK place \in {"loop", "drop"} : Goto(added[main.k], At(place))
        BY <3>2 DEF Spawn, SpawnTask, SpawnFails
      <4>2. thread'[b] = thread[b] \/ thread'[b].at = place
        BY <1>t, <1>a, <4>1 DEF Goto
      <4> QED
        BY <2>3, <4>2
    <3>3. ASSUME Join \/ JoinTask \/ Cancel \/ UNCHANGED vars PROVE FALSE
      BY <2>3, <3>3 DEF Join, JoinTask, Cancel, vars
    <3> QED
      BY <2>1, <3>1, <3>2, <3>3 DEF Next, Run
  <2> QED
    BY <2>2, <2>3
<1> QED
  BY <1>t, <1>1, <1>2, OtherSteps

LEMMA CompleteStill ==
  ASSUME Whole, Types, Types', Still, NEW pos \in [Blocks -> Nat], NEW c \in Blocks, Complete(pos, c)
  PROVE  Complete(pos, c)'
<1>1. used' = used /\ todo' = todo
  BY DEF Still
<1>2. \A d \in Upstream[c] : d \in Blocks /\ Most(pos, d)' = Most(pos, d) /\ \A s : Went(pos, d, s)' = Went(pos, d, s)
  BY StillWent, Closed
<1> QED
  BY <1>1, <1>2 DEF Complete

\* Nothing moves any more where everything has been moved.
LEMMA CompleteMoves ==
  ASSUME Whole, IInv, HasMore, NEW b \in Blocks, Moves(b), NEW pos \in [Blocks -> Nat], NEW q, Moved(b, pos, q), Balance(pos),
         NEW c \in Blocks, ended(c), Complete(pos, c)
  PROVE  Complete(q, c)'
<1> DEFINE n == thread[b].n
<1>t. /\ Types /\ n \in Nat /\ thread[b].at = "move" /\ c # b /\ q[c] = pos[c] /\ pos[c] \in Nat
      /\ \A d \in Upstream[c] : d \in Blocks
  BY MovesUsed, Closed DEF IInv, ended, Moved
<1>1. ASSUME b \in Upstream[c], IsIn(b) PROVE n = 0
  <2>1. Port(b) \in Streams /\ Port(b) \in ToSet(Inputs[b])
    BY <1>t, <1>1, OwnPort DEF Reads
  <2>2. used[Port(b)] = 0 /\ n <= used[Port(b)]
    BY <1>1, <2>1, MovesUsed DEF Complete
  <2> QED
    BY <1>t, <2>2
<1>2. ASSUME b \in Upstream[c], ~IsIn(b) PROVE thread[b].port > 1
  <2>1. b \notin Sources
    BY <1>t, <1>2 DEF Complete, HasMore
  <2>2. Inputs[b] \in Seq(Streams) /\ Inputs[b] # <<>>
    BY <2>1, PortsAre DEF Sources
  <2>3. Len(Inputs[b]) \in Nat \ {0}
    BY <2>2, EmptySeq
  <2>4. thread[b].port \in 1..Len(Ports(b)) /\ Len(Ports(b)) \in Nat
    BY <1>t, RoomIs, PortsOf
  <2> QED
    BY <1>2, <2>3, <2>4 DEF IsIn
<1>3. ASSUME NEW d \in Upstream[c] PROVE Most(q, d)' = pos[c]
  <2>1. Most(pos, d) = pos[c] /\ d \in Blocks
    BY <1>t DEF Complete
  <2>2. CASE d = b
    <3>1. Most(q, d)' = Most(pos, d) + (IF thread[b].port = 1 THEN n ELSE 0)
      BY <2>2 DEF Moved
    <3>2. n = 0 \/ thread[b].port # 1
      BY <1>1, <1>2, <2>2
    <3> QED
      BY <1>t, <2>1, <3>1, <3>2
  <2>3. CASE d # b
    BY <2>1, <2>3 DEF Moved
  <2> QED
    BY <2>2, <2>3
<1>4. ASSUME NEW d \in Upstream[c], NEW s \in ToSet(Inputs[d]) PROVE Went(q, d, s)' = pos[c]
  <2>1. Went(pos, d, s) = pos[c] /\ d \in Blocks /\ Reads(d, s)
    BY <1>t DEF Complete, Reads
  <2>2. CASE d = b
    <3>1. Went(q, d, s)' = Went(pos, d, s) + (IF s = Port(b) THEN n ELSE 0)
      BY <2>1, <2>2 DEF Moved
    <3>2. CASE IsIn(b)
      BY <1>t, <1>1, <2>1, <2>2, <3>1, <3>2
    <3>3. CASE ~IsIn(b)
      <4>1. s # Port(b)
        BY <1>t, <2>1, <2>2, <3>3, OwnPort, Between, TheOnlyOne
      <4> QED
        BY <1>t, <2>1, <3>1, <4>1
    <3> QED
      BY <3>2, <3>3
  <2>3. CASE d # b
    BY <2>1, <2>3 DEF Moved
  <2> QED
    BY <2>2, <2>3
<1>5. ASSUME NEW d \in Upstream[c], NEW s \in ToSet(Inputs[d]) PROVE used'[s] = 0
  <2>1. used[s] = 0 /\ Went(pos, d, s) = pos[c] /\ d \in Blocks /\ Reads(d, s) /\ s \in Streams
    BY <1>t, PortsOf DEF Complete, Reads
  <2>2. CASE s # Port(b)
    BY <2>1, <2>2, MovesUsed
  <2>3. CASE s = Port(b) /\ IsIn(b)
    <3>1. d = b
      BY <1>t, <2>1, <2>3, OwnPort
    <3>2. n = 0
      BY <1>1, <2>3, <3>1
    <3> QED
      BY <2>1, <2>3, <3>2, MovesUsed
  <2>4. CASE s = Port(b) /\ ~IsIn(b)
    <3>1. b = WriterOf(s) /\ b \in Upstream[c]
      <4>1. Writes(b, s)
        BY <1>t, <2>4, OwnPort
      <4>2. b = WriterOf(s)
        BY <2>1, <4>1, TheOnlyOne
      <4> QED
        BY <4>2, Closed
    <3>2. used[s] = Went(pos, b, s) - Went(pos, d, s) /\ Went(pos, b, s) \in Nat
      BY <2>1, <3>1, FromWriter
    <3>3. Went(pos, b, s) = pos[b]
      BY <1>t, <2>4, NotServed DEF Went
    <3>4. Most(pos, b) = pos[b] + n
      BY <1>t, <1>2, <2>4, <3>1 DEF Most
    <3>5. Most(pos, b) = pos[c]
      BY <3>1 DEF Complete
    <3>6. n = 0
      <4> HIDE DEF n
      <4> QED
        BY <1>t, <2>1, <3>2, <3>3, <3>4, <3>5
    <3>7. used'[s] = used[s] + n
      BY <2>4, MovesUsed
    <3> QED
      BY <2>1, <3>6, <3>7
  <2> QED
    BY <2>2, <2>3, <2>4
<1>6. ASSUME NEW d \in Upstream[c], d \in Sources PROVE todo'[d] = 0
  <2>1. todo[d] = 0 /\ d \in Blocks
    BY <1>t, <1>6 DEF Complete
  <2>2. CASE Consume(b)
    BY <2>1, <2>2 DEF Consume, rest
  <2>3. CASE Produce(b)
    <3>1. todo' = [todo EXCEPT ![b] = IF b \in Sources /\ @ > 0 THEN @ - thread[b].n ELSE @]
      BY <2>3 DEF Produce
    <3>2. todo'[d] = todo[d] \/ (d = b /\ todo[b] > 0)
      BY <2>1, <3>1 DEF IInv, Types
    <3> QED
      BY <2>1, <3>2
  <2> QED
    BY <2>2, <2>3 DEF Moves
<1> QED
  BY <1>t, <1>3, <1>4, <1>5, <1>6 DEF Complete

-----------------------------------------------------------------------------
(* Ends                                                                    *)

\* A stream that is empty, and was closed by its writer.
LEMMA WriterComplete ==
  ASSUME Whole, IInv, DeadEnds, NEW pos \in [Blocks -> Nat], Balance(pos), \A c \in Blocks : ended(c) => Complete(pos, c),
         NEW b \in Blocks, thread[b].at # "move", NEW s, Reads(b, s), used[s] = 0, "w" \notin open[s]
  PROVE  Complete(pos, WriterOf(s)) /\ pos[WriterOf(s)] = pos[b]
<1>1. s \in Streams
  BY Between
<1>2. PICK d \in Blocks : Writes(d, s) /\ ended(d)
  BY <1>1 DEF DeadEnds
<1>3. d = WriterOf(s) /\ thread[d].at # "move"
  BY <1>1, <1>2, TheOnlyOne DEF ended
<1>4. used[s] = Went(pos, d, s) - Went(pos, b, s)
  BY <1>3, FromWriter
<1>5. Went(pos, d, s) = pos[d] /\ Went(pos, b, s) = pos[b] /\ pos[d] \in Nat /\ pos[b] \in Nat
  BY <1>3, WentIs DEF IInv
<1>6. pos[d] = pos[b]
  BY <1>4, <1>5
<1> QED
  BY <1>2, <1>3, <1>6

\* All inputs of a block are at their end.
LEMMA AllInputs ==
  ASSUME Whole, IInv, NEW pos \in [Blocks -> Nat], NEW b \in Blocks, thread[b].at # "move", Inputs[b] # <<>>,
         \A s \in ToSet(Inputs[b]) : used[s] = 0 /\ Complete(pos, WriterOf(s)) /\ pos[WriterOf(s)] = pos[b]
  PROVE  Complete(pos, b)
<1>1. Most(pos, b) = pos[b] /\ \A s : Went(pos, b, s) = pos[b]
  BY WentIs DEF IInv
<1>2. b \notin Sources
  BY DEF Sources
<1>3. ASSUME NEW c \in Upstream[b]
      PROVE  /\ Most(pos, c) = pos[b]
             /\ c \in Sources => todo[c] = 0
             /\ \A s \in ToSet(Inputs[c]) : used[s] = 0 /\ Went(pos, c, s) = pos[b]
  <2>1. CASE c = b
    BY <1>1, <1>2, <2>1
  <2>2. CASE c # b
    <3>1. PICK s \in ToSet(Inputs[b]) : c \in Upstream[WriterOf(s)]
      BY <2>2, UpstreamSplit
    <3>2. Complete(pos, WriterOf(s)) /\ pos[WriterOf(s)] = pos[b]
      OBVIOUS
    <3> QED
      BY <3>1, <3>2 DEF Complete
  <2> QED
    BY <2>1, <2>2
<1>4. Upstream[b] \cap Sources # {}
  <2>1. PICK s : s \in ToSet(Inputs[b])
    <3>1. Inputs[b] \in Seq(Streams)
      BY PortsAre
    <3>2. Len(Inputs[b]) \in Nat \ {0} /\ DOMAIN Inputs[b] = 1..Len(Inputs[b])
      BY <3>1, EmptySeq, LenProperties
    <3>3. 1 \in DOMAIN Inputs[b]
      BY <3>2
    <3> QED
      BY <3>3 DEF ToSet
  <2>2. PICK c \in Upstream[WriterOf(s)] : c \in Sources
    BY <2>1 DEF Complete
  <2>3. WriterOf(s) \in Upstream[b]
    BY <2>1, Closed
  <2> QED
    BY <2>2, <2>3, UpstreamOf
<1> QED
  BY <1>3, <1>4 DEF Complete

\* One input of a block is, and no other has anything else than what came from the
\* same source.
LEMMA OneInput ==
  ASSUME Whole, IInv, NEW pos \in [Blocks -> Nat], Balance(pos), Behind(pos),
         NEW b \in Blocks, thread[b].at # "move", \A c, d \in Upstream[b] \cap Sources : c = d,
         NEW s \in ToSet(Inputs[b]), Complete(pos, WriterOf(s)), pos[WriterOf(s)] = pos[b]
  PROVE  Complete(pos, b)
<1>t. /\ Types /\ pos[b] \in Nat
      /\ \A c \in Upstream[b] : c \in Blocks /\ Most(pos, c) \in Nat /\ \A r : Went(pos, c, r) \in Nat /\ Went(pos, c, r) <= Most(pos, c)
  BY Closed, WentIs DEF IInv
<1>1. PICK S \in Upstream[WriterOf(s)] : S \in Sources /\ Most(pos, S) = pos[b] /\ todo[S] = 0
  <2>1. PICK S \in Upstream[WriterOf(s)] : S \in Sources
    BY DEF Complete
  <2> QED
    BY <2>1 DEF Complete
<1>2. S \in Upstream[b]
  <2>1. WriterOf(s) \in Upstream[b]
    BY Closed
  <2> QED
    BY <2>1, UpstreamOf
<1>3. ASSUME NEW c \in Upstream[b] PROVE Most(pos, c) <= pos[b]
  <2>1. CASE Most(pos, c) = 0
    BY <1>t, <2>1
  <2>2. CASE Most(pos, c) # 0
    <3>1. PICK d \in Upstream[c] \cap Sources : Most(pos, c) <= Most(pos, d)
      BY <1>t, <2>2 DEF Behind
    <3>2. d \in Upstream[b]
      BY <3>1, UpstreamOf
    <3>3. d = S
      BY <1>1, <1>2, <3>1, <3>2
    <3> QED
      BY <1>1, <3>1, <3>3
  <2> QED
    BY <2>1, <2>2
<1> DEFINE R == { c \in Upstream[b] : pos[b] <= Most(pos, c) /\ \A r \in ToSet(Inputs[c]) : pos[b] <= Went(pos, c, r) }
<1>4. b \in R /\ R \in SUBSET Blocks
  <2>1. Most(pos, b) = pos[b] /\ \A r : Went(pos, b, r) = pos[b]
    BY <1>t, WentIs
  <2> QED
    BY <1>t, <2>1, Closed
<1>5. ASSUME NEW c \in R, NEW r \in ToSet(Inputs[c])
      PROVE  WriterOf(r) \in R /\ used[r] = Went(pos, WriterOf(r), r) - Went(pos, c, r) /\ used[r] \in Nat
  <2>1. c \in Upstream[b] /\ c \in Blocks /\ Reads(c, r) /\ pos[b] <= Went(pos, c, r)
    BY <1>t DEF Reads
  <2>2. /\ WriterOf(r) \in Upstream[c] /\ WriterOf(r) \in Blocks
        /\ used[r] = Went(pos, WriterOf(r), r) - Went(pos, c, r) /\ used[r] \in Nat
        /\ Went(pos, WriterOf(r), r) \in Nat /\ Went(pos, WriterOf(r), r) <= Most(pos, WriterOf(r))
        /\ Went(pos, c, r) \in Nat
    BY <2>1, FromWriter
  <2>3. WriterOf(r) \in Upstream[b]
    BY <2>1, Closed
  <2>4. pos[b] <= Went(pos, WriterOf(r), r)
    BY <1>t, <2>1, <2>2
  <2>5. pos[b] <= Most(pos, WriterOf(r))
    BY <1>t, <2>2, <2>3, <2>4
  <2>6. ASSUME NEW u \in ToSet(Inputs[WriterOf(r)]) PROVE pos[b] <= Went(pos, WriterOf(r), u)
    <3>1. r \in ToSet(Outputs[WriterOf(r)])
      BY <2>1, Between DEF Writes
    <3>2. Went(pos, WriterOf(r), r) <= Went(pos, WriterOf(r), u)
      BY <1>t, <2>2, <3>1, InputsFirst
    <3>3. Went(pos, WriterOf(r), u) \in Nat
      BY <1>t, <2>3
    <3> QED
      BY <1>t, <2>2, <2>4, <3>2, <3>3
  <2> QED
    BY <2>2, <2>3, <2>5, <2>6
<1>6. Upstream[b] \subseteq R
  <2>1. \A d \in R : \A r \in ToSet(Inputs[d]) : WriterOf(r) \in R
    BY <1>5
  <2> HIDE DEF R
  <2> QED
    BY <1>4, <2>1, AllUpstream
<1>7. ASSUME NEW c \in Upstream[b]
      PROVE  /\ Most(pos, c) = pos[b]
             /\ c \in Sources => todo[c] = 0
             /\ \A r \in ToSet(Inputs[c]) : used[r] = 0 /\ Went(pos, c, r) = pos[b]
  <2>1. c \in R /\ pos[b] <= Most(pos, c) /\ Most(pos, c) <= pos[b] /\ Most(pos, c) \in Nat
    BY <1>t, <1>3, <1>6
  <2>2. Most(pos, c) = pos[b]
    BY <1>t, <2>1
  <2>3. c \in Sources => todo[c] = 0
    BY <1>1, <1>2
  <2>4. ASSUME NEW r \in ToSet(Inputs[c]) PROVE used[r] = 0 /\ Went(pos, c, r) = pos[b]
    <3>1. pos[b] <= Went(pos, c, r) /\ Went(pos, c, r) <= Most(pos, c) /\ Went(pos, c, r) \in Nat
      BY <1>t, <2>1
    <3>2. Went(pos, c, r) = pos[b]
      BY <1>t, <2>2, <3>1
    <3>3. WriterOf(r) \in Upstream[b] /\ used[r] = Went(pos, WriterOf(r), r) - Went(pos, c, r) /\ used[r] \in Nat
      BY <1>5, <2>1
    <3>4. Went(pos, WriterOf(r), r) \in Nat /\ Went(pos, WriterOf(r), r) <= Most(pos, WriterOf(r)) /\ Most(pos, WriterOf(r)) <= pos[b]
          /\ Most(pos, WriterOf(r)) \in Nat
      BY <1>t, <1>3, <3>3
    <3>5. used[r] = 0
      BY <1>t, <3>2, <3>3, <3>4
    <3> QED
      BY <3>2, <3>5
  <2> QED
    BY <2>2, <2>3, <2>4
<1>8. Upstream[b] \cap Sources # {}
  BY <1>1, <1>2
<1> QED
  BY <1>7, <1>8 DEF Complete

\* The reader of a stream has ended.
LEMMA ReaderGone ==
  ASSUME Whole, IInv, NEW pos \in [Blocks -> Nat], Behind(pos),
         NEW b \in Blocks, thread[b].at # "move", pos[b] > 0,
         NEW s, Writes(b, s), NEW r \in Blocks, Reads(r, s), Complete(pos, r)
  PROVE  Complete(pos, b)
<1>1. s \in Streams /\ b = WriterOf(s)
  BY Between, TheOnlyOne
<1>2. b \in Upstream[r]
  BY <1>1, Closed DEF Reads
<1>3. Upstream[b] \subseteq Upstream[r]
  BY <1>2, UpstreamOf
<1>4. Most(pos, b) = pos[b] /\ pos[b] \in Nat
  BY WentIs DEF IInv
<1>5. pos[b] = pos[r]
  BY <1>2, <1>4 DEF Complete
<1>6. Upstream[b] \cap Sources # {}
  BY <1>4 DEF Behind
<1> QED
  BY <1>3, <1>5, <1>6 DEF Complete

\* Nothing leads to a source.
LEMMA AtSource ==
  ASSUME Whole, NEW b \in Sources
  PROVE  /\ \A s \in ToSet(Inputs[b]) : FALSE
         /\ b \in Upstream[b]
         /\ \A c \in Upstream[b] : c = b
<1>1. b \in Blocks /\ \A s \in ToSet(Inputs[b]) : FALSE
  BY DEF Sources, ToSet
<1>2. \A c \in Upstream[b] : c = b
  BY <1>1, UpstreamSplit
<1> QED
  BY <1>1, <1>2, Closed

\* A source that gives its last samples.
LEMMA LastMove ==
  ASSUME Whole, IInv, NEW b \in Blocks, Moves(b), NEW pos \in [Blocks -> Nat], NEW q, Moved(b, pos, q), ended(b)'
  PROVE  Complete(q, b)'
<1>t. /\ Types /\ thread[b].n \in Nat /\ thread \in [Blocks -> Placed] /\ todo \in [Blocks -> Nat \cup {Forever}]
      /\ q[b] \in Nat
  BY RoomIs DEF IInv, Types, Placed, Moved
<1>a. \A place, k, n : At(place).at = place /\ AtPort(place, k, n).at = place
  BY DEF At, AtPort
<1>1. thread[b].at = "move" /\ thread'[b] = NextPort(b, thread[b].n, AfterMove(b)) /\ thread'[b].at \in {"drop", "done"}
  BY <1>t DEF Moves, Consume, Produce, Goto, ended
<1>2. thread'[b] = AfterMove(b)
  BY <1>a, <1>1 DEF NextPort
<1>3. b \in Sources /\ todo[b] = thread[b].n
  BY <1>a, <1>1, <1>2 DEF AfterMove, Syncs
<1>4. ~IsIn(b)
  <2>1. Len(Inputs[b]) = 0 /\ thread[b].port \in 1..Len(Ports(b)) /\ Len(Ports(b)) = 1
    BY <1>t, <1>3, RoomIs, SourcePort
  <2> QED
    BY <2>1 DEF IsIn
<1>5. todo'[b] = 0
  <2>1. todo' = [todo EXCEPT ![b] = IF b \in Sources /\ @ > 0 THEN @ - thread[b].n ELSE @]
    BY <1>4 DEF Moves, Consume, Produce
  <2>2. todo'[b] = IF todo[b] > 0 THEN todo[b] - thread[b].n ELSE todo[b]
    BY <1>t, <1>3, <2>1
  <2> QED
    BY <1>t, <1>3, <2>2
<1>6. Most(q, b)' = q[b]
  <2>1. thread'[b].at # "move"
    BY <1>1
  <2> QED
    BY <1>t, <2>1 DEF Most
<1>7. /\ \A s \in ToSet(Inputs[b]) : FALSE
      /\ b \in Upstream[b]
      /\ \A c \in Upstream[b] : c = b
  BY <1>3, AtSource
<1> QED
  BY <1>3, <1>5, <1>6, <1>7 DEF Complete

\* A block that ends by a step in which nothing is moved.
LEMMA EndsComplete ==
  ASSUME Whole, Matched, IInv, DeadEnds, NEW pos \in [Blocks -> Nat], Balance(pos), Behind(pos), Pushed(pos),
         \A c \in Blocks : ended(c) => Complete(pos, c),
         NEW b \in Blocks, FoundEmpty(b), b \notin Sources => todo[b] = Forever,
         Step(b) \/ NothingYet(b) \/ Fail(b), ~Moves(b), ~ended(b), ended(b)'
  PROVE  Complete(pos, b) \/ Disturbed' \/ Lost'
<1>t. /\ Types /\ Port(b) \in Streams /\ thread[b].n \in Nat /\ thread \in [Blocks -> Placed]
  BY RoomIs DEF IInv, Types, Placed
<1>g. ASSUME NEW t, Goto(b, t)
      PROVE  thread'[b] = t /\ t.at \in {"drop", "done"}
  BY <1>t, <1>g DEF Goto, ended
<1>b. \A place : At(place).at = place
  BY DEF At
<1>c. \A place, k, n : AtPort(place, k, n).at = place /\ AtPort(place, k, n).n = n
  BY DEF AtPort
<1>1. CASE Loop(b)
  <2>1. canceled \/ todo[b] = 0
    BY <1>1, <1>b, <1>g DEF Loop
  <2>2. canceled' = canceled /\ thread[b].at # "move"
    BY <1>1 DEF Loop, rest
  <2>3. CASE todo[b] = 0
    <3>1. b \in Sources
      BY <2>3 DEF Forever
    <3>2. Most(pos, b) = pos[b]
      BY <1>t, <2>2, WentIs
    <3>3. /\ \A s \in ToSet(Inputs[b]) : FALSE
          /\ b \in Upstream[b]
          /\ \A c \in Upstream[b] : c = b
      BY <3>1, AtSource
    <3> QED
      BY <2>3, <3>1, <3>2, <3>3 DEF Complete
  <2> QED
    BY <2>1, <2>2, <2>3 DEF Disturbed
<1>2. CASE Fail(b)
  <2>1. thread'[b] = AtPort("drop", 1, 1)
    BY <1>2, <1>g DEF Fail
  <2>2. thread'[b].n = 1
    BY <1>c, <2>1
  <2> QED
    BY <2>2 DEF Disturbed, failed
<1>3. CASE Eof(b)
  <2>1. eof(b) /\ thread[b].at # "move"
    BY <1>3, <1>b, <1>g DEF Eof
  <2>2. ASSUME NEW s \in ToSet(Inputs[b])
        PROVE  used[s] = 0 /\ Complete(pos, WriterOf(s)) /\ pos[WriterOf(s)] = pos[b]
    BY <2>1, WriterComplete DEF eof, Reads
  <2> QED
    BY <2>1, <2>2, AllInputs DEF eof
<1>4. CASE Counted(b)
  <2>1. closed(b) /\ late' = late /\ thread[b].at = "count"
    BY <1>4, <1>b, <1>g DEF Counted
  <2>2. CASE IsIn(b)
    <3>1. "w" \notin open[Port(b)] /\ Reads(b, Port(b)) /\ Port(b) \in ToSet(Inputs[b])
      BY <2>1, <2>2, OwnPort, <1>t DEF closed, Reads
    <3>2. used[Port(b)] = 0 \/ Missed(Port(b))
      BY <2>1, <2>2 DEF FoundEmpty
    <3>3. CASE Missed(Port(b))
      BY <2>1, <3>1, <3>3 DEF Lost, Missed
    <3>4. CASE used[Port(b)] = 0
      <4>1. Complete(pos, WriterOf(Port(b))) /\ pos[WriterOf(Port(b))] = pos[b]
        BY <2>1, <3>1, <3>4, WriterComplete
      <4>2. CASE Len(Inputs[b]) > 1
        BY <2>1, <3>1, <4>1, <4>2, OneInput DEF Matched
      <4>3. CASE ~(Len(Inputs[b]) > 1)
        <5>1. \A s \in ToSet(Inputs[b]) : s = Port(b)
          <6>1. Inputs[b] \in [1..Len(Inputs[b]) -> Streams] /\ Len(Inputs[b]) \in Nat
            BY PortsAre, LenProperties
          <6>2. \A j, k \in DOMAIN Inputs[b] : j = k
            BY <4>3, <6>1
          <6> QED
            BY <3>1, <6>2 DEF ToSet
        <5>2. Inputs[b] # <<>>
          BY <3>1, NoInputs DEF Sources
        <5> QED
          BY <2>1, <3>4, <4>1, <5>1, <5>2, AllInputs
      <4> QED
        BY <4>2, <4>3
    <3> QED
      BY <3>2, <3>3, <3>4
  <2>3. CASE ~IsIn(b)
    <3>1. "r" \notin open[Port(b)] /\ Writes(b, Port(b))
      BY <2>1, <2>3, OwnPort, <1>t DEF closed
    <3>2. PICK r \in Blocks : Reads(r, Port(b)) /\ ended(r)
      BY <1>t, <3>1 DEF DeadEnds
    <3>3. pos[b] > 0
      BY <2>1, <2>3 DEF Pushed
    <3> QED
      BY <2>1, <3>1, <3>2, <3>3, ReaderGone
  <2> QED
    BY <2>2, <2>3
<1>5. CASE Look(b) \/ NothingYet(b) \/ Woken(b) \/ TimedOut(b) \/ Await(b) \/ Notified(b) \/ Slept(b)
  <2>1. PICK t : Goto(b, t) /\ t.at \in {"look", "move", "wait", "loop", "eof", "count", "await"}
    <3>1. CASE Look(b)
      BY <3>1, <1>c DEF Look, NextPort
    <3>2. CASE NothingYet(b) \/ Woken(b) \/ Notified(b)
      BY <3>2, <1>b DEF NothingYet, Woken, Notified
    <3>3. CASE TimedOut(b) \/ Await(b) \/ Slept(b)
      BY <3>3, <1>t DEF TimedOut, Await, Slept, Placed
    <3> QED
      BY <1>5, <3>1, <3>2, <3>3
  <2> QED
    BY <1>g, <2>1
<1>6. CASE Drop(b)
  BY <1>6 DEF Drop, ended
<1> QED
  BY <1>1, <1>2, <1>3, <1>4, <1>5, <1>6 DEF Step, ThreadStep, TaskStep, Common, Moves

\* Only a step of its own ends a block, unless a thread does not start.
LEMMA OwnEnd ==
  ASSUME Types, Unborn, [Next]_vars, NEW c \in Blocks, ~ended(c), ended(c)', ~Disturbed'
  PROVE  Step(c) \/ NothingYet(c) \/ Fail(c)
<1>1. ASSUME NEW b \in Blocks, Step(b) \/ NothingYet(b) \/ Fail(b) PROVE Step(c) \/ NothingYet(c) \/ Fail(c)
  <2>1. b = c
    BY <1>1, Outside DEF ended
  <2> QED
    BY <1>1, <2>1
<1>2. ASSUME Spawn \/ SpawnTask PROVE FALSE
  <2>1. thread' = [thread EXCEPT ![added[main.k]] = At("loop")]
    BY <1>2 DEF Spawn, SpawnTask, Goto
  <2>2. thread'[c] = thread[c] \/ thread'[c].at = "loop"
    BY <2>1 DEF Types, At
  <2> QED
    BY <2>2 DEF ended
<1>3. ~SpawnFails
  BY DEF SpawnFails, Disturbed
<1>4. ASSUME Join \/ JoinTask \/ Cancel \/ UNCHANGED vars PROVE FALSE
  <2>1. thread' = thread
    BY <1>4 DEF Join, JoinTask, Cancel, vars
  <2> QED
    BY <2>1 DEF ended
<1> QED
  BY <1>1, <1>2, <1>3, <1>4 DEF Next, Run

LEMMA PositionsNext ==
  ASSUME Whole, Matched, IInv, IInv', EInv, [Next]_vars, NEW pos \in [Blocks -> Nat], Positions(pos)
  PROVE  \E q \in [Blocks -> Nat] : Positions(q)'
<1>t. /\ Types /\ Types' /\ Unborn /\ DeadEnds /\ HasMore /\ (\A c \in Blocks : FoundEmpty(c))
      /\ Balance(pos) /\ Behind(pos) /\ Pushed(pos)
  BY DEF IInv, EInv, Positions
<1>1. ASSUME ~Lost', ~Disturbed' PROVE \A c \in Blocks : ended(c) => Complete(pos, c)
  BY <1>t, <1>1, LostNext, StaysOver DEF Positions
<1>2. \A c \in Blocks \ Sources : todo[c] = Forever
  BY DEF EInv
<1>3. ASSUME NEW b \in Blocks, Moves(b) PROVE \E q \in [Blocks -> Nat] : Positions(q)'
  <2>1. PICK q : Moved(b, pos, q)
    BY <1>t, <1>3, MovesWent
  <2>2. q \in [Blocks -> Nat] /\ \A c \in Blocks : pos[c] <= q[c]
    BY <2>1 DEF Moved
  <2>3. Balance(q)' /\ Behind(q)'
    BY <1>t, <1>3, <2>1, BalanceMoves, BehindMoves
  <2>4. Pushed(q)'
    BY <1>t, <2>2, PushedNext
  <2>5. ASSUME ~Lost', ~Disturbed', NEW c \in Blocks, ended(c)' PROVE Complete(q, c)'
    <3>1. CASE ended(c)
      BY <1>t, <1>1, <1>3, <2>1, <2>5, <3>1, CompleteMoves
    <3>2. CASE ~ended(c)
      <4>1. Step(b)
        BY <1>3 DEF Moves, Step, ThreadStep, TaskStep, Common
      <4>2. c = b
        BY <1>t, <2>5, <3>2, <4>1, Outside DEF ended
      <4> QED
        BY <1>3, <2>1, <2>5, <4>2, LastMove
    <3> QED
      BY <3>1, <3>2
  <2> QED
    BY <2>2, <2>3, <2>4, <2>5 DEF Positions
<1>4. ASSUME Still, \A b \in Blocks : ~Moves(b) PROVE Positions(pos)'
  <2>1. Balance(pos)' /\ Behind(pos)'
    BY <1>t, <1>4, BalanceStill, BehindStill
  <2>2. \A c \in Blocks : pos[c] <= pos[c]
    OBVIOUS
  <2>3. Pushed(pos)'
    BY <1>t, <2>2, PushedNext
  <2>4. ASSUME ~Lost', ~Disturbed', NEW c \in Blocks, ended(c)' PROVE Complete(pos, c)'
    <3>1. Complete(pos, c)
      <4>1. CASE ended(c)
        BY <1>1, <2>4, <4>1
      <4>2. CASE ~ended(c)
        <5>1. Step(c) \/ NothingYet(c) \/ Fail(c)
          BY <1>t, <2>4, <4>2, OwnEnd
        <5>2. \A d \in Blocks : ended(d) => Complete(pos, d)
          BY <1>1, <2>4
        <5> QED
          BY <1>t, <1>2, <1>4, <2>4, <4>2, <5>1, <5>2, EndsComplete
      <4> QED
        BY <4>1, <4>2
    <3> QED
      BY <1>t, <1>4, <3>1, CompleteStill
  <2> QED
    BY <2>1, <2>3, <2>4 DEF Positions
<1> QED
  BY <1>t, <1>3, <1>4, OtherSteps

\* Every step keeps the invariant.
LEMMA NextEInv ==
  ASSUME Whole, Matched, IInv, EInv, [Next]_vars
  PROVE  EInv'
<1>t. Types /\ Unborn /\ DeadEnds /\ (\A c \in Blocks : FoundEmpty(c)) /\ HasMore
  BY DEF IInv, EInv
<1>1. Unborn' /\ DeadEnds' /\ \A c \in Blocks : FoundEmpty(c)'
  BY <1>t, UnbornNext, DeadEndsNext, FoundEmptyNext
<1>2. HasMore'
  BY <1>t, HasMoreNext
<1>3. \A c \in Blocks \ Sources : todo'[c] = Forever
  <2> SUFFICES ASSUME NEW c \in Blocks \ Sources PROVE todo'[c] = todo[c]
    BY DEF EInv
  <2>1. ASSUME NEW b \in Blocks, Step(b) \/ NothingYet(b) \/ Fail(b) PROVE todo'[c] = todo[c]
    <3>1. CASE b # c
      BY <1>t, <2>1, <3>1, Outside
    <3>2. CASE b = c
      BY <1>t, <2>1, <3>2 DEF Step, ThreadStep, TaskStep, Common, Loop, Look, Consume, Produce, Counted, Eof, Drop,
         Woken, TimedOut, Await, Notified, Slept, NothingYet, Fail, rest, Types
    <3> QED
      BY <3>1, <3>2
  <2>2. ASSUME Run \/ SpawnFails \/ Cancel \/ UNCHANGED vars PROVE todo' = todo
    BY <2>2 DEF Run, Spawn, SpawnTask, SpawnFails, Join, JoinTask, Cancel, vars
  <2> QED
    BY <2>1, <2>2 DEF Next
<1>4. \E pos \in [Blocks -> Nat] : Positions(pos)'
  <2>1. PICK pos \in [Blocks -> Nat] : Positions(pos)
    BY DEF EInv
  <2>2. IInv'
    BY NextIInv
  <2> QED
    BY <2>1, <2>2, PositionsNext
<1> QED
  BY <1>1, <1>2, <1>3, <1>4 DEF EInv

\* At first nobody has moved anything.
LEMMA InitEInv == Init => EInv
<1> SUFFICES ASSUME Init PROVE EInv
  OBVIOUS
<1>1. \A b \in Blocks : thread[b].at = "unborn" /\ ~ended(b)
  BY DEF Init, At, ended
<1>2. Unborn
  <2>1. added \in Seq(Blocks) /\ added # <<>> /\ main = [pc |-> "spawn", k |-> Newest]
    BY MTGraphAssumption DEF Init, added, InMain
  <2>2. Newest \in Nat /\ Newest # 0 /\ added \in [1..Newest -> Blocks]
    BY <2>1, LenProperties, EmptySeq DEF Newest
  <2> QED
    BY <1>1, <2>1, <2>2 DEF Unborn
<1>3. DeadEnds
  BY DEF DeadEnds, Init
<1>4. \A b \in Blocks : FoundEmpty(b)
  BY <1>1 DEF FoundEmpty
<1>5. \A b \in Blocks \ Sources : todo[b] = Forever
  BY DEF Init, Loads
<1>6. HasMore
  <2>1. Sources \subseteq Blocks
    BY DEF Sources
  <2> QED
    BY <1>1, <2>1 DEF HasMore
<1>7. PICK pos : pos = [b \in Blocks |-> 0]
  OBVIOUS
<1>8. \A b \in Blocks : pos[b] = 0 /\ Most(pos, b) = 0 /\ \A s : Went(pos, b, s) = 0
  BY <1>1, <1>7 DEF Most, Went
<1>9. Positions(pos)
  <2>1. Balance(pos)
    BY <1>8 DEF Balance, Init
  <2>2. Behind(pos)
    BY <1>8 DEF Behind
  <2>3. Pushed(pos)
    BY <1>1 DEF Pushed
  <2> QED
    BY <1>1, <2>1, <2>2, <2>3 DEF Positions
<1>10. pos \in [Blocks -> Nat]
  BY <1>7
<1> QED
  BY <1>2, <1>3, <1>4, <1>5, <1>6, <1>9, <1>10 DEF EInv

\* Whatever the schedule, if all streams are inside of the graph and what meets in a
\* block comes from a single source: the blocks end behind the data, with threads and
\* with tasks; unless samples came to a block that had given up looking at the buffer.
THEOREM MatchedDrains ==
  ASSUME Whole, Matched
  PROVE  Spec => []EndsDrainedUnlessLate
<1>1. ASSUME EInv PROVE EndsDrainedUnlessLate
  <2>1. CASE Lost
    BY <2>1 DEF Lost, Missed, EndsDrainedUnlessLate
  <2>2. CASE Disturbed
    BY <2>2 DEF EndsDrained, EndsDrainedUnlessLate
  <2>3. CASE ~Lost /\ ~Disturbed
    <3>1. PICK pos \in [Blocks -> Nat] : \A b \in Blocks : ended(b) => Complete(pos, b)
      BY <1>1, <2>3 DEF EInv, Positions
    <3>2. ASSUME NEW b \in Blocks, ended(b) PROVE Drained(b)
      BY <3>1, <3>2 DEF Complete, Drained
    <3> QED
      BY <3>2 DEF EndsDrained, EndsDrainedUnlessLate
  <2> QED
    BY <2>1, <2>2, <2>3
<1>2. EInv /\ IInv /\ [Next]_vars => EInv'
  BY NextEInv
<1> QED
  BY <1>1, <1>2, InitEInv, AlwaysIInv, PTL DEF Spec

\* In particular if no two streams meet.
COROLLARY TreeDrains ==
  ASSUME Whole, \A b \in Blocks : Len(Inputs[b]) <= 1
  PROVE  Spec => []EndsDrainedUnlessLate
<1>1. Matched
  <2>1. \A b \in Blocks : Len(Inputs[b]) \in Nat
    BY PortsAre, LenProperties
  <2> QED
    BY <2>1 DEF Matched
<1> QED
  BY <1>1, MatchedDrains
=============================================================================
