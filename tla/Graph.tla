------------------------------- MODULE Graph -------------------------------
(***************************************************************************)
(* Graph of src/graph.rs: run() calls work() of every block in the order   *)
(* in which they were added, pass after pass, on one thread.  It stops     *)
(* after a pass in which no block returned Again or Pending.               *)
(*                                                                         *)
(* Blocks that are at their end are skipped but not dropped: as long as    *)
(* run() is running, an end of a stream is closed only if it belongs to no *)
(* block of the graph, so eof() cannot be true before closed() is.         *)
(*                                                                         *)
(* A graph is a record:                                                    *)
(*   blocks   the blocks in the order in which they were add()ed, each     *)
(*            with its name, the streams it reads and those it writes      *)
(*   cap      the capacity of each stream; push() of packets has none      *)
(*   total    how many samples each source has; Forever: no end            *)
(* Of a block only matters here how much it moves and how it answers, for  *)
(* which a sample in stands for a sample out; what it makes of them is in  *)
(* BlockRunner.                                                            *)
(***************************************************************************)
EXTENDS Integers, Sequences, FiniteSets, SequencesExt

CONSTANTS
  Graphs,     \* the graphs that may be run
  MayFail,    \* names of blocks whose work() may return an error
  MayCancel   \* somebody may cancel() the token

VARIABLES
  graph,     \* the graph
  used,      \* samples in each stream
  todo,      \* samples each source has still to produce
  eof,       \* the blocks that run() found at their end
  main,      \* where run() is: the block of the pass it is at, or its result
  done,      \* so far nothing in this pass asks for another one
  canceled   \* the cancellation token

vars == <<graph, used, todo, eof, main, done, canceled>>

Forever == -1
Blocks     == DOMAIN graph.blocks
Name(b)    == graph.blocks[b].name
Inputs(b)  == graph.blocks[b].in
Outputs(b) == graph.blocks[b].out
Ports(b)   == Inputs(b) \o Outputs(b)
Sources    == { b \in Blocks : Inputs(b) = <<>> }
Streams    == DOMAIN graph.cap

Reads(b, s)  == s \in ToSet(Inputs(b))
Writes(b, s) == s \in ToSet(Outputs(b))

Returns(r) == [pc |-> r, k |-> 0]
AtBlock(k) == [pc |-> "pass", k |-> k]

avail(b, s)  == IF Reads(b, s) THEN used[s] ELSE graph.cap[s] - used[s]
closed(b, s) == \A c \in Blocks \ {b} : s \notin ToSet(Ports(c))

-----------------------------------------------------------------------------
(* work(): how many samples it moves, and what it returns                  *)

\* Blocks that return Again when they have moved something; any other one says
\* what it waits for next.
Steady ==
  {"Hilbert", "FftStream", "RtlSdrDecode", "AuEncode", "AuDecode", "SymbolSync", "StreamToPdu", "HdlcDeframer",
   "Il2pDeframer", "Skip", "Delay", "FileSink", "Midpointer", "Wpcr", "VecToStream", "PduWriter", "DebugSinkNoCopy"}

\* Those that take one packet at a time, or give one round of their data
OneByOne == {"Midpointer", "Wpcr", "VecToStream", "PduWriter", "DebugSinkNoCopy", "VectorSource"}

\* Sources that a thread feeds, and those that say Again whatever happens
Slow     == {"ReaderSource", "RtlSdrSource"}
Restless == {"SignalSourceFloat", "SignalSourceComplex", "SoapySdrSource"}
SourceNames == Slow \cup Restless \cup {"VectorSource", "FileSource", "SigMFSource"}

\* A source makes one stream; how long any other block goes on is up to what it reads.
WellMade(block, total) ==
  IF block.in = <<>> THEN block.name \in SourceNames /\ Len(block.out) = 1
  ELSE block.name \notin SourceNames /\ total = Forever

\* Neither end of a stream can be cloned: it is in one block.  And a block that
\* makes a stream cannot have been made from it.
Share(ports, others) == ToSet(ports) \cap ToSet(others) # {}

ASSUME GraphAssumption ==
  \A g \in Graphs :
    /\ g.cap \in [DOMAIN g.cap -> Nat \ {0}]
    /\ g.blocks \in Seq([name : STRING, in : Seq(DOMAIN g.cap), out : Seq(DOMAIN g.cap)])
    /\ g.total \in [DOMAIN g.blocks -> Nat \cup {Forever}]
    /\ \A b \in DOMAIN g.blocks : WellMade(g.blocks[b], g.total[b])
    /\ \A b, c \in DOMAIN g.blocks :
         /\ Share(g.blocks[b].in, g.blocks[c].in) \/ Share(g.blocks[b].out, g.blocks[c].out) => b = c
         /\ Share(g.blocks[b].in, g.blocks[c].out) => b # c
         /\ g.blocks[b].name \in Slow /\ g.blocks[c].name \in Slow => b = c

Least(S) == CHOOSE x \in S : \A y \in S : x <= y

\* mutant: the space in the outputs is not looked at
moves_inputs_only(b) == Least({ avail(b, s) : s \in ToSet(Inputs(b)) }
                                \cup (IF todo[b] # Forever THEN {todo[b]}
                                      ELSE IF b \in Sources THEN {1} ELSE {}))

\* A source may have less left than there is room for.
moves(b) == Least({ avail(b, s) : s \in ToSet(Ports(b)) }
                    \cup (IF todo[b] = Forever THEN {} ELSE {todo[b]})
                    \cup (IF Name(b) \in OneByOne THEN {1} ELSE {}))

\* The first of the ports that is empty, or full, once n samples are moved.
blocked(b, n) ==
  LET stuck == { k \in DOMAIN Ports(b) : avail(b, Ports(b)[k]) = n }
  IN  Ports(b)[Least(stuck)]

Simply(r) == [ret |-> r]
WaitFor(s) == [ret |-> "WaitForStream", on |-> s]
full(b, n) == avail(b, Outputs(b)[1]) = n

\* A VectorSource ends with its last sample, a file and a recording in a call of
\* its own, and the message with which a reader ends may come with the last bytes
\* or later.  A recording is waited for after every read.
SourceRets(b, n) ==
  LET last == todo[b] = n
  IN  CASE Name(b) \in Restless -> {Simply("Again")}
        [] Name(b) \in Slow ->
             IF full(b, n) THEN {WaitFor(Outputs(b)[1])}
             ELSE {Simply("Pending")} \cup (IF last THEN {Simply("EOF")} ELSE {})
        [] Name(b) = "VectorSource" ->
             IF last THEN {Simply("EOF")} ELSE IF n > 0 THEN {Simply("Again")} ELSE {WaitFor(Outputs(b)[1])}
        [] Name(b) = "FileSource" ->
             IF full(b, 0) THEN {WaitFor(Outputs(b)[1])} ELSE IF n > 0 THEN {Simply("Again")} ELSE {Simply("EOF")}
        [] Name(b) = "SigMFSource" ->
             IF todo[b] = 0 THEN {Simply("EOF")} ELSE {WaitFor(Outputs(b)[1])}

Rets(b, n) ==
  IF b \in Sources THEN SourceRets(b, n)
  ELSE IF Name(b) \in Steady /\ n > 0 THEN {Simply("Again")}
  ELSE {WaitFor(blocked(b, n))}

-----------------------------------------------------------------------------
(* run()                                                                   *)

InPass(b) == main = AtBlock(b)
NextBlock == main' = AtBlock(main.k + 1)

Skip(b) ==
  /\ InPass(b) /\ b \in eof
  /\ NextBlock
  /\ UNCHANGED <<graph, used, todo, eof, done, canceled>>

asks_for_more_pending(r) == r.ret = "Pending"  \* mutants: an arm of the match does
asks_for_more_waits(r)   == r.ret \in {"Again", "Pending", "WaitForStream"}  \* not reset done, or does so wrongly

asks_for_more(r) == r.ret \in {"Again", "Pending"}

at_end_of_output(b, r) == r.ret = "EOF" \/ (r.ret = "WaitForStream" /\ ~Reads(b, r.on))  \* mutant: an output that is full

\* The block is at its end: it says so, or it waits for a closed stream.
at_end(b, r) == r.ret = "EOF" \/ (r.ret = "WaitForStream" /\ closed(b, r.on))

Noted(b, r) ==
  /\ done' = (done /\ ~asks_for_more(r))
  /\ eof' = IF at_end(b, r) THEN eof \cup {b} ELSE eof
  /\ NextBlock
  /\ UNCHANGED <<graph, canceled>>

Work(b) ==
  /\ InPass(b) /\ b \notin eof
  /\ LET n == moves(b)
     IN  /\ used' = [s \in Streams |-> CASE Reads(b, s)  -> used[s] - n
                                         [] Writes(b, s) -> used[s] + n
                                         [] OTHER        -> used[s]]
         /\ todo' = [todo EXCEPT ![b] = IF @ = Forever THEN @ ELSE @ - n]
         /\ \E r \in Rets(b, n) : Noted(b, r)

\* Nothing has arrived.
NothingYet(b) ==
  /\ InPass(b) /\ b \notin eof /\ Name(b) \in Slow /\ ~full(b, 0)
  /\ Noted(b, Simply("Pending"))
  /\ UNCHANGED <<used, todo>>

\* run() returns the first error; the blocks after this one are not called.
Fail(b) ==
  /\ InPass(b) /\ b \notin eof /\ Name(b) \in MayFail
  /\ main' = Returns("error")
  /\ UNCHANGED <<graph, used, todo, eof, done, canceled>>

\* The cancellation token is looked at between two passes only.
EndOfPass_deaf ==  \* mutant
  /\ main = AtBlock(Len(graph.blocks) + 1)
  /\ main' = IF done THEN Returns("ok") ELSE AtBlock(1)
  /\ done' = TRUE
  /\ UNCHANGED <<graph, used, todo, eof, canceled>>

EndOfPass ==
  /\ main = AtBlock(Len(graph.blocks) + 1)
  /\ main' = IF done \/ canceled THEN Returns("ok") ELSE AtBlock(1)
  /\ done' = TRUE
  /\ UNCHANGED <<graph, used, todo, eof, canceled>>

Cancel ==
  /\ MayCancel /\ ~canceled
  /\ canceled' = TRUE
  /\ UNCHANGED <<graph, used, todo, eof, main, done>>

-----------------------------------------------------------------------------

\* The first pass starts like any other: after a look at the token.
Init ==
  /\ graph \in Graphs
  /\ used = [s \in Streams |-> 0]
  /\ todo = graph.total
  /\ eof = {}
  /\ main = AtBlock(Len(graph.blocks) + 1)
  /\ done = FALSE
  /\ canceled = FALSE

Run == EndOfPass \/ \E b \in Blocks : Skip(b) \/ Work(b) \/ NothingYet(b)

Next ==
  \/ Run
  \/ \E b \in Blocks : Fail(b)
  \/ Cancel

\* run() goes on, and what a slow source waits for arrives in the end; no graph
\* has two of them.
Ends(b)  == Name(b) \in Slow /\ Work(b) /\ (todo[b] = 0 => b \in eof')
Fairness == WF_vars(Run) /\ SF_vars(\E b \in Blocks : Ends(b))

Spec == Init /\ [][Next]_vars /\ Fairness

-----------------------------------------------------------------------------
(* Properties                                                              *)

TypeOK ==
  /\ \A s \in Streams : used[s] \in 0..graph.cap[s]
  /\ todo \in [Blocks -> Nat \cup {Forever}]
  /\ eof \subseteq Blocks
  /\ main \in { AtBlock(k) : k \in 1..(Len(graph.blocks) + 1) } \cup { Returns(r) : r \in {"ok", "error"} }
  /\ done \in BOOLEAN /\ canceled \in BOOLEAN

\* "If all blocks return the status that they are waiting for a stream then
\* none of them will ever be able to make more progress": no block that is not
\* at its end could still move something when run() returns.
Exhausted == main.pc = "ok" /\ ~canceled => \A b \in Blocks \ eof : moves(b) = 0

\* A graph without joins, in which every stream has both of its ends.
Tree == /\ \A b \in Blocks : Len(Inputs(b)) <= 1
        /\ \A s \in Streams : (\E b \in Blocks : Reads(b, s)) /\ (\E b \in Blocks : Writes(b, s))

\* In a tree no block ever finds a stream full that it writes, whatever the order
\* in which the blocks were added: all those after it have moved on since.
Unhindered == main.pc = "pass" /\ Tree =>
                \A b \in Blocks : InPass(b) => \A s \in ToSet(Outputs(b)) : used[s] < graph.cap[s]

\* run() does run "until all the blocks are "done"": of a tree, all that the
\* sources had has gone down every branch to its end.  So it is if every block
\* that waits, rather than to say Again, was added before those that read its
\* streams, and has no smaller stream to write than to read, and if a source that
\* waits when it has produced something, which it may for ever if nobody else asks
\* for another pass, has a block that says Again somewhere down its branches.
Downstream == \A j, k \in Blocks : Share(Outputs(j), Inputs(k)) => j < k \/ Name(j) \in Steady
Widening   == \A b \in Blocks : \A i \in ToSet(Inputs(b)), o \in ToSet(Outputs(b)) :
                graph.cap[i] <= graph.cap[o] \/ Name(b) \in Steady
PassedOn(L) == \A b \in Blocks : ToSet(Inputs(b)) \cap L # {} => ToSet(Outputs(b)) \subseteq L
Driven     == \A b \in Sources : Name(b) \in Slow \cup {"SigMFSource"} =>
                \A L \in SUBSET Streams : ToSet(Outputs(b)) \subseteq L /\ PassedOn(L) =>
                  \E c \in Blocks : Name(c) \in Steady /\ ToSet(Inputs(c)) \cap L # {}
Finished   == main.pc = "ok" /\ ~canceled /\ Tree /\ Downstream /\ Widening /\ Driven =>
                /\ \A b \in Sources : todo[b] = 0
                /\ \A s \in Streams : used[s] = 0

\* Where sources meet, which a tree may not have, the longer of them may be left
\* where it is: then each block that reads lacks what will not come, for one of its
\* streams is empty, and the source of that one, if a source writes it, has no more.
Merge == /\ \A b \in Blocks : Len(Inputs(b)) <= 1 \/ \A s \in ToSet(Inputs(b)) : \E w \in Sources : Writes(w, s)
         /\ \A s \in Streams : \E w \in Blocks : Writes(w, s) /\ (w \in Sources \/ \E b \in Blocks : Reads(b, s))
Lacks(b) == \E s \in ToSet(Inputs(b)) : used[s] = 0 /\ \A w \in Sources : Writes(w, s) => todo[w] = 0
Met == main.pc = "ok" /\ ~canceled /\ Merge /\ Downstream /\ Widening /\ Driven =>
         \A b \in Blocks \ Sources : Lacks(b)

\* run() returns if the sources have an end, whatever the order and the
\* capacities are, and however long the sources are slow.
Terminates == (\A b \in Sources : todo[b] # Forever) ~> main.pc # "pass"

\* After cancel() it returns, also if the graph would go on for ever.
CancelStops == canceled ~> main.pc # "pass"
=============================================================================
