------------------------------ MODULE MCGraph ------------------------------
(* Graphs for Graph: those of the example programs; two sources that meet,  *)
(* with streams of several sizes and the blocks in any order; and a chain   *)
(* with a stream that is smaller than the one before it.                    *)
EXTENDS Graph, Examples

Block(name, in, out) == [name |-> name, in |-> in, out |-> out]
Count(left, b) == IF b.in # <<>> THEN Forever ELSE left[b.out[1]]
Made_(blocks, cap, left) ==
  [name |-> "of its own", blocks |-> blocks, cap |-> cap, total |-> [k \in DOMAIN blocks |-> Count(left, blocks[k])]]

\* A file and another source -> Add -> a sink; and a source that nobody reads.
Join(src, sink) == SetToSeqs({ Block("FileSource", <<>>, <<"a">>), Block(src, <<>>, <<"b">>),
                               Block("Add", <<"a", "b">>, <<"c">>), Block(sink, <<"c">>, <<>>) })
Unread    == Block("FileSource", <<>>, <<"d">>)
JoinCaps == { [a |-> 2, b |-> 1, c |-> c, d |-> 1] : c \in 1..2 }
JoinLeft == { [a |-> a, b |-> b, d |-> 2] : a \in {3, Forever}, b \in {0, 4, Forever} }
Joins    == { Made_(<<Unread>> \o o, cap, left) :
                o \in Join("FileSource", "NullSink") \cup Join("ReaderSource", "FileSink")
                        \cup Join("VectorSource", "NullSink") \cup Join("SigMFSource", "FileSink"), cap \in JoinCaps, left \in JoinLeft }

\* A source -> Tee -> a sink, and -> another block -> a sink
Fork(src, sink, other) ==
  { <<Block(src, <<>>, <<"a">>), Block("Tee", <<"a">>, <<"b", "c">>)>> \o o :
      o \in SetToSeqs({ Block(sink, <<"b">>, <<>>), Block(other, <<"c">>, <<"d">>), Block("NullSink", <<"d">>, <<>>) }) }
Forks == { Made_(o, [a |-> a, b |-> b, c |-> 2, d |-> 2], [a |-> 3]) :
             o \in UNION { Fork(src, sink, other) : src \in {"FileSource", "SigMFSource", "ReaderSource", "VectorSource"},
                            sink \in {"NullSink", "PduWriter"}, other \in {"Map", "Delay"} },
             a \in 1..2, b \in 1..2 }

MCGraphs == Joins \cup Forks \cup Examples

\* A stream of bytes, of which complex numbers of eight times their size are made
Chain == <<Block("FileSource", <<>>, <<"a">>), Block("Map", <<"a">>, <<"b">>), Block("NullSink", <<"b">>, <<>>)>>
Narrowing == {Made_(Chain, [a |-> 8, b |-> 1], [a |-> 12])}

\* What the example programs are for: all that the source had has gone down every
\* branch to its end, and no stream that somebody reads has anything left, when
\* run() returns and nobody canceled it.
Consumed ==
  main.pc = "ok" /\ ~canceled /\ graph.name # "of its own" =>
    /\ \A b \in Sources : todo[b] = 0
    /\ \A s \in Streams : used[s] = 0 \/ \A b \in Blocks : ~Reads(b, s)
=============================================================================
