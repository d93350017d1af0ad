------------------------------ MODULE MTGraph ------------------------------
(***************************************************************************)
(* The two runners that give every block a flow of control of its own:     *)
(* MTGraph of src/mtgraph.rs starts one thread per block and joins them,   *)
(* AsyncGraph of src/agraph.rs spawns one task per block and awaits them.  *)
(* Each calls work() until the block is at its end, waiting on the stream  *)
(* that work() names.  They differ in how they wait, and in what becomes   *)
(* of an error.  The blocks meet in the streams only.                      *)
(*                                                                         *)
(* A thread gives up its time between any two accesses to a stream, and so *)
(* does a task when the runtime has several threads: the                   *)
(* windows of the ports are taken one after the other, samples are         *)
(* consumed from one input after the other and then produced, the buffer   *)
(* is looked at before the reference count, and ends are dropped one by    *)
(* one.  ReadStream::eof() is one step: it reads the count first, and what *)
(* it reads next does not change once the count is 1.                      *)
(***************************************************************************)
EXTENDS Flowgraph

CONSTANTS
  Cap,     \* Cap[s]: capacity of stream s, in samples of its type
  Plans    \* the runs of a graph that are looked at, see below

\* runner: the "threads" of MTGraph or the "tasks" of AsyncGraph.  added: the
\* blocks, in the order in which they were add()ed.  totals: what a source may
\* have.  slow: sources that may have nothing yet; they tell by Pending, or by
\* WaitForFunc.  faults: what may happen, "cancel" of the token, the "refusal"
\* of the system to start a thread, an error in work() of a block.
ASSUME MTGraphAssumption ==
  /\ \A s \in Streams : Cap[s] \in Nat \ {0}
  /\ {"cancel", "refusal"} \cap Blocks = {}
  /\ \A p \in Plans :
       /\ p.runner \in {"threads", "tasks"} /\ p.idle \in {"Pending", "WaitForFunc"}
       /\ p.added \in Seq(Blocks) /\ p.added # <<>> /\ IsInjective(p.added)
       /\ \A s \in Streams : ReaderOf(s) \in ToSet(p.added) <=> WriterOf(s) \in ToSet(p.added)
       /\ p.slow \subseteq Sources /\ p.faults \subseteq Blocks \cup {"cancel", "refusal"}

VARIABLES
  plan,       \* which runner, of which graph; it never changes
  used,       \* samples in each stream
  open,       \* open[s]: ends of s that were not dropped
  notified,   \* ends of streams whose task was notified; at a write end the
              \* notification is kept until somebody waits
  thread,     \* per block: where its thread or task is
  todo,       \* samples each source has still to produce
  canceled,   \* the cancellation token
  main,       \* where run() is, and the block it starts or joins
  late        \* history: <<s, what>>, samples came to s that its reader does not
              \* look at before it looks at the count

vars == <<plan, used, open, notified, thread, todo, canceled, main, late>>

\* at: place in the thread; port: the port it is at; n: samples work() moves
At(place)         == [at |-> place, port |-> 1, n |-> 0]
AtPort(place, k, n) == [at |-> place, port |-> k, n |-> n]

Port(b)  == Ports(b)[thread[b].port]
IsIn(b)  == thread[b].port <= Len(Inputs[b])
LastPort(b) == thread[b].port = Len(Ports(b))
End(b)   == <<Port(b), IF IsIn(b) THEN "r" ELSE "w">>

Tasks     == plan.runner = "tasks"
MayHappen(fault) == fault \in plan.faults

\* What the block can move through the port: samples to read or free slots.
avail(b) == IF IsIn(b) THEN used[Port(b)] ELSE Cap[Port(b)] - used[Port(b)]

\* The end of the other block at the port is closed: strong_count is 1.
closed(b) == (IF IsIn(b) THEN "w" ELSE "r") \notin open[Port(b)]

Goto(b, t) == thread' = [thread EXCEPT ![b] = t]
Min2(x, y) == IF x < y THEN x ELSE y
streams == <<used, open, notified>>
rest    == <<plan, todo, canceled, main>>

\* One more step along the ports, or on to the next place after the last one.
NextPort(b, n, next) ==
  IF LastPort(b) THEN next ELSE AtPort(thread[b].at, thread[b].port + 1, n)

-----------------------------------------------------------------------------
(* work()                                                                  *)

Loop_deaf(b) ==  \* mutant: cancellation is not looked at
  /\ thread[b].at = "loop"
  /\ Goto(b, At(IF todo[b] = 0 THEN "drop" ELSE "look"))
  /\ UNCHANGED <<streams, rest, late>>

\* The cancellation token is looked at before each call of work().
Loop(b) ==
  /\ thread[b].at = "loop"
  /\ Goto(b, At(IF canceled THEN "drop" ELSE IF todo[b] = 0 THEN "drop" ELSE "look"))
  /\ UNCHANGED <<streams, rest, late>>

\* A source wants no more than it has left.
Wanted(b) == IF todo[b] >= 0 THEN todo[b] ELSE Cap[Ports(b)[1]]

Clamped_anew(b) == avail(b)  \* mutant: the ports before this one are forgotten

\* No more than what the ports so far can do.
Clamped(b) ==
  LET here == IF b \in Sources THEN Min2(avail(b), Wanted(b)) ELSE avail(b)
  IN  IF thread[b].port = 1 THEN here ELSE Min2(thread[b].n, here)

\* Take the window of a port; the first one that is empty is waited for.  A
\* sink does not look before it consumes: it waits after it.
Look(b) ==
  /\ thread[b].at = "look"
  /\ Goto(b, IF avail(b) = 0 /\ b \notin Sinks
               THEN AtPort("wait", thread[b].port, 0)
               ELSE NextPort(b, Clamped(b), AtPort("move", 1, Clamped(b))))
  /\ UNCHANGED <<streams, rest, late>>

\* A source that has nothing yet.  After Pending the runner sleeps and calls
\* work() again; after WaitForFunc it asks for eof() first.
NothingYet(b) ==
  /\ b \in plan.slow /\ thread[b] = At("look")
  /\ Goto(b, At(IF plan.idle = "Pending" THEN "loop" ELSE "eof"))
  /\ UNCHANGED <<streams, rest, late>>

Fail(b) ==
  /\ MayHappen(b) /\ thread[b] = At("look")
  /\ Goto(b, AtPort("drop", 1, 1))
  /\ UNCHANGED <<streams, rest, late>>

\* Where a block goes when everything is moved: a sync block's work() starts
\* over, a source returns Again or, when it is through, EOF, a sink waits.
AfterMove(b) ==
  CASE b \in Syncs   -> At("look")
    [] b \in Sources -> At(IF todo[b] = thread[b].n THEN "drop" ELSE "loop")
    [] b \in Sinks   -> At("wait")

\* consume(n): notify_one() is kept until the writer's task waits.
Consume(b) ==
  /\ thread[b].at = "move" /\ IsIn(b)
  /\ used' = [used EXCEPT ![Port(b)] = @ - thread[b].n]
  /\ notified' = IF Tasks THEN notified \cup {<<Port(b), "w">>} ELSE notified
  /\ Goto(b, NextPort(b, thread[b].n, AfterMove(b)))
  /\ UNCHANGED <<open, rest, late>>

ReaderAt(s, place) == LET r == ReaderOf(s) IN thread[r].at = place /\ Port(r) = s /\ IsIn(r)

\* A task is about to wait for s, or waits, and does not look at s before.
Deaf(s) == Tasks /\ (\/ ReaderAt(s, "wait") \/ ReaderAt(s, "await")
                     \/ ReaderOf(s) \in Sinks /\ ReaderAt(s, "move"))

\* produce(n): notify_waiters() reaches the reader's task if it is waiting, and
\* is lost if it is about to.  A thread checks the buffer under the lock before
\* it sleeps; after its time-out it does not look again.
Produce(b) ==
  /\ thread[b].at = "move" /\ ~IsIn(b)
  /\ used' = [used EXCEPT ![Port(b)] = @ + thread[b].n]
  /\ notified' = IF Tasks /\ ReaderAt(Port(b), "await")
                   THEN notified \cup {<<Port(b), "r">>} ELSE notified
  /\ todo' = [todo EXCEPT ![b] = IF b \in Sources /\ @ > 0 THEN @ - thread[b].n ELSE @]
  /\ Goto(b, NextPort(b, thread[b].n, AfterMove(b)))
  /\ late' = late \cup (IF ReaderAt(Port(b), "count") THEN {<<Port(b), "timed out">>} ELSE {})
                  \cup (IF Deaf(Port(b)) THEN {<<Port(b), "unheard">>} ELSE {})
  /\ UNCHANGED <<plan, open, canceled, main>>

-----------------------------------------------------------------------------
(* BlockRet::WaitForStream(stream, 1)                                      *)

\* The samples that came are going to be looked at after all.
LooksAgain(b) ==
  late' = IF IsIn(b) THEN late \ ({Port(b)} \X {"timed out", "unheard"}) ELSE late

\* A thread sleeps until there is enough, or for 100 ms.
Woken(b) ==
  /\ thread[b].at = "wait" /\ avail(b) > 0
  /\ Goto(b, At("eof"))
  /\ UNCHANGED <<streams, rest, late>>

TimedOut_never_alone(b) ==  \* mutant: only a notify ends a wait
  /\ thread[b].at = "wait" /\ avail(b) = 0 /\ ~closed(b)
  /\ Goto(b, [thread[b] EXCEPT !.at = "count"])
  /\ UNCHANGED <<streams, rest, late>>

TimedOut(b) ==
  /\ thread[b].at = "wait" /\ avail(b) = 0
  /\ Goto(b, [thread[b] EXCEPT !.at = "count"])
  /\ UNCHANGED <<streams, rest, late>>

\* A task has select! register it for the notification, without a look at the
\* buffer.
Await(b) ==
  /\ thread[b].at = "wait"
  /\ Goto(b, [thread[b] EXCEPT !.at = "await"])
  /\ UNCHANGED <<streams, rest, late>>

\* A notification counts as one sample, which is what is needed.
Notified(b) ==
  /\ thread[b].at = "await" /\ End(b) \in notified
  /\ notified' = notified \ {End(b)}
  /\ Goto(b, At("eof"))
  /\ LooksAgain(b)
  /\ UNCHANGED <<used, open, rest>>

\* The sleep of 100 ms is over, which counts as no sample, whatever the buffer
\* has.  If there is a notification as well, select! takes either.
Slept(b) ==
  /\ thread[b].at = "await"
  /\ Goto(b, [thread[b] EXCEPT !.at = "count"])
  /\ notified' = IF IsIn(b) THEN notified \ {End(b)} ELSE notified
  /\ UNCHANGED <<used, open, rest, late>>

Counted_always(b) ==  \* mutant: a time-out is taken for the end
  /\ thread[b].at = "count"
  /\ Goto(b, At("drop"))
  /\ UNCHANGED <<streams, rest, late>>

Counted(b) ==
  /\ thread[b].at = "count"
  /\ Goto(b, At(IF closed(b) THEN "drop" ELSE "eof"))
  /\ IF closed(b) THEN UNCHANGED late ELSE LooksAgain(b)
  /\ UNCHANGED <<streams, rest>>

eof_not_empty(b) ==  \* mutant: closed() for eof()
  Inputs[b] # <<>> /\ \A s \in ToSet(Inputs[b]) : "w" \notin open[s]

\* b.eof() as the macro makes it: every input is at its end; never, if none.
eof(b) == Inputs[b] # <<>> /\ \A s \in ToSet(Inputs[b]) : "w" \notin open[s] /\ used[s] = 0

Eof(b) ==
  /\ thread[b].at = "eof"
  /\ Goto(b, At(IF eof(b) THEN "drop" ELSE "loop"))
  /\ UNCHANGED <<streams, rest, late>>

\* The thread ends and its block is dropped, field by field.
Drop(b) ==
  /\ thread[b].at = "drop"
  /\ open' = [open EXCEPT ![Port(b)] = @ \ {IF IsIn(b) THEN "r" ELSE "w"}]
  /\ Goto(b, NextPort(b, thread[b].n, AtPort("done", 1, thread[b].n)))
  /\ UNCHANGED <<used, notified, rest, late>>

-----------------------------------------------------------------------------
(* run() and run_async()                                                   *)

InMain(pc, k) == [pc |-> pc, k |-> k]
added == plan.added
Newest  == Len(added)

\* Threads are started from the block that was added last, and joined from the
\* first one on.
Spawn ==
  /\ ~Tasks /\ main.pc = "spawn"
  /\ Goto(added[main.k], At("loop"))
  /\ main' = IF main.k > 1 THEN InMain("spawn", main.k - 1) ELSE InMain("join", 1)
  /\ UNCHANGED <<plan, streams, todo, canceled, late>>

\* Tasks are awaited in the order they are started in.
SpawnTask ==
  /\ Tasks /\ main.pc = "spawn"
  /\ Goto(added[main.k], At("loop"))
  /\ main' = IF main.k > 1 THEN InMain("spawn", main.k - 1) ELSE InMain("join", Newest)
  /\ UNCHANGED <<plan, streams, todo, canceled, late>>

\* The block of the thread that does not start is dropped, those that come
\* after it stay where they are; the threads that run are canceled.
SpawnFails ==
  /\ MayHappen("refusal") /\ ~Tasks /\ main.pc = "spawn"
  /\ Goto(added[main.k], At("drop"))
  /\ canceled' = TRUE
  /\ main' = IF main.k = Newest THEN InMain("panicked", 0) ELSE InMain("join", main.k + 1)
  /\ UNCHANGED <<plan, streams, todo, late>>

\* join() returns when the thread has ended; an error in it makes run() panic.
Join ==
  /\ ~Tasks /\ main.pc = "join" /\ thread[added[main.k]].at = "done"
  /\ main' = CASE thread[added[main.k]].n = 1 -> InMain("panicked", 0)
               [] thread[added[main.k]].n # 1 /\ main.k < Newest -> InMain("join", main.k + 1)
               [] OTHER -> InMain("returned", 0)
  /\ UNCHANGED <<plan, streams, thread, todo, canceled, late>>

\* An error in a task is only logged.
JoinTask ==
  /\ Tasks /\ main.pc = "join" /\ thread[added[main.k]].at = "done"
  /\ main' = IF main.k > 1 THEN InMain("join", main.k - 1) ELSE InMain("returned", 0)
  /\ UNCHANGED <<plan, streams, thread, todo, canceled, late>>

Cancel ==
  /\ MayHappen("cancel") /\ ~canceled
  /\ canceled' = TRUE
  /\ UNCHANGED <<plan, streams, thread, todo, main, late>>

-----------------------------------------------------------------------------

Init ==
  /\ plan \in Plans
  /\ used = [s \in Streams |-> 0]
  /\ open = [s \in Streams |-> {"r", "w"}]
  /\ notified = {}
  /\ thread = [b \in Blocks |-> At("unborn")]
  /\ todo \in { t \in Loads : \A b \in Sources :
                  t[b] \in (IF b \in ToSet(added) THEN plan.totals ELSE {Forever}) }
  /\ canceled = FALSE
  /\ main = InMain("spawn", Newest)
  /\ late = {}

Common(b) == \/ Loop(b) \/ Look(b) \/ Consume(b) \/ Produce(b)
             \/ Counted(b) \/ Eof(b) \/ Drop(b)
ThreadStep(b) == Common(b) \/ Woken(b) \/ TimedOut(b)
TaskStep(b)   == Common(b) \/ Await(b) \/ Notified(b) \/ Slept(b)
Step(b) == \/ ~Tasks /\ ThreadStep(b)
           \/ Tasks /\ TaskStep(b)

Run == Spawn \/ SpawnTask \/ Join \/ JoinTask

Next ==
  \/ \E b \in Blocks : Step(b) \/ NothingYet(b) \/ Fail(b)
  \/ Run
  \/ SpawnFails
  \/ Cancel

\* The system schedules every thread and the runtime every task, and a wait is
\* over after 100 ms at the latest.  A slow source that is asked again and again
\* has something in the end.  Nobody has to fail or to cancel.
Fairness == /\ WF_vars(Run)
            /\ \A b \in Blocks : WF_vars(Step(b))
            /\ \A b \in UNION { p.slow : p \in Plans } : SF_vars(Look(b))

Spec == Init /\ [][Next]_vars /\ Fairness

-----------------------------------------------------------------------------
(* Properties                                                              *)

Places == {"unborn", "loop", "look", "move", "wait", "await", "count", "eof", "drop", "done"}

\* In particular what a block moves still fits when it comes to a later port.
TypeOK ==
  /\ \A s \in Streams : used[s] \in 0..Cap[s] /\ open[s] \subseteq {"r", "w"}
  /\ \A b \in Blocks :
       /\ thread[b].at \in Places /\ thread[b].port \in 1..Len(Ports(b))
       /\ thread[b].at = "move" => thread[b].n <= avail(b)
       /\ todo[b] \in Nat \cup {Forever}
  /\ canceled \in BOOLEAN
  /\ notified \subseteq Streams \X {"r", "w"} /\ late \subseteq Streams \X {"timed out", "unheard"}
  /\ main.pc \in {"spawn", "join", "returned", "panicked"}

ended(b) == thread[b].at \in {"drop", "done"}
failed(b) == ended(b) /\ thread[b].n = 1
Disturbed == canceled \/ \E b \in Blocks : failed(b)

\* The block itself and those that lead to it: all that is in every set that has
\* b and the writers of what its blocks read.
Upstream == [b \in Blocks |->
  { c \in Blocks : \A R \in SUBSET Blocks :
      b \in R /\ (\A d \in R : \A s \in ToSet(Inputs[d]) : WriterOf(s) \in R) => c \in R }]
Drained(b) == \A c \in Upstream[b] : /\ c \in Sources => todo[c] = 0
                                    /\ \A s \in ToSet(Inputs[c]) : used[s] = 0

\* doc/writing-a-block.md: "A block is deemed "done" when it will never again
\* produce any output".  The end of the data travels down the graph behind the
\* data: a block only ends when its sources are through and everything that
\* leads to it is empty, so what they produced has reached the sinks.
EndsDrained == ~Disturbed => \A b \in Blocks : ended(b) => Drained(b)

\* The same, but for samples that come when their reader does not look at the
\* buffer any more, with the writer dropped before it looks at the count.
EndsDrainedUnlessLate == late # {} \/ EndsDrained

\* The same, but for one way of that only: the samples come after the time-out.
EndsDrainedUnlessTimedOut == (\E s \in Streams : <<s, "timed out">> \in late) \/ EndsDrained

\* A graph with finite sources comes to its end and run() returns, however the
\* threads and tasks are scheduled, though an end that is dropped notifies
\* nobody, and a notification may be lost.
Finite     == \A b \in Sources \cap ToSet(added) : todo[b] # Forever
Terminates == Finite => <>(main.pc = "returned" \/ Disturbed)

\* After cancel(), a failed start or a failed block no thread goes on for ever,
\* and run() is over: the end of one thread closes streams on both its sides.
Stopped   == /\ \A b \in Blocks : thread[b].at \in {"unborn", "done"}
             /\ main.pc \in {"returned", "panicked"}
DisturbedStops == Disturbed ~> Stopped
=============================================================================
