------------------------------ MODULE NCStream ------------------------------
(***************************************************************************)
(* NCWriteStream and NCReadStream of src/stream.rs: a queue of packets     *)
(* (or other values that are moved, not copied) between two blocks.        *)
(* As for Stream, an end is known to be dropped by the reference count;    *)
(* but here wait() still holds the lock when it reads the count, and it is *)
(* eof() that reads the two things apart.                                  *)
(*                                                                         *)
(* A packet is its size; the numbers of packets sent and popped, which the *)
(* program does not keep, are left out: the queue shows their order.       *)
(***************************************************************************)
EXTENDS Integers, Sequences, FiniteSets

CONSTANTS
  Capacity,   \* NCInner::capacity
  Sizes,      \* sizes of packets
  PushLimit,  \* bound: length to which a block that does not check fills the queue
  ReadWaits   \* the calls by which the reading block waits

ASSUME NCStreamAssumption ==
  /\ Capacity \in Nat \ {0}
  /\ PushLimit \in Nat
  /\ ReadWaits \subseteq {"wait", "wait_async"}

VARIABLES
  queue,     \* VecDeque of the sizes of the packets
  lock,      \* the mutex: "free", or "reader" between the two reads of wait()
  open,      \* the ends that were not dropped
  checks,    \* the writing block calls remaining() before every push
  room,      \* what remaining() told the writing block, or Unknown
  peeked,    \* what peek_size() told the reading block, or Unknown
  popped,    \* size of the packet pop() returned last, or Unknown
  call       \* the call the reading block is in

vars == <<queue, lock, open, checks, room, peeked, popped, call>>

Unknown == -1
Idle    == [op |-> "idle", need |-> 0]
In(op, need) == [op |-> op, need |-> need]

\* Arc::strong_count(&self.inner)
refcount == Cardinality(open)

Reading == "reader" \in open /\ call = Idle /\ lock = "free"
Writing == "writer" \in open /\ lock = "free"

-----------------------------------------------------------------------------
(* The writing block.                                                      *)

Remaining_stale == Capacity  \* mutant: the queue is taken to be empty

\* usize subtraction: more than the capacity in the queue is an underflow.
Remaining == Capacity - Len(queue)

CallRemaining ==
  /\ checks /\ Writing
  /\ room' = Remaining
  /\ UNCHANGED <<queue, lock, open, peeked, popped, call, checks>>

\* push() does not look at the capacity; a block that does has just called
\* remaining(), and one that is full waits for the stream instead.
Push(size) ==
  /\ Writing
  /\ IF checks THEN room > 0 ELSE Len(queue) < PushLimit
  /\ queue' = Append(queue, size)
  /\ room' = Unknown
  /\ UNCHANGED <<lock, open, peeked, popped, call, checks>>

DropWriter ==
  /\ "writer" \in open
  /\ open' = open \ {"writer"}
  /\ UNCHANGED <<queue, lock, room, peeked, popped, call, checks>>

-----------------------------------------------------------------------------
(* The reading block.                                                      *)

PeekSize ==
  /\ Reading
  /\ peeked' = IF queue = <<>> THEN Unknown ELSE Head(queue)
  /\ popped' = Unknown
  /\ UNCHANGED <<queue, lock, open, room, call, checks>>

Pop_last ==  \* mutant: pop_back()
  /\ Reading /\ queue # <<>>
  /\ popped' = queue[Len(queue)]
  /\ queue' = SubSeq(queue, 1, Len(queue) - 1)
  /\ peeked' = IF popped = Unknown THEN peeked ELSE Unknown
  /\ UNCHANGED <<lock, open, room, call, checks>>

\* The answer of peek_size() is about the first pop() after it.
Pop ==
  /\ Reading /\ queue # <<>>
  /\ popped' = Head(queue)
  /\ queue' = Tail(queue)
  /\ peeked' = IF popped = Unknown THEN peeked ELSE Unknown
  /\ UNCHANGED <<lock, open, room, call, checks>>

Wait(op, need) ==
  /\ Reading /\ op \in ReadWaits
  /\ call' = IF op = "wait_async" /\ Len(queue) >= need THEN Idle ELSE In(op, need)
  /\ UNCHANGED <<queue, lock, open, room, peeked, popped, checks>>

\* Both kinds of wait return false when there is enough.
Woken ==
  /\ call.op \in {"wait", "wait_async"} /\ lock = "free"
  /\ Len(queue) >= call.need
  /\ call' = Idle
  /\ UNCHANGED <<queue, lock, open, room, peeked, popped, checks>>

TimedOut_unlocks ==  \* mutant: the guard is dropped before the count is read
  /\ call.op \in {"wait", "wait_async"} /\ lock = "free"
  /\ Len(queue) < call.need
  /\ call' = In("count", call.need)
  /\ UNCHANGED <<queue, lock, open, room, peeked, popped, checks>>

TimedOut_if_open ==  \* mutant: the wait goes on until the other end notifies
  /\ call.op \in {"wait", "wait_async"} /\ lock = "free"
  /\ Len(queue) < call.need /\ "writer" \in open
  /\ lock' = IF call.op = "wait" THEN "reader" ELSE "free"
  /\ call' = In("count", call.need)
  /\ UNCHANGED <<queue, open, room, peeked, popped, checks>>

\* 100 ms have passed.  wait() keeps the lock until it has read the count;
\* wait_async() does not, its guard lives only while the length is compared.
TimedOut ==
  /\ call.op \in {"wait", "wait_async"} /\ lock = "free"
  /\ Len(queue) < call.need
  /\ lock' = IF call.op = "wait" THEN "reader" ELSE "free"
  /\ call' = In("count", call.need)
  /\ UNCHANGED <<queue, open, room, peeked, popped, checks>>

Counted ==
  /\ call.op = "count"
  /\ call' = IF refcount = 1 THEN In("never", call.need) ELSE Idle
  /\ lock' = "free"
  /\ UNCHANGED <<queue, open, room, peeked, popped, checks>>

\* eof(): the queue first, then the count.
Eof ==
  /\ Reading /\ queue = <<>>
  /\ call' = In("eof_count", 0)
  /\ UNCHANGED <<queue, lock, open, room, peeked, popped, checks>>

EofCount ==
  /\ call.op = "eof_count"
  /\ call' = IF refcount = 1 THEN In("eof", 0) ELSE Idle
  /\ UNCHANGED <<queue, lock, open, room, peeked, popped, checks>>

DropReader ==
  /\ "reader" \in open /\ call.op \in {"idle", "never", "eof"}
  /\ open' = open \ {"reader"}
  /\ call' = Idle
  /\ UNCHANGED <<queue, lock, room, peeked, popped, checks>>

-----------------------------------------------------------------------------

Init ==
  /\ queue = <<>>
  /\ lock = "free"
  /\ open = {"reader", "writer"}
  /\ checks \in BOOLEAN
  /\ room = Unknown /\ peeked = Unknown /\ popped = Unknown
  /\ call = Idle

CallStep == Woken \/ TimedOut \/ Counted

Next ==
  \/ CallRemaining
  \/ \E size \in Sizes : Push(size)
  \/ DropWriter
  \/ PeekSize \/ Pop
  \/ \E op \in ReadWaits, need \in 1..Capacity : Wait(op, need)
  \/ CallStep
  \/ Eof \/ EofCount
  \/ DropReader

\* A reader in a wait takes a step when its 100 ms have passed.
Spec == Init /\ [][Next]_vars /\ WF_vars(CallStep)

-----------------------------------------------------------------------------
(* Properties                                                              *)

Calls == [op : {"idle", "wait", "wait_async", "count", "never", "eof_count", "eof"},
          need : 0..Capacity]

\* The shape of NCInner and of the two blocks' knowledge; in particular the
\* subtraction in remaining() does not underflow for a block that checks.
TypeOK ==
  /\ queue \in Seq(Sizes)
  /\ checks => Len(queue) <= Capacity
  /\ lock \in {"free", "reader"}
  /\ open \subseteq {"reader", "writer"}
  /\ checks \in BOOLEAN /\ room \in Unknown..Capacity
  /\ peeked \in Sizes \cup {Unknown} /\ popped \in Sizes \cup {Unknown}
  /\ call \in Calls

\* A block that peeks sizes its buffers by the answer: the packet it pops next
\* is the one it peeked at, whatever was pushed in between.
PoppedIsPeeked == popped # Unknown /\ peeked # Unknown => popped = peeked

\* StreamWait::wait(): "Return true if `need` will *never* be satisfied".
NeverMeansNever ==
  call.op = "never" => "writer" \notin open /\ Len(queue) < call.need

\* NCReadStream::eof(): "Return true if there is nothing more ever to read from
\* the stream."
EofMeansEmpty == call.op = "eof" => "writer" \notin open /\ queue = <<>>

\* push() notifies the reader and a drop does not; a reader that waits in vain
\* is told that the writer is gone by the time-out.
ToldWhenClosed ==
  (call.op = "wait" /\ "writer" \notin open /\ Len(queue) < call.need) ~> call.op = "never"
=============================================================================
