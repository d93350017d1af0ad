------------------------------- MODULE Stream -------------------------------
(***************************************************************************)
(* WriteStream and ReadStream of src/stream.rs: the two ends of a stream   *)
(* and what each of the two blocks that own them can learn about the       *)
(* other.  The ends and the windows are references to one Arc; an end      *)
(* knows that the other was dropped when the reference count is 1.         *)
(* Waiting looks at the buffer under its lock and at the count after       *)
(* unlocking, so produce(), consume() and a drop can come in between.      *)
(*                                                                         *)
(* What the buffer does with samples and tags is in CircularBuffer; here   *)
(* only their number counts.                                               *)
(***************************************************************************)
EXTENDS Integers, FiniteSets

CONSTANTS
  Cap,        \* capacity of the buffer, in samples
  ReadWaits,  \* the calls by which the reading block waits
  WriteWaits  \* the calls by which the writing block waits

ASSUME StreamAssumption ==
  /\ Cap \in Nat \ {0}
  /\ ReadWaits \subseteq {"wait", "wait_async"}
  /\ WriteWaits \subseteq {"wait", "wait_async"}

VARIABLES
  used,      \* samples in the buffer
  open,      \* the ends that were not dropped
  window,    \* length of the window an end's block holds, or NoWindow
  call,      \* the call an end's block is in
  notified   \* the Notify of an end (acvr, acvw) would complete its notified()

vars == <<used, open, window, call, notified>>

Ends     == {"reader", "writer"}
NoWindow == -1
Idle     == [op |-> "idle", need |-> 0]
In(op, need) == [op |-> op, need |-> need]

other(e) == CHOOSE o \in Ends : o # e

-----------------------------------------------------------------------------

have_all(e) == IF e = "reader" THEN used ELSE Cap  \* mutant: capacity for free space

\* What an end waits for: samples to read, space to write.
have(e) == IF e = "reader" THEN used ELSE Cap - used

\* Arc::strong_count(&self.circ)
refcount == Cardinality(open) + Cardinality({e \in Ends : window[e] # NoWindow})

Ready(e) == e \in open /\ call[e] = Idle

\* read_buf() and write_buf().  Their own check of the reference count, fewer
\* than four, cannot fail: at most the other block holds a window.
TakeWindow(e) ==
  /\ Ready(e) /\ window[e] = NoWindow
  /\ window' = [window EXCEPT ![e] = have(e)]
  /\ UNCHANGED <<used, open, call, notified>>

DropWindow(e) ==
  /\ window[e] # NoWindow
  /\ window' = [window EXCEPT ![e] = NoWindow]
  /\ UNCHANGED <<used, open, call, notified>>

\* acvr.notify_waiters(): only a reader that is in the call is notified.
Produce(n) ==
  /\ n <= window["writer"]
  /\ used' = used + n
  /\ window' = [window EXCEPT !["writer"] = NoWindow]
  /\ notified' = [notified EXCEPT !["reader"] = @ \/ call["reader"].op = "wait_async"]
  /\ UNCHANGED <<open, call>>

\* acvw.notify_one(): kept for the next call if nobody waits.
Consume(n) ==
  /\ n <= window["reader"]
  /\ used' = used - n
  /\ window' = [window EXCEPT !["reader"] = NoWindow]
  /\ notified' = [notified EXCEPT !["writer"] = TRUE]
  /\ UNCHANGED <<open, call>>

-----------------------------------------------------------------------------
(* wait(need) of either end, wait_for_read() and wait_for_write(); and the *)
(* same calls of the async graph.                                          *)

Wait(e, op, need) ==
  /\ Ready(e) /\ window[e] = NoWindow
  /\ op \in IF e = "reader" THEN ReadWaits ELSE WriteWaits
  /\ call' = [call EXCEPT ![e] = In(op, need)]
  /\ UNCHANGED <<used, open, window, notified>>

\* The condition variable wakes the thread and the lock shows enough.
Woken(e) ==
  /\ call[e].op = "wait" /\ have(e) >= call[e].need
  /\ call' = [call EXCEPT ![e] = Idle]
  /\ UNCHANGED <<used, open, window, notified>>

TimedOut_if_open(e) ==  \* mutant: the wait goes on until the other end notifies
  /\ call[e].op = "wait" /\ have(e) < call[e].need /\ other(e) \in open
  /\ call' = [call EXCEPT ![e].op = "count"]
  /\ UNCHANGED <<used, open, window, notified>>

\* SYNC_SLEEP_TIME has passed, there is not enough, and the lock is released.
TimedOut(e) ==
  /\ call[e].op = "wait" /\ have(e) < call[e].need
  /\ call' = [call EXCEPT ![e].op = "count"]
  /\ UNCHANGED <<used, open, window, notified>>

\* notified() completes with 1, which is compared with need as if it were the
\* number of samples or of free slots.
Notified(e) ==
  /\ call[e].op = "wait_async" /\ notified[e]
  /\ notified' = [notified EXCEPT ![e] = FALSE]
  /\ call' = [call EXCEPT ![e] = IF 1 < call[e].need THEN In("count", call[e].need) ELSE Idle]
  /\ UNCHANGED <<used, open, window>>

\* ASYNC_SLEEP_TIME has passed; the answer is 0 whatever the buffer holds.
\* A registered waiter of notify_waiters() is forgotten, a permit is not.
Slept(e) ==
  /\ call[e].op = "wait_async"
  /\ call' = [call EXCEPT ![e].op = "count"]
  /\ notified' = [notified EXCEPT !["reader"] = IF e = "reader" THEN FALSE ELSE @]
  /\ UNCHANGED <<used, open, window>>

Counted_one_more(e) ==  \* mutant: the other end's own reference is allowed for
  /\ call[e].op = "count"
  /\ call' = [call EXCEPT ![e] = IF refcount <= 2 THEN In("never", @.need) ELSE Idle]
  /\ UNCHANGED <<used, open, window, notified>>

Counted(e) ==
  /\ call[e].op = "count"
  /\ call' = [call EXCEPT ![e] = IF refcount = 1 THEN In("never", @.need) ELSE Idle]
  /\ UNCHANGED <<used, open, window, notified>>

-----------------------------------------------------------------------------
(* ReadStream::eof(): the count first, then the buffer.                    *)

Eof_one_more ==  \* mutant: as above
  /\ Ready("reader") /\ window["reader"] = NoWindow
  /\ refcount <= 2
  /\ call' = [call EXCEPT !["reader"] = In("eof_empty", 0)]
  /\ UNCHANGED <<used, open, window, notified>>

Eof ==
  /\ Ready("reader") /\ window["reader"] = NoWindow
  /\ refcount = 1
  /\ call' = [call EXCEPT !["reader"] = In("eof_empty", 0)]
  /\ UNCHANGED <<used, open, window, notified>>

EofEmpty ==
  /\ call["reader"].op = "eof_empty"
  /\ call' = [call EXCEPT !["reader"] = IF used = 0 THEN In("eof", 0) ELSE Idle]
  /\ UNCHANGED <<used, open, window, notified>>

\* The block is dropped, with its end of the stream: at any time it is not in
\* a call, or because a call told it that there is nothing more to do.
Close(e) ==
  /\ e \in open /\ window[e] = NoWindow
  /\ call[e].op \in {"idle", "never", "eof"}
  /\ open' = open \ {e}
  /\ call' = [call EXCEPT ![e] = Idle]
  /\ UNCHANGED <<used, window, notified>>

-----------------------------------------------------------------------------

Init ==
  /\ used = 0
  /\ open = Ends
  /\ window = [e \in Ends |-> NoWindow]
  /\ call = [e \in Ends |-> Idle]
  /\ notified = [e \in Ends |-> FALSE]

CallStep(e) == Woken(e) \/ TimedOut(e) \/ Notified(e) \/ Slept(e) \/ Counted(e)

Next ==
  \/ \E n \in 1..Cap : Produce(n)
  \/ \E n \in 0..Cap : Consume(n)
  \/ Eof
  \/ EofEmpty
  \/ \E e \in Ends :
       \/ TakeWindow(e)
       \/ DropWindow(e)
       \/ \E op \in {"wait", "wait_async"}, need \in 1..Cap : Wait(e, op, need)
       \/ CallStep(e)
       \/ Close(e)

\* A thread in a call returns from it: it takes a step within the sleep time.
Fairness == \A e \in Ends : WF_vars(CallStep(e))

Spec == Init /\ [][Next]_vars /\ Fairness

-----------------------------------------------------------------------------
(* Properties                                                              *)

Calls == [op : {"idle", "wait", "wait_async", "count", "never", "eof_empty", "eof"},
          need : 0..Cap]

\* Samples fit the buffer, windows fit what is in it, calls are those above.
TypeOK ==
  /\ used \in 0..Cap
  /\ open \subseteq Ends
  /\ window \in [Ends -> NoWindow..Cap]
  /\ \A e \in Ends : window[e] <= have(e)
  /\ call \in [Ends -> Calls]
  /\ notified \in [Ends -> BOOLEAN]

\* ReadStream::eof() says "there is nothing more ever to read from the stream":
\* whatever happened between its two reads, nothing is there and nothing comes.
EofMeansEmpty == call["reader"].op = "eof" => used = 0 /\ "writer" \notin open

\* wait() returns true only when the block at the other end is gone: a window
\* that is given up or a slow block is never taken for a closed stream.
NeverMeansClosed == \A e \in Ends : call[e].op = "never" => other(e) \notin open

\* Dropping an end notifies nobody, yet a block that waits for the other end in
\* vain is told so: the sleep times out and the count is looked at.
Vain(e) == /\ call[e].op \in {"wait", "wait_async"}
           /\ ~notified[e]
           /\ other(e) \notin open
           /\ have(e) < call[e].need
ToldWhenClosed == \A e \in Ends : Vain(e) ~> call[e].op = "never"
=============================================================================
