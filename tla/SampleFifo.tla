----------------------------- MODULE SampleFifo -----------------------------
(***************************************************************************)
(* What a stream of samples promises to the two blocks it connects: a      *)
(* bounded first-in first-out queue of samples, each with the list of tags *)
(* its producer attached to it.  Nothing is lost, duplicated, reordered or *)
(* overwritten, and a tag stays with its sample until the sample is taken. *)
(* CircularBuffer implements this with a ring that is mapped twice.        *)
(***************************************************************************)
EXTENDS Integers, Sequences

CONSTANTS
  Cap,           \* capacity of the queue, in samples
  TagsPerSample  \* largest number of tags attached to one sample

VARIABLES
  queue,  \* samples in the stream, oldest first: [val, tags]
  next    \* number of the next sample to enter

fifoVars == <<queue, next>>

\* Sample number i carrying c tags; a tag is known by its sample and its rank.
TaggedSample(i, c) == [val |-> i, tags |-> [k \in 1..c |-> <<i, k>>]]

FifoInit == queue = <<>> /\ next = 0

\* n samples enter together; sample j of them has tagCount[j] tags.
Put(n, tagCount) ==
  /\ Len(queue) + n <= Cap
  /\ queue' = queue \o [j \in 1..n |-> TaggedSample(next + j - 1, tagCount[j - 1])]
  /\ next' = next + n

\* The n oldest samples leave, their tags with them.
Take(n) ==
  /\ n <= Len(queue)
  /\ queue' = SubSeq(queue, n + 1, Len(queue))
  /\ UNCHANGED next

FifoNext ==
  \/ \E n \in 1..Cap : \E tagCount \in [0..(n - 1) -> 0..TagsPerSample] :
       Put(n, tagCount)
  \/ \E n \in 1..Cap : Take(n)

FifoSpec == FifoInit /\ [][FifoNext]_fifoVars
=============================================================================
