---------------------------- MODULE TalkerQueue ----------------------------
(***************************************************************************)
(* The TalkerQueue of src/src/queues.cpp: a bounded outbound buffer with a *)
(* "head" message (advertise, subscribe, ...) that is handed out again     *)
(* after every reset().  One variable holds every TalkerQueue of the       *)
(* process, indexed by Queues.  Every method takes the queue's own mutex,  *)
(* so each operation below is one atomic step; a composing module strings *)
(* them together the way the calling threads do.                           *)
(***************************************************************************)
EXTENDS Naturals, Sequences

CONSTANTS
  Queues,   \* the TalkerQueue objects
  Msgs,     \* the messages that can be pushed (Serializer values)
  QSize,    \* QSize[t]: the queue_size_ given to the constructor (q_size)
  HeadMsg   \* HeadMsg[t]: the head_msg given to the constructor

ASSUME QSize \in [Queues -> Nat]

VARIABLE talkers

\* One TalkerQueue object (queues.h 74-80): q_size and head_msg are the
\* constants above; head_popped, the std::queue q and the orphan flag vary.
QueueState == [head_popped : BOOLEAN, q : Seq(Msgs), orphan : BOOLEAN]

\* Type invariant, with the memory bound of the spec (section 3): the body
\* of a queue never exceeds its capacity once push() returns.
TypeOK ==
  /\ talkers \in [Queues -> QueueState]
  /\ \A t \in Queues : Len(talkers[t].q) <= QSize[t]

\* A freshly constructed TalkerQueue.
NewQueue == [head_popped |-> FALSE, q |-> <<>>, orphan |-> FALSE]

Init == talkers = [t \in Queues |-> NewQueue]

\* Faulty variant of Evict that leaves one message above q_size.
EvictKeepsOneMore(s, size) ==
  IF Len(s) > size + 1 THEN SubSeq(s, Len(s) - size, Len(s)) ELSE s

\* The while loop of push(): drop the front until size() <= q_size.
Evict(s, size) == IF Len(s) > size THEN SubSeq(s, Len(s) - size + 1, Len(s)) ELSE s

(***************************************************************************)
(* The value-level methods: what each call returns or leaves behind.       *)
(***************************************************************************)

\* next(): the head until it has been popped since the last reset, then the
\* front of the body.  Reading front() of an empty std::queue is undefined;
\* callers only call next() after empty() returned false.
NextMsg(t) == IF talkers[t].head_popped THEN Head(talkers[t].q) ELSE HeadMsg[t]

\* empty(): head already popped and the body empty.
IsEmpty(t) == talkers[t].head_popped /\ talkers[t].q = <<>>

IsOrphan(t) == talkers[t].orphan

(***************************************************************************)
(* The mutating methods: r is the state of queue t before the call, the    *)
(* result its state after.                                                 *)
(***************************************************************************)

\* push(msg): append, then evict the oldest body entries beyond q_size.
AfterPush(t, r, msg) == [r EXCEPT !.q = Evict(Append(@, msg), QSize[t])]

\* pop(): the first call after construction or reset() only marks the head
\* as sent; later calls remove the front of the body.
AfterPop(r) ==
  IF r.head_popped THEN [r EXCEPT !.q = Tail(@)] ELSE [r EXCEPT !.head_popped = TRUE]

\* reset(): hand the head out again on the next next().
AfterReset(r) == [r EXCEPT !.head_popped = FALSE]

\* abandon(): mark the queue orphan.
AfterAbandon(r) == [r EXCEPT !.orphan = TRUE]

Push(t, msg) == talkers' = [talkers EXCEPT ![t] = AfterPush(t, @, msg)]
Pop(t)       == talkers' = [talkers EXCEPT ![t] = AfterPop(@)]
Reset(t)     == talkers' = [talkers EXCEPT ![t] = AfterReset(@)]
Abandon(t)   == talkers' = [talkers EXCEPT ![t] = AfterAbandon(@)]

\* The queue used on its own by one producer and one consumer.
Next ==
  \E t \in Queues :
    \/ \E m \in Msgs : Push(t, m)
    \/ ~IsEmpty(t) /\ Pop(t)
    \/ Reset(t)
    \/ Abandon(t)

Spec == Init /\ [][Next]_talkers
=============================================================================
