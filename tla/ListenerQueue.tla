--------------------------- MODULE ListenerQueue ---------------------------
(***************************************************************************)
(* The ListenerQueue of src/src/queues.cpp: the bounded inbound buffer    *)
(* (a std::list) of one Subscriber, ServiceServer or ServiceClient.  One  *)
(* variable holds every ListenerQueue, indexed by Queues.  push, next,    *)
(* pop and empty take the queue's mutex and are one atomic step each;     *)
(* nextById and popById take no lock, and a composing module decides how *)
(* their traversal interleaves with the other threads.                   *)
(***************************************************************************)
EXTENDS Naturals, Sequences, SequencesExt

CONSTANTS
  Queues,   \* the ListenerQueue objects
  Msgs,     \* the Unserializer values that can be pushed; each has an id
  QSize     \* QSize[l]: the queue_size_ given to the constructor (q_size)

ASSUME QSize \in [Queues -> Nat]

VARIABLE listeners

\* One ListenerQueue object (queues.h 120-124): the list q and the orphan flag.
QueueState == [q : Seq(Msgs), orphan : BOOLEAN]

\* Type invariant, with the memory bound of the spec (section 3): the list
\* never holds more than q_size messages once push() returns.
TypeOK ==
  /\ listeners \in [Queues -> QueueState]
  /\ \A l \in Queues : Len(listeners[l].q) <= QSize[l]

\* A freshly constructed ListenerQueue.
NewQueue == [q |-> <<>>, orphan |-> FALSE]

Init == listeners = [l \in Queues |-> NewQueue]

\* Faulty variant of Evict that stops one message above q_size.
EvictKeepsOneMore(s, size) ==
  IF Len(s) > size + 1 THEN SubSeq(s, Len(s) - size, Len(s)) ELSE s

\* The while loop of push(): pop_front until size() <= q_size.
Evict(s, size) == IF Len(s) > size THEN SubSeq(s, Len(s) - size + 1, Len(s)) ELSE s

\* Faulty variant of NextMsg that reads back() instead of front().
NextMsgBack(l) == Last(listeners[l].q)

\* next(): front() of the list; callers check empty() first.
NextMsg(l) == Head(listeners[l].q)

\* empty()
IsEmpty(l) == listeners[l].q = <<>>

(***************************************************************************)
(* The by-id lookups, as pure operators on a list s.                       *)
(***************************************************************************)

\* nextById(id): find_if for the first element with that id; 0 when absent
\* (the empty std::optional).
FindById(s, id) == SelectInSeq(s, LAMBDA e : e.id = id)

\* popById(id) is defined only when an element matches: otherwise
\* remove_if returns end() and erase(end()) is undefined behaviour.
PopByIdDefined(s, id) == FindById(s, id) # 0

\* Faulty variant of PopById whose remove_if predicate is inverted.
PopByIdInverted(s, id) ==
  LET kept == SelectSeq(s, LAMBDA e : e.id = id)
  IN  kept \o SubSeq(s, Len(kept) + 2, Len(s))

\* popById(id): remove_if compacts the non-matching elements to the front
\* and returns the new logical end; the positions from there to the end
\* keep their old values (Unserializer has no move assignment, so the
\* moved-from sources are copies left intact).  erase(iter) then removes
\* the single element at the new end, whatever the number of matches.
PopById(s, id) ==
  LET kept == SelectSeq(s, LAMBDA e : e.id # id)
  IN  kept \o SubSeq(s, Len(kept) + 2, Len(s))

(***************************************************************************)
(* The locked mutating methods.                                            *)
(***************************************************************************)

\* push(msg): push_back, then evict from the front beyond q_size; r is the
\* state of queue l before the call.
AfterPush(l, r, msg) == [r EXCEPT !.q = Evict(Append(@, msg), QSize[l])]

Push(l, msg) == listeners' = [listeners EXCEPT ![l] = AfterPush(l, @, msg)]

\* pop(): pop_front; callers check empty() first.
Pop(l) == listeners' = [listeners EXCEPT ![l].q = Tail(@)]

\* abandon()
Abandon(l) == listeners' = [listeners EXCEPT ![l].orphan = TRUE]
=============================================================================
