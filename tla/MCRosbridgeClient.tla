------------------------- MODULE MCRosbridgeClient -------------------------
(***************************************************************************)
(* Model-checking instance of RosbridgeClient: one session of each class. *)
(***************************************************************************)
EXTENDS RosbridgeClient, TLC

CONSTANTS pub, sub, srv, cli   \* model values for the four sessions

MCKind ==
  [s \in Sessions |-> CASE s = pub -> "Publisher"  [] s = sub -> "Subscriber"
                       [] s = srv -> "ServiceServer" [] s = cli -> "ServiceClient"]

\* Capacity 1 for the Publisher (its default queue_size_), so that its
\* teardown evicts an unsent publish; capacity 2 for the others, so that a
\* backlog of two messages builds up in one queue.
MCQueueSize == [s \in Sessions |-> IF s = pub THEN 1 ELSE 2]
=============================================================================
