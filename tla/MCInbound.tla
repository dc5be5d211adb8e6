----------------------------- MODULE MCInbound -----------------------------
(***************************************************************************)
(* Instances of Inbound for TLC: a Subscriber on a topic, a ServiceServer *)
(* and a ServiceClient on services, and two threads calling the client.  *)
(***************************************************************************)
EXTENDS Inbound, TLC

CONSTANTS sub, srv, cli, c1, c2

MCKind == [s \in Sessions |-> CASE s = sub -> "Subscriber"
                                [] s = srv -> "ServiceServer"
                                [] s = cli -> "ServiceClient"]

\* Distinct names, as in the examples.
MCName == [s \in Sessions |-> CASE s = sub -> "/chatter"
                                [] s = srv -> "/add"
                                [] s = cli -> "/get_loggers"]

\* The ServiceServer calling itself through rosbridge: its ServiceClient
\* shares its service name.
MCSharedName == [s \in Sessions |-> IF s = sub THEN "/chatter" ELSE "/add"]

\* Capacity 1 makes every push into a non-empty queue evict; 2 lets two
\* responses wait side by side.
MCQueueSize1 == [s \in Sessions |-> 1]
MCQueueSize2 == [s \in Sessions |-> 2]
(***************************************************************************)
(* The pure algorithms Inbound relies on, checked against reference       *)
(* definitions over bounded inputs: the op codec of op.cpp over every     *)
(* pair of a wire token and an OP, and the by-id lookups of ListenerQueue *)
(* (queues.cpp 100-113) over every list of up to three messages.  Both    *)
(* are constant formulas, which TLC evaluates once; the invariants read   *)
(* them in the states before the first frame.                             *)
(***************************************************************************)

\* The tokens std::to_string writes, tokens rosbridge sends that the client
\* does not implement ("status", "png"), and a wrong-case token.
WireTokens == {OpToString(o) : o \in OPs} \cup {"status", "png", "Publish"}

\* The reference of the protocol: the nine valid OPs and their tokens are
\* in bijection, and every other token decodes to InvalidOp.
ValidTokens == {OpToString(o) : o \in OPs \ {"InvalidOp"}}

\* stringToOP decodes exactly the token std::to_string writes for a valid
\* OP, and InvalidOp for any token that is not one of those.
CodecInverse ==
  \A tok \in WireTokens, op \in OPs :
    StringToOP(tok) = op <=>
      \/ op # "InvalidOp" /\ OpToString(op) = tok
      \/ op = "InvalidOp" /\ tok \notin ValidTokens

\* Two correlation ids and the empty id of a message without "id"; two
\* payloads apart.
Elems == [id : {"c1", "c2", ""}, n : 1 .. 2]

\* The positions whose correlation id matches.
Matches(s, x) == {i \in 1 .. Len(s) : s[i].id = x}

\* When exactly one message carries the id (spec 4.3), nextById returns it
\* and popById removes exactly it, keeping the others in their order.
PopByIdUnique ==
  \A q \in BoundedSeq(Elems, 3), id \in {"c1", "c2"} :
    Cardinality(Matches(q, id)) = 1 =>
      LET i == CHOOSE j \in Matches(q, id) : TRUE
      IN  /\ LQ!PopByIdDefined(q, id)
          /\ q[LQ!FindById(q, id)] = q[i]
          /\ LQ!PopById(q, id) = RemoveAt(q, i)

\* stringToOP (op.cpp), with which listen() decodes every frame, inverts
\* std::to_string over every wire token and OP.
DecodeInvertsEncode == inCount = 0 => CodecInverse

\* nextById finds and popById (queues.cpp 100-113) removes exactly the
\* unique message with the id, over every list of up to three messages.
PopByIdRemovesUnique == inCount = 0 => PopByIdUnique

=============================================================================
