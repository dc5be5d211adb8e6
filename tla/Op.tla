--------------------------------- MODULE Op ---------------------------------
(***************************************************************************)
(* The operation taxonomy of src/include/rosbridge_client_cpp/op.h and    *)
(* src/src/op.cpp: the OP enum, its wire tokens (std::to_string), the     *)
(* decoding of a token (stringToOP) and the two classifiers that decide   *)
(* which field of a message names its destination.                        *)
(***************************************************************************)

\* The enumerators of enum class OP.
TopicOPs   == {"TopicAdvertiseOp", "TopicUnadvertiseOp", "TopicSubscribeOp",
               "TopicUnsubscribeOp", "TopicPublishOp"}
ServiceOPs == {"ServiceAdvertiseOp", "ServiceUnadvertiseOp", "ServiceCallOp",
               "ServiceResponseOp"}
OPs == TopicOPs \cup ServiceOPs \cup {"InvalidOp"}

\* std::to_string(OP): the token written in the "op" field.
OpToString(op) ==
  CASE op = "ServiceAdvertiseOp"   -> "advertise_service"
    [] op = "ServiceUnadvertiseOp" -> "unadvertise_service"
    [] op = "ServiceCallOp"        -> "call_service"
    [] op = "ServiceResponseOp"    -> "service_response"
    [] op = "TopicAdvertiseOp"     -> "advertise"
    [] op = "TopicUnadvertiseOp"   -> "unadvertise"
    [] op = "TopicSubscribeOp"     -> "subscribe"
    [] op = "TopicUnsubscribeOp"   -> "unsubscribe"
    [] op = "TopicPublishOp"       -> "publish"
    [] op = "InvalidOp"            -> "_"

\* Faulty variant of Decoded whose if-else chain lacks the "unsubscribe" arm.
DecodedNoUnsubscribe ==
           [advertise_service   |-> "ServiceAdvertiseOp",
            unadvertise_service |-> "ServiceUnadvertiseOp",
            call_service        |-> "ServiceCallOp",
            service_response    |-> "ServiceResponseOp",
            advertise           |-> "TopicAdvertiseOp",
            unadvertise         |-> "TopicUnadvertiseOp",
            publish             |-> "TopicPublishOp",
            subscribe           |-> "TopicSubscribeOp"]

\* The tokens stringToOP recognises, each with its enumerator.
Decoded == [advertise_service   |-> "ServiceAdvertiseOp",
            unadvertise_service |-> "ServiceUnadvertiseOp",
            call_service        |-> "ServiceCallOp",
            service_response    |-> "ServiceResponseOp",
            advertise           |-> "TopicAdvertiseOp",
            unadvertise         |-> "TopicUnadvertiseOp",
            publish             |-> "TopicPublishOp",
            subscribe           |-> "TopicSubscribeOp",
            unsubscribe         |-> "TopicUnsubscribeOp"]

\* stringToOP: the if-else chain over the nine tokens, InvalidOp otherwise.
StringToOP(tok) == IF tok \in DOMAIN Decoded THEN Decoded[tok] ELSE "InvalidOp"

\* isTopicOP / isServiceOP: membership in the two static sets.
IsTopicOP(op)   == op \in TopicOPs
IsServiceOP(op) == op \in ServiceOPs
=============================================================================
