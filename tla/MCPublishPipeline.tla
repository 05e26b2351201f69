------------------------- MODULE MCPublishPipeline -------------------------
(* Model-checking instance of PublishPipeline: two connections of one key,  *)
(* statuses with an older and a newer timestamp, a packet, and messages the *)
(* policy refuses with and without closing the connection.                  *)
EXTENDS PublishPipeline

CONSTANTS a1, a2, ka

MCKeyOf == [c \in Observers |-> ka]
MCUserOf == [c \in {} |-> ka]
MCMax == [u \in {} |-> 0]

Message(owned, ts) == [owned |-> owned, stale |-> "close", ts |-> ts]
MCMessages == {Message("allow", 1), Message("allow", 2), Message("allow", NoTimestamp),
               Message("deny", NoTimestamp), Message("close", NoTimestamp)}
============================================================================
