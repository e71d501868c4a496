-------------------------- MODULE MCRelayDelivery ---------------------------
(* Small instances of RelayDelivery: one receiver, two overlapping polls.    *)
EXTENDS RelayDelivery, TLC

CONSTANTS s1, s2, r1, p1, p2, w1, w2

ToOne == [c \in Sends |-> r1]
Unkeyed == [c \in Sends |-> NoKey]
OneOwner == [p \in Polls |-> r1]

AgentResponses == {"stored_by_remote_agent", "failed"}

PollSymmetry == Permutations({p1, p2})
=============================================================================
