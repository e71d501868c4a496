---------------------------- MODULE MCRelayQueue ----------------------------
(* Small instances of RelayQueue: one receiver, and a client that retries    *)
(* its first request under the same idempotency key.                         *)
EXTENDS RelayQueue, TLC

CONSTANTS s1, s2, s3, r1, r2, k1, w1, w2

\* One keyed request and its retry.
PairTo == s1 :> r1 @@ s2 :> r1
PairKeyOf == s1 :> k1 @@ s2 :> k1

\* A keyed request, its retry, and an unkeyed request, all to one receiver.
TrioTo == [s \in {s1, s2, s3} |-> r1]
TrioKeyOf == s1 :> k1 @@ s2 :> k1 @@ s3 :> NoKey

\* Two unkeyed requests to one receiver, so that a fetch has a batch to choose.
BatchTo == s1 :> r1 @@ s2 :> r1
BatchKeyOf == s1 :> NoKey @@ s2 :> NoKey

SendSymmetry == Permutations({s1, s2})
WorkerSymmetry == Permutations({w1, w2})
PairSymmetry == SendSymmetry \cup WorkerSymmetry

AgentResponses == {"stored_by_remote_agent", "waiting_approval", "completed", "failed"}

\* Responses past storage only: what moves a task to stored is then an ack.
LaterResponses == {"waiting_approval", "failed"}
=============================================================================
