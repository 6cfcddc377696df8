-------------------------- MODULE TimelineCommitMC --------------------------
(* Instances of TimelineCommit for TLC.  Each behaviour has one of two       *)
(* groups of requests; those of the other group have failed before.          *)
EXTENDS TimelineCommit, TLC

CONSTANTS r1, r2, r3, r4, r5, q1, q2, q3, q4, c1, c2, k1, k2, f1

(* A client's retry on the wire, a server message sent twice and a revoke.   *)
Wire == {r1, r2, r3, r4, r5}

(* A submit retried, and three wire messages that attach one file: under a   *)
(* key, without a key in another channel, and from a sender who did not      *)
(* upload it.                                                                *)
Mixed == {q1, q2, r1, q3, q4}

MCPath == r1 :> "wire" @@ r2 :> "wire" @@ r3 :> "server" @@ r4 :> "event" @@ r5 :> "server"
          @@ q1 :> "submit" @@ q2 :> "submit" @@ q3 :> "wire" @@ q4 :> "wire"
MCChan == [r \in Reqs |-> IF r = q3 THEN c2 ELSE c1]
MCKey == r1 :> k1 @@ r2 :> k1 @@ r3 :> k2 @@ r4 :> None @@ r5 :> k2
         @@ q1 :> k1 @@ q2 :> k1 @@ q3 :> None @@ q4 :> None
MCFile == [r \in Reqs |-> IF r \in {r1, r2, q3, q4} THEN f1 ELSE None]

GroupInit ==
    /\ currentPts = [c \in Channels |-> 0] /\ head = [c \in Channels |-> 0]
    /\ commitLog = {} /\ refused = {} /\ swept = {}
    /\ dedup = [k \in Keys |-> None] /\ registry = [k \in Keys |-> None]
    /\ boundTo = [f \in Files |-> None]
    /\ alloc = [r \in Reqs |-> 0]
    /\ \E G \in {Wire, Mixed} :
         /\ pc = [r \in Reqs |-> IF r \in G THEN "idle" ELSE "done"]
         /\ answer = [r \in Reqs |-> IF r \in G THEN None ELSE "error"]

GroupSpec == GroupInit /\ [][Next]_vars /\ Fairness

(* A submit with an attachment and its retry. *)
MCRetryPath == [r \in Reqs |-> "submit"]
MCRetryChan == [r \in Reqs |-> c1]
MCRetryKey == [r \in Reqs |-> k1]
MCRetryFile == [r \in Reqs |-> f1]
=============================================================================
