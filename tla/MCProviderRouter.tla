-------------------------- MODULE MCProviderRouter --------------------------
(* Bounds: three requests, one of them with retries, over two providers    *)
(* with breakers of their own that open at the first failure.              *)
EXTENDS ProviderRouter, TLC

CONSTANTS r1, r2, r3, p, q, kp, kq

MCRequests == {r1, r2, r3}
MCProviders == {p, q}
MCListed == <<p, q>>
MCKeyOf == [x \in {p, q} |-> IF x = p THEN kp ELSE kq]
MCRank == [x \in {p, q} |-> IF x = p THEN 2 ELSE 1]
=============================================================================
