----------------------------- MODULE MCCNMAgent -----------------------------
(* Instances of CNMAgent for TLC. *)
EXTENDS CNMAgent, TLC

CONSTANTS e1, e2, c1, c2

\* One container per endpoint.
Apart == (e1 :> c1) @@ (e2 :> c2)

\* One container on two networks; timers fire and calls fail.
Rough == [containerOf |-> [e \in {e1, e2} |-> c1], unsupervised |-> {}, timerFires |-> TRUE,
          pollersExpire |-> FALSE, stops |-> TRUE, faults |-> {"error"}]

\* Pollers expire, and the match of one container always fails.
Expiring == [containerOf |-> Apart, unsupervised |-> {c1}, timerFires |-> FALSE,
             pollersExpire |-> TRUE, stops |-> FALSE, faults |-> {}]

Quiet == [containerOf |-> Apart, unsupervised |-> {}, timerFires |-> FALSE,
          pollersExpire |-> FALSE, stops |-> FALSE, faults |-> {}]

AgentSettings == {Rough, Expiring, Quiet}
=============================================================================
