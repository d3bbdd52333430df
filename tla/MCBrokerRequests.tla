-------------------------- MODULE MCBrokerRequests --------------------------
(***************************************************************************)
(* Model checking of BrokerRequests: two threads, so that one may come      *)
(* between the time another read and its transaction; two capabilities, a   *)
(* first call and its retry, each delivered any number of times.            *)
(***************************************************************************)
EXTENDS BrokerRequests, TLC

CONSTANTS s1, s2, w1, w2

\* Threads are interchangeable (not used where liveness is checked).
WorkerSymmetry == Permutations(Workers)
=============================================================================
