---------------------------- MODULE MCRunLifecycle ----------------------------
(* RunLifecycle for TLC: the request threads are interchangeable, so the safety *)
(* runs may identify states that differ only by a permutation of them.          *)
EXTENDS RunLifecycle, TLC

WorkerSymmetry == Permutations(Workers)
===============================================================================
