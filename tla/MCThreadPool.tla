---------------------------- MODULE MCThreadPool ----------------------------
(* Two workers and three tasks: more tasks than workers, and a worker left   *)
(* waiting while the other one runs.                                        *)
EXTENDS ThreadPool
CONSTANTS w1, w2, t1, t2, t3
=============================================================================
