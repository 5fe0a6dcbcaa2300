------------------------ MODULE MCMongoConnectionPool ------------------------
(***************************************************************************)
(* MongoConnectionPool for TLC; the configurations give the constants.     *)
(***************************************************************************)
EXTENDS MongoConnectionPool, TLC

\* Threads are interchangeable (for the runs without liveness).
Symmetry == Permutations(Thread)
=============================================================================
