----------------------------- MODULE MCJobQueue -----------------------------
(* Small instances of JobQueue for TLC. *)
EXTENDS JobQueue, TLC

CONSTANTS j1, j2, k1

\* Two jobs of one user, both serialized on the user's key.
SharedKey == (j1 :> k1) @@ (j2 :> k1)

\* One job of a keyed queue and one of an unkeyed one.
MixedKeys == (j1 :> k1) @@ (j2 :> NoKey)

\* A single job on an unkeyed queue.
OneUnkeyed == j1 :> NoKey

\* A single keyed job.
OneKeyed == j1 :> k1

WorkerSymmetry == Permutations(Workers)
=============================================================================
