--------------------------- MODULE MCSessionStore ---------------------------
(* Model values and symmetry for the runs of SessionStore.                 *)
EXTENDS SessionStore, TLC

CONSTANTS i1, i2, n1

\* A name, and a name that equals the ID of the second session.
SharedNames == {n1, i2}

\* The record of a failed start moves to a name another start may have.
ReleaseToPlain == [i \in Ids |-> n1]

Symmetry == Permutations(Clients)
=============================================================================
