---------------------------- MODULE MCPiInstall ----------------------------
(* Three builds of the package for the runs of PiInstall.                  *)
EXTENDS PiInstall

CONSTANTS d1, d2, a1, a2, b1, b2, m1

\* The second build changes one dependency and no longer ships the other,
\* the third ships it again.
Ships(a, b) == [p \in Paths |-> IF p = d1 THEN a ELSE IF p = d2 THEN b ELSE m1]
Builds == [v \in 1..3 |-> CASE v = 1 -> Ships(a1, b1)
                             [] v = 2 -> Ships(a2, None)
                             [] v = 3 -> Ships(a2, b2)]
=============================================================================
