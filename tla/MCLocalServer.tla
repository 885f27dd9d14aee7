--------------------------- MODULE MCLocalServer ---------------------------
(* Servers of two builds for the runs of LocalServer.                      *)
EXTENDS LocalServer

CONSTANTS old, new, other, r1, r2, r3
Builds == [s \in Servers |-> IF s = old THEN 1 ELSE IF s = new THEN 2 ELSE 3]
Sinces == [r \in Records |-> IF r = r1 THEN 2 ELSE 1]
Calls == [r \in Records |-> IF r = r2 THEN r1 ELSE None]
=============================================================================
