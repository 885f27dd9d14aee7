---------------------------- MODULE MCAgentTurns ----------------------------
(* Who may run what in the runs of AgentTurns.                             *)
EXTENDS AgentTurns, TLC

CONSTANTS p1, p2, p3, p4

\* A start or a resume that detaches or not, its worker, and any command.
TurnAndAny == (p1 :> {"start", "startd", "resume", "resumed"}) @@ (p2 :> {"worker"})
              @@ (p3 :> {"resume", "stop", "rate", "delete", "wait"})

DetachedStart  == (p1 :> {"startd"}) @@ (p2 :> {"worker"}) @@ (p3 :> {"wait"})
PlainStart     == (p1 :> {"start"}) @@ (p2 :> {"wait"})
TwoResumes     == (p1 :> {"resume"}) @@ (p2 :> {"resume"})
=============================================================================
