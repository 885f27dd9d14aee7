---------------------------- MODULE MCRegistries ----------------------------
(* The two registries that find a session, for TLC: the records of exec     *)
(* sessions and the channel endpoint of a Claude session.  They share no    *)
(* state, so a behaviour runs one of the two and leaves the other as it     *)
(* began.                                                                   *)
EXTENDS MCSessionStore, Channel

VARIABLE side  \* the one that runs

BothInit == side \in {"store", "channel"} /\ Init /\ ChannelInit
BothNext ==
  /\ UNCHANGED side
  /\ \/ side = "store" /\ Next /\ UNCHANGED channelVars
     \/ side = "channel" /\ ChannelNext /\ UNCHANGED vars
BothSpec == BothInit /\ [][BothNext]_<<side, vars, channelVars>>

AllSymmetry ==
  Permutations(Clients) \cup Permutations(Server) \cup Permutations(Message)
=============================================================================
