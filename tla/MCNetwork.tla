------------------------------ MODULE MCNetwork ------------------------------
(***************************************************************************)
(* The network side of the miner, one part in each behaviour: frames and     *)
(* buffers (NetworkReceive), or how the network comes up (NetworkUp).  The   *)
(* state of the other part stays as it was, and fairness is that of the part *)
(* the behaviour is about.                                                   *)
(***************************************************************************)
EXTENDS NetworkReceive

VARIABLE part

VARIABLES link, server, memory, phy, rx_task, ipTask, hasAddress, downEvent, network_up, watch
upVars == <<link, server, memory, phy, rx_task, ipTask, hasAddress, downEvent, network_up, watch>>

Up == INSTANCE NetworkUp WITH stack <- ipTask

MCInit ==
  /\ part \in {"frames", "up"}
  /\ Init /\ Up!Init
  /\ part = "frames" => link /\ server /\ memory

allVars == <<vars, upVars, part>>

InFrames(A) == part = "frames" /\ A /\ UNCHANGED <<upVars, part>>
InUp(A) == part = "up" /\ A /\ UNCHANGED <<vars, part>>

MCSpec ==
  /\ MCInit
  /\ [][InFrames(Next) \/ InUp(Up!Next)]_allVars
  /\ WF_allVars(InFrames(Receive))
  /\ WF_allVars(InUp(Up!Stack)) /\ WF_allVars(InUp(Up!network_watch))

\* Once cable, server and memory are there for good the network comes up for
\* good, whatever failed before (main.c:29-38, NetworkInterface.c:81, 94-119;
\* NetworkUp).
NetworkComesUp == part = "up" => Up!NetworkComesUp
=============================================================================
