------------------------------ MODULE NetworkUp ------------------------------
(***************************************************************************)
(* How the miner gets onto the network: the driver's initialisation and link *)
(* status (NetworkInterface.c), the stack's event hook and network_watch     *)
(* (main.c).  The TCP/IP stack is external and is modelled from how this     *)
(* code uses it: its task handles a "network down" event by initialising the *)
(* driver, again and again until that succeeds, and then asks for an         *)
(* address; with the address, or without one when it gives up, it calls the  *)
(* hook with "network up".                                                   *)
(***************************************************************************)
EXTENDS Naturals

VARIABLES link, server, memory,   \* the cable, the DHCP server and the heap, any time
          phy, rx_task,           \* the driver: the PHY was found, the task was created
          stack, hasAddress,      \* the stack
          downEvent,              \* a "network down" event waits for the stack's task
          network_up,
          watch                   \* network_watch: "sleep", "asked", "retry"
world == <<link, server, memory>>
vars == <<world, phy, rx_task, stack, hasAddress, downEvent, network_up, watch>>

Init ==
  /\ link \in BOOLEAN /\ server \in BOOLEAN /\ memory \in BOOLEAN
  /\ phy = FALSE /\ rx_task = FALSE
  /\ stack = "down" /\ hasAddress = FALSE /\ downEvent = TRUE
  /\ network_up = FALSE
  /\ watch = "sleep"

Change ==
  /\ \E l, s, m \in BOOLEAN : link' = l /\ server' = s /\ memory' = m
  /\ UNCHANGED <<phy, rx_task, stack, hasAddress, downEvent, network_up, watch>>
-----------------------------------------------------------------------------
(* The driver and the hook.                                                 *)

\* Without a PHY that answers traffic is allowed.
link_status(found) == ~found \/ link

\* The task is created once; a failed attempt leaves the PHY it found.
initialise ==
  IF rx_task THEN UNCHANGED <<phy, rx_task>>
  ELSE /\ phy' \in {phy, TRUE}
       /\ rx_task' = memory

vApplicationIPNetworkEventHook(up, address) == up /\ address
-----------------------------------------------------------------------------
(* The stack's task.                                                        *)

Down ==
  /\ downEvent
  /\ network_up' = vApplicationIPNetworkEventHook(FALSE, hasAddress)
  /\ initialise
  /\ IF rx_task' /\ link_status(phy')
     THEN stack' = "dhcp" /\ downEvent' = FALSE
     ELSE stack' = "down" /\ downEvent' = TRUE
  /\ hasAddress' = FALSE
  /\ UNCHANGED <<world, watch>>

\* The answer of the server, or the all-zero address after the last try.
Dhcp ==
  /\ stack = "dhcp" /\ ~downEvent
  /\ hasAddress' = (server /\ link_status(phy))
  /\ stack' = "up"
  /\ network_up' = vApplicationIPNetworkEventHook(TRUE, hasAddress')
  /\ UNCHANGED <<world, phy, rx_task, downEvent, watch>>
-----------------------------------------------------------------------------
(* network_watch, which the stack's task preempts: an event is handled before *)
(* the watch goes on, unless the driver failed and the stack waits to retry. *)

StackIdle == ~downEvent \/ stack = "down"

FreeRTOS_IsNetworkUp == stack = "up"

\* Faulty variant: the retry is for a network that is down.
MayRetryDown == ~FreeRTOS_IsNetworkUp

MayRetry == FreeRTOS_IsNetworkUp

Wake ==
  /\ StackIdle /\ watch = "sleep"
  /\ watch' = IF MayRetry THEN "asked" ELSE "sleep"
  /\ UNCHANGED <<world, phy, rx_task, stack, hasAddress, downEvent, network_up>>

HasAddress ==
  /\ StackIdle /\ watch = "asked"
  /\ watch' = IF hasAddress THEN "sleep" ELSE "retry"
  /\ UNCHANGED <<world, phy, rx_task, stack, hasAddress, downEvent, network_up>>

ethernet_retry_dhcp ==
  /\ StackIdle /\ watch = "retry"
  /\ downEvent' = TRUE
  /\ watch' = "sleep"
  /\ UNCHANGED <<world, phy, rx_task, stack, hasAddress, network_up>>

Stack == Down \/ Dhcp
network_watch == Wake \/ HasAddress \/ ethernet_retry_dhcp
Next == Change \/ Stack \/ network_watch

\* Both tasks are scheduled; the world owes nothing.
Spec == Init /\ [][Next]_vars /\ WF_vars(Stack) /\ WF_vars(network_watch)
-----------------------------------------------------------------------------
(* Properties.                                                              *)

\* Whatever went before, no cable, no memory, a discovery that ended without an
\* address: once cable, server and memory are there for good the network comes up
\* for good, with no retry that takes it down again (main.c:29-38,
\* NetworkInterface.c:81, 94-119; "Never settle permanently on the all-zero
\* fallback after DHCP discovery exhaustion").
NetworkComesUp == <>[](link /\ server /\ memory) => <>[]network_up
=============================================================================
