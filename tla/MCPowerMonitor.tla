---- MODULE MCPowerMonitor ----
(* Two sensors.  A tick is two milliseconds, a round is due every second     *)
(* tick, a sample is shown for two ticks, and power_task falls up to three   *)
(* ticks behind, five with two silent sensors: samples get older than the    *)
(* limit, and the milliseconds wrap twice as often as the ticks.             *)
EXTENDS PowerMonitor
====
