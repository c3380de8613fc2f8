----------------------------- MODULE MCDevices ----------------------------
(* Instances of Devices for TLC: two handlers on any one of the dashboards.*)
EXTENDS Devices
===========================================================================
