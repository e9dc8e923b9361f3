-------------------------- MODULE MCPushTransport --------------------------
(* Model-checking instances of PushTransport: an instance with a WS push and  *)
(* a webhook of its own, followed at shutdown by one with a WS push only.     *)
EXTENDS PushTransport
CONSTANTS first, second
TwoInstances == <<first, second>>
=============================================================================
