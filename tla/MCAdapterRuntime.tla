-------------------------- MODULE MCAdapterRuntime --------------------------
(* An instance of AdapterRuntime: two messages the bot's account writes to a*)
(* group from elsewhere, and a middleware that learns the wxid late.  Until *)
(* the wxid is known they pass the gate as a member's do, and two of them   *)
(* may be one burst; from then on they are echoes.                          *)
EXTENDS AdapterRuntime

MCSenders == {"bot"}
=============================================================================
