--------------------------- MODULE MCOutboundPacer ---------------------------
(* Model-checking instances of OutboundPacer.                                 *)
EXTENDS OutboundPacer

CONSTANTS alice, bob
TwoConversations == {alice, bob}
OneConversation == {alice}
NightRange == {<<6, 1>>}
NoRange == {}
FewJitters == {-80, 0}
DefaultJitters == {-30, 0, 30}
=============================================================================
