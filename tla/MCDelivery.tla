----------------------------- MODULE MCDelivery -----------------------------
(* Model-checking instances of Delivery: an adapter that acknowledges and a   *)
(* console that does not, both subscribed to account A.                       *)
EXTENDS Delivery
CONSTANTS A, B, m1, adapter, console
TwoAccounts == {A, B}
\* The id m1 exists in both accounts.
SharedId == {<<A, m1>>, <<B, m1>>}
AllOnA == [c \in Clients |-> A]
=============================================================================
