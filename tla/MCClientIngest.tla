--------------------------- MODULE MCClientIngest ---------------------------
(* Model-checking instances of ClientIngest: two accounts that write to each  *)
(* other, so that a message of A's own has B as its receiver.                 *)
EXTENDS ClientIngest, TLC
CONSTANTS A, B, room, device, none, r1, r2
TwoAccounts == {A, B}
OneAccount == {A}
Room == {room}
RoomAndB == {room, B}
OnlyB == {B}
Nobody == {}
Calls == Permutations({r1, r2})
msg(i, k, t) == [msgId |-> i, kind |-> k, to |-> t]
\* A receives, writes to B and speaks in a room; B gets a message of a type that is filtered and writes to A.
TwoLogs == (A :> <<msg(1, "inbound", A), msg(2, "ownDM", B), msg(3, "ownGroup", room)>>)
           @@ (B :> <<msg(1, "filtered", B), msg(2, "ownDM", A)>>)
=============================================================================
