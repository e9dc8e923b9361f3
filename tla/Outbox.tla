------------------------------- MODULE Outbox -------------------------------
(***************************************************************************)
(* What one account's outbound path promises to the callers of send():     *)
(* every conversation is a bounded first-in first-out outbox, each         *)
(* accepted request leaves it at most once and in order, and nothing       *)
(* leaves it once the path has been halted.  The timing of the releases is *)
(* left open here; OutboundPacer implements this specification.            *)
(***************************************************************************)
EXTENDS Naturals, Sequences

CONSTANTS Conversations,  \* the "account:to" keys
          Capacity        \* most requests one conversation may have pending

VARIABLES pending,    \* conversation -> requests accepted and not yet released
          delivered,  \* conversation -> requests handed to the real send, in order
          halted      \* the path has been shut down

outboxVars == <<pending, delivered, halted>>

\* A request is named by its place in the order its conversation accepted it.
NextRequest(c) == Len(delivered[c]) + Len(pending[c]) + 1

Init == /\ pending = [c \in Conversations |-> <<>>]
        /\ delivered = [c \in Conversations |-> <<>>]
        /\ halted = FALSE

Accept(c) == /\ ~halted
             /\ Len(pending[c]) < Capacity
             /\ pending' = [pending EXCEPT ![c] = Append(@, NextRequest(c))]
             /\ UNCHANGED <<delivered, halted>>

Release(c) == /\ ~halted
              /\ pending[c] # <<>>
              /\ delivered' = [delivered EXCEPT ![c] = Append(@, Head(pending[c]))]
              /\ pending' = [pending EXCEPT ![c] = Tail(@)]
              /\ UNCHANGED halted

Halt == ~halted /\ halted' = TRUE /\ UNCHANGED <<pending, delivered>>

\* After a halt the requests still pending may be forgotten, oldest first.
Abandon(c) == /\ halted
              /\ pending[c] # <<>>
              /\ pending' = [pending EXCEPT ![c] = Tail(@)]
              /\ UNCHANGED <<delivered, halted>>

Next == Halt \/ \E c \in Conversations : Accept(c) \/ Release(c) \/ Abandon(c)

Spec == Init /\ [][Next]_outboxVars
=============================================================================
