------------------------------- MODULE Delivery -------------------------------
(***************************************************************************)
(* What the handshake and its one encrypted message promise (client.c,     *)
(* server.c, msg.c): the message of a client is delivered whole, once it   *)
(* has been sent, or never; and what was delivered stays so.               *)
(***************************************************************************)
CONSTANTS Clients,
          Message \* what each client sends

VARIABLES sent, \* clients that have sent their message
          got   \* what was delivered of each client's
vars == <<sent, got>>

Init == sent = {} /\ got = [c \in Clients |-> <<>>]

Send(c) == c \notin sent /\ sent' = sent \cup {c} /\ UNCHANGED got

Deliver(c) ==
  /\ c \in sent /\ got[c] = <<>>
  /\ got' = [got EXCEPT ![c] = Message[c]]
  /\ UNCHANGED sent

Next == \E c \in Clients : Send(c) \/ Deliver(c)
Spec == Init /\ [][Next]_vars
=============================================================================
