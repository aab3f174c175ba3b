--------------------------- MODULE MessageChannel ---------------------------
(***************************************************************************)
(* What the transport promises in each direction: whole messages, each at  *)
(* most once, in the order they were sent.  A message may get lost.        *)
(***************************************************************************)
EXTENDS Naturals, Sequences

CONSTANTS Node, Message

VARIABLES
    sent,       \* messages sent by each endpoint, in order
    got         \* of these, the ones that reached its peer

vars == <<sent, got>>

Init == sent = [n \in Node |-> <<>>] /\ got = [n \in Node |-> <<>>]

Occurs(s, e) == \E i \in 1..Len(s) : s[i] = e

Send(n) ==
    /\ \E m \in Message :
          /\ ~Occurs(sent[n], m)
          /\ sent' = [sent EXCEPT ![n] = Append(@, m)]
    /\ UNCHANGED got

(* Message i arrives if neither it nor a later one has. *)
Deliver(n) ==
    /\ \E i \in 1..Len(sent[n]) :
          /\ \A j \in i..Len(sent[n]) : ~Occurs(got[n], sent[n][j])
          /\ got' = [got EXCEPT ![n] = Append(@, sent[n][i])]
    /\ UNCHANGED sent

Next == \E n \in Node : Send(n) \/ Deliver(n)

Spec == Init /\ [][Next]_vars
=============================================================================
