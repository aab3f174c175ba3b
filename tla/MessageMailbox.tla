--------------------------- MODULE MessageMailbox ---------------------------
(***************************************************************************)
(* What the receive side of a demultiplexer promises: at most one complete *)
(* payload waits per remote station, payloads are handed out in the order  *)
(* they became complete, and a waiting payload does not change.            *)
(***************************************************************************)
EXTENDS Naturals, Sequences

CONSTANTS
    Remote,     \* the stations
    Content,    \* the payloads each of them may send
    Capacity    \* how many may wait

VARIABLES
    waiting,    \* <<remote, payload>> of each complete payload, oldest first
    handed      \* those handed to the application so far

vars == <<waiting, handed>>

Init == waiting = <<>> /\ handed = <<>>

Complete(r) ==
    /\ Len(waiting) < Capacity
    /\ \A i \in 1..Len(waiting) : waiting[i][1] # r
    /\ \E payload \in Content[r] : waiting' = Append(waiting, <<r, payload>>)
    /\ UNCHANGED handed

HandOut ==
    /\ waiting # <<>>
    /\ handed' = Append(handed, Head(waiting))
    /\ waiting' = Tail(waiting)

(* A payload that completes while nothing waits may go straight through. *)
Pass(r) ==
    /\ waiting = <<>>
    /\ \E payload \in Content[r] : handed' = Append(handed, <<r, payload>>)
    /\ UNCHANGED waiting

Next == HandOut \/ \E r \in Remote : Complete(r) \/ Pass(r)

Spec == Init /\ [][Next]_vars
=============================================================================
