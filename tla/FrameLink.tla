----------------------------- MODULE FrameLink ------------------------------
(***************************************************************************)
(* What a LinkClient (mesh_node.py) promises the mesh node: frames may be  *)
(* lost, at any time and any number of them, but what arrives are frames   *)
(* that were given to send(), each at most once and, as long as the link   *)
(* is ordered, in the order of their sender.                               *)
(*                                                                         *)
(* The frames of a sender are numbered in the order of send(); the link    *)
(* modules implement this specification.                                   *)
(***************************************************************************)
EXTENDS Integers, Sequences

CONSTANTS Senders, Receivers

VARIABLES
    sent,        \* sent[s]: frames s has given to send() so far
    delivered,   \* delivered[s][r]: numbers of those given to r's rx_callback
    ordered      \* has the link kept the order so far?

frames == <<sent, delivered, ordered>>

Init == /\ sent = [s \in Senders |-> 0]
        /\ delivered = [s \in Senders |-> [r \in Receivers |-> <<>>]]
        /\ ordered \in BOOLEAN

Send(s) == sent' = [sent EXCEPT ![s] = @ + 1] /\ UNCHANGED <<delivered, ordered>>

\* Frames of s follow those r has: new ones, and later ones if the link is ordered.
Continues(s, old, new) ==
    /\ Len(old) <= Len(new) /\ SubSeq(new, 1, Len(old)) = old
    /\ \A i \in Len(old) + 1 .. Len(new) :
         /\ new[i] \in 1 .. sent[s]
         /\ \A j \in 1 .. i - 1 : new[j] # new[i] /\ (ordered => new[j] < new[i])

\* More frames reach r, several perhaps at once; the others are late or lost.
Deliver(r) ==
    /\ \A s \in Senders : /\ Continues(s, delivered[s][r], delivered'[s][r])
                          /\ \A x \in Receivers \ {r} : delivered'[s][x] = delivered[s][x]
    /\ UNCHANGED sent
    /\ ordered' => ordered

\* From now on frames may overtake each other.
LoseOrder == ordered /\ ~ordered' /\ UNCHANGED <<sent, delivered>>

Next == (\E s \in Senders : Send(s)) \/ (\E r \in Receivers : Deliver(r)) \/ LoseOrder

Spec == Init /\ [][Next]_frames
=============================================================================
