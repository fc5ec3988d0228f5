------------------------------- MODULE Outbox -------------------------------
(***************************************************************************)
(* What a send queue promises to the code that pushes messages into it,    *)
(* whatever threads, locks and semaphores serve it.  Messages are numbered *)
(* in the order in which the queue accepted them: message n is the n-th    *)
(* one.  The device receives a prefix of that order, each message once.    *)
(***************************************************************************)
EXTENDS Naturals, Sequences

VARIABLES accepted, \* number of messages accepted so far
          wire      \* the messages the device took, in the order it took them

vars == <<accepted, wire>>

Init == accepted = 0 /\ wire = <<>>

\* A caller hands over one more message.
Accept ==
    /\ accepted' = accepted + 1
    /\ UNCHANGED wire

\* The device takes the oldest message it has not taken yet.
Deliver ==
    /\ Len(wire) < accepted
    /\ wire' = Append(wire, Len(wire) + 1)
    /\ UNCHANGED accepted

\* The device takes all the messages it has not taken yet.
DeliverAll ==
    /\ Len(wire) < accepted
    /\ wire' = [n \in 1 .. accepted |-> n]
    /\ UNCHANGED accepted

Next == Accept \/ Deliver \/ DeliverAll

Spec == Init /\ [][Next]_vars
=============================================================================
