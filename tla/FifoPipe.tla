------------------------------- MODULE FifoPipe -------------------------------
(***************************************************************************)
(* What asio_channel promises its callers about sending: messages taken by *)
(* send() reach the peer in the order they were taken, none twice and none *)
(* skipped, and nothing is taken after the channel is closed.  What was    *)
(* taken before the close may be lost, but only from the end.              *)
(***************************************************************************)
EXTENDS Naturals, Sequences

CONSTANT Message

VARIABLES
    taken,      \* messages send() has queued
    delivered,  \* messages written to the socket
    shut        \* close() has been called

pipeVars == <<taken, delivered, shut>>

Init == taken = <<>> /\ delivered = <<>> /\ shut = FALSE

Take == \E m \in Message :
    /\ ~shut
    /\ taken' = Append(taken, m)
    /\ UNCHANGED <<delivered, shut>>

\* A write delivers the next few messages; a failing one also shuts the pipe.
Deliver == \E k \in Len(delivered)..Len(taken) :
    /\ delivered' = SubSeq(taken, 1, k)
    /\ shut' \in {shut, TRUE}
    /\ UNCHANGED taken

Shut ==
    /\ shut' = TRUE
    /\ UNCHANGED <<taken, delivered>>

Next == Take \/ Deliver \/ Shut

Spec == Init /\ [][Next]_pipeVars
===============================================================================
