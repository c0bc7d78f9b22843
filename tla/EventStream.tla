----------------------------- MODULE EventStream -----------------------------
(***************************************************************************)
(* What the event journal promises the controller: a first-in first-out    *)
(* stream.  Every readable line is received exactly once, in file order,   *)
(* a pass over the task receiving any number of them.                      *)
(***************************************************************************)
EXTENDS Naturals, Sequences

CONSTANT Event
VARIABLES sent, received

Init == sent = << >> /\ received = << >>

Send == \E e \in Event : sent' = Append(sent, e) /\ UNCHANGED received

Receive ==
    /\ \E n \in Len(received)..Len(sent) : received' = SubSeq(sent, 1, n)
    /\ UNCHANGED sent

Next == Send \/ Receive

Spec == Init /\ [][Next]_<<sent, received>>
==============================================================================
