---------------------------- MODULE FluxDelivery -----------------------------
(***************************************************************************)
(* What a Flux session promises the two applications about each message,   *)
(* whatever the transport does: its fragments reach the peer in any order  *)
(* and number of copies; it is handed over at most once and only whole;    *)
(* the sender is told one outcome, and ESP_OK only when every fragment was *)
(* stored by the peer.  Hand-over and outcome are otherwise unrelated: a   *)
(* message reported as timed out may have been, or still be, delivered.    *)
(***************************************************************************)
EXTENDS Integers

CONSTANTS MaxTransfers, MaxFragments

VARIABLES
    outcome,   \* what the sending application knows of each message
    size,      \* its number of fragments, once accepted
    stored,    \* the fragments the peer has stored at some time
    handed     \* how often it was handed to the receiving application

vars == <<outcome, size, stored, handed>>

Messages == 1 .. MaxTransfers
Pieces(t) == 0 .. size[t] - 1
Final == {"ok", "timeout", "reset"}

Init ==
    /\ outcome = [t \in Messages |-> "unsent"]
    /\ size = [t \in Messages |-> 0]
    /\ stored = [t \in Messages |-> {}]
    /\ handed = [t \in Messages |-> 0]

Accept(t, n) ==
    /\ outcome[t] = "unsent"
    /\ outcome' = [outcome EXCEPT ![t] = "open"]
    /\ size' = [size EXCEPT ![t] = n]
    /\ UNCHANGED <<stored, handed>>

Refuse(t) ==
    /\ outcome[t] = "unsent"
    /\ outcome' = [outcome EXCEPT ![t] = "refused"]
    /\ UNCHANGED <<size, stored, handed>>

\* A copy of a fragment arrives and may complete the message at the peer.
Arrive(t, i) ==
    /\ i \in Pieces(t)
    /\ stored' = [stored EXCEPT ![t] = @ \cup {i}]
    /\ \/ UNCHANGED handed
       \/ /\ handed[t] = 0 /\ stored'[t] = Pieces(t)
          /\ handed' = [handed EXCEPT ![t] = 1]
    /\ UNCHANGED <<outcome, size>>

Conclude(t, result) ==
    /\ outcome[t] = "open"
    /\ result = "ok" => stored[t] = Pieces(t)
    /\ outcome' = [outcome EXCEPT ![t] = result]
    /\ UNCHANGED <<size, stored, handed>>

Next ==
    \E t \in Messages :
        \/ \E n \in 1 .. MaxFragments : Accept(t, n)
        \/ Refuse(t)
        \/ \E i \in 0 .. MaxFragments - 1 : Arrive(t, i)
        \/ \E result \in Final : Conclude(t, result)

Spec == Init /\ [][Next]_vars
==============================================================================
