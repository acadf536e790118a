----------------------------- MODULE LossyFifo -----------------------------
(***************************************************************************)
(* What the write path of a connection promises: packets reach the peer in *)
(* the order they were pushed, each once.  Only when more than MaxQueue    *)
(* wait behind the one that is next may packets be thrown away, and then   *)
(* all but that one; a closed connection delivers no more.                 *)
(***************************************************************************)
EXTENDS Naturals, Sequences

CONSTANTS Packet, MaxQueue

VARIABLES waiting, delivered, open

Init == waiting = <<>> /\ delivered = <<>> /\ open = TRUE

(* waiting when p was pushed, or nothing was *)
Offered == {waiting} \cup {Append(waiting, p) : p \in Packet}

Thinned(w) == {w} \cup IF Len(w) > MaxQueue + 1 THEN {<<Head(w)>>} ELSE {}

Move ==
    /\ open
    /\ open' = TRUE
    /\ \E w \in UNION {Thinned(v) : v \in Offered} :
          \/ waiting' = w /\ delivered' = delivered
          \/ w # <<>> /\ waiting' = Tail(w) /\ delivered' = Append(delivered, Head(w))

Close == open' = FALSE /\ delivered' = delivered

(* The connection is renewed; nothing waits. *)
Renew == ~open /\ open' = TRUE /\ waiting' = <<>> /\ delivered' = delivered

Next == Move \/ Close \/ Renew

Spec == Init /\ [][Next]_<<waiting, delivered, open>>
=============================================================================
