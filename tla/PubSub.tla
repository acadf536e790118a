------------------------------- MODULE PubSub -------------------------------
(* What monitor promises its clients: a client follows any number of       *)
(* tasks, and every message about a task is sent once to each client that  *)
(* follows it when the message comes in, whoever is lost meanwhile.        *)
CONSTANTS Sess, Task, NoSess

VARIABLES
    follows,    \* pairs <<client, task>>
    owed,       \* clients the message being published has still to be sent to
    sent        \* the client it was last sent to

pubsubVars == <<follows, owed, sent>>

Left(C) == {p \in follows : p[1] \notin C}

PubSubInit == follows = {} /\ owed = {} /\ sent = NoSess

Follow(s, t)   == owed = {} /\ follows' = follows \cup {<<s, t>>} /\ UNCHANGED <<owed, sent>>

Unfollow(s, t) == owed = {} /\ follows' = follows \ {<<s, t>>} /\ UNCHANGED <<owed, sent>>

(* Clients are lost: they follow nothing more, the others what they did.   *)
Leave(C) == owed = {} /\ follows' = Left(C) /\ UNCHANGED <<owed, sent>>

Announce(t) ==
    /\ owed = {}
    /\ owed' = {s \in Sess : <<s, t>> \in follows}
    /\ UNCHANGED <<follows, sent>>

(* A client gets the message or is found to be lost. *)
Deliver(s) ==
    /\ s \in owed
    /\ owed' = owed \ {s}
    /\ sent' = s
    /\ follows' \in {follows, Left({s})}

Finish == owed = {} /\ sent' = NoSess /\ UNCHANGED <<follows, owed>>

PubSubNext ==
    \/ Finish
    \/ \E s \in Sess, t \in Task : Follow(s, t) \/ Unfollow(s, t)
    \/ \E C \in SUBSET Sess : Leave(C)
    \/ \E t \in Task : Announce(t)
    \/ \E s \in Sess : Deliver(s)

PubSubSpec == PubSubInit /\ [][PubSubNext]_pubsubVars
=============================================================================
