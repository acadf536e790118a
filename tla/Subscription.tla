---------------------------- MODULE Subscription ----------------------------
(***************************************************************************)
(* The subscriptions monitor keeps for its clients, twice: sess->subs      *)
(* lists the tasks of a connection, xsubbytaskid maps a task to the queue  *)
(* of the connections that follow it.  Both point to one copy of the       *)
(* task's name on the heap, freed when the task's last follower leaves.    *)
(*                                                                         *)
(* The model is of one thread: a handler is one step, except that a        *)
(* message is published to one follower per step.  A pointer to a freed    *)
(* string is Dangling; reading one, or a freed session, makes ub TRUE and  *)
(* nothing is said of what follows.  client()->taskid holds the names that *)
(* are keys of xsubbytaskid (they come and go together) and has no         *)
(* variable of its own; two names never share a bucket of sessions.        *)
(***************************************************************************)
EXTENDS Naturals, Sequences, SequencesExt

CONSTANTS
    Sess, Name, Task,
    NoSess, NoName, NoTask,
    Dangling,   \* a pointer to a string that has been freed
    UnsubLast,  \* clients unsubscribe only from the one task they follow
    OneAuth,    \* clients authenticate at most once on a connection
    Pipelined,  \* clients send the next frame before the answer arrives
    SendFails   \* where send() may fail: "answer", "publish"

ASSUME DistinctAssumption ==
    NoSess \notin Sess /\ NoName \notin Name /\ {NoTask, Dangling} \cap Task = {}
ASSUME ClientAssumption ==
    /\ {UnsubLast, OneAuth, Pipelined} \subseteq BOOLEAN
    /\ SendFails \subseteq {"answer", "publish"}

VARIABLES
    sname,
    reading,    \* the session whose input buffer is being parsed
    publishing, \* the message being published: its task, followers still to
                \* visit, the follower it was last sent to
    net,        \* what closing a connection changes, see NetType
    unanswered, \* history: the answer to an auth could not be sent
    ub

vars == <<sname, reading, publishing, net, unanswered, ub>>

Tables == UNION {[D -> Seq(Sess)] : D \in SUBSET Task}

NetType ==
    [mem          : [Sess -> {"free", "open", "dead"}],  \* dead: in dead_sess
     sessions     : SUBSET (Sess \X Name),  \* <<s, n>>: s was put under name n
     subs         : [Sess -> Seq(Task \cup {Dangling})],
     xsubbytaskid : Tables]

TypeOK ==
    /\ sname \in [Sess -> Name \cup {NoName}]
    /\ reading \in Sess \cup {NoSess}
    /\ publishing.task \in Task \cup {NoTask} /\ publishing.left \in Nat
    /\ publishing.to \in Sess \cup {NoSess}
    /\ net.mem \in [Sess -> {"free", "open", "dead"}]
    /\ net.sessions \subseteq Sess \X Name
    /\ \A s \in Sess : Range(net.subs[s]) \subseteq Task \cup {Dangling}
    /\ DOMAIN net.xsubbytaskid \subseteq Task
    /\ \A t \in DOMAIN net.xsubbytaskid : Range(net.xsubbytaskid[t]) \in (SUBSET Sess) \ {{}}
    /\ unanswered \in BOOLEAN /\ ub \in BOOLEAN

Idle == reading = NoSess /\ publishing.task = NoTask /\ ~ub

-----------------------------------------------------------------------------
(* The table of sessions by name: its keys point to sname.                 *)

Found(sessions, sn, n) == {s \in Sess : <<s, n>> \in sessions /\ sn[s] = n}

KeyFreed(n) == \E s \in Sess : <<s, n>> \in net.sessions /\ net.mem[s] = "free"

(* Mutant: the entry is not found. *)
xhash_zap_Keeps(sessions, sn, n) == {sessions}

xhash_zap(sessions, sn, n) ==
    IF Found(sessions, sn, n) = {} THEN {sessions}
    ELSE {sessions \ {<<s, n>>} : s \in Found(sessions, sn, n)}

-----------------------------------------------------------------------------
(* subscribe.c *)

(* All occurrences of x go; there is one at most, since add_* look first.  *)
Without(q, x) ==
    IF x \in Range(q) THEN RemoveAt(q, CHOOSE i \in DOMAIN q : q[i] = x) ELSE q

(* Mutant: the entry of a task nobody follows any more is kept. *)
del_sess_from_subtable_Keeps(tab, T, s) ==
    [t \in DOMAIN tab |-> IF t \in T THEN Without(tab[t], s) ELSE tab[t]]

(* A task's queue without s; a task nobody follows any more has no entry.  *)
del_sess_from_subtable(tab, T, s) ==
    [t \in {u \in DOMAIN tab : u \in T => Without(tab[u], s) # <<>>} |->
        IF t \in T THEN Without(tab[t], s) ELSE tab[t]]

(* The names of the entries that are gone have been freed. *)
clear_from_taskid_queue(subs, tab, tab2) ==
    [s \in Sess |-> [i \in DOMAIN subs[s] |->
        IF subs[s][i] \in DOMAIN tab \ DOMAIN tab2 THEN Dangling ELSE subs[s][i]]]

add_sess_to_subtable(tab, t, s) ==
    [u \in DOMAIN tab \cup {t} |->
        IF u # t THEN tab[u]
        ELSE Append(IF t \in DOMAIN tab THEN Without(tab[t], s) ELSE <<>>, s)]

add_subs_to_sess(q, t) == IF t \in Range(q) THEN q ELSE Append(q, t)

(* The loop puts the pointer it was given, into the parsed frame, in place *)
(* of every other task of the session; the frame is freed by the caller.   *)
del_subs_from_sess(q, t) == [i \in 1 .. Len(Without(q, t)) |-> Dangling]

-----------------------------------------------------------------------------
(* The CLOSE handler.  Closed(w, sn, s): the outcomes of closing s.        *)

(* Mutant: the CLOSE handler gives up the first task only. *)
Closed_FirstTask(w, sn, s) ==
    LET tab == del_sess_from_subtable(w.xsubbytaskid,
                   IF w.subs[s] = <<>> THEN {} ELSE {Head(w.subs[s])}, s)
    IN  IF w.mem[s] # "open" THEN {w}
        ELSE {[w EXCEPT !.mem[s] = "dead", !.sessions = z, !.xsubbytaskid = tab,
                        !.subs = [clear_from_taskid_queue(@, w.xsubbytaskid, tab)
                                    EXCEPT ![s] = <<>>]] :
                z \in xhash_zap(w.sessions, sn, sn[s])}

Closed(w, sn, s) ==
    LET tab == del_sess_from_subtable(w.xsubbytaskid, Range(w.subs[s]), s)
    IN  IF w.mem[s] # "open" THEN {w}
        ELSE {[w EXCEPT !.mem[s] = "dead", !.sessions = z, !.xsubbytaskid = tab,
                        !.subs = [clear_from_taskid_queue(@, w.xsubbytaskid, tab)
                                    EXCEPT ![s] = <<>>]] :
                z \in xhash_zap(w.sessions, sn, sn[s])}

(* Reading freed memory on the way: a name in subs, a key of the table.    *)
ClosingReadsFreed(s) ==
    net.mem[s] = "open" /\ (Dangling \in Range(net.subs[s]) \/ KeyFreed(sname[s]))

(* Pushing writes at once; a failing send() closes the connection.         *)
p2p_stream_push(w, sn, s, where) ==
    {w} \cup (IF where \in SendFails THEN Closed(w, sn, s) ELSE {})

-----------------------------------------------------------------------------
Init ==
    /\ sname = [s \in Sess |-> NoName]
    /\ reading = NoSess
    /\ publishing = [task |-> NoTask, left |-> 0, to |-> NoSess]
    /\ net = [mem |-> [s \in Sess |-> "free"], sessions |-> {},
              subs |-> [s \in Sess |-> <<>>], xsubbytaskid |-> <<>>]
    /\ unanswered = FALSE
    /\ ub = FALSE

Accept(s) ==
    /\ Idle
    /\ net.mem[s] = "free"
    /\ net' = [net EXCEPT !.mem[s] = "open", !.subs[s] = <<>>]
    /\ sname' = [sname EXCEPT ![s] = NoName]
    /\ UNCHANGED <<reading, publishing, unanswered, ub>>

(* The peer closes, or has been silent too long and is swept as a zombie.  *)
Gone(s) ==
    /\ Idle
    /\ net.mem[s] = "open"
    /\ net' \in Closed(net, sname, s)
    /\ ub' = ClosingReadsFreed(s)
    /\ UNCHANGED <<sname, reading, publishing, unanswered>>

(* Every 7 seconds the closed sessions are freed. *)
_save_deadsession ==
    /\ Idle
    /\ \E s \in Sess : net.mem[s] = "dead"
    /\ net' = [net EXCEPT !.mem = [s \in Sess |-> IF @[s] = "dead" THEN "free" ELSE @[s]]]
    /\ UNCHANGED <<sname, reading, publishing, unanswered, ub>>

Read(s) ==
    /\ Idle
    /\ net.mem[s] = "open"
    /\ reading' = s
    /\ UNCHANGED <<sname, publishing, net, unanswered, ub>>

-----------------------------------------------------------------------------
(* Frames of a client; the rest of the buffer is parsed even when handling *)
(* one has closed the connection.                                          *)

Parsing(s) == reading = s /\ publishing.task = NoTask /\ ~ub

NextFrame(s) == reading' \in IF Pipelined THEN {s, NoSess} ELSE {NoSess}

BadFrame(s) ==
    /\ Parsing(s)
    /\ net' \in Closed(net, sname, s)
    /\ ub' = ClosingReadsFreed(s)
    /\ NextFrame(s)
    /\ UNCHANGED <<sname, publishing, unanswered>>

(* pings, and the answers passed on to frontsvr *)
OtherFrame(s) ==
    /\ Parsing(s)
    /\ NextFrame(s)
    /\ UNCHANGED <<sname, publishing, net, unanswered, ub>>

(* The name is taken at once; a frame without seqno is then ignored. *)
auth_short(s, n) ==
    /\ Parsing(s)
    /\ OneAuth => sname[s] = NoName
    /\ sname' = [sname EXCEPT ![s] = n]
    /\ NextFrame(s)
    /\ UNCHANGED <<publishing, net, unanswered, ub>>

(* The connection that has the name is taken out of the table, told and    *)
(* closed; then this one is answered and registered.                       *)
auth_hook(s, n) ==
    LET sn == [sname EXCEPT ![s] = n]
        olds == Found(net.sessions, sn, n)
        kicked == IF olds = {} THEN {net}
                  ELSE UNION {Closed([net EXCEPT !.sessions = @ \ {<<o, n>>}], sn, o) : o \in olds}
    IN  /\ Parsing(s)
        /\ OneAuth => sname[s] = NoName
        /\ sname' = sn
        /\ \E k \in kicked : \E w \in p2p_stream_push(k, sn, s, "answer") :
              /\ unanswered' = (unanswered \/ w # k)
              /\ \E z \in xhash_zap(w.sessions, sn, n) :
                    net' = [w EXCEPT !.sessions = z \cup {<<s, n>>}]
        /\ ub' = \/ KeyFreed(n)
                 \/ \E o \in olds \cup {s} : ClosingReadsFreed(o)
        /\ NextFrame(s)
        /\ UNCHANGED publishing

sub_hook(s, t) ==
    /\ Parsing(s)
    /\ net' = [net EXCEPT !.subs[s] = add_subs_to_sess(@, t),
                          !.xsubbytaskid = add_sess_to_subtable(@, t, s)]
    /\ ub' = (Dangling \in Range(net.subs[s]))
    /\ NextFrame(s)
    /\ UNCHANGED <<sname, publishing, unanswered>>

unsub_hook(s, t) ==
    LET tab == del_sess_from_subtable(net.xsubbytaskid, {t}, s)
    IN  /\ Parsing(s)
        /\ UnsubLast => Range(net.subs[s]) \subseteq {t}
        /\ net' = [net EXCEPT
              !.xsubbytaskid = tab,
              !.subs = clear_from_taskid_queue(
                          [net.subs EXCEPT ![s] = del_subs_from_sess(net.subs[s], t)],
                          net.xsubbytaskid, tab)]
        /\ ub' = (Dangling \in Range(net.subs[s]))
        /\ NextFrame(s)
        /\ UNCHANGED <<sname, publishing, unanswered>>

(* frontsvr's answer to a client's configuration is passed on to the       *)
(* connection that has the client's name.                                  *)
configack_hook(n) ==
    LET dests == Found(net.sessions, sname, n)
    IN  /\ Idle
        /\ \/ dests = {} /\ UNCHANGED net
           \/ \E d \in dests : net' \in p2p_stream_push(net, sname, d, "answer")
        /\ ub' = \/ KeyFreed(n)
                 \/ "answer" \in SendFails /\ \E d \in dests : ClosingReadsFreed(d)
        /\ UNCHANGED <<sname, reading, publishing, unanswered>>

-----------------------------------------------------------------------------
(* forward_to_monitclient(): the loop makes as many turns as the queue had *)
(* members at the start, moving the first to the end before sending to it. *)

PublishBegin(t) ==
    /\ Idle
    /\ t \in DOMAIN net.xsubbytaskid
    /\ publishing' = [task |-> t, left |-> Len(net.xsubbytaskid[t]), to |-> NoSess]
    /\ UNCHANGED <<sname, reading, net, unanswered, ub>>

(* Mutant: the follower is put back where it was taken from. *)
Rotate_Not(q) == q

Rotate(q) == Append(Tail(q), Head(q))

PublishNext ==
    LET t == publishing.task
        q == net.xsubbytaskid[t]
        w == [net EXCEPT !.xsubbytaskid[t] = Rotate(q)]
    IN  /\ ~ub
        /\ publishing.left > 0
        /\ IF t \in DOMAIN net.xsubbytaskid
           THEN /\ publishing' = [publishing EXCEPT !.left = @ - 1,
                                                    !.to = Head(q)]
                /\ net' \in p2p_stream_push(w, sname, Head(q), "publish")
                /\ ub' = \/ net.mem[Head(q)] = "free"
                         \/ "publish" \in SendFails /\ ClosingReadsFreed(Head(q))
           ELSE ub' = TRUE /\ UNCHANGED <<net, publishing>>
        /\ UNCHANGED <<sname, reading, unanswered>>

PublishEnd ==
    /\ ~ub
    /\ publishing.task # NoTask /\ publishing.left = 0
    /\ publishing' = [publishing EXCEPT !.task = NoTask, !.to = NoSess]
    /\ UNCHANGED <<sname, reading, net, unanswered, ub>>

-----------------------------------------------------------------------------
Frame(s) ==
    \/ BadFrame(s)
    \/ OtherFrame(s)
    \/ \E n \in Name : auth_hook(s, n)
    \/ \E n \in Name : auth_short(s, n)
    \/ \E t \in Task : sub_hook(s, t)
    \/ \E t \in Task : unsub_hook(s, t)

Next ==
    \/ \E s \in Sess : Accept(s) \/ Gone(s) \/ Read(s) \/ Frame(s)
    \/ _save_deadsession
    \/ \E n \in Name : configack_hook(n)
    \/ \E t \in Task : PublishBegin(t)
    \/ PublishNext
    \/ PublishEnd

Spec == Init /\ [][Next]_vars

-----------------------------------------------------------------------------
Followers(t) ==
    IF t \in DOMAIN net.xsubbytaskid THEN Range(net.xsubbytaskid[t]) ELSE {}

(* The two records of the subscriptions agree (comment in                  *)
(* moniclient_exp_cb): sess->subs lists all tasks a connection follows, a  *)
(* task's queue all open connections that follow it, each once; so that no *)
(* message is sent to a closed session, or to another client that has got  *)
(* its address (comment in the CLOSE handler).                             *)
SubsMatchTable ==
    /\ \A s \in Sess, t \in Task :
          s \in Followers(t) <=> net.mem[s] = "open" /\ t \in Range(net.subs[s])
    /\ \A t \in DOMAIN net.xsubbytaskid : IsInjective(net.xsubbytaskid[t])

(* No freed session, queue or task name is read, unless the answer to an   *)
(* auth could not be sent: auth_hook() registers the closed session then.  *)
NoUseAfterFree == ub => unanswered

(* Following, leaving and publishing do what the clients are promised.     *)
PS == INSTANCE PubSub WITH
    follows <- {p \in Sess \X Task : p[1] \in Followers(p[2])},
    owed <- IF publishing.left = 0 THEN {}
            ELSE {net.xsubbytaskid[publishing.task][i] : i \in 1 .. publishing.left},
    sent <- publishing.to

PromiseKept == PS!PubSubSpec
=============================================================================
