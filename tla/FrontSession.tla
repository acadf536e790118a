---------------------------- MODULE FrontSession ----------------------------
(***************************************************************************)
(* The connections of frontsvr: boxes and bdsvr on the frontend port,      *)
(* monitor on the backend port.  One thread runs the loop of main():       *)
(* mio_run() dispatches the socket events (phase "mio"), then the          *)
(* housekeeping functions run one after another (the other phases).        *)
(*                                                                         *)
(* A session is an address: it is allocated by an accept, freed by         *)
(* _save_deadsession, and may then be allocated again.  Queues count how   *)
(* often a session is in them (their order is abstracted: they are         *)
(* rotated all the time).  The hash table keeps the POINTER it was given   *)
(* as key, so a node whose key is a session has the text that session's    *)
(* sname has NOW, in the bucket of the text it had THEN.                   *)
(*                                                                         *)
(* Reading a freed session is undefined: ub becomes TRUE and nothing is    *)
(* said of what follows.                                                   *)
(***************************************************************************)
EXTENDS Naturals

CONSTANTS
    Sess,       \* addresses of p2p_st objects
    Fd,         \* descriptor numbers, the slots of mio's table
    Name,       \* non-empty contents of sess->sname
    NoSess,
    NoName,     \* sname is the empty string
    Bucket,     \* hash bucket of a name (xhash.c, _xhasher)
    Overlay,    \* <<old, new>> |-> old with its first 4 bytes taken from new
    Frames,     \* the kinds of frames the peers send
    OneAuth,    \* a peer identifies itself at most once on a connection
    Pipelined,  \* a peer sends its next frame before the answer arrives
    SendFails   \* send() may fail while a handler runs

FrameKind == {"auth", "autherr", "authshort", "awake", "awakeerr",
              "ping", "forward", "badframe"}

ASSUME SessAssumption == NoSess \notin Sess
ASSUME NameAssumption ==
    /\ NoName \notin Name
    /\ Sess \cap (Name \cup {NoName}) = {}
ASSUME OverlayAssumption ==
    Overlay \in [(Name \cup {NoName}) \X Name -> Name]
ASSUME EnvironmentAssumption ==
    /\ Frames \subseteq FrameKind
    /\ {OneAuth, Pipelined, SendFails} \subseteq BOOLEAN

VARIABLES
    pc,         \* where the loop of main() is
    mem,        \* "alloc" or "free"
    fd,         \* sess->fd: the slot the session was accepted on
    sname,      \* sess->sname
    role,       \* the protocol the peer announced with initsession
    idle,       \* silent for more than 20 seconds
    answered,   \* the name under which the peer was last told "ok"
    reading,    \* the session whose input buffer is being parsed
    zombie_que,
    net,        \* what closing a connection changes, see NetType
    ub          \* freed memory has been read

vars == <<pc, mem, fd, sname, role, idle, answered, reading, zombie_que,
          net, ub>>

Node == [bucket : {Bucket[n] : n \in Name}, key : Sess \cup Name, val : Sess]

NetType == [slot        : [Fd -> Sess \cup {NoSess}],  \* mio: fd -> app's arg
            rfds        : SUBSET Fd,                   \* mio: polled for reading
            want_read   : SUBSET Sess,
            sessions    : SUBSET Node,
            session_que : [Sess -> Nat],
            dead_sess   : [Sess -> Nat]]

TypeOK ==
    /\ pc \in {"mio", "deads", "save", "remove", "clear"}
    /\ mem \in [Sess -> {"alloc", "free"}]
    /\ fd \in [Sess -> Fd]
    /\ sname \in [Sess -> Name \cup {NoName}]
    /\ role \in [Sess -> {"none", "bdsvr", "monitor"}]
    /\ idle \in [Sess -> BOOLEAN]
    /\ answered \in [Sess -> Name \cup {NoName}]
    /\ reading \in Sess \cup {NoSess}
    /\ zombie_que \in [Sess -> Nat]
    /\ net \in NetType
    /\ ub \in BOOLEAN

Open(s) == mem[s] = "alloc" /\ net.slot[fd[s]] = s

-----------------------------------------------------------------------------
(* xhash.c: the table finds a node by the current text of its key.         *)

Text(sn, key) == IF key \in Sess THEN sn[key] ELSE key

Matches(table, sn, n) ==
    {x \in table : x.bucket = Bucket[n] /\ Text(sn, x.key) = n}

(* Searching a bucket compares every key in it.                            *)
ReadsFreed(table, n) ==
    \E x \in table : x.bucket = Bucket[n] /\ x.key \in Sess /\ mem[x.key] = "free"

(* Mutant: the entry of a closing session is left in the table.            *)
xhash_zap_Keeps(table, sn, n) == {table}

xhash_zap(table, sn, n) ==
    IF Matches(table, sn, n) = {} THEN {table}
    ELSE {table \ {x} : x \in Matches(table, sn, n)}

xhash_put(table, sn, n, key, s) ==
    {t \cup {[bucket |-> Bucket[n], key |-> key, val |-> s]} :
        t \in xhash_zap(table, sn, n)}

(* sessions the table may return for n *)
xhash_get(table, sn, n) == {x.val : x \in Matches(table, sn, n)}

-----------------------------------------------------------------------------
(* Mutants: the CLOSE handler leaves the session in session_que; mio keeps *)
(* the handler of the closed descriptor; or keeps polling it.              *)
Closed_StaysLive(w, sn, f) ==
    IF w.slot[f] = NoSess THEN {w}
    ELSE {[w EXCEPT !.rfds = @ \ {f}, !.slot[f] = NoSess, !.sessions = t,
                    !.dead_sess[w.slot[f]] = @ + 1] :
            t \in xhash_zap(w.sessions, sn, sn[w.slot[f]])}

Closed_KeepsSlot(w, sn, f) ==
    IF w.slot[f] = NoSess THEN {w}
    ELSE {[w EXCEPT !.rfds = @ \ {f}, !.session_que[w.slot[f]] = 0,
                    !.dead_sess[w.slot[f]] = 1]}

Closed_StaysPolled(w, sn, f) ==
    IF w.slot[f] = NoSess THEN {w}
    ELSE {[w EXCEPT !.slot[f] = NoSess, !.session_que[w.slot[f]] = 0, !.sessions = t,
                    !.dead_sess[w.slot[f]] = @ + 1] :
            t \in xhash_zap(w.sessions, sn, sn[w.slot[f]])}

(* mio_close() of descriptor f and the CLOSE handler it calls: the result  *)
(* is the set of possible next values of net.                              *)

Closed(w, sn, f) ==
    LET s == w.slot[f]
        u == [w EXCEPT !.rfds = w.rfds \ {f}, !.slot = [w.slot EXCEPT ![f] = NoSess]]
    IN  IF s = NoSess THEN {u}
        ELSE {[u EXCEPT
                 !.sessions = t,
                 !.session_que = [w.session_que EXCEPT ![s] = IF @ > 0 THEN @ - 1 ELSE @],
                 !.dead_sess = [w.dead_sess EXCEPT ![s] = @ + 1]] :
                 t \in xhash_zap(w.sessions, sn, sn[s])}

p2p_kill(w, sn, s) == Closed(w, sn, fd[s])

(* A step that closes connections searches the buckets of their names.     *)
ClosingReadsFreed ==
    \E f \in Fd : /\ net.slot[f] # NoSess
                  /\ net'.slot[f] # net.slot[f]
                  /\ ReadsFreed(net.sessions, sname'[net.slot[f]])

(* p2p_stream_push(): the packet is written at once when the slot is in    *)
(* use.  A failing send closes the connection and stops its reading; on a  *)
(* session whose slot is closed the write is skipped, and reading is asked *)
(* for all the same.                                                       *)
p2p_stream_push(w, sn, s) ==
    LET polled == IF s \in w.want_read THEN [w EXCEPT !.rfds = @ \cup {fd[s]}] ELSE w
    IN  {polled} \cup
        (IF SendFails /\ w.slot[fd[s]] = s
         THEN {[u EXCEPT !.want_read = @ \ {s}] : u \in p2p_kill(w, sn, s)}
         ELSE {})

-----------------------------------------------------------------------------
Init ==
    /\ pc = "mio"
    /\ mem = [s \in Sess |-> "free"]
    /\ fd \in [Sess -> Fd]
    /\ \A s, t \in Sess : fd[s] = fd[t]
    /\ sname = [s \in Sess |-> NoName]
    /\ role = [s \in Sess |-> "none"]
    /\ idle = [s \in Sess |-> FALSE]
    /\ answered = [s \in Sess |-> NoName]
    /\ reading = NoSess
    /\ zombie_que = [s \in Sess |-> 0]
    /\ net = [slot |-> [f \in Fd |-> NoSess], rfds |-> {}, want_read |-> {},
              sessions |-> {}, session_que |-> [s \in Sess |-> 0],
              dead_sess |-> [s \in Sess |-> 0]]
    /\ ub = FALSE

(* select() fails as a whole when a closed descriptor is in its set, and   *)
(* _mio_run then dispatches nothing.                                       *)
PollWorks == \A f \in net.rfds : net.slot[f] # NoSess

Dispatching == pc = "mio" /\ ~ub /\ reading = NoSess /\ PollWorks

(* _mio_accept() and the ACCEPT handler *)
Accept(s, f) ==
    /\ Dispatching
    /\ mem[s] = "free"
    /\ net.slot[f] = NoSess
    /\ mem' = [mem EXCEPT ![s] = "alloc"]
    /\ fd' = [fd EXCEPT ![s] = f]
    /\ sname' = [sname EXCEPT ![s] = NoName]
    /\ role' = [role EXCEPT ![s] = "none"]
    /\ idle' = [idle EXCEPT ![s] = FALSE]
    /\ answered' = [answered EXCEPT ![s] = NoName]
    /\ net' = [net EXCEPT !.slot = [net.slot EXCEPT ![f] = s],
                          !.rfds = @ \cup {f},
                          !.want_read = @ \cup {s},
                          !.session_que = [net.session_que EXCEPT ![s] = @ + 1]]
    /\ UNCHANGED <<pc, reading, zombie_que, ub>>

(* READ event with bytes to read: parsing of the buffer starts.            *)
Read(s) ==
    /\ Dispatching
    /\ Open(s)
    /\ fd[s] \in net.rfds
    /\ idle' = [idle EXCEPT ![s] = FALSE]
    /\ reading' = s
    /\ UNCHANGED <<pc, mem, fd, sname, role, answered, zombie_que, net, ub>>

(* READ event without bytes, or with an error: the peer is gone.           *)
PeerGone(s) ==
    /\ Dispatching
    /\ Open(s)
    /\ fd[s] \in net.rfds
    /\ idle' = [idle EXCEPT ![s] = FALSE]
    /\ net' \in p2p_kill(net, sname, s)
    /\ UNCHANGED <<pc, mem, fd, sname, role, answered, reading, zombie_que>>
    /\ ub' = ClosingReadsFreed

(* The rest of the buffer holds no complete frame.                         *)
BufferDone ==
    /\ reading # NoSess
    /\ ~ub
    /\ reading' = NoSess
    /\ UNCHANGED <<pc, mem, fd, sname, role, idle, answered, zombie_que, net, ub>>

-----------------------------------------------------------------------------
(* Frames.  exp_process_data() goes on with the next frame of the buffer   *)
(* even when handling this one has closed the connection.                  *)

Parsing(s) == pc = "mio" /\ ~ub /\ reading = s

NextFrame(s) == reading' \in IF Pipelined THEN {s, NoSess} ELSE {NoSess}

(* opensess_exp.c: the first frame announces the role, the buffer's rest   *)
(* is dropped; a malformed one closes the connection.                      *)
initsession(s, r) ==
    /\ Parsing(s)
    /\ role[s] = "none"
    /\ role' = [role EXCEPT ![s] = r]
    /\ net' \in p2p_stream_push(net, sname, s)
    /\ reading' = NoSess
    /\ UNCHANGED <<pc, mem, fd, sname, idle, answered, zombie_que>>
    /\ ub' = ClosingReadsFreed

BadFrame(s) ==
    /\ Parsing(s)
    /\ "badframe" \in Frames
    /\ net' \in p2p_kill(net, sname, s)
    /\ NextFrame(s)
    /\ UNCHANGED <<pc, mem, fd, sname, role, idle, answered, zombie_que>>
    /\ ub' = ClosingReadsFreed

Ping(s) ==
    /\ Parsing(s)
    /\ "ping" \in Frames
    /\ role[s] # "none"
    /\ net' \in p2p_stream_push(net, sname, s)
    /\ NextFrame(s)
    /\ UNCHANGED <<pc, mem, fd, sname, role, idle, answered, zombie_que>>
    /\ ub' = ClosingReadsFreed

MayIdentify(s) == role[s] # "none" /\ (OneAuth => sname[s] = NoName)

(* Mutant: the old session is not looked for.                              *)
KickOutcomes_Never(w, sn, n) == {w}

(* Both auth hooks take the name first and disconnect the session the      *)
(* table has under it, before anything else is looked at.                  *)
KickOutcomes(w, sn, n) ==
    IF xhash_get(w.sessions, sn, n) = {} THEN {w}
    ELSE UNION {p2p_kill(w, sn, old) : old \in xhash_get(w.sessions, sn, n)}

KickReadsFreed(sn, n) ==
    \/ ReadsFreed(net.sessions, n)
    \/ \E old \in xhash_get(net.sessions, sn, n) : mem[old] = "free"

(* auth_hook of the boxes and bdsvr, authack_hook of monitor.  verdict is  *)
(* "auth": answered ok and registered; "autherr": wrong password, answered *)
(* and closed (never for monitor); "authshort": a field is missing.        *)
(* The log that is pushed to monitor at the end is a Forward of its own,   *)
(* here and in awake_hook, and so is the warning of check_inactive_client. *)
auth_hook(s, n, verdict) ==
    LET sn == [sname EXCEPT ![s] = n]
        kicked == KickOutcomes(net, sn, n)
        pushed == UNION {p2p_stream_push(w, sn, s) : w \in kicked}
    IN  /\ Parsing(s)
        /\ MayIdentify(s)
        /\ verdict \in Frames
        /\ sname' = sn
        /\ \/ /\ verdict = "auth"
              /\ \E w \in pushed : \E t \in xhash_put(w.sessions, sn, n, s, s) :
                    net' = [w EXCEPT !.sessions = t]
              /\ answered' = [answered EXCEPT ![s] = n]
           \/ /\ verdict = "autherr"
              /\ role[s] = "bdsvr"
              /\ net' \in UNION {p2p_kill(w, sn, s) : w \in pushed}
              /\ UNCHANGED answered
           \/ /\ verdict = "authshort"
              /\ net' \in kicked
              /\ UNCHANGED answered
        /\ ub' = (KickReadsFreed(sn, n) \/ ClosingReadsFreed)
        /\ NextFrame(s)
        /\ UNCHANGED <<pc, mem, fd, role, idle, zombie_que>>

(* sess_rename(): the old name is zapped, the new one registered under a   *)
(* copy of its text, and the first 4 bytes of it (the size of a pointer)    *)
(* are copied to sname.                                                    *)
awake_hook(s, n) ==
    LET sn == [sname EXCEPT ![s] = Overlay[<<sname[s], n>>]]
    IN  /\ Parsing(s)
        /\ "awake" \in Frames
        /\ role[s] = "bdsvr"
        /\ MayIdentify(s)
        /\ sname' = sn
        /\ answered' = [answered EXCEPT ![s] = n]
        /\ \E t1 \in xhash_zap(net.sessions, sname, sname[s]) :
           \E t2 \in xhash_put(t1, sname, n, n, s) :
              net' \in p2p_stream_push([net EXCEPT !.sessions = t2], sn, s)
        /\ ub' = \/ ReadsFreed(net.sessions, sname[s])
                 \/ ReadsFreed(net.sessions, n)
                 \/ ClosingReadsFreed
        /\ NextFrame(s)
        /\ UNCHANGED <<pc, mem, fd, role, idle, zombie_que>>

awake_refused(s) ==
    /\ Parsing(s)
    /\ "awakeerr" \in Frames
    /\ role[s] = "bdsvr"
    /\ net' \in p2p_stream_push(net, sname, s)
    /\ NextFrame(s)
    /\ UNCHANGED <<pc, mem, fd, sname, role, idle, answered, zombie_que>>
    /\ ub' = ClosingReadsFreed

(* forward_to_app, forward_to_monitor: look the addressee up and push.     *)
Forward(s, n) ==
    /\ Parsing(s)
    /\ "forward" \in Frames
    /\ role[s] # "none"
    /\ IF xhash_get(net.sessions, sname, n) = {} THEN UNCHANGED net
       ELSE \E dest \in xhash_get(net.sessions, sname, n) :
              net' \in p2p_stream_push(net, sname, dest)
    /\ NextFrame(s)
    /\ UNCHANGED <<pc, mem, fd, sname, role, idle, answered, zombie_que>>
    /\ ub' = (KickReadsFreed(sname, n) \/ ClosingReadsFreed)

-----------------------------------------------------------------------------
(* Housekeeping, in the order of the loop of main().                       *)

(* Mutant: the housekeeping runs from within a handler.                    *)
MioRunReturns_Nested ==
    /\ pc = "mio"
    /\ ~ub
    /\ pc' = "deads"
    /\ UNCHANGED <<mem, fd, sname, role, idle, answered, reading, zombie_que, net, ub>>

MioRunReturns ==
    /\ pc = "mio"
    /\ reading = NoSess
    /\ ~ub
    /\ pc' = "deads"
    /\ UNCHANGED <<mem, fd, sname, role, idle, answered, reading, zombie_que, net, ub>>

clear_deads_from_lives ==
    /\ pc = "deads"
    /\ pc' = "save"
    /\ net' = [net EXCEPT !.session_que =
                 [s \in Sess |-> IF net.dead_sess[s] >= @[s] THEN 0
                                 ELSE @[s] - net.dead_sess[s]]]
    /\ UNCHANGED <<mem, fd, sname, role, idle, answered, reading, zombie_que, ub>>

(* Every 7 seconds all dead sessions are freed; a second free of the same  *)
(* session is undefined.  What freed memory holds is never looked at       *)
(* unless ub, so its fields are given the values of calloc() here.         *)
_save_deadsession ==
    LET Freed == {s \in Sess : net.dead_sess[s] > 0}
        Reset(f, v) == [s \in Sess |-> IF s \in Freed THEN v ELSE f[s]]
    IN  /\ pc = "save"
        /\ pc' = "remove"
        /\ mem' = Reset(mem, "free")
        /\ sname' = Reset(sname, NoName)
        /\ role' = Reset(role, "none")
        /\ idle' = Reset(idle, FALSE)
        /\ answered' = Reset(answered, NoName)
        /\ net' = [net EXCEPT !.dead_sess = [s \in Sess |-> 0],
                              !.want_read = @ \ Freed]
        /\ ub' = \E s \in Freed : net.dead_sess[s] > 1 \/ mem[s] = "free"
        /\ UNCHANGED <<fd, reading, zombie_que>>

SaveNotDue ==
    /\ pc = "save"
    /\ pc' = "remove"
    /\ UNCHANGED <<mem, fd, sname, role, idle, answered, reading, zombie_que, net, ub>>

(* Mutant: only sessions that have identified themselves are swept.        *)
remove_zombie_from_lives_Named ==
    LET Swept == {s \in Sess : idle[s] /\ sname[s] # NoName}
    IN  /\ pc = "remove"
        /\ ~ub
        /\ pc' = "clear"
        /\ zombie_que' = [s \in Sess |-> zombie_que[s] +
                                         IF s \in Swept THEN net.session_que[s] ELSE 0]
        /\ net' = [net EXCEPT !.session_que =
                     [s \in Sess |-> IF s \in Swept THEN 0 ELSE @[s]]]
        /\ UNCHANGED <<mem, fd, sname, role, idle, answered, reading, ub>>

remove_zombie_from_lives ==
    /\ pc = "remove"
    /\ ~ub
    /\ pc' = "clear"
    /\ zombie_que' = [s \in Sess |-> zombie_que[s] +
                                     IF idle[s] THEN net.session_que[s] ELSE 0]
    /\ net' = [net EXCEPT !.session_que =
                 [s \in Sess |-> IF idle[s] THEN 0 ELSE @[s]]]
    /\ ub' = \E s \in Sess : net.session_que[s] > 0 /\ mem[s] = "free"
    /\ UNCHANGED <<mem, fd, sname, role, idle, answered, reading>>

ZombiesNotDue ==
    /\ pc = "remove"
    /\ ~ub
    /\ pc' = "mio"
    /\ UNCHANGED <<mem, fd, sname, role, idle, answered, reading, zombie_que, net, ub>>

(* Mutant: the loop does not look at the size of zombie_que.               *)
clear_zombies_Unguarded(s) ==
    /\ pc = "clear"
    /\ ~ub
    /\ zombie_que' = [zombie_que EXCEPT ![s] = @ - 1]
    /\ UNCHANGED <<pc, mem, fd, sname, role, idle, answered, reading, net, ub>>

(* One turn of the loop of clear_zombies().                                *)
clear_zombies(s) ==
    /\ pc = "clear"
    /\ ~ub
    /\ zombie_que[s] > 0
    /\ zombie_que' = [zombie_que EXCEPT ![s] = @ - 1]
    /\ net' \in p2p_kill(net, sname, s)
    /\ UNCHANGED <<pc, mem, fd, sname, role, idle, answered, reading>>
    /\ ub' = (mem[s] = "free" \/ ClosingReadsFreed)

ZombiesCleared ==
    /\ pc = "clear"
    /\ ~ub
    /\ \A s \in Sess : zombie_que[s] = 0
    /\ pc' = "mio"
    /\ UNCHANGED <<mem, fd, sname, role, idle, answered, reading, zombie_que, net, ub>>

(* More than 20 seconds pass without input from the peer of s.             *)
GoSilent(s) ==
    /\ Open(s)
    /\ ~ub
    /\ ~idle[s]
    /\ idle' = [idle EXCEPT ![s] = TRUE]
    /\ UNCHANGED <<pc, mem, fd, sname, role, answered, reading, zombie_que, net, ub>>

-----------------------------------------------------------------------------
Handler(s) ==
    \/ \E f \in Fd : Accept(s, f)
    \/ Read(s)
    \/ PeerGone(s)
    \/ \E r \in {"bdsvr", "monitor"} : initsession(s, r)
    \/ BadFrame(s)
    \/ Ping(s)
    \/ \E n \in Name : \E v \in {"auth", "autherr", "authshort"} : auth_hook(s, n, v)
    \/ \E n \in Name : awake_hook(s, n)
    \/ awake_refused(s)
    \/ \E n \in Name : Forward(s, n)

Housekeeping ==
    \/ MioRunReturns
    \/ clear_deads_from_lives
    \/ _save_deadsession
    \/ SaveNotDue
    \/ remove_zombie_from_lives
    \/ ZombiesNotDue
    \/ \E s \in Sess : clear_zombies(s)
    \/ ZombiesCleared

Next ==
    \/ \E s \in Sess : Handler(s) \/ GoSilent(s)
    \/ BufferDone
    \/ Housekeeping

(* mio_run() handles the events of one select() and returns, a buffer      *)
(* holds finitely many frames, and the loop's timers come due again and    *)
(* again: the program's own steps are fair, the peers' are not.            *)
Fairness ==
    /\ WF_vars(BufferDone)
    /\ SF_vars(MioRunReturns)
    /\ WF_vars(Housekeeping)
    /\ SF_vars(_save_deadsession)
    /\ SF_vars(remove_zombie_from_lives)

Spec == Init /\ [][Next]_vars
FairSpec == Spec /\ Fairness

-----------------------------------------------------------------------------
(* Properties that hold whatever the peers send.                           *)

(* Main structural invariant: every allocated session is in exactly one    *)
(* of session_que, zombie_que and dead_sess, once.  Were one missing it    *)
(* would leak; were one queued twice _save_deadsession would free it while *)
(* another queue still holds it, or free it twice.                         *)
OneHome ==
    \A s \in Sess : net.session_que[s] + zombie_que[s] + net.dead_sess[s] =
                    IF mem[s] = "alloc" THEN 1 ELSE 0

(* mio hands the events of a descriptor to the session that was accepted   *)
(* on it, never to a freed one or to one that has been closed, although    *)
(* descriptor numbers and addresses are reused; and a session that is not  *)
(* waiting to be freed has its connection.                                 *)
SlotOwner ==
    /\ \A f \in Fd : net.slot[f] # NoSess =>
          /\ fd[net.slot[f]] = f
          /\ mem[net.slot[f]] = "alloc"
          /\ net.dead_sess[net.slot[f]] = 0
    /\ \A s \in Sess : mem[s] = "alloc" /\ net.dead_sess[s] = 0 => Open(s)

(* The buffer of a session is never parsed after the session is freed: the *)
(* housekeeping frees only while no handler is active.                     *)
ReaderAllocated == reading # NoSess => pc = "mio" /\ mem[reading] = "alloc"

(* A silent connection does not hold its session for ever: unless the peer *)
(* speaks again it is closed by the zombie sweep and freed.                *)
SilentReaped ==
    \A s \in Sess : (mem[s] = "alloc" /\ idle[s]) ~>
                       (mem[s] = "free" \/ ~idle[s] \/ ub)

-----------------------------------------------------------------------------
(* Properties of the registry, for peers that identify themselves once on  *)
(* a connection, wait for the answer, and do not vanish while a handler    *)
(* runs.                                                                   *)

(* Whatever the table returns may be used: it is an open session.          *)
RegisteredOpen == \A x \in net.sessions : Open(x.val)

(* A peer that was told "ok" under a name and is still connected is the    *)
(* one the table returns for this name, so that what is forwarded to it    *)
(* arrives, and it is the only one.                                        *)
Reachable ==
    \A s \in Sess : Open(s) /\ answered[s] # NoName =>
        xhash_get(net.sessions, sname, answered[s]) = {s}

(* The set given to select() holds open descriptors only; with a closed    *)
(* one in it the event loop would serve nobody.                            *)
PollSetOpen == PollWorks

(* No handler touches a freed session.                                     *)
NoUseAfterFree == ~ub
=============================================================================
