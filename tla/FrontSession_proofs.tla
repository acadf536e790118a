------------------------ MODULE FrontSession_proofs -------------------------
(* Proofs about the connections of frontsvr, whatever the peers send.      *)
EXTENDS FrontSession, TLAPS

(* The part of the invariant a value w of net, with z for zombie_que, must  *)
(* satisfy.                                                                *)
OwnerOK(w) ==
    /\ \A f \in Fd : w.slot[f] # NoSess =>
          /\ fd[w.slot[f]] = f
          /\ mem[w.slot[f]] = "alloc"
          /\ w.dead_sess[w.slot[f]] = 0
    /\ \A s \in Sess : mem[s] = "alloc" /\ w.dead_sess[s] = 0 => w.slot[fd[s]] = s

HomeOK(w, z) ==
    \A s \in Sess : w.session_que[s] + z[s] + w.dead_sess[s] =
                    IF mem[s] = "alloc" THEN 1 ELSE 0

Good(w, z) == w \in NetType /\ OwnerOK(w) /\ HomeOK(w, z)

NoZombies(z) == z \in [Sess -> Nat] /\ \A s \in Sess : z[s] = 0

NameMap == [Sess -> Name \cup {NoName}]

StateOK ==
    /\ mem \in [Sess -> {"alloc", "free"}]
    /\ fd \in [Sess -> Fd]

(* The table shrinks under zap.                                            *)
LEMMA ZapSubset ==
    ASSUME NEW table, NEW sn, NEW n, NEW t \in xhash_zap(table, sn, n)
    PROVE  t \subseteq table
  BY DEF xhash_zap

(* put adds one well-formed node.                                          *)
LEMMA PutType ==
    ASSUME NEW table \in SUBSET Node, NEW sn, NEW n \in Name,
           NEW key \in Sess \cup Name, NEW s \in Sess,
           NEW t \in xhash_put(table, sn, n, key, s)
    PROVE  t \in SUBSET Node
<1>1. PICK z \in xhash_zap(table, sn, n) :
          t = z \cup {[bucket |-> Bucket[n], key |-> key, val |-> s]}
  BY DEF xhash_put
<1>2. z \subseteq Node
  BY ZapSubset
<1>3. [bucket |-> Bucket[n], key |-> key, val |-> s] \in Node
  <2>1. Bucket[n] \in {Bucket[m] : m \in Name}
    OBVIOUS
  <2> QED
    BY <2>1 DEF Node
<1> QED
  BY <1>1, <1>2, <1>3

(* Closing a descriptor keeps every session in exactly one queue: the      *)
(* session it belongs to moves from session_que to dead_sess.              *)
LEMMA ClosedGood ==
    ASSUME StateOK, NEW w, NEW z \in [Sess -> Nat], Good(w, z),
           NEW sn \in NameMap, NEW f \in Fd,
           w.slot[f] # NoSess => z[w.slot[f]] = 0,
           NEW u \in Closed(w, sn, f)
    PROVE  Good(u, z)
<1> USE SessAssumption
<1> DEFINE s == w.slot[f]
           v == [w EXCEPT !.rfds = w.rfds \ {f},
                          !.slot = [w.slot EXCEPT ![f] = NoSess]]
<1>0. w \in NetType /\ OwnerOK(w) /\ HomeOK(w, z)
  BY DEF Good
<1>1. CASE s = NoSess
  <2>1. u = v
    BY <1>1 DEF Closed
  <2>2. w.slot[f] = NoSess
    BY <1>1
  <2>3. /\ v.slot = w.slot
        /\ v.rfds \subseteq Fd
        /\ v.want_read = w.want_read
        /\ v.sessions = w.sessions
        /\ v.session_que = w.session_que
        /\ v.dead_sess = w.dead_sess
    BY <1>0, <2>2 DEF NetType
  <2>4. v \in NetType
    BY <1>0, <2>2 DEF NetType
  <2> HIDE DEF v
  <2>5. OwnerOK(v)
    BY <1>0, <2>3 DEF OwnerOK
  <2>6. HomeOK(v, z)
    BY <1>0, <2>3 DEF HomeOK
  <2> QED
    BY <2>1, <2>4, <2>5, <2>6 DEF Good
<1>2. CASE s # NoSess
  <2>1. s \in Sess
    BY <1>0, <1>2 DEF NetType
  <2>2. PICK t \in xhash_zap(w.sessions, sn, sn[s]) :
            u = [v EXCEPT
                   !.sessions = t,
                   !.session_que = [w.session_que EXCEPT
                                       ![s] = IF @ > 0 THEN @ - 1 ELSE @],
                   !.dead_sess = [w.dead_sess EXCEPT ![s] = @ + 1]]
    BY <1>2 DEF Closed
  <2>3. t \subseteq w.sessions
    BY ZapSubset
  <2>4. fd[s] = f /\ mem[s] = "alloc" /\ w.dead_sess[s] = 0 /\ z[s] = 0
    BY <1>0, <1>2 DEF OwnerOK
  <2>5. w.session_que[s] = 1
    BY <1>0, <2>1, <2>4 DEF HomeOK, NetType
  <2>6. w.slot \in [Fd -> Sess \cup {NoSess}] /\ w.rfds \in SUBSET Fd
        /\ w.want_read \in SUBSET Sess /\ w.sessions \in SUBSET Node
        /\ w.session_que \in [Sess -> Nat] /\ w.dead_sess \in [Sess -> Nat]
    BY <1>0 DEF NetType
  <2>7. v = [slot |-> [w.slot EXCEPT ![f] = NoSess], rfds |-> w.rfds \ {f},
             want_read |-> w.want_read, sessions |-> w.sessions,
             session_que |-> w.session_que, dead_sess |-> w.dead_sess]
    <3>1. /\ v.slot = [w.slot EXCEPT ![f] = NoSess]
          /\ v.rfds = w.rfds \ {f}
      BY <1>0 DEF NetType
    <3>2. /\ v.want_read = w.want_read
          /\ v.sessions = w.sessions
          /\ v.session_que = w.session_que
          /\ v.dead_sess = w.dead_sess
      BY <1>0 DEF NetType
    <3>3. v \in NetType
      BY <1>0 DEF NetType
    <3> HIDE DEF v
    <3>4. v = [slot |-> v.slot, rfds |-> v.rfds, want_read |-> v.want_read,
               sessions |-> v.sessions, session_que |-> v.session_que,
               dead_sess |-> v.dead_sess]
      BY <3>3 DEF NetType
    <3> QED
      BY <3>1, <3>2, <3>4
  <2>12. u = [slot |-> [w.slot EXCEPT ![f] = NoSess],
              rfds |-> w.rfds \ {f},
              want_read |-> w.want_read,
              sessions |-> t,
              session_que |-> [w.session_que EXCEPT ![s] = 0],
              dead_sess |-> [w.dead_sess EXCEPT ![s] = 1]]
    <3> HIDE DEF v, s
    <3>1. u = [v EXCEPT !.sessions = t,
                        !.session_que = [w.session_que EXCEPT ![s] = 0],
                        !.dead_sess = [w.dead_sess EXCEPT ![s] = 1]]
      BY <2>1, <2>2, <2>4, <2>5, <2>6
    <3> QED
      BY <2>7, <3>1
  <2> HIDE DEF s
  <2>10. u \in NetType
    BY <2>1, <2>3, <2>6, <2>12 DEF NetType
  <2>11. /\ u.slot = [w.slot EXCEPT ![f] = NoSess]
         /\ u.session_que = [w.session_que EXCEPT ![s] = 0]
         /\ u.dead_sess = [w.dead_sess EXCEPT ![s] = 1]
    BY <2>12
  <2>8. OwnerOK(u)
    <3>1. ASSUME NEW g \in Fd, u.slot[g] # NoSess
          PROVE  /\ fd[u.slot[g]] = g
                 /\ mem[u.slot[g]] = "alloc"
                 /\ u.dead_sess[u.slot[g]] = 0
      <4>1. g # f /\ u.slot[g] = w.slot[g]
        BY <1>0, <2>6, <2>11, <3>1 DEF NetType
      <4>2. w.slot[g] \in Sess /\ w.slot[g] # s
        BY <1>0, <2>4, <3>1, <4>1 DEF NetType, OwnerOK
      <4> QED
        BY <1>0, <2>6, <2>11, <3>1, <4>1, <4>2 DEF NetType, OwnerOK
    <3>2. ASSUME NEW r \in Sess, mem[r] = "alloc", u.dead_sess[r] = 0
          PROVE  u.slot[fd[r]] = r
      <4>1. r # s /\ w.dead_sess[r] = 0
        BY <1>0, <2>6, <2>11, <3>2 DEF NetType
      <4>2. w.slot[fd[r]] = r
        BY <1>0, <3>2, <4>1 DEF OwnerOK
      <4> QED
        BY <2>6, <2>11, <4>1, <4>2 DEF StateOK, s
    <3> QED
      BY <3>1, <3>2 DEF OwnerOK
  <2>9. HomeOK(u, z)
    <3>1. ASSUME NEW r \in Sess
          PROVE  u.session_que[r] + z[r] + u.dead_sess[r] =
                 IF mem[r] = "alloc" THEN 1 ELSE 0
      <4>1. CASE r = s
        BY <2>1, <2>4, <2>6, <2>11, <4>1
      <4>2. CASE r # s
        <5>1. u.session_que[r] = w.session_que[r] /\ u.dead_sess[r] = w.dead_sess[r]
          BY <2>6, <2>11, <4>2
        <5> QED
          BY <1>0, <5>1 DEF HomeOK
      <4> QED
        BY <4>1, <4>2
    <3> QED
      BY <3>1 DEF HomeOK
  <2> QED
    BY <2>10, <2>8, <2>9 DEF Good
<1> QED
  BY <1>1, <1>2

(* Pushing a packet asks for reading, and may close the connection.        *)
LEMMA PushGood ==
    ASSUME StateOK, NEW w, NEW z, NoZombies(z), Good(w, z), NEW sn \in NameMap, NEW s \in Sess,
           NEW u \in p2p_stream_push(w, sn, s)
    PROVE  Good(u, z)
<1>0. w \in NetType /\ OwnerOK(w) /\ HomeOK(w, z) /\ fd[s] \in Fd
  BY DEF Good, StateOK
<1> DEFINE polled == IF s \in w.want_read THEN [w EXCEPT !.rfds = @ \cup {fd[s]}] ELSE w
<1>1. CASE u = polled
  <2>1. u \in NetType
    BY <1>0, <1>1 DEF NetType
  <2>2. /\ u.slot = w.slot
        /\ u.session_que = w.session_que
        /\ u.dead_sess = w.dead_sess
    BY <1>0, <1>1 DEF NetType
  <2> HIDE DEF polled
  <2> QED
    BY <1>0, <2>1, <2>2 DEF Good, OwnerOK, HomeOK
<1>2. CASE \E c \in p2p_kill(w, sn, s) : u = [c EXCEPT !.want_read = @ \ {s}]
  <2>1. PICK c \in p2p_kill(w, sn, s) : u = [c EXCEPT !.want_read = @ \ {s}]
    BY <1>2
  <2>2. Good(c, z)
    BY <1>0, ClosedGood DEF p2p_kill, NoZombies, NetType
  <2>3. u \in NetType
    BY <2>1, <2>2 DEF NetType, Good
  <2>4. /\ u.slot = c.slot
        /\ u.session_que = c.session_que
        /\ u.dead_sess = c.dead_sess
    BY <2>1, <2>2 DEF NetType, Good
  <2> QED
    BY <2>2, <2>3, <2>4 DEF Good, OwnerOK, HomeOK
<1> QED
  BY <1>1, <1>2 DEF p2p_stream_push

LEMMA KickGood ==
    ASSUME StateOK, NEW w, NEW z, NoZombies(z), Good(w, z), NEW sn \in NameMap, NEW n \in Name,
           NEW u \in KickOutcomes(w, sn, n)
    PROVE  Good(u, z)
<1>1. CASE xhash_get(w.sessions, sn, n) = {}
  BY <1>1 DEF KickOutcomes
<1>2. CASE xhash_get(w.sessions, sn, n) # {}
  <2>1. PICK old \in xhash_get(w.sessions, sn, n) : u \in p2p_kill(w, sn, old)
    BY <1>2 DEF KickOutcomes
  <2>2. old \in Sess
    BY DEF xhash_get, Matches, Good, NetType, Node
  <2>3. fd[old] \in Fd
    BY <2>2 DEF StateOK
  <2> QED
    BY <2>1, <2>3, ClosedGood DEF p2p_kill, NoZombies, Good, NetType
<1> QED
  BY <1>1, <1>2

(* Changing the table alone changes neither queues nor descriptors.        *)
LEMMA TableGood ==
    ASSUME NEW w, NEW z, Good(w, z), NEW t \in SUBSET Node
    PROVE  Good([w EXCEPT !.sessions = t], z)
<1> DEFINE u == [w EXCEPT !.sessions = t]
<1>1. u \in NetType
  BY DEF Good, NetType
<1>2. /\ u.slot = w.slot
      /\ u.session_que = w.session_que
      /\ u.dead_sess = w.dead_sess
  BY DEF Good, NetType
<1> HIDE DEF u
<1>3. Good(u, z)
  BY <1>1, <1>2 DEF Good, OwnerOK, HomeOK
<1> QED
  BY <1>3 DEF u

-----------------------------------------------------------------------------
(* The inductive invariant.  Zombies exist only between the two sweeps:    *)
(* elsewhere an open session is in session_que, which is what the CLOSE    *)
(* handler relies on when it looks for the session there.                  *)
IInv ==
    /\ TypeOK
    /\ Good(net, zombie_que)
    /\ pc # "clear" => NoZombies(zombie_que)
    /\ ReaderAllocated

LEMMA InitIInv == Init => IInv
<1> SUFFICES ASSUME Init PROVE IInv
  OBVIOUS
<1> USE SessAssumption, NameAssumption
<1>1. net \in NetType
  BY DEF Init, NetType
<1>2. TypeOK
  BY <1>1 DEF Init, TypeOK
<1>3. /\ net.slot = [f \in Fd |-> NoSess]
      /\ net.session_que = [s \in Sess |-> 0]
      /\ net.dead_sess = [s \in Sess |-> 0]
  BY DEF Init
<1>4. OwnerOK(net) /\ HomeOK(net, zombie_que)
  BY <1>3 DEF Init, OwnerOK, HomeOK
<1> QED
  BY <1>1, <1>2, <1>4 DEF Init, IInv, Good, NoZombies, ReaderAllocated

(* A handler changes net only through the operators above, and leaves      *)
(* memory and descriptors alone.                                           *)
LEMMA HandlerStep ==
    ASSUME IInv, pc = "mio", Good(net', zombie_que), TypeOK',
           UNCHANGED <<pc, mem, fd, zombie_que>>,
           reading' # NoSess => mem[reading'] = "alloc"
    PROVE  IInv'
  BY DEF IInv, Good, OwnerOK, HomeOK, NoZombies, ReaderAllocated

LEMMA AcceptStep ==
    ASSUME IInv, NEW s \in Sess, NEW f \in Fd, Accept(s, f)
    PROVE  IInv'
<1> USE SessAssumption, NameAssumption
<1>0. /\ net \in NetType /\ OwnerOK(net) /\ HomeOK(net, zombie_que)
      /\ TypeOK /\ NoZombies(zombie_que) /\ pc = "mio" /\ reading = NoSess
  BY DEF IInv, Good, Accept, Dispatching
<1>1. net.session_que[s] = 0 /\ net.dead_sess[s] = 0
  <2>1. net.session_que[s] \in Nat /\ net.dead_sess[s] \in Nat /\ zombie_que[s] = 0
    BY <1>0 DEF NetType, NoZombies
  <2>2. net.session_que[s] + zombie_que[s] + net.dead_sess[s] = 0
    BY <1>0 DEF HomeOK, Accept
  <2> QED
    BY <2>1, <2>2
<1>2. net' \in NetType
  <2>1. [net.session_que EXCEPT ![s] = @ + 1] \in [Sess -> Nat]
    BY <1>0, <1>1 DEF NetType
  <2>2. [net.slot EXCEPT ![f] = s] \in [Fd -> Sess \cup {NoSess}]
    BY <1>0 DEF NetType
  <2> QED
    BY <1>0, <2>1, <2>2 DEF Accept, NetType
<1>3. /\ net'.slot = [net.slot EXCEPT ![f] = s]
      /\ net'.session_que = [net.session_que EXCEPT ![s] = 1]
      /\ net'.dead_sess = net.dead_sess
  BY <1>0, <1>1 DEF Accept, NetType
<1>4. /\ net.slot \in [Fd -> Sess \cup {NoSess}]
      /\ net.session_que \in [Sess -> Nat]
      /\ net.dead_sess \in [Sess -> Nat]
  BY <1>0 DEF NetType
<1>5. /\ mem' = [mem EXCEPT ![s] = "alloc"] /\ mem[s] = "free"
      /\ fd' = [fd EXCEPT ![s] = f]
      /\ net.slot[f] = NoSess
      /\ UNCHANGED <<pc, reading, zombie_que, ub>>
  BY DEF Accept
<1>6. OwnerOK(net)'
  <2>1. ASSUME NEW g \in Fd, net'.slot[g] # NoSess
        PROVE  /\ fd'[net'.slot[g]] = g
               /\ mem'[net'.slot[g]] = "alloc"
               /\ net'.dead_sess[net'.slot[g]] = 0
    <3>1. CASE g = f
      BY <1>0, <1>1, <1>3, <1>4, <1>5, <3>1 DEF TypeOK
    <3>2. CASE g # f
      <4>1. net'.slot[g] = net.slot[g] /\ net.slot[g] \in Sess
        BY <1>3, <1>4, <2>1, <3>2
      <4>2. fd[net.slot[g]] = g /\ mem[net.slot[g]] = "alloc" /\ net.slot[g] # s
            /\ net.dead_sess[net.slot[g]] = 0
        BY <1>0, <1>5, <2>1, <4>1 DEF OwnerOK
      <4> QED
        BY <1>0, <1>3, <1>5, <4>1, <4>2 DEF TypeOK
    <3> QED
      BY <3>1, <3>2
  <2>2. ASSUME NEW r \in Sess, mem'[r] = "alloc", net'.dead_sess[r] = 0
        PROVE  net'.slot[fd'[r]] = r
    <3>1. CASE r = s
      BY <1>0, <1>3, <1>4, <1>5, <3>1 DEF TypeOK
    <3>2. CASE r # s
      <4>1. net.slot[fd[r]] = r /\ fd[r] \in Fd
        BY <1>0, <1>3, <1>5, <2>2, <3>2 DEF OwnerOK, TypeOK
      <4>2. fd[r] # f
        BY <1>5, <4>1
      <4> QED
        BY <1>0, <1>3, <1>4, <1>5, <3>2, <4>1, <4>2 DEF TypeOK
    <3> QED
      BY <3>1, <3>2
  <2> QED
    BY <2>1, <2>2 DEF OwnerOK
<1>7. HomeOK(net, zombie_que)'
  <2>1. ASSUME NEW r \in Sess
        PROVE  net'.session_que[r] + zombie_que'[r] + net'.dead_sess[r] =
               IF mem'[r] = "alloc" THEN 1 ELSE 0
    <3>1. CASE r = s
      <4>1. net'.session_que[r] = 1 /\ net'.dead_sess[r] = 0 /\ zombie_que'[r] = 0
            /\ mem'[r] = "alloc"
        BY <1>0, <1>1, <1>3, <1>4, <1>5, <3>1 DEF NoZombies, TypeOK
      <4> QED
        BY <4>1
    <3>2. CASE r # s
      <4>1. net'.session_que[r] = net.session_que[r] /\ zombie_que'[r] = zombie_que[r]
            /\ net'.dead_sess[r] = net.dead_sess[r] /\ mem'[r] = mem[r]
        BY <1>0, <1>3, <1>4, <1>5, <3>2 DEF TypeOK
      <4> QED
        BY <1>0, <4>1 DEF HomeOK
    <3> QED
      BY <3>1, <3>2
  <2> QED
    BY <2>1 DEF HomeOK
<1>8. TypeOK'
  BY <1>0, <1>2 DEF TypeOK, Accept
<1> QED
  BY <1>0, <1>2, <1>5, <1>6, <1>7, <1>8 DEF IInv, Good, NoZombies, ReaderAllocated

(* Every other event of a connection.                                      *)
LEMMA FrameStep ==
    ASSUME IInv, NEW s \in Sess, Handler(s)
    PROVE  IInv'
<1> USE SessAssumption, NameAssumption, OverlayAssumption
<1>0. /\ StateOK /\ Good(net, zombie_que) /\ TypeOK /\ ReaderAllocated
      /\ net \in NetType /\ sname \in NameMap
      /\ pc # "clear" => NoZombies(zombie_que)
  BY DEF IInv, Good, TypeOK, StateOK, NameMap
<1>1. ASSUME NEW f \in Fd, Accept(s, f) PROVE IInv'
  BY <1>1, AcceptStep
<1>2. CASE Read(s)
  <2>1. TypeOK'
    BY <1>0, <1>2 DEF TypeOK, Read, Dispatching
  <2> QED
    BY <1>0, <1>2, <2>1, HandlerStep DEF Read, Dispatching, Open
<1>3. CASE PeerGone(s)
  <2>1. Good(net', zombie_que)
    BY <1>0, <1>3, ClosedGood DEF PeerGone, Dispatching, p2p_kill, TypeOK, NetType, NoZombies
  <2>2. TypeOK'
    BY <1>0, <1>3, <2>1 DEF TypeOK, PeerGone, Dispatching, Good, ClosingReadsFreed
  <2> QED
    BY <1>0, <1>3, <2>1, <2>2, HandlerStep DEF PeerGone, Dispatching
<1>4. ASSUME NEW r \in {"bdsvr", "monitor"}, initsession(s, r) PROVE IInv'
  <2>1. Good(net', zombie_que)
    BY <1>0, <1>4, PushGood DEF initsession, Parsing
  <2>2. TypeOK'
    BY <1>0, <1>4, <2>1 DEF TypeOK, initsession, Good, ClosingReadsFreed
  <2> QED
    BY <1>0, <1>4, <2>1, <2>2, HandlerStep DEF initsession, Parsing
<1>5. CASE BadFrame(s)
  <2>1. Good(net', zombie_que)
    BY <1>0, <1>5, ClosedGood DEF BadFrame, Parsing, p2p_kill, TypeOK, NetType, NoZombies
  <2>2. TypeOK'
    BY <1>0, <1>5, <2>1 DEF TypeOK, BadFrame, NextFrame, Good, ClosingReadsFreed
  <2> QED
    BY <1>0, <1>5, <2>1, <2>2, HandlerStep DEF BadFrame, Parsing, NextFrame, ReaderAllocated
<1>6. CASE Ping(s)
  <2>1. Good(net', zombie_que)
    BY <1>0, <1>6, PushGood DEF Ping, Parsing
  <2>2. TypeOK'
    BY <1>0, <1>6, <2>1 DEF TypeOK, Ping, NextFrame, Good, ClosingReadsFreed
  <2> QED
    BY <1>0, <1>6, <2>1, <2>2, HandlerStep DEF Ping, Parsing, NextFrame, ReaderAllocated
<1>7. ASSUME NEW n \in Name, NEW v \in {"auth", "autherr", "authshort"}, auth_hook(s, n, v)
      PROVE  IInv'
  <2> DEFINE sn == [sname EXCEPT ![s] = n]
             kicked == KickOutcomes(net, sn, n)
             pushed == UNION {p2p_stream_push(w, sn, s) : w \in kicked}
  <2>0. sn \in NameMap /\ NoZombies(zombie_que) /\ zombie_que \in [Sess -> Nat]
        /\ fd[s] \in Fd
    BY <1>0, <1>7 DEF NameMap, auth_hook, Parsing, NoZombies, TypeOK
  <2>1. \A w \in kicked : Good(w, zombie_que)
    BY <1>0, <2>0, KickGood
  <2>2. \A w \in pushed : Good(w, zombie_que)
    <3>1. SUFFICES ASSUME NEW w \in pushed PROVE Good(w, zombie_que)
      OBVIOUS
    <3>2. PICK k \in kicked : w \in p2p_stream_push(k, sn, s)
      BY <3>1
    <3>3. Good(k, zombie_que)
      BY <2>1, <3>2
    <3> HIDE DEF kicked, pushed, sn
    <3> QED
      BY <1>0, <2>0, <3>2, <3>3, PushGood
  <2>3. Good(net', zombie_que)
    <3>1. CASE \E w \in pushed : \E t \in xhash_put(w.sessions, sn, n, s, s) :
                  net' = [w EXCEPT !.sessions = t]
      <4>0. PICK w \in pushed : \E t \in xhash_put(w.sessions, sn, n, s, s) :
                  net' = [w EXCEPT !.sessions = t]
        BY <3>1
      <4>1. PICK t \in xhash_put(w.sessions, sn, n, s, s) :
                  net' = [w EXCEPT !.sessions = t]
        BY <4>0
      <4>2. w.sessions \in SUBSET Node
        BY <2>2 DEF Good, NetType
      <4>3. t \in SUBSET Node
        BY <4>2, PutType
      <4> HIDE DEF pushed
      <4> QED
        BY <2>2, <4>1, <4>3, TableGood
    <3>2. CASE net' \in UNION {p2p_kill(w, sn, s) : w \in pushed}
      <4>1. PICK w \in pushed : net' \in p2p_kill(w, sn, s)
        BY <3>2
      <4>2. w.slot[fd[s]] # NoSess => zombie_que[w.slot[fd[s]]] = 0
        BY <2>0, <2>2 DEF Good, NetType, NoZombies
      <4> HIDE DEF pushed, sn
      <4> QED
        BY <1>0, <2>0, <2>2, <4>1, <4>2, ClosedGood DEF p2p_kill
    <3>3. CASE net' \in kicked
      BY <2>1, <3>3
    <3> QED
      BY <1>7, <3>1, <3>2, <3>3 DEF auth_hook
  <2>4. TypeOK'
    BY <1>0, <1>7, <2>3 DEF TypeOK, auth_hook, NextFrame, Good, ClosingReadsFreed, KickReadsFreed
  <2>5. /\ pc = "mio" /\ reading = s
        /\ UNCHANGED <<pc, mem, fd, zombie_que>>
        /\ reading' \in {s, NoSess}
    BY <1>7 DEF auth_hook, Parsing, NextFrame
  <2> QED
    BY <1>0, <2>3, <2>4, <2>5, HandlerStep DEF ReaderAllocated
<1>8. ASSUME NEW n \in Name, awake_hook(s, n) PROVE IInv'
  <2> DEFINE sn == [sname EXCEPT ![s] = Overlay[<<sname[s], n>>]]
  <2>0. sn \in NameMap /\ NoZombies(zombie_que)
    BY <1>0, <1>8 DEF NameMap, awake_hook, Parsing
  <2>0a. PICK t1 \in xhash_zap(net.sessions, sname, sname[s]) :
             \E t2 \in xhash_put(t1, sname, n, n, s) :
                net' \in p2p_stream_push([net EXCEPT !.sessions = t2], sn, s)
    BY <1>8 DEF awake_hook
  <2>1. PICK t2 \in xhash_put(t1, sname, n, n, s) :
                net' \in p2p_stream_push([net EXCEPT !.sessions = t2], sn, s)
    BY <2>0a
  <2>2. t1 \in SUBSET Node
    BY <1>0, ZapSubset DEF NetType
  <2>3. t2 \in SUBSET Node
    BY <2>2, PutType
  <2>4. Good([net EXCEPT !.sessions = t2], zombie_que)
    BY <1>0, <2>3, TableGood
  <2>5. Good(net', zombie_que)
    BY <1>0, <2>0, <2>1, <2>4, PushGood
  <2>6. TypeOK'
    BY <1>0, <1>8, <2>5 DEF TypeOK, awake_hook, NextFrame, Good, ClosingReadsFreed
  <2>7. /\ pc = "mio" /\ reading = s
        /\ UNCHANGED <<pc, mem, fd, zombie_que>>
        /\ reading' \in {s, NoSess}
    BY <1>8 DEF awake_hook, Parsing, NextFrame
  <2> QED
    BY <1>0, <2>5, <2>6, <2>7, HandlerStep DEF ReaderAllocated
<1>9. CASE awake_refused(s)
  <2>1. Good(net', zombie_que)
    BY <1>0, <1>9, PushGood DEF awake_refused, Parsing
  <2>2. TypeOK'
    BY <1>0, <1>9, <2>1 DEF TypeOK, awake_refused, NextFrame, Good, ClosingReadsFreed
  <2> QED
    BY <1>0, <1>9, <2>1, <2>2, HandlerStep
    DEF awake_refused, Parsing, NextFrame, ReaderAllocated
<1>10. ASSUME NEW n \in Name, Forward(s, n) PROVE IInv'
  <2>1. Good(net', zombie_que)
    <3>1. CASE UNCHANGED net
      BY <1>0, <3>1
    <3>2. CASE \E dest \in xhash_get(net.sessions, sname, n) :
                   net' \in p2p_stream_push(net, sname, dest)
      <4>1. PICK dest \in xhash_get(net.sessions, sname, n) :
                   net' \in p2p_stream_push(net, sname, dest)
        BY <3>2
      <4>2. dest \in Sess
        BY <1>0 DEF xhash_get, Matches, NetType, Node
      <4>3. NoZombies(zombie_que)
        BY <1>0, <1>10 DEF Forward, Parsing
      <4> QED
        BY <1>0, <4>1, <4>2, <4>3, PushGood
    <3> QED
      BY <1>10, <3>1, <3>2 DEF Forward
  <2>2. TypeOK'
    BY <1>0, <1>10, <2>1 DEF TypeOK, Forward, NextFrame, Good, ClosingReadsFreed, KickReadsFreed
  <2> QED
    BY <1>0, <1>10, <2>1, <2>2, HandlerStep DEF Forward, Parsing, NextFrame, ReaderAllocated
<1> QED
  BY <1>1, <1>2, <1>3, <1>4, <1>5, <1>6, <1>7, <1>8, <1>9, <1>10 DEF Handler

(* The housekeeping functions.                                             *)
LEMMA HousekeepingStep ==
    ASSUME IInv, Housekeeping
    PROVE  IInv'
<1> USE SessAssumption, NameAssumption
<1>0. /\ StateOK /\ TypeOK /\ ReaderAllocated
      /\ net \in NetType /\ OwnerOK(net) /\ HomeOK(net, zombie_que)
      /\ pc # "clear" => NoZombies(zombie_que)
      /\ net.slot \in [Fd -> Sess \cup {NoSess}]
      /\ net.session_que \in [Sess -> Nat]
      /\ net.dead_sess \in [Sess -> Nat]
      /\ zombie_que \in [Sess -> Nat]
  BY DEF IInv, Good, TypeOK, StateOK, NetType
<1>1. ASSUME UNCHANGED <<mem, fd, sname, role, idle, answered, reading, zombie_que, net, ub>>,
             pc' \in {"mio", "deads", "remove"}, reading = NoSess, NoZombies(zombie_que)
      PROVE  IInv'
  <2>1. TypeOK'
    BY <1>0, <1>1 DEF TypeOK
  <2> QED
    BY <1>0, <1>1, <2>1 DEF IInv, Good, OwnerOK, HomeOK, NoZombies, ReaderAllocated
<1>2. pc # "mio" => reading = NoSess
  BY <1>0 DEF ReaderAllocated
<1>3. CASE clear_deads_from_lives
  <2>1. net' \in NetType
    BY <1>0, <1>3 DEF clear_deads_from_lives, NetType
  <2>2. /\ net'.slot = net.slot
        /\ net'.dead_sess = net.dead_sess
        /\ net'.session_que = [s \in Sess |->
                IF net.dead_sess[s] >= net.session_que[s] THEN 0
                ELSE net.session_que[s] - net.dead_sess[s]]
    BY <1>0, <1>3 DEF clear_deads_from_lives, NetType
  <2>3. \A s \in Sess : net'.session_que[s] = net.session_que[s]
    <3>1. ASSUME NEW s \in Sess PROVE net'.session_que[s] = net.session_que[s]
      <4>1. /\ net.session_que[s] \in Nat /\ net.dead_sess[s] \in Nat
            /\ zombie_que[s] = 0
        BY <1>0, <1>3 DEF clear_deads_from_lives, NoZombies
      <4>2. net.session_que[s] + zombie_que[s] + net.dead_sess[s] \in {0, 1}
        BY <1>0 DEF HomeOK
      <4>3. net'.session_que[s] = IF net.dead_sess[s] >= net.session_que[s] THEN 0
                                  ELSE net.session_que[s] - net.dead_sess[s]
        BY <2>2
      <4> QED
        BY <4>1, <4>2, <4>3
    <3> QED
      BY <3>1
  <2>4. TypeOK'
    BY <1>0, <1>3, <2>1 DEF TypeOK, clear_deads_from_lives
  <2> QED
    BY <1>0, <1>2, <1>3, <2>1, <2>2, <2>3, <2>4
    DEF IInv, Good, OwnerOK, HomeOK, NoZombies, ReaderAllocated, clear_deads_from_lives
<1>4. CASE _save_deadsession
  <2>1. net' \in NetType
    BY <1>0, <1>4 DEF _save_deadsession, NetType
  <2>2. /\ net'.slot = net.slot
        /\ net'.session_que = net.session_que
        /\ net'.dead_sess = [s \in Sess |-> 0]
        /\ mem' = [s \in Sess |-> IF net.dead_sess[s] > 0 THEN "free" ELSE mem[s]]
        /\ UNCHANGED <<fd, reading, zombie_que>>
        /\ pc = "save" /\ pc' = "remove"
    BY <1>0, <1>4 DEF _save_deadsession, NetType
  <2>3. OwnerOK(net)'
    <3>1. ASSUME NEW f \in Fd, net'.slot[f] # NoSess
          PROVE  /\ fd'[net'.slot[f]] = f
                 /\ mem'[net'.slot[f]] = "alloc"
                 /\ net'.dead_sess[net'.slot[f]] = 0
      BY <1>0, <2>2, <3>1 DEF OwnerOK
    <3>2. ASSUME NEW s \in Sess, mem'[s] = "alloc"
          PROVE  net'.slot[fd'[s]] = s
      <4>1. ~(net.dead_sess[s] > 0) /\ mem[s] = "alloc" /\ net.dead_sess[s] \in Nat
        BY <1>0, <2>2, <3>2
      <4>2. net.dead_sess[s] = 0
        BY <4>1
      <4> QED
        BY <1>0, <2>2, <4>1, <4>2 DEF OwnerOK
    <3> QED
      BY <3>1, <3>2 DEF OwnerOK
  <2>4. HomeOK(net, zombie_que)'
    <3>1. ASSUME NEW s \in Sess
          PROVE  net'.session_que[s] + zombie_que'[s] + net'.dead_sess[s] =
                 IF mem'[s] = "alloc" THEN 1 ELSE 0
      <4>1. /\ net.session_que[s] \in Nat /\ net.dead_sess[s] \in Nat
            /\ zombie_que[s] = 0
        BY <1>0, <2>2 DEF NoZombies
      <4>2. net.session_que[s] + zombie_que[s] + net.dead_sess[s] =
            IF mem[s] = "alloc" THEN 1 ELSE 0
        BY <1>0 DEF HomeOK
      <4>3. /\ net'.session_que[s] = net.session_que[s]
            /\ zombie_que'[s] = zombie_que[s] /\ net'.dead_sess[s] = 0
            /\ mem'[s] = IF net.dead_sess[s] > 0 THEN "free" ELSE mem[s]
        BY <2>2
      <4>4. CASE net.dead_sess[s] > 0
        <5>1. net.session_que[s] = 0
          BY <4>1, <4>2, <4>4
        <5> QED
          BY <4>1, <4>3, <4>4, <5>1
      <4>5. CASE ~(net.dead_sess[s] > 0)
        <5>1. net.dead_sess[s] = 0
          BY <4>1, <4>5
        <5> QED
          BY <4>2, <4>3, <4>5, <5>1
      <4> QED
        BY <4>4, <4>5
    <3> QED
      BY <3>1 DEF HomeOK
  <2>5. TypeOK'
    BY <1>0, <1>4, <2>1 DEF TypeOK, _save_deadsession
  <2> QED
    BY <1>0, <1>2, <2>1, <2>2, <2>3, <2>4, <2>5 DEF IInv, Good, NoZombies, ReaderAllocated
<1>5. CASE remove_zombie_from_lives
  <2>1. zombie_que' \in [Sess -> Nat] /\ net' \in NetType
    BY <1>0, <1>5 DEF remove_zombie_from_lives, NetType
  <2>2. /\ net'.slot = net.slot
        /\ net'.dead_sess = net.dead_sess
        /\ net'.session_que = [s \in Sess |-> IF idle[s] THEN 0 ELSE net.session_que[s]]
        /\ zombie_que' = [s \in Sess |-> zombie_que[s] +
                                         IF idle[s] THEN net.session_que[s] ELSE 0]
        /\ UNCHANGED <<mem, fd, reading>>
        /\ pc = "remove" /\ pc' = "clear"
    BY <1>0, <1>5 DEF remove_zombie_from_lives, NetType
  <2>3. HomeOK(net, zombie_que)'
    <3>1. ASSUME NEW s \in Sess
          PROVE  net'.session_que[s] + zombie_que'[s] + net'.dead_sess[s] =
                 IF mem'[s] = "alloc" THEN 1 ELSE 0
      <4>1. /\ net.session_que[s] \in Nat /\ net.dead_sess[s] \in Nat
            /\ zombie_que[s] = 0
        BY <1>0, <2>2 DEF NoZombies
      <4>2. net.session_que[s] + zombie_que[s] + net.dead_sess[s] =
            IF mem[s] = "alloc" THEN 1 ELSE 0
        BY <1>0 DEF HomeOK
      <4>3. /\ net'.session_que[s] = IF idle[s] THEN 0 ELSE net.session_que[s]
            /\ zombie_que'[s] = zombie_que[s] + IF idle[s] THEN net.session_que[s] ELSE 0
            /\ net'.dead_sess[s] = net.dead_sess[s] /\ mem'[s] = mem[s]
        BY <2>2
      <4> QED
        BY <4>1, <4>2, <4>3
    <3> QED
      BY <3>1 DEF HomeOK
  <2>4. OwnerOK(net)'
    BY <1>0, <2>2 DEF OwnerOK
  <2>5. TypeOK'
    BY <1>0, <1>5, <2>1 DEF TypeOK, remove_zombie_from_lives
  <2> QED
    BY <1>0, <1>2, <2>1, <2>2, <2>3, <2>4, <2>5 DEF IInv, Good, ReaderAllocated
<1>6. ASSUME NEW s \in Sess, clear_zombies(s) PROVE IInv'
  (* Seen from the CLOSE handler, s might as well still be in session_que. *)
  <2> DEFINE w == [net EXCEPT !.session_que = [net.session_que EXCEPT ![s] = 1]]
  <2>1. /\ zombie_que[s] = 1 /\ net.session_que[s] = 0 /\ net.dead_sess[s] = 0
        /\ mem[s] = "alloc" /\ net.slot[fd[s]] = s /\ fd[s] \in Fd
    <3>1. /\ net.session_que[s] \in Nat /\ net.dead_sess[s] \in Nat
          /\ zombie_que[s] \in Nat /\ zombie_que[s] > 0
      BY <1>0, <1>6 DEF clear_zombies
    <3>2. net.session_que[s] + zombie_que[s] + net.dead_sess[s] =
          IF mem[s] = "alloc" THEN 1 ELSE 0
      BY <1>0 DEF HomeOK
    <3>3. /\ zombie_que[s] = 1 /\ net.session_que[s] = 0 /\ net.dead_sess[s] = 0
          /\ mem[s] = "alloc"
      BY <3>1, <3>2
    <3> QED
      BY <1>0, <3>3 DEF OwnerOK, TypeOK
  <2>2. /\ zombie_que' = [zombie_que EXCEPT ![s] = 0]
        /\ zombie_que' \in [Sess -> Nat]
        /\ net' \in Closed(net, sname, fd[s])
        /\ UNCHANGED <<pc, mem, fd, sname, role, idle, answered, reading>>
        /\ pc = "clear"
    BY <1>0, <1>6, <2>1 DEF clear_zombies, p2p_kill
  <2>3. /\ w.slot = net.slot /\ w.sessions = net.sessions /\ w.rfds = net.rfds
        /\ w.session_que = [net.session_que EXCEPT ![s] = 1]
        /\ w.dead_sess = net.dead_sess /\ w.want_read = net.want_read
        /\ w \in NetType
    BY <1>0 DEF NetType
  <2>4. net' \in Closed(w, sname, fd[s])
    <3> DEFINE v(x) == [x EXCEPT !.rfds = x.rfds \ {fd[s]},
                                 !.slot = [x.slot EXCEPT ![fd[s]] = NoSess]]
    <3>1. PICK t \in xhash_zap(net.sessions, sname, sname[s]) :
              net' = [v(net) EXCEPT
                        !.sessions = t,
                        !.session_que = [net.session_que EXCEPT
                                            ![s] = IF @ > 0 THEN @ - 1 ELSE @],
                        !.dead_sess = [net.dead_sess EXCEPT ![s] = @ + 1]]
      BY <2>1, <2>2 DEF Closed
    <3>2. [net.session_que EXCEPT ![s] = IF @ > 0 THEN @ - 1 ELSE @] =
          [w.session_que EXCEPT ![s] = IF @ > 0 THEN @ - 1 ELSE @]
      BY <1>0, <2>1, <2>3
    <3>3. net' = [v(w) EXCEPT
                    !.sessions = t,
                    !.session_que = [w.session_que EXCEPT
                                        ![s] = IF @ > 0 THEN @ - 1 ELSE @],
                    !.dead_sess = [w.dead_sess EXCEPT ![s] = @ + 1]]
      BY <1>0, <2>3, <3>1, <3>2 DEF NetType
    <3>4. w.slot[fd[s]] = s /\ s # NoSess
      BY <2>1, <2>3
    <3> HIDE DEF w
    <3>5. Closed(w, sname, fd[s]) =
            {[v(w) EXCEPT
                !.sessions = x,
                !.session_que = [w.session_que EXCEPT
                                    ![s] = IF @ > 0 THEN @ - 1 ELSE @],
                !.dead_sess = [w.dead_sess EXCEPT ![s] = @ + 1]] :
                x \in xhash_zap(w.sessions, sname, sname[s])}
      BY <3>4 DEF Closed
    <3>6. t \in xhash_zap(w.sessions, sname, sname[s])
      BY <2>3, <3>1
    <3> HIDE DEF v
    <3> QED
      BY <3>3, <3>5, <3>6
  <2>5. HomeOK(w, zombie_que')
    <3>1. ASSUME NEW r \in Sess
          PROVE  w.session_que[r] + zombie_que'[r] + w.dead_sess[r] =
                 IF mem[r] = "alloc" THEN 1 ELSE 0
      <4>1. CASE r = s
        BY <1>0, <2>1, <2>2, <2>3, <4>1
      <4>2. CASE r # s
        <5>1. w.session_que[r] = net.session_que[r] /\ zombie_que'[r] = zombie_que[r]
              /\ w.dead_sess[r] = net.dead_sess[r]
          BY <1>0, <2>2, <2>3, <4>2
        <5> QED
          BY <1>0, <5>1 DEF HomeOK
      <4> QED
        BY <4>1, <4>2
    <3> QED
      BY <3>1 DEF HomeOK
  <2>6. Good(w, zombie_que')
    <3> HIDE DEF w
    <3> QED
      BY <1>0, <2>3, <2>5 DEF Good, OwnerOK
  <2>7. Good(net', zombie_que')
    <3>1. w.slot[fd[s]] = s /\ zombie_que'[s] = 0
      BY <1>0, <2>1, <2>2, <2>3
    <3>2. sname \in NameMap
      BY <1>0 DEF TypeOK, NameMap
    <3> HIDE DEF w
    <3> QED
      BY <1>0, <2>1, <2>2, <2>4, <2>6, <3>1, <3>2, ClosedGood
  <2>8. TypeOK'
    BY <1>0, <1>6, <2>2, <2>7 DEF TypeOK, clear_zombies, Good, ClosingReadsFreed
  <2> HIDE DEF w
  <2> QED
    BY <1>0, <1>2, <2>2, <2>7, <2>8 DEF IInv, Good, OwnerOK, HomeOK, ReaderAllocated
<1>7. CASE ZombiesCleared
  BY <1>0, <1>1, <1>2, <1>7 DEF ZombiesCleared, NoZombies
<1>8. CASE MioRunReturns
  BY <1>0, <1>1, <1>8 DEF MioRunReturns
<1>9. CASE SaveNotDue
  BY <1>0, <1>1, <1>2, <1>9 DEF SaveNotDue
<1>10. CASE ZombiesNotDue
  BY <1>0, <1>1, <1>2, <1>10 DEF ZombiesNotDue
<1> QED
  BY <1>3, <1>4, <1>5, <1>6, <1>7, <1>8, <1>9, <1>10 DEF Housekeeping

LEMMA StepIInv == IInv /\ [Next]_vars => IInv'
<1> SUFFICES ASSUME IInv, [Next]_vars PROVE IInv'
  OBVIOUS
<1>1. ASSUME NEW s \in Sess, Handler(s) PROVE IInv'
  BY <1>1, FrameStep
<1>2. ASSUME NEW s \in Sess, GoSilent(s) PROVE IInv'
  <2>1. TypeOK'
    BY <1>2 DEF IInv, TypeOK, GoSilent
  <2> QED
    BY <1>2, <2>1
    DEF IInv, GoSilent, Good, OwnerOK, HomeOK, NoZombies, ReaderAllocated
<1>3. CASE BufferDone
  <2>1. TypeOK'
    BY <1>3 DEF IInv, TypeOK, BufferDone
  <2> QED
    BY <1>3, <2>1
    DEF IInv, BufferDone, Good, OwnerOK, HomeOK, NoZombies, ReaderAllocated
<1>4. CASE Housekeeping
  BY <1>4, HousekeepingStep
<1>5. CASE UNCHANGED vars
  BY <1>5 DEF vars, IInv, TypeOK, Good, OwnerOK, HomeOK, NoZombies, ReaderAllocated
<1> QED
  BY <1>1, <1>2, <1>3, <1>4, <1>5 DEF Next

LEMMA Inductive == Spec => []IInv
  BY InitIInv, StepIInv, PTL DEF Spec

(* The state of frontsvr's connections keeps its type.                     *)
THEOREM TypeCorrect == Spec => []TypeOK
<1>1. IInv => TypeOK
  BY DEF IInv
<1> QED
  BY <1>1, Inductive, PTL

(* For any number of connections, descriptors and names, any frames and    *)
(* failures: every allocated session is in exactly one queue, once, so     *)
(* none leaks and none is freed twice or while it is still queued.         *)
THEOREM OneHomeHolds == Spec => []OneHome
<1>1. IInv => OneHome
  BY DEF IInv, Good, HomeOK, OneHome
<1> QED
  BY <1>1, Inductive, PTL

(* The events of a descriptor reach the open session accepted on it, in    *)
(* spite of the reuse of descriptor numbers and of memory.                 *)
THEOREM SlotOwnerHolds == Spec => []SlotOwner
<1>1. IInv => SlotOwner
  BY DEF IInv, Good, OwnerOK, SlotOwner, Open
<1> QED
  BY <1>1, Inductive, PTL

(* The session whose input is being parsed stays allocated.                *)
THEOREM ReaderAllocatedHolds == Spec => []ReaderAllocated
<1>1. IInv => ReaderAllocated
  BY DEF IInv
<1> QED
  BY <1>1, Inductive, PTL

-----------------------------------------------------------------------------
(* The registry, for peers that identify themselves once on a connection,  *)
(* send a complete identification, never rename themselves and wait for    *)
(* each answer, while sends succeed.  Where peers do any of these, TLC     *)
(* finds the properties below violated.                                    *)
Polite ==
    /\ OneAuth
    /\ ~Pipelined
    /\ ~SendFails
    /\ Frames \cap {"authshort", "awake"} = {}

Live(w, s) == mem[s] = "alloc" /\ w.slot[fd[s]] = s

(* Every node of the table is found under the name its session has now.    *)
TableOK(w, sn) ==
    /\ \A x \in w.sessions : /\ x.key = x.val
                             /\ x.bucket = Bucket[sn[x.val]]
                             /\ sn[x.val] # NoName
                             /\ Live(w, x.val)
    /\ \A x, y \in w.sessions : sn[x.val] = sn[y.val] => x = y

PollOK(w) == \A f \in w.rfds : w.slot[f] # NoSess

(* Every open session with a name is in the table, except those of E (the  *)
(* session a handler is about to register).                                *)
Registered(w, sn, E) ==
    \A s \in Sess \ E : Live(w, s) /\ sn[s] # NoName =>
                           \E x \in w.sessions : x.val = s

RegOK(w, sn, E) == w \in NetType /\ TableOK(w, sn) /\ PollOK(w) /\ Registered(w, sn, E)

AnsweredOK(sn, an) == \A s \in Sess : an[s] # NoName => an[s] = sn[s]

Shut(w, u, s) ==
    /\ \A x \in u.sessions : x \in w.sessions /\ x.val # s
    /\ \A r \in Sess : Live(u, r) <=> Live(w, r) /\ r # s

(* In a good table the nodes found under a name are those of the sessions  *)
(* that have it, and searching it never reads a freed key.                 *)
LEMMA Found ==
    ASSUME NEW w \in NetType, NEW sn, TableOK(w, sn), NEW n
    PROVE  /\ \A x \in w.sessions : x \in Matches(w.sessions, sn, n) <=> sn[x.val] = n
           /\ ~ReadsFreed(w.sessions, n)
           /\ \A old \in xhash_get(w.sessions, sn, n) : old \in Sess /\ mem[old] # "free"
<1>1. \A x \in w.sessions : x.key = x.val /\ x.val \in Sess
        /\ x.bucket = Bucket[sn[x.val]] /\ mem[x.val] = "alloc"
  BY DEF TableOK, NetType, Node, Live
<1> QED
  BY <1>1 DEF Matches, Text, ReadsFreed, xhash_get

(* What mio_close() and the CLOSE handler do to the session of a           *)
(* descriptor in use: its node, if any, leaves the table and no other does.*)
LEMMA ClosedReg ==
    ASSUME StateOK, NEW w, NEW sn \in NameMap, NEW E, RegOK(w, sn, E),
           NEW s \in Sess, Live(w, s), \A f \in Fd : w.slot[f] = s => f = fd[s],
           \A x \in w.sessions : sn[x.val] = sn[s] => x.val = s,
           NEW u \in Closed(w, sn, fd[s]), u \in NetType
    PROVE  RegOK(u, sn, E) /\ Shut(w, u, s)
<1> USE SessAssumption
<1>0. /\ w \in NetType /\ TableOK(w, sn) /\ PollOK(w) /\ Registered(w, sn, E)
      /\ w.slot[fd[s]] = s /\ s # NoSess /\ fd[s] \in Fd /\ mem[s] = "alloc"
  BY DEF RegOK, Live, StateOK
<1> DEFINE v == [w EXCEPT !.rfds = w.rfds \ {fd[s]},
                          !.slot = [w.slot EXCEPT ![fd[s]] = NoSess]]
<1>1. PICK t \in xhash_zap(w.sessions, sn, sn[s]) :
          u = [v EXCEPT
                 !.sessions = t,
                 !.session_que = [w.session_que EXCEPT ![s] = IF @ > 0 THEN @ - 1 ELSE @],
                 !.dead_sess = [w.dead_sess EXCEPT ![s] = @ + 1]]
  BY <1>0 DEF Closed
<1>2. v.slot = [w.slot EXCEPT ![fd[s]] = NoSess] /\ v.rfds = w.rfds \ {fd[s]}
      /\ v \in NetType
  BY <1>0 DEF NetType
<1>3. u.slot = v.slot /\ u.rfds = v.rfds /\ u.sessions = t
  <2> HIDE DEF v
  <2> QED
    BY <1>1, <1>2 DEF NetType
<1> HIDE DEF v
<1>4. \A x \in w.sessions : x.val \in Sess
  BY <1>0 DEF NetType, Node
<1>5. \A x \in t : x \in w.sessions /\ x.val # s
  <2>1. ASSUME NEW x \in t PROVE x \in w.sessions /\ x.val # s
    <3>1. x \in w.sessions
      BY ZapSubset
    <3>2. CASE Matches(w.sessions, sn, sn[s]) = {}
      BY <1>0, <3>1, <3>2, Found
    <3>3. CASE Matches(w.sessions, sn, sn[s]) # {}
      <4>1. PICK m \in Matches(w.sessions, sn, sn[s]) : t = w.sessions \ {m}
        BY <3>3 DEF xhash_zap
      <4>2. m \in w.sessions /\ sn[m.val] = sn[s] /\ x # m
        BY <1>0, <4>1, Found DEF Matches
      <4> QED
        BY <1>0, <3>1, <4>2 DEF TableOK
    <3> QED
      BY <3>1, <3>2, <3>3
  <2> QED
    BY <2>1
<1>6. \A x \in w.sessions : x.val # s => x \in t
  <2>1. ASSUME NEW x \in w.sessions, x.val # s PROVE x \in t
    <3>1. x \notin Matches(w.sessions, sn, sn[s])
      BY <1>0, <2>1, Found
    <3> QED
      BY <2>1, <3>1 DEF xhash_zap
  <2> QED
    BY <2>1
<1>7. \A r \in Sess : Live(u, r) <=> Live(w, r) /\ r # s
  <2>1. ASSUME NEW r \in Sess PROVE Live(u, r) <=> Live(w, r) /\ r # s
    <3>1. fd[r] \in Fd /\ w.slot \in [Fd -> Sess \cup {NoSess}] /\ r # NoSess
      BY <1>0 DEF StateOK, NetType
    <3> QED
      BY <1>0, <1>2, <1>3, <3>1 DEF Live
  <2> QED
    BY <2>1
<1>8. TableOK(u, sn)
  BY <1>0, <1>3, <1>4, <1>5, <1>7 DEF TableOK
<1>9. PollOK(u)
  <2>1. ASSUME NEW f \in u.rfds PROVE u.slot[f] # NoSess
    <3>1. f \in w.rfds /\ f # fd[s] /\ f \in Fd
      BY <1>0, <1>2, <1>3 DEF NetType
    <3> QED
      BY <1>0, <1>2, <1>3, <3>1 DEF PollOK, NetType
  <2> QED
    BY <2>1 DEF PollOK
<1>10. Registered(u, sn, E)
  BY <1>0, <1>3, <1>6, <1>7 DEF Registered
<1> QED
  BY <1>3, <1>5, <1>7, <1>8, <1>9, <1>10 DEF RegOK, Shut

(* In a complete registry a session shares its name with nobody in the     *)
(* table.                                                                  *)
LEMMA AloneReg ==
    ASSUME NEW w, NEW sn, RegOK(w, sn, {}), NEW s \in Sess, Live(w, s)
    PROVE  \A x \in w.sessions : sn[x.val] = sn[s] => x.val = s
  BY DEF RegOK, TableOK, Registered

Vacated(w, u, sn, n, s) ==
    /\ RegOK(u, sn, {s})
    /\ \A x \in u.sessions : sn[x.val] # n
    /\ Live(w, s) => Live(u, s)

(* Disconnecting the session of a name: nobody in the table has it then.   *)
LEMMA KickReg ==
    ASSUME StateOK, NEW w, NEW z, NoZombies(z), Good(w, z),
           NEW sn \in NameMap, NEW n \in Name, NEW s \in Sess, sn[s] = n,
           RegOK(w, sn, {s}), \A x \in w.sessions : x.val # s,
           NEW u \in KickOutcomes(w, sn, n)
    PROVE  Vacated(w, u, sn, n, s)
<1> USE DEF Vacated
<1>0. w \in NetType /\ TableOK(w, sn) /\ OwnerOK(w)
  BY DEF RegOK, Good
<1>1. CASE xhash_get(w.sessions, sn, n) = {}
  <2>1. u = w
    BY <1>1 DEF KickOutcomes
  <2>2. \A x \in w.sessions : sn[x.val] # n
    BY <1>0, <1>1, Found DEF xhash_get
  <2> QED
    BY <2>1, <2>2
<1>2. CASE xhash_get(w.sessions, sn, n) # {}
  <2>1. PICK old \in xhash_get(w.sessions, sn, n) : u \in Closed(w, sn, fd[old])
    BY <1>2 DEF KickOutcomes, p2p_kill
  <2>2. PICK x \in w.sessions : old = x.val /\ sn[old] = n
    BY <1>0, <2>1, Found DEF xhash_get, Matches
  <2>3. old \in Sess /\ Live(w, old) /\ old # s
    BY <1>0, <2>2 DEF TableOK, NetType, Node
  <2>4. \A y \in w.sessions : sn[y.val] = sn[old] => y.val = old
    BY <1>0, <2>2 DEF TableOK
  <2>5. \A f \in Fd : w.slot[f] = old => f = fd[old]
    BY <1>0, <2>3, SessAssumption DEF OwnerOK
  <2>6. u \in NetType
    <3>1. Good(u, z)
      BY KickGood
    <3> QED
      BY <3>1 DEF Good
  <2>7. RegOK(u, sn, {s}) /\ Shut(w, u, old)
    BY <2>1, <2>3, <2>4, <2>5, <2>6, ClosedReg
  <2> QED
    BY <2>2, <2>3, <2>4, <2>7 DEF Shut
<1> QED
  BY <1>1, <1>2

(* Where sends succeed, pushing a packet to an open session changes at     *)
(* most which descriptors are polled.                                      *)
LEMMA PushReg ==
    ASSUME Polite, NEW w \in NetType, NEW sn, NEW s \in Sess, Live(w, s),
           NEW u \in p2p_stream_push(w, sn, s), u \in NetType
    PROVE  /\ u.slot = w.slot
           /\ u.sessions = w.sessions
           /\ PollOK(w) => PollOK(u)
<1>1. u = IF s \in w.want_read THEN [w EXCEPT !.rfds = @ \cup {fd[s]}] ELSE w
  BY DEF p2p_stream_push, Polite
<1>2. /\ u.slot = w.slot
      /\ u.sessions = w.sessions
      /\ u.rfds \subseteq w.rfds \cup {fd[s]}
  BY <1>1 DEF NetType
<1> QED
  BY <1>2, SessAssumption DEF PollOK, Live

LEMMA PushedReg ==
    ASSUME NEW w, NEW u \in NetType, NEW sn, NEW E, RegOK(w, sn, E),
           u.slot = w.slot, u.sessions = w.sessions, PollOK(u)
    PROVE  RegOK(u, sn, E)
  BY DEF RegOK, TableOK, Registered, Live

(* Registering an open session under a name nobody in the table has.       *)
LEMMA PutReg ==
    ASSUME NEW w, NEW sn \in NameMap, NEW n \in Name, NEW s \in Sess, sn[s] = n,
           RegOK(w, sn, {s}), Live(w, s), \A x \in w.sessions : sn[x.val] # n,
           NEW t \in xhash_put(w.sessions, sn, n, s, s)
    PROVE  RegOK([w EXCEPT !.sessions = t], sn, {})
<1> USE SessAssumption, NameAssumption
<1>0. w \in NetType /\ TableOK(w, sn) /\ PollOK(w) /\ Registered(w, sn, {s})
  BY DEF RegOK
<1> DEFINE node == [bucket |-> Bucket[n], key |-> s, val |-> s]
           u == [w EXCEPT !.sessions = t]
<1>1. Matches(w.sessions, sn, n) = {}
  BY <1>0, Found DEF Matches
<1>2. t = w.sessions \cup {node}
  BY <1>1 DEF xhash_put, xhash_zap
<1>3. t \in SUBSET Node
  BY <1>0, PutType DEF NetType
<1>4. u.slot = w.slot /\ u.rfds = w.rfds /\ u.sessions = t /\ u \in NetType
  BY <1>0, <1>3 DEF NetType
<1>5. node.bucket = Bucket[n] /\ node.key = s /\ node.val = s
  OBVIOUS
<1> HIDE DEF u, node
<1>6. TableOK(u, sn)
  <2>1. ASSUME NEW x \in t
        PROVE  x.key = x.val /\ x.bucket = Bucket[sn[x.val]] /\ sn[x.val] # NoName
               /\ Live(u, x.val)
    BY <1>0, <1>2, <1>4, <1>5 DEF TableOK, Live
  <2>2. ASSUME NEW x \in t, NEW y \in t, sn[x.val] = sn[y.val] PROVE x = y
    BY <1>0, <1>2, <1>5, <2>2 DEF TableOK
  <2> QED
    BY <1>4, <2>1, <2>2 DEF TableOK
<1>7. PollOK(u)
  BY <1>0, <1>4 DEF PollOK
<1>8. Registered(u, sn, {})
  <2>1. ASSUME NEW r \in Sess, Live(u, r), sn[r] # NoName
        PROVE  \E x \in u.sessions : x.val = r
    <3>1. CASE r = s
      BY <1>2, <1>4, <1>5, <3>1
    <3>2. CASE r # s
      BY <1>0, <1>2, <1>4, <2>1, <3>2 DEF Registered, Live
    <3> QED
      BY <3>1, <3>2
  <2> QED
    BY <2>1 DEF Registered
<1> QED
  BY <1>4, <1>6, <1>7, <1>8 DEF RegOK, u

-----------------------------------------------------------------------------
(* The inductive invariant of the registry: the session that is being      *)
(* parsed is open, as it may be given a name and a node at any moment.     *)
RInv ==
    /\ IInv
    /\ RegOK(net, sname, {})
    /\ AnsweredOK(sname, answered)
    /\ reading # NoSess => Live(net, reading)
    /\ ~ub

LEMMA InitRInv == Init => RInv
<1> SUFFICES ASSUME Init PROVE RInv
  OBVIOUS
<1>1. IInv
  BY InitIInv
<1>2. net.sessions = {} /\ net.rfds = {} /\ sname = [s \in Sess |-> NoName]
      /\ answered = [s \in Sess |-> NoName] /\ reading = NoSess /\ ~ub
  BY DEF Init
<1>3. TableOK(net, sname) /\ PollOK(net)
  BY <1>2 DEF TableOK, PollOK
<1>4. Registered(net, sname, {})
  BY <1>2 DEF Registered
<1>5. AnsweredOK(sname, answered)
  BY <1>2 DEF AnsweredOK
<1> QED
  BY <1>1, <1>2, <1>3, <1>4, <1>5 DEF RInv, RegOK, IInv, Good

(* What every step that leaves memory and descriptors alone has to show.   *)
LEMMA HandlerReg ==
    ASSUME IInv', UNCHANGED <<mem, fd>>, RegOK(net', sname', {}),
           AnsweredOK(sname', answered'), reading' # NoSess => Live(net', reading'), ~ub'
    PROVE  RInv'
<1>1. \A r : Live(net', r) <=> Live(net, r)'
  BY DEF Live
<1> QED
  BY <1>1 DEF RInv, RegOK, TableOK, PollOK, Registered, AnsweredOK

(* Closing connections reads no freed key.                                 *)
LEMMA CleanReg ==
    ASSUME RInv
    PROVE  ~ClosingReadsFreed /\ \A n : ~KickReadsFreed(sname, n)
<1>1. net \in NetType /\ TableOK(net, sname)
  BY DEF RInv, RegOK
<1> QED
  BY <1>1, Found DEF ClosingReadsFreed, KickReadsFreed

LEMMA AcceptReg ==
    ASSUME RInv, NEW s \in Sess, NEW f \in Fd, Accept(s, f)
    PROVE  RInv'
<1> USE SessAssumption, NameAssumption
<1>0. /\ net \in NetType /\ TableOK(net, sname) /\ PollOK(net)
      /\ Registered(net, sname, {}) /\ AnsweredOK(sname, answered) /\ TypeOK
  BY DEF RInv, RegOK, IInv
<1>1. IInv'
  BY AcceptStep DEF RInv
<1>2. net' \in NetType
  BY <1>1 DEF IInv, TypeOK
<1>3. /\ net'.slot = [net.slot EXCEPT ![f] = s]
      /\ net'.rfds = net.rfds \cup {f}
      /\ net'.sessions = net.sessions
      /\ mem' = [mem EXCEPT ![s] = "alloc"] /\ mem[s] = "free"
      /\ fd' = [fd EXCEPT ![s] = f] /\ net.slot[f] = NoSess
      /\ sname' = [sname EXCEPT ![s] = NoName]
      /\ answered' = [answered EXCEPT ![s] = NoName]
      /\ reading = NoSess /\ UNCHANGED <<reading, ub>>
  BY <1>0 DEF Accept, Dispatching, NetType
<1>4. net.slot \in [Fd -> Sess \cup {NoSess}] /\ mem \in [Sess -> {"alloc", "free"}]
      /\ fd \in [Sess -> Fd] /\ sname \in NameMap /\ answered \in NameMap
  BY <1>0 DEF NetType, TypeOK, NameMap
<1>5. \A r \in Sess : Live(net, r) => Live(net, r)' /\ r # s
  <2>1. ASSUME NEW r \in Sess, Live(net, r) PROVE Live(net, r)' /\ r # s
    <3>1. r # s /\ fd[r] # f /\ fd[r] \in Fd
      BY <1>3, <1>4, <2>1 DEF Live
    <3> QED
      BY <1>3, <1>4, <2>1, <3>1 DEF Live
  <2> QED
    BY <2>1
<1>6. \A r \in Sess : Live(net, r)' /\ r # s => Live(net, r)
  <2>1. ASSUME NEW r \in Sess, Live(net, r)', r # s PROVE Live(net, r)
    <3>1. fd'[r] = fd[r] /\ mem'[r] = mem[r] /\ net'.slot[fd[r]] = r /\ fd[r] \in Fd
      BY <1>3, <1>4, <2>1 DEF Live
    <3> QED
      BY <1>3, <1>4, <2>1, <3>1 DEF Live
  <2> QED
    BY <2>1
<1>7. \A r \in Sess : r # s => sname'[r] = sname[r] /\ answered'[r] = answered[r]
  BY <1>3, <1>4 DEF NameMap
<1>8. sname'[s] = NoName /\ answered'[s] = NoName
  BY <1>3, <1>4 DEF NameMap
<1>9. \A x \in net.sessions : x.val \in Sess /\ x.val # s
  BY <1>0, <1>5 DEF TableOK, NetType, Node
<1>10. TableOK(net, sname)'
  BY <1>0, <1>3, <1>5, <1>7, <1>9 DEF TableOK
<1>11. PollOK(net)'
  <2>1. ASSUME NEW g \in net'.rfds PROVE net'.slot[g] # NoSess
    <3>1. g \in Fd
      BY <1>2 DEF NetType
    <3>2. CASE g = f
      BY <1>3, <1>4, <3>2
    <3>3. CASE g # f
      BY <1>0, <1>3, <1>4, <3>1, <3>3 DEF PollOK
    <3> QED
      BY <3>2, <3>3
  <2> QED
    BY <2>1 DEF PollOK
<1>12. Registered(net, sname, {})'
  BY <1>0, <1>3, <1>6, <1>7, <1>8 DEF Registered
<1>13. AnsweredOK(sname, answered)'
  BY <1>0, <1>7, <1>8 DEF AnsweredOK
<1> QED
  BY <1>1, <1>2, <1>3, <1>10, <1>11, <1>12, <1>13 DEF RInv, RegOK

(* The session being parsed identifies itself.                             *)
LEMMA AuthReg ==
    ASSUME Polite, RInv, NEW s \in Sess, NEW n \in Name,
           NEW verdict \in {"auth", "autherr", "authshort"}, auth_hook(s, n, verdict), IInv'
    PROVE  RInv'
<1> USE SessAssumption, NameAssumption
<1> DEFINE sn == [sname EXCEPT ![s] = n]
<1>0. /\ net \in NetType /\ TableOK(net, sname) /\ PollOK(net) /\ OwnerOK(net)
      /\ Registered(net, sname, {}) /\ AnsweredOK(sname, answered)
      /\ StateOK /\ sname \in NameMap /\ answered \in NameMap
      /\ Good(net, zombie_que)
  BY DEF RInv, RegOK, IInv, Good, TypeOK, StateOK, NameMap
<1>1. /\ pc = "mio" /\ NoZombies(zombie_que) /\ Live(net, s) /\ sname[s] = NoName
      /\ verdict \in {"auth", "autherr"} /\ sname' = sn
      /\ UNCHANGED <<mem, fd>> /\ reading' = NoSess
      /\ ub' = (KickReadsFreed(sn, n) \/ ClosingReadsFreed)
  BY DEF auth_hook, Parsing, MayIdentify, NextFrame, Polite, RInv, IInv
<1>2. sn \in NameMap /\ sn[s] = n /\ \A r \in Sess : r # s => sn[r] = sname[r]
  BY <1>0 DEF NameMap
<1>3. \A x \in net.sessions : x.val \in Sess /\ x.val # s
  BY <1>0, <1>1 DEF TableOK, NetType, Node
<1> HIDE DEF sn
<1>4. TableOK(net, sn)
  BY <1>0, <1>2, <1>3 DEF TableOK
<1>5. Registered(net, sn, {s})
  BY <1>0, <1>2 DEF Registered
<1>6. RegOK(net, sn, {s})
  BY <1>0, <1>4, <1>5 DEF RegOK
<1>7. ~ub'
  <2>1. ~KickReadsFreed(sn, n)
    BY <1>0, <1>4, Found DEF KickReadsFreed
  <2> QED
    BY <1>1, <2>1, CleanReg
<1>8. ASSUME NEW k \in KickOutcomes(net, sn, n), NEW w \in p2p_stream_push(k, sn, s)
      PROVE  /\ RegOK(w, sn, {s}) /\ Good(w, zombie_que) /\ Live(w, s)
             /\ \A x \in w.sessions : sn[x.val] # n
  <2>0. Vacated(net, k, sn, n, s)
    BY <1>0, <1>1, <1>2, <1>3, <1>6, KickReg
  <2>1. /\ RegOK(k, sn, {s})
        /\ \A x \in k.sessions : sn[x.val] # n
        /\ Live(k, s)
    BY <1>1, <2>0 DEF Vacated
  <2>2. Good(k, zombie_que)
    BY <1>0, <1>1, <1>2, KickGood
  <2>3. Good(w, zombie_que)
    BY <1>0, <1>1, <1>2, <2>2, PushGood
  <2>4. w \in NetType /\ k \in NetType
    BY <2>2, <2>3 DEF Good
  <2>5. w.slot = k.slot /\ w.sessions = k.sessions /\ (PollOK(k) => PollOK(w))
    BY <2>1, <2>4, PushReg
  <2>6. RegOK(w, sn, {s})
    BY <2>1, <2>4, <2>5, PushedReg DEF RegOK
  <2> QED
    BY <2>1, <2>3, <2>5, <2>6 DEF Live
<1>9. CASE verdict = "auth"
  <2>1. PICK w \in UNION {p2p_stream_push(k, sn, s) : k \in KickOutcomes(net, sn, n)} :
            \E t \in xhash_put(w.sessions, sn, n, s, s) : net' = [w EXCEPT !.sessions = t]
    BY <1>9 DEF auth_hook, sn
  <2>2. PICK k \in KickOutcomes(net, sn, n) : w \in p2p_stream_push(k, sn, s)
    BY <2>1
  <2>3. PICK t \in xhash_put(w.sessions, sn, n, s, s) : net' = [w EXCEPT !.sessions = t]
    BY <2>1
  <2>4. RegOK(net', sn, {})
    BY <1>2, <1>8, <2>2, <2>3, PutReg
  <2>5. answered' = [answered EXCEPT ![s] = n]
    BY <1>9 DEF auth_hook
  <2>6. AnsweredOK(sn, answered')
    BY <1>0, <1>2, <2>5 DEF AnsweredOK, NameMap
  <2> QED
    BY <1>1, <1>7, <2>4, <2>6, HandlerReg
<1>10. CASE verdict = "autherr"
  <2>1. PICK w \in UNION {p2p_stream_push(k, sn, s) : k \in KickOutcomes(net, sn, n)} :
            net' \in p2p_kill(w, sn, s)
    BY <1>10 DEF auth_hook, sn
  <2>2. net' \in Closed(w, sn, fd[s])
        /\ \E k \in KickOutcomes(net, sn, n) : w \in p2p_stream_push(k, sn, s)
    BY <2>1 DEF p2p_kill
  <2>3. \A f \in Fd : w.slot[f] = s => f = fd[s]
    BY <1>8, <2>2 DEF Good, OwnerOK
  <2>4. net' \in NetType
    BY DEF IInv, TypeOK
  <2>5. PICK v : v = net'
    OBVIOUS
  <2>6. RegOK(v, sn, {s}) /\ Shut(w, v, s)
    BY <1>0, <1>2, <1>8, <2>2, <2>3, <2>4, <2>5, ClosedReg
  <2>7. RegOK(v, sn, {})
    BY <2>6 DEF RegOK, Registered, Shut
  <2>8. AnsweredOK(sn, answered')
    <3>1. answered' = answered /\ answered[s] = NoName
      BY <1>0, <1>1, <1>10 DEF auth_hook, AnsweredOK
    <3> QED
      BY <1>0, <1>2, <3>1 DEF AnsweredOK
  <2> QED
    BY <1>1, <1>7, <2>5, <2>7, <2>8, HandlerReg
<1> QED
  BY <1>1, <1>9, <1>10

(* The steps that close at most one open session, and name none.           *)
LEMMA CloseStepReg ==
    ASSUME RInv, IInv', NEW s \in Sess, Live(net, s), net' \in p2p_kill(net, sname, s),
           UNCHANGED <<mem, fd, sname, answered>>, ~ub', reading' = NoSess
    PROVE  RInv'
<1>1. /\ StateOK /\ sname \in NameMap /\ OwnerOK(net) /\ RegOK(net, sname, {})
      /\ AnsweredOK(sname, answered)
  BY DEF RInv, IInv, TypeOK, StateOK, NameMap, Good
<1>2. \A f \in Fd : net.slot[f] = s => f = fd[s]
  BY <1>1, SessAssumption DEF OwnerOK
<1>3. \A x \in net.sessions : sname[x.val] = sname[s] => x.val = s
  BY <1>1, AloneReg
<1>4. PICK v : v = net'
  OBVIOUS
<1>5. v \in NetType /\ v \in Closed(net, sname, fd[s])
  BY <1>4 DEF IInv, TypeOK, p2p_kill
<1>6. RegOK(v, sname, {})
  BY <1>1, <1>2, <1>3, <1>5, ClosedReg
<1> QED
  BY <1>1, <1>4, <1>6, HandlerReg DEF AnsweredOK

(* The steps that push a packet to an open session.                        *)
LEMMA PushStepReg ==
    ASSUME Polite, RInv, IInv', NEW s \in Sess, Live(net, s),
           net' \in p2p_stream_push(net, sname, s),
           UNCHANGED <<mem, fd, sname, answered>>, ~ub', reading' = NoSess
    PROVE  RInv'
<1>1. RegOK(net, sname, {}) /\ AnsweredOK(sname, answered) /\ net \in NetType
  BY DEF RInv, RegOK
<1>2. PICK v : v = net'
  OBVIOUS
<1>3. v \in NetType /\ v \in p2p_stream_push(net, sname, s)
  BY <1>2 DEF IInv, TypeOK
<1>4. v.slot = net.slot /\ v.sessions = net.sessions /\ PollOK(v)
  BY <1>1, <1>3, PushReg DEF RegOK
<1>5. RegOK(v, sname, {})
  BY <1>1, <1>3, <1>4, PushedReg
<1> QED
  BY <1>1, <1>2, <1>5, HandlerReg DEF AnsweredOK

LEMMA FrameReg ==
    ASSUME Polite, RInv, NEW s \in Sess, Handler(s)
    PROVE  RInv'
<1>0. /\ net \in NetType /\ TableOK(net, sname) /\ RegOK(net, sname, {})
      /\ AnsweredOK(sname, answered) /\ IInv' /\ ~ub
      /\ mem \in [Sess -> {"alloc", "free"}]
      /\ ~ClosingReadsFreed /\ \A n : ~KickReadsFreed(sname, n)
  BY FrameStep, CleanReg DEF RInv, RegOK, IInv, TypeOK
<1>1. Parsing(s) => Live(net, s)
  BY SessAssumption DEF Parsing, RInv
<1>2. NextFrame(s) => reading' = NoSess
  BY DEF NextFrame, Polite
<1>3. ASSUME NEW f \in Fd, Accept(s, f) PROVE RInv'
  BY <1>3, AcceptReg
<1>4. CASE Read(s)
  BY <1>0, <1>4, HandlerReg DEF Read, Dispatching, Open, Live
<1>5. CASE PeerGone(s)
  BY <1>0, <1>5, CloseStepReg DEF PeerGone, Dispatching, Open, Live
<1>6. ASSUME NEW r \in {"bdsvr", "monitor"}, initsession(s, r) PROVE RInv'
  BY <1>0, <1>1, <1>6, PushStepReg DEF initsession
<1>7. CASE BadFrame(s)
  BY <1>0, <1>1, <1>2, <1>7, CloseStepReg DEF BadFrame
<1>8. CASE Ping(s)
  BY <1>0, <1>1, <1>2, <1>8, PushStepReg DEF Ping
<1>9. ASSUME NEW n \in Name, NEW v \in {"auth", "autherr", "authshort"}, auth_hook(s, n, v)
      PROVE RInv'
  BY <1>0, <1>9, AuthReg
<1>10. ASSUME NEW n \in Name, awake_hook(s, n) PROVE RInv'
  BY <1>10 DEF awake_hook, Polite
<1>11. CASE awake_refused(s)
  BY <1>0, <1>1, <1>2, <1>11, PushStepReg DEF awake_refused
<1>12. ASSUME NEW n \in Name, Forward(s, n) PROVE RInv'
  <2>1. ~ub' /\ reading' = NoSess /\ UNCHANGED <<mem, fd, sname, answered>>
    BY <1>0, <1>2, <1>12 DEF Forward
  <2>2. CASE xhash_get(net.sessions, sname, n) = {}
    BY <1>0, <1>12, <2>1, <2>2, HandlerReg DEF Forward
  <2>3. CASE xhash_get(net.sessions, sname, n) # {}
    <3>1. PICK dest \in xhash_get(net.sessions, sname, n) :
              net' \in p2p_stream_push(net, sname, dest)
      BY <1>12, <2>3 DEF Forward
    <3>2. dest \in Sess /\ Live(net, dest)
      BY <1>0 DEF xhash_get, Matches, TableOK, NetType, Node
    <3> QED
      BY <1>0, <2>1, <3>1, <3>2, PushStepReg
  <2> QED
    BY <2>2, <2>3
<1> QED
  BY <1>3, <1>4, <1>5, <1>6, <1>7, <1>8, <1>9, <1>10, <1>11, <1>12 DEF Handler

LEMMA HousekeepingReg ==
    ASSUME RInv, Housekeeping
    PROVE  RInv'
<1> USE SessAssumption, NameAssumption
<1>0. /\ net \in NetType /\ TableOK(net, sname) /\ PollOK(net)
      /\ Registered(net, sname, {}) /\ RegOK(net, sname, {})
      /\ AnsweredOK(sname, answered) /\ ~ub /\ TypeOK /\ ReaderAllocated
      /\ OwnerOK(net) /\ HomeOK(net, zombie_que)
  BY DEF RInv, RegOK, IInv, Good
<1>1. IInv'
  BY HousekeepingStep DEF RInv
<1>2. net' \in NetType
  BY <1>1 DEF IInv, TypeOK
<1>3. pc # "mio" => reading = NoSess
  BY <1>0 DEF ReaderAllocated
<1>4. \A s \in Sess : net.session_que[s] \in Nat /\ zombie_que[s] \in Nat
                      /\ net.dead_sess[s] \in Nat
  BY <1>0 DEF NetType, TypeOK
<1>5. ASSUME UNCHANGED <<mem, fd, sname, answered, reading>>, reading = NoSess, ~ub',
             net'.slot = net.slot, net'.rfds = net.rfds, net'.sessions = net.sessions
      PROVE  RInv'
  <2>1. PICK v : v = net'
    OBVIOUS
  <2>2. RegOK(v, sname, {})
    BY <1>0, <1>2, <1>5, <2>1, PushedReg DEF PollOK
  <2> QED
    BY <1>0, <1>1, <1>5, <2>1, <2>2, HandlerReg DEF AnsweredOK
<1>6. CASE clear_deads_from_lives
  <2>1. net'.slot = net.slot /\ net'.rfds = net.rfds /\ net'.sessions = net.sessions
    BY <1>0, <1>6 DEF clear_deads_from_lives, NetType
  <2> QED
    BY <1>0, <1>3, <1>5, <1>6, <2>1 DEF clear_deads_from_lives
<1>7. CASE _save_deadsession
  <2> DEFINE Freed == {s \in Sess : net.dead_sess[s] > 0}
  <2>1. /\ net'.slot = net.slot /\ net'.rfds = net.rfds /\ net'.sessions = net.sessions
        /\ UNCHANGED <<fd, reading>> /\ reading = NoSess
    BY <1>0, <1>3, <1>7 DEF _save_deadsession, NetType
  <2>2. /\ mem' = [s \in Sess |-> IF s \in Freed THEN "free" ELSE mem[s]]
        /\ sname' = [s \in Sess |-> IF s \in Freed THEN NoName ELSE sname[s]]
        /\ answered' = [s \in Sess |-> IF s \in Freed THEN NoName ELSE answered[s]]
        /\ ub' = \E s \in Freed : net.dead_sess[s] > 1 \/ mem[s] = "free"
    BY <1>7 DEF _save_deadsession
  <2>3. ~ub'
    <3>1. ASSUME NEW s \in Freed PROVE ~(net.dead_sess[s] > 1 \/ mem[s] = "free")
      <4>1. net.session_que[s] + zombie_que[s] + net.dead_sess[s] =
            IF mem[s] = "alloc" THEN 1 ELSE 0
        BY <1>0 DEF HomeOK
      <4>2. net.dead_sess[s] > 0 /\ s \in Sess
        OBVIOUS
      <4> QED
        BY <1>4, <4>1, <4>2
    <3> QED
      BY <2>2, <3>1
  <2>4. \A s \in Sess : Live(net, s) => s \notin Freed
    <3>1. ASSUME NEW s \in Sess, Live(net, s) PROVE net.dead_sess[s] = 0
      <4>1. fd[s] \in Fd /\ net.slot[fd[s]] = s /\ s # NoSess
        BY <1>0, <3>1 DEF Live, TypeOK
      <4> QED
        BY <1>0, <4>1 DEF OwnerOK
    <3> QED
      BY <3>1
  <2> HIDE DEF Freed
  <2>5. \A s \in Sess : Live(net, s)' <=> Live(net, s)
    BY <2>1, <2>2, <2>4 DEF Live
  <2>6. \A s \in Sess : Live(net, s) => sname'[s] = sname[s]
    BY <2>2, <2>4
  <2>7. \A x \in net.sessions : x.val \in Sess /\ Live(net, x.val)
    BY <1>0 DEF TableOK, NetType, Node
  <2>8. TableOK(net, sname)'
    BY <1>0, <2>1, <2>5, <2>6, <2>7 DEF TableOK
  <2>9. Registered(net, sname, {})'
    BY <1>0, <2>1, <2>5, <2>6 DEF Registered
  <2>10. AnsweredOK(sname, answered)'
    BY <1>0, <2>2 DEF AnsweredOK
  <2>11. PollOK(net)'
    BY <1>0, <2>1 DEF PollOK
  <2> QED
    BY <1>1, <1>2, <2>1, <2>3, <2>8, <2>9, <2>10, <2>11 DEF RInv, RegOK
<1>8. CASE remove_zombie_from_lives
  <2>1. net'.slot = net.slot /\ net'.rfds = net.rfds /\ net'.sessions = net.sessions
    BY <1>0, <1>8 DEF remove_zombie_from_lives, NetType
  <2>2. ~ub'
    <3>1. ASSUME NEW s \in Sess PROVE ~(net.session_que[s] > 0 /\ mem[s] = "free")
      <4>1. net.session_que[s] + zombie_que[s] + net.dead_sess[s] =
            IF mem[s] = "alloc" THEN 1 ELSE 0
        BY <1>0 DEF HomeOK
      <4> QED
        BY <1>4, <4>1
    <3> QED
      BY <1>8, <3>1 DEF remove_zombie_from_lives
  <2> QED
    BY <1>3, <1>5, <1>8, <2>1, <2>2 DEF remove_zombie_from_lives
<1>9. ASSUME NEW s \in Sess, clear_zombies(s) PROVE RInv'
  <2>1. mem[s] = "alloc" /\ net.dead_sess[s] = 0
    <3>1. net.session_que[s] + zombie_que[s] + net.dead_sess[s] =
          IF mem[s] = "alloc" THEN 1 ELSE 0
      BY <1>0 DEF HomeOK
    <3>2. zombie_que[s] > 0
      BY <1>9 DEF clear_zombies
    <3> QED
      BY <1>4, <3>1, <3>2
  <2>2. Live(net, s)
    BY <1>0, <2>1 DEF OwnerOK, Live
  <2>3. ~ub'
    BY <1>9, <2>1, CleanReg DEF clear_zombies
  <2> QED
    BY <1>1, <1>3, <1>9, <2>2, <2>3, CloseStepReg DEF clear_zombies
<1>10. CASE ZombiesCleared
  BY <1>0, <1>3, <1>5, <1>10 DEF ZombiesCleared
<1>11. CASE MioRunReturns
  BY <1>0, <1>5, <1>11 DEF MioRunReturns
<1>12. CASE SaveNotDue
  BY <1>0, <1>3, <1>5, <1>12 DEF SaveNotDue
<1>13. CASE ZombiesNotDue
  BY <1>0, <1>3, <1>5, <1>13 DEF ZombiesNotDue
<1> QED
  BY <1>6, <1>7, <1>8, <1>9, <1>10, <1>11, <1>12, <1>13 DEF Housekeeping

LEMMA StepRInv == Polite /\ RInv /\ [Next]_vars => RInv'
<1> SUFFICES ASSUME Polite, RInv, [Next]_vars PROVE RInv'
  OBVIOUS
<1>0. IInv' /\ ~ub /\ RegOK(net, sname, {}) /\ AnsweredOK(sname, answered)
  BY StepIInv DEF RInv
<1>1. ASSUME NEW s \in Sess, Handler(s) PROVE RInv'
  BY <1>1, FrameReg
<1>2. ASSUME NEW s \in Sess, GoSilent(s) PROVE RInv'
  BY <1>0, <1>2, HandlerReg DEF GoSilent, RInv
<1>3. CASE BufferDone
  BY <1>0, <1>3, HandlerReg DEF BufferDone
<1>4. CASE Housekeeping
  BY <1>4, HousekeepingReg
<1>5. CASE UNCHANGED vars
  BY <1>0, <1>5, HandlerReg DEF vars, RInv
<1> QED
  BY <1>1, <1>2, <1>3, <1>4, <1>5 DEF Next

LEMMA InductiveReg == ASSUME Polite PROVE Spec => []RInv
<1>1. RInv /\ [Next]_vars => RInv'
  BY StepRInv
<1> QED
  BY <1>1, InitRInv, PTL DEF Spec

(* Whatever the table returns for a name is an open session.               *)
THEOREM RegisteredOpenHolds == ASSUME Polite PROVE Spec => []RegisteredOpen
<1>1. RInv => RegisteredOpen
  BY DEF RInv, RegOK, TableOK, Live, RegisteredOpen, Open
<1> QED
  BY <1>1, InductiveReg, PTL

(* A connected peer that was told "ok" under a name is what the table      *)
(* returns for that name, and the only one: what is forwarded to it        *)
(* arrives.                                                                *)
THEOREM ReachableHolds == ASSUME Polite PROVE Spec => []Reachable
<1>1. ASSUME RInv PROVE Reachable
  <2>0. /\ net \in NetType /\ TableOK(net, sname) /\ Registered(net, sname, {})
        /\ AnsweredOK(sname, answered)
    BY <1>1 DEF RInv, RegOK
  <2>1. ASSUME NEW s \in Sess, Open(s), answered[s] # NoName
        PROVE  xhash_get(net.sessions, sname, answered[s]) = {s}
    <3>1. answered[s] = sname[s]
      BY <2>0, <2>1 DEF AnsweredOK
    <3>2. PICK x \in net.sessions : x.val = s
      BY <2>0, <2>1, <3>1 DEF Registered, Open, Live
    <3>3. \A y \in net.sessions : sname[y.val] = sname[s] => y = x
      BY <2>0, <3>2 DEF TableOK
    <3>4. Matches(net.sessions, sname, sname[s]) = {x}
      <4>1. Matches(net.sessions, sname, sname[s]) \subseteq net.sessions
        BY DEF Matches
      <4>2. x \in Matches(net.sessions, sname, sname[s])
        BY <2>0, <3>2, Found
      <4>3. ASSUME NEW y \in Matches(net.sessions, sname, sname[s]) PROVE y = x
        BY <2>0, <3>3, <4>1, Found
      <4> QED
        BY <4>2, <4>3
    <3> QED
      BY <3>1, <3>2, <3>4 DEF xhash_get
  <2> QED
    BY <2>1 DEF Reachable
<1>2. RInv => Reachable
  BY <1>1
<1> QED
  BY <1>2, InductiveReg, PTL

(* The set given to select() never holds a closed descriptor.              *)
THEOREM PollSetOpenHolds == ASSUME Polite PROVE Spec => []PollSetOpen
<1>1. RInv => PollSetOpen
  BY DEF RInv, RegOK, PollOK, PollSetOpen, PollWorks
<1> QED
  BY <1>1, InductiveReg, PTL

(* Freed memory is never read: no handler and no sweep meets a freed       *)
(* session.                                                                *)
THEOREM NoUseAfterFreeHolds == ASSUME Polite PROVE Spec => []NoUseAfterFree
<1>1. RInv => NoUseAfterFree
  BY DEF RInv, NoUseAfterFree
<1> QED
  BY <1>1, InductiveReg, PTL
=============================================================================
