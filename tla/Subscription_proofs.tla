-------------------------- MODULE Subscription_proofs --------------------------
(***************************************************************************)
(* Proofs about monitor's subscriptions, for any number of sessions, names *)
(* and tasks and wherever send() fails, where the clients behave: they     *)
(* authenticate once, unsubscribe only from the one task they follow and   *)
(* wait for an answer before the next frame.  With clients that do not,    *)
(* TLC shows how the two records of the subscriptions come apart.          *)
(***************************************************************************)
EXTENDS Subscription, Integers, SequenceTheorems, TLAPS

Tame == OneAuth /\ UnsubLast /\ ~Pipelined

-----------------------------------------------------------------------------
(* Queues.                                                                 *)

LEMMA RemoveAtIs ==
    ASSUME NEW S, NEW q \in Seq(S), NEW i \in 1 .. Len(q)
    PROVE  /\ RemoveAt(q, i) \in Seq(S) /\ Len(RemoveAt(q, i)) = Len(q) - 1
           /\ \A k \in 1 .. Len(q) - 1 : RemoveAt(q, i)[k] = IF k < i THEN q[k] ELSE q[k + 1]
<1>1. PICK n \in Nat : n = Len(q)
  OBVIOUS
<1> DEFINE a == SubSeq(q, 1, i - 1)
           b == SubSeq(q, i + 1, n)
           c == a \o b
<1>2. i \in 1 .. n /\ q \in Seq(S)
  BY <1>1
<1>3. a \in Seq(S) /\ Len(a) = i - 1 /\ \A k \in 1 .. i - 1 : a[k] = q[k]
  BY <1>1, <1>2
<1>4. b \in Seq(S) /\ Len(b) = n - i /\ \A k \in 1 .. n - i : b[k] = q[i + k]
  BY <1>1, <1>2
<1>5. RemoveAt(q, i) = c
  BY <1>1 DEF RemoveAt
<1> HIDE DEF a, b
<1>6. /\ c \in Seq(S) /\ Len(c) = Len(a) + Len(b)
      /\ \A k \in 1 .. Len(a) + Len(b) : c[k] = IF k <= Len(a) THEN a[k] ELSE b[k - Len(a)]
  BY <1>3, <1>4, ConcatProperties
<1> HIDE DEF c
<1>7. Len(c) = n - 1
  BY <1>3, <1>4, <1>6, <1>2
<1>8. ASSUME NEW k \in 1 .. n - 1 PROVE c[k] = IF k < i THEN q[k] ELSE q[k + 1]
  <2>1. c[k] = IF k <= i - 1 THEN a[k] ELSE b[k - (i - 1)]
    <3>1. Len(a) = i - 1 /\ k \in 1 .. Len(a) + Len(b)
      BY <1>3, <1>4, <1>2
    <3> QED
      BY <3>1, <1>6
  <2>2. CASE k < i
    BY <2>1, <2>2, <1>3, <1>2
  <2>3. CASE k >= i
    <3>1. PICK m \in 1 .. n - i : m = k - (i - 1)
      BY <2>3, <1>2
    <3>2. i + m = k + 1
      BY <3>1, <1>2
    <3> QED
      BY <2>1, <2>3, <3>1, <3>2, <1>4, <1>2
  <2> QED
    BY <2>2, <2>3, <1>1, <1>2
<1> QED
  BY <1>1, <1>5, <1>6, <1>7, <1>8

(* Taking one element out of a queue that holds it once.                   *)
LEMMA WithoutIs ==
    ASSUME NEW S, NEW q \in Seq(S), NEW x, IsInjective(q)
    PROVE  /\ Without(q, x) \in Seq(S) /\ IsInjective(Without(q, x))
           /\ Range(Without(q, x)) = Range(q) \ {x}
           /\ Len(Without(q, x)) = IF x \in Range(q) THEN Len(q) - 1 ELSE Len(q)
<1>1. CASE x \notin Range(q)
  BY <1>1 DEF Without
<1>2. CASE x \in Range(q)
  <2>1. PICK n \in Nat : n = Len(q) /\ DOMAIN q = 1 .. n
    OBVIOUS
  <2> DEFINE i == CHOOSE k \in DOMAIN q : q[k] = x
             r == RemoveAt(q, i)
  <2>2. i \in 1 .. n /\ q[i] = x
    BY <1>2, <2>1 DEF Range
  <2>3. Without(q, x) = r
    BY <1>2 DEF Without
  <2> HIDE DEF i
  <2>4. /\ r \in Seq(S) /\ Len(r) = n - 1
        /\ \A k \in 1 .. n - 1 : r[k] = IF k < i THEN q[k] ELSE q[k + 1]
    BY <2>1, <2>2, RemoveAtIs
  <2> HIDE DEF r
  <2>5. DOMAIN r = 1 .. n - 1
    BY <2>4
  <2>6. \A k \in 1 .. n - 1 : \E m \in 1 .. n : m # i /\ r[k] = q[m] /\ m = IF k < i THEN k ELSE k + 1
    <3>1. SUFFICES ASSUME NEW k \in 1 .. n - 1
                   PROVE  \E m \in 1 .. n : m # i /\ r[k] = q[m] /\ m = IF k < i THEN k ELSE k + 1
      OBVIOUS
    <3>2. PICK m \in 1 .. n : m = IF k < i THEN k ELSE k + 1
      BY <2>1, <2>2
    <3>3. m # i /\ r[k] = q[m]
      BY <3>2, <2>4, <2>2
    <3> QED
      BY <3>2, <3>3
  <2>7. \A m \in 1 .. n : m # i => \E k \in 1 .. n - 1 : r[k] = q[m]
    <3>1. SUFFICES ASSUME NEW m \in 1 .. n, m # i PROVE \E k \in 1 .. n - 1 : r[k] = q[m]
      OBVIOUS
    <3>2. CASE m < i
      BY <3>2, <2>1, <2>2, <2>4
    <3>3. CASE m > i
      <4>1. PICK k \in 1 .. n - 1 : k = m - 1 /\ k + 1 = m /\ ~(k < i)
        BY <3>3, <2>1, <2>2
      <4>2. r[k] = q[m]
        BY <4>1, <2>4
      <4> QED
        BY <4>2
    <3> QED
      BY <3>1, <3>2, <3>3, <2>1, <2>2
  <2>8. \A m \in 1 .. n : q[m] = x => m = i
    BY <2>1, <2>2 DEF IsInjective
  <2>9. Range(r) = Range(q) \ {x}
    <3>1. ASSUME NEW k \in 1 .. n - 1 PROVE r[k] \in Range(q) \ {x}
      BY <2>1, <2>6, <2>8 DEF Range
    <3>2. ASSUME NEW m \in 1 .. n, q[m] # x PROVE \E k \in 1 .. n - 1 : r[k] = q[m]
      BY <3>2, <2>2, <2>7
    <3>3. ASSUME NEW y \in Range(r) PROVE y \in Range(q) \ {x}
      <4>1. PICK k \in 1 .. n - 1 : y = r[k]
        BY <3>3, <2>5 DEF Range
      <4> QED
        BY <4>1, <3>1
    <3>4. ASSUME NEW y \in Range(q), y # x PROVE y \in Range(r)
      <4>1. PICK m \in 1 .. n : y = q[m]
        BY <3>4, <2>1 DEF Range
      <4>2. PICK k \in 1 .. n - 1 : r[k] = y
        BY <4>1, <3>2, <3>4
      <4> QED
        BY <4>2, <2>5 DEF Range
    <3> QED
      BY <3>3, <3>4
  <2>10. IsInjective(r)
    <3>1. SUFFICES ASSUME NEW k \in 1 .. n - 1, NEW l \in 1 .. n - 1, r[k] = r[l] PROVE k = l
      BY <2>5 DEF IsInjective
    <3>2. PICK m \in 1 .. n : r[k] = q[m] /\ m = IF k < i THEN k ELSE k + 1
      BY <2>6
    <3>3. PICK p \in 1 .. n : r[l] = q[p] /\ p = IF l < i THEN l ELSE l + 1
      BY <2>6
    <3>4. m = p
      BY <3>1, <3>2, <3>3, <2>1 DEF IsInjective
    <3> QED
      BY <3>2, <3>3, <3>4, <2>2
  <2> QED
    BY <1>2, <2>1, <2>3, <2>4, <2>9, <2>10
<1> QED
  BY <1>1, <1>2

(* Moving the first to the end; what is left when it goes then.            *)
LEMMA RotateIs ==
    ASSUME NEW S, NEW q \in Seq(S), q # <<>>, IsInjective(q)
    PROVE  /\ Rotate(q) \in Seq(S) /\ Rotate(q) # <<>> /\ IsInjective(Rotate(q))
           /\ Range(Rotate(q)) = Range(q) /\ Len(Rotate(q)) = Len(q) /\ Head(q) \in Range(q)
           /\ Without(Rotate(q), Head(q)) = Tail(q)
           /\ \A k \in 1 .. Len(q) - 1 : Rotate(q)[k] = q[k + 1] /\ Tail(q)[k] = q[k + 1]
<1>1. PICK n \in Nat : n = Len(q) /\ n > 0 /\ DOMAIN q = 1 .. n /\ Head(q) = q[1]
  OBVIOUS
<1>2. /\ Tail(q) \in Seq(S) /\ Len(Tail(q)) = n - 1 /\ Head(q) \in S
      /\ \A k \in 1 .. n - 1 : Tail(q)[k] = q[k + 1]
  BY <1>1
<1> DEFINE t == Tail(q)
           h == Head(q)
           r == Append(t, h)
<1>3. Rotate(q) = r
  BY DEF Rotate
<1> HIDE DEF t, h
<1>4. /\ r \in Seq(S) /\ Len(r) = n /\ r # <<>> /\ DOMAIN r = 1 .. n /\ r[n] = q[1]
      /\ \A k \in 1 .. n - 1 : r[k] = q[k + 1] /\ t[k] = q[k + 1]
  <2>1. t \in Seq(S) /\ Len(t) = n - 1 /\ h \in S /\ h = q[1] /\ \A k \in 1 .. n - 1 : t[k] = q[k + 1]
    BY <1>1, <1>2 DEF t, h
  <2> QED
    BY <2>1, <1>1
<1> HIDE DEF r
<1>5. Range(r) = Range(q)
  <2>1. \A k \in 1 .. n : r[k] \in Range(q)
    <3>1. SUFFICES ASSUME NEW k \in 1 .. n PROVE \E m \in 1 .. n : r[k] = q[m]
      BY <1>1 DEF Range
    <3>2. CASE k = n
      BY <3>2, <1>1, <1>4
    <3>3. CASE k < n
      <4>1. k \in 1 .. n - 1 /\ k + 1 \in 1 .. n
        BY <3>3, <1>1
      <4> QED
        BY <4>1, <1>4
    <3> QED
      BY <3>2, <3>3, <1>1
  <2>2. \A m \in 1 .. n : q[m] \in Range(r)
    <3>1. SUFFICES ASSUME NEW m \in 1 .. n PROVE \E k \in 1 .. n : r[k] = q[m]
      BY <1>4 DEF Range
    <3>2. CASE m = 1
      <4>1. n \in 1 .. n
        BY <1>1
      <4> QED
        BY <3>2, <4>1, <1>4
    <3>3. CASE m > 1
      <4>1. PICK k \in 1 .. n - 1 : k + 1 = m /\ k \in 1 .. n
        BY <3>3, <1>1
      <4>2. r[k] = q[m]
        BY <4>1, <1>4
      <4> QED
        BY <4>1, <4>2
    <3> QED
      BY <3>2, <3>3, <1>1
  <2> QED
    BY <2>1, <2>2, <1>1, <1>4 DEF Range
<1>6. IsInjective(r)
  <2>1. SUFFICES ASSUME NEW k \in 1 .. n, NEW l \in 1 .. n, r[k] = r[l] PROVE k = l
    BY <1>4 DEF IsInjective
  <2>2. PICK m \in 1 .. n : r[k] = q[m] /\ m = IF k = n THEN 1 ELSE k + 1
    <3>1. PICK m \in 1 .. n : m = IF k = n THEN 1 ELSE k + 1
      BY <1>1
    <3> QED
      BY <3>1, <1>1, <1>4
  <2>3. PICK p \in 1 .. n : r[l] = q[p] /\ p = IF l = n THEN 1 ELSE l + 1
    <3>1. PICK p \in 1 .. n : p = IF l = n THEN 1 ELSE l + 1
      BY <1>1
    <3> QED
      BY <3>1, <1>1, <1>4
  <2>4. m = p
    BY <2>1, <2>2, <2>3, <1>1 DEF IsInjective
  <2> QED
    BY <2>2, <2>3, <2>4, <1>1
<1>7. Head(q) \in Range(q)
  BY <1>1 DEF Range
<1>8. Without(r, h) = t
  <2>1. h = q[1] /\ h \in Range(r) /\ r[n] = h
    BY <1>1, <1>4, <1>5, <1>7 DEF h
  <2> DEFINE i == CHOOSE k \in DOMAIN r : r[k] = h
             w == RemoveAt(r, i)
  <2>2. i \in 1 .. n /\ r[i] = h
    BY <2>1, <1>4 DEF Range
  <2>3. Without(r, h) = w
    BY <2>1 DEF Without
  <2> HIDE DEF i
  <2>4. i = n
    BY <2>1, <2>2, <1>1, <1>4, <1>6 DEF IsInjective
  <2>5. /\ w \in Seq(S) /\ Len(w) = n - 1
        /\ \A k \in 1 .. n - 1 : w[k] = IF k < i THEN r[k] ELSE r[k + 1]
    BY <2>2, <1>4, RemoveAtIs
  <2> HIDE DEF w
  <2>6. \A k \in 1 .. n - 1 : w[k] = t[k]
    BY <2>4, <2>5, <1>4, <1>1
  <2>7. w = t
    BY <2>5, <2>6, <1>2, SeqEqual DEF t
  <2> QED
    BY <2>3, <2>7
<1> QED
  BY <1>1, <1>3, <1>4, <1>5, <1>6, <1>7, <1>8 DEF t, h

-----------------------------------------------------------------------------
(* What closing a connection does.                                         *)

NetRec ==
    [mem          : [Sess -> {"free", "open", "dead"}],
     sessions     : SUBSET (Sess \X Name),
     subs         : [Sess -> Seq(Task)],
     xsubbytaskid : Tables]

QueueOf(w, t) == IF t \in DOMAIN w.xsubbytaskid THEN Range(w.xsubbytaskid[t]) ELSE {}

(* Each queue of the table holds a session once, and is not empty. *)
TableOK(tab) == \A t \in DOMAIN tab : tab[t] # <<>> /\ IsInjective(tab[t])

Agree(w) ==
    \A s \in Sess, t \in Task :
        s \in QueueOf(w, t) <=> w.mem[s] = "open" /\ t \in Range(w.subs[s])

(* A session lists a task once; one that is not open has nothing to leave. *)
ListsOK(w) ==
    \A s \in Sess : IsInjective(w.subs[s]) /\ (w.mem[s] # "open" => w.subs[s] = <<>>)

NetOK(w) == w \in NetRec /\ TableOK(w.xsubbytaskid) /\ Agree(w) /\ ListsOK(w)

(* The table of sessions holds open ones under their names, one for each.  *)
Known(w, sn) ==
    /\ \A s \in Sess, n \in Name : <<s, n>> \in w.sessions => w.mem[s] = "open" /\ sn[s] = n
    /\ \A s, o \in Sess, n \in Name : <<s, n>> \in w.sessions /\ <<o, n>> \in w.sessions => s = o

LEMMA TableIs ==
    ASSUME NEW tab \in Tables
    PROVE  /\ DOMAIN tab \subseteq Task /\ tab \in [DOMAIN tab -> Seq(Sess)]
           /\ \A t \in DOMAIN tab : tab[t] \in Seq(Sess)
  BY DEF Tables

LEMMA TableMade ==
    ASSUME NEW D, D \subseteq Task, NEW tab \in [D -> Seq(Sess)]
    PROVE  tab \in Tables
  BY DEF Tables

LEMMA EmptyRange ==
    ASSUME NEW S, NEW q \in Seq(S)
    PROVE  q = <<>> <=> Range(q) = {}
<1>1. ASSUME q # <<>> PROVE q[1] \in Range(q)
  BY <1>1 DEF Range
<1> QED
  BY <1>1 DEF Range

LEMMA del_sess_from_subtableIs ==
    ASSUME NEW tab \in Tables, TableOK(tab), NEW T, NEW s \in Sess
    PROVE  LET r == del_sess_from_subtable(tab, T, s)
           IN  /\ r \in Tables /\ TableOK(r) /\ DOMAIN r \subseteq DOMAIN tab
               /\ \A t \in DOMAIN r : r[t] = IF t \in T THEN Without(tab[t], s) ELSE tab[t]
               /\ \A t \in DOMAIN tab \ DOMAIN r : t \in T /\ Range(tab[t]) \subseteq {s}
               /\ \A t \in DOMAIN r \cap T : Range(r[t]) = Range(tab[t]) \ {s}
<1> DEFINE r == del_sess_from_subtable(tab, T, s)
           D == {u \in DOMAIN tab : u \in T => Without(tab[u], s) # <<>>}
<1>1. /\ DOMAIN tab \subseteq Task
      /\ \A t \in DOMAIN tab : tab[t] \in Seq(Sess) /\ tab[t] # <<>> /\ IsInjective(tab[t])
  BY TableIs DEF TableOK
<1>2. \A t \in DOMAIN tab : /\ Without(tab[t], s) \in Seq(Sess) /\ IsInjective(Without(tab[t], s))
                            /\ Range(Without(tab[t], s)) = Range(tab[t]) \ {s}
                            /\ Without(tab[t], s) = <<>> => Range(tab[t]) \subseteq {s}
  <2>1. SUFFICES ASSUME NEW t \in DOMAIN tab
                 PROVE  /\ Without(tab[t], s) \in Seq(Sess) /\ IsInjective(Without(tab[t], s))
                        /\ Range(Without(tab[t], s)) = Range(tab[t]) \ {s}
                        /\ Without(tab[t], s) = <<>> => Range(tab[t]) \subseteq {s}
    OBVIOUS
  <2>2. /\ Without(tab[t], s) \in Seq(Sess) /\ IsInjective(Without(tab[t], s))
        /\ Range(Without(tab[t], s)) = Range(tab[t]) \ {s}
    BY <1>1, WithoutIs
  <2> QED
    BY <2>2, EmptyRange
<1>3. r = [t \in D |-> IF t \in T THEN Without(tab[t], s) ELSE tab[t]]
  BY DEF del_sess_from_subtable
<1>4. D \subseteq DOMAIN tab /\ \A t \in D : t \in T => Without(tab[t], s) # <<>>
  OBVIOUS
<1>5. \A t \in DOMAIN tab \ D : t \in T /\ Without(tab[t], s) = <<>>
  OBVIOUS
<1> HIDE DEF r, D
<1>6. r \in [D -> Seq(Sess)]
  BY <1>1, <1>2, <1>3, <1>4
<1>7. r \in Tables /\ DOMAIN r = D
  BY <1>1, <1>4, <1>6, TableMade
<1>8. TableOK(r)
  BY <1>1, <1>2, <1>3, <1>4, <1>7 DEF TableOK
<1>9. \A t \in DOMAIN r : r[t] = IF t \in T THEN Without(tab[t], s) ELSE tab[t]
  BY <1>3, <1>7
<1>10. \A t \in DOMAIN tab \ DOMAIN r : t \in T /\ Range(tab[t]) \subseteq {s}
  BY <1>2, <1>5, <1>7
<1>11. \A t \in DOMAIN r \cap T : Range(r[t]) = Range(tab[t]) \ {s}
  BY <1>2, <1>4, <1>7, <1>9
<1> QED
  BY <1>4, <1>7, <1>8, <1>9, <1>10, <1>11 DEF r

(* No name that another session lists is freed when s leaves a queue.      *)
LEMMA ListsKept ==
    ASSUME NEW w, NetOK(w), NEW s \in Sess, NEW T, NEW o \in Sess, o # s
    PROVE  LET tab == del_sess_from_subtable(w.xsubbytaskid, T, s)
           IN  \A i \in DOMAIN w.subs[o] : w.subs[o][i] \notin DOMAIN w.xsubbytaskid \ DOMAIN tab
<1> DEFINE tab == del_sess_from_subtable(w.xsubbytaskid, T, s)
<1>1. /\ w \in NetRec /\ w.xsubbytaskid \in Tables /\ TableOK(w.xsubbytaskid)
      /\ w.subs[o] \in Seq(Task) /\ Agree(w) /\ ListsOK(w)
  BY DEF NetOK, NetRec
<1>2. \A t \in DOMAIN w.xsubbytaskid \ DOMAIN tab : Range(w.xsubbytaskid[t]) \subseteq {s}
  BY <1>1, del_sess_from_subtableIs
<1> HIDE DEF tab
<1>3. SUFFICES ASSUME NEW i \in DOMAIN w.subs[o],
                      w.subs[o][i] \in DOMAIN w.xsubbytaskid \ DOMAIN tab
               PROVE  FALSE
  BY DEF tab
<1> DEFINE t == w.subs[o][i]
<1>4. t \in Task /\ t \in Range(w.subs[o]) /\ w.subs[o] # <<>>
  BY <1>1, <1>3 DEF Range
<1>5. w.mem[o] = "open"
  BY <1>1, <1>4 DEF ListsOK
<1>6. o \in Range(w.xsubbytaskid[t])
  BY <1>1, <1>3, <1>4, <1>5 DEF Agree, QueueOf
<1> QED
  BY <1>2, <1>3, <1>6

LEMMA ClearedIs ==
    ASSUME NEW subs \in [Sess -> Seq(Task)], NEW tab, NEW tab2, NEW o \in Sess,
           \A i \in DOMAIN subs[o] : subs[o][i] \notin DOMAIN tab \ DOMAIN tab2
    PROVE  clear_from_taskid_queue(subs, tab, tab2)[o] = subs[o]
<1>1. subs[o] \in Seq(Task) /\ subs[o] = [i \in DOMAIN subs[o] |-> subs[o][i]]
  OBVIOUS
<1>2. clear_from_taskid_queue(subs, tab, tab2)[o] =
        [i \in DOMAIN subs[o] |->
            IF subs[o][i] \in DOMAIN tab \ DOMAIN tab2 THEN Dangling ELSE subs[o][i]]
  BY DEF clear_from_taskid_queue
<1>3. [i \in DOMAIN subs[o] |->
            IF subs[o][i] \in DOMAIN tab \ DOMAIN tab2 THEN Dangling ELSE subs[o][i]]
      = [i \in DOMAIN subs[o] |-> subs[o][i]]
  OBVIOUS
<1> QED
  BY <1>1, <1>2, <1>3

(* A session leaves the queues of T, all that it follows among them.       *)
LEMMA QueuesLeft ==
    ASSUME NEW w, NetOK(w), NEW s \in Sess, NEW T, NEW v,
           v.xsubbytaskid = del_sess_from_subtable(w.xsubbytaskid, T, s)
    PROVE  \A t \in Task : QueueOf(v, t) = IF t \in T THEN QueueOf(w, t) \ {s} ELSE QueueOf(w, t)
<1> DEFINE tab == del_sess_from_subtable(w.xsubbytaskid, T, s)
<1>1. w.xsubbytaskid \in Tables /\ TableOK(w.xsubbytaskid)
  BY DEF NetOK, NetRec
<1>2. /\ DOMAIN tab \subseteq DOMAIN w.xsubbytaskid
      /\ \A t \in DOMAIN tab : t \notin T => tab[t] = w.xsubbytaskid[t]
      /\ \A t \in DOMAIN w.xsubbytaskid \ DOMAIN tab : t \in T /\ Range(w.xsubbytaskid[t]) \subseteq {s}
      /\ \A t \in DOMAIN tab \cap T : Range(tab[t]) = Range(w.xsubbytaskid[t]) \ {s}
  BY <1>1, del_sess_from_subtableIs
<1> HIDE DEF tab
<1>3. v.xsubbytaskid = tab
  BY DEF tab
<1>4. SUFFICES ASSUME NEW t \in Task
               PROVE  QueueOf(v, t) = IF t \in T THEN QueueOf(w, t) \ {s} ELSE QueueOf(w, t)
  OBVIOUS
<1>5. CASE t \notin DOMAIN w.xsubbytaskid
  BY <1>2, <1>3, <1>5 DEF QueueOf
<1>6. CASE t \in DOMAIN w.xsubbytaskid \ DOMAIN tab
  BY <1>2, <1>3, <1>6 DEF QueueOf
<1>7. CASE t \in DOMAIN tab /\ t \in T
  BY <1>2, <1>3, <1>7 DEF QueueOf
<1>8. CASE t \in DOMAIN tab /\ t \notin T
  BY <1>2, <1>3, <1>8 DEF QueueOf
<1> QED
  BY <1>5, <1>6, <1>7, <1>8

Taken(w, sn, s, v) ==
    /\ NetOK(v)
    /\ v.mem = [w.mem EXCEPT ![s] = "dead"]
    /\ v.sessions \in xhash_zap(w.sessions, sn, sn[s])
    /\ \A t \in Task : QueueOf(v, t) = QueueOf(w, t) \ {s}
    /\ v.xsubbytaskid = del_sess_from_subtable(w.xsubbytaskid, Range(w.subs[s]), s)

(* An open session is closed: it leaves every queue, the others keep       *)
(* theirs.                                                                 *)
LEMMA ClosedIs ==
    ASSUME NEW w, NetOK(w), NEW sn, NEW s \in Sess, w.mem[s] = "open",
           NEW v \in Closed(w, sn, s)
    PROVE  Taken(w, sn, s, v)
<1> DEFINE tab == del_sess_from_subtable(w.xsubbytaskid, Range(w.subs[s]), s)
           subs2 == [clear_from_taskid_queue(w.subs, w.xsubbytaskid, tab) EXCEPT ![s] = <<>>]
<1>1. /\ w \in NetRec /\ w.xsubbytaskid \in Tables /\ TableOK(w.xsubbytaskid)
      /\ w.mem \in [Sess -> {"free", "open", "dead"}] /\ w.sessions \in SUBSET (Sess \X Name)
      /\ w.subs \in [Sess -> Seq(Task)] /\ Agree(w) /\ ListsOK(w)
  BY DEF NetOK, NetRec
<1>2. PICK z \in xhash_zap(w.sessions, sn, sn[s]) :
         v = [w EXCEPT !.mem[s] = "dead", !.sessions = z, !.xsubbytaskid = tab, !.subs = subs2]
  BY DEF Closed
<1>3. z \in SUBSET (Sess \X Name)
  BY <1>1 DEF xhash_zap
<1>4. tab \in Tables /\ TableOK(tab)
  BY <1>1, del_sess_from_subtableIs
<1>5. subs2 = [w.subs EXCEPT ![s] = <<>>]
  <2> DEFINE c == clear_from_taskid_queue(w.subs, w.xsubbytaskid, tab)
  <2>1. c = [o \in Sess |-> c[o]]
    BY DEF clear_from_taskid_queue
  <2>2. ASSUME NEW o \in Sess, o # s PROVE c[o] = w.subs[o]
    <3>1. \A i \in DOMAIN w.subs[o] : w.subs[o][i] \notin DOMAIN w.xsubbytaskid \ DOMAIN tab
      BY <2>2, ListsKept
    <3>2. w.subs \in [Sess -> Seq(Task)]
      BY <1>1
    <3> DEFINE old == w.xsubbytaskid
               subs == w.subs
    <3>3. \A i \in DOMAIN subs[o] : subs[o][i] \notin DOMAIN old \ DOMAIN tab
      BY <3>1
    <3>4. subs \in [Sess -> Seq(Task)]
      BY <3>2
    <3> HIDE DEF old, subs, tab, subs2, c
    <3>5. clear_from_taskid_queue(subs, old, tab)[o] = subs[o]
      BY <3>3, <3>4, ClearedIs
    <3> QED
      BY <3>5 DEF c, old, subs
  <2> HIDE DEF c
  <2>3. [c EXCEPT ![s] = <<>>] = [w.subs EXCEPT ![s] = <<>>]
    BY <1>1, <2>1, <2>2
  <2> QED
    BY <2>3 DEF c
<1> HIDE DEF tab, subs2
<1>6. /\ v.mem = [w.mem EXCEPT ![s] = "dead"] /\ v.sessions = z
      /\ v.xsubbytaskid = tab /\ v.subs = subs2
      /\ v = [mem |-> v.mem, sessions |-> v.sessions, subs |-> v.subs, xsubbytaskid |-> v.xsubbytaskid]
  BY <1>1, <1>2 DEF NetRec
<1>7. /\ subs2 \in [Sess -> Seq(Task)] /\ subs2[s] = <<>>
      /\ \A o \in Sess : o # s => subs2[o] = w.subs[o]
  BY <1>1, <1>5
<1>8. v \in NetRec
  <2>1. v.mem \in [Sess -> {"free", "open", "dead"}]
    BY <1>1, <1>6
  <2> QED
    BY <2>1, <1>3, <1>4, <1>6, <1>7 DEF NetRec
<1>9. ListsOK(v)
  <2>1. IsInjective(<<>>)
    BY DEF IsInjective
  <2> QED
    BY <2>1, <1>1, <1>6, <1>7 DEF ListsOK
<1>10. \A t \in Task : QueueOf(v, t) = QueueOf(w, t) \ {s}
  <2>1. SUFFICES ASSUME NEW t \in Task PROVE QueueOf(v, t) = QueueOf(w, t) \ {s}
    OBVIOUS
  <2>2. QueueOf(v, t) = IF t \in Range(w.subs[s]) THEN QueueOf(w, t) \ {s} ELSE QueueOf(w, t)
    BY <1>6, QueuesLeft DEF tab
  <2>3. t \notin Range(w.subs[s]) => s \notin QueueOf(w, t)
    BY <1>1 DEF Agree
  <2> QED
    BY <2>2, <2>3
<1>11. Agree(v)
  <2>1. SUFFICES ASSUME NEW o \in Sess, NEW t \in Task
                 PROVE  o \in QueueOf(v, t) <=> v.mem[o] = "open" /\ t \in Range(v.subs[o])
    BY DEF Agree
  <2>2. CASE o = s
    BY <2>2, <1>1, <1>6, <1>10
  <2>3. CASE o # s
    <3>1. v.mem[o] = w.mem[o] /\ v.subs[o] = w.subs[o]
      BY <2>3, <1>1, <1>6, <1>7
    <3>2. o \in QueueOf(w, t) <=> w.mem[o] = "open" /\ t \in Range(w.subs[o])
      BY <1>1 DEF Agree
    <3> QED
      BY <2>3, <3>1, <3>2, <1>10
  <2> QED
    BY <2>2, <2>3
<1> QED
  BY <1>2, <1>4, <1>6, <1>8, <1>9, <1>10, <1>11 DEF NetOK, tab, Taken

(* The table of sessions forgets the one that is closed, if it was known.  *)
LEMMA ClosedKnown ==
    ASSUME NEW w, NetOK(w), NEW sn \in [Sess -> Name \cup {NoName}], NEW s \in Sess,
           NEW v \in Closed(w, sn, s), w.mem[s] = "open", Known(w, sn)
    PROVE  Known(v, sn) /\ v.sessions \subseteq w.sessions
<1>1. v.mem = [w.mem EXCEPT ![s] = "dead"] /\ v.sessions \in xhash_zap(w.sessions, sn, sn[s])
  <2>1. Taken(w, sn, s, v)
    BY ClosedIs
  <2> QED
    BY <2>1 DEF Taken
<1>2. v.sessions \subseteq w.sessions
  BY <1>1 DEF xhash_zap
<1>3. \A n \in Name : <<s, n>> \notin v.sessions
  <2>1. SUFFICES ASSUME NEW n \in Name, <<s, n>> \in v.sessions PROVE FALSE
    OBVIOUS
  <2>2. <<s, n>> \in w.sessions /\ sn[s] = n
    BY <2>1, <1>2 DEF Known
  <2>3. Found(w.sessions, sn, n) = {s}
    BY <2>2 DEF Found, Known
  <2>4. v.sessions = w.sessions \ {<<s, n>>}
    BY <1>1, <2>2, <2>3 DEF xhash_zap
  <2> QED
    BY <2>1, <2>4
<1>4. w.mem \in [Sess -> {"free", "open", "dead"}]
  BY DEF NetOK, NetRec
<1> QED
  BY <1>1, <1>2, <1>3, <1>4 DEF Known

-----------------------------------------------------------------------------
(* The inductive invariant.                                                *)

(* The loop of forward_to_monitclient() finds its queue, and followers in  *)
(* it for all the turns that are left.                                     *)
PublishingOK ==
    /\ publishing \in [task : Task \cup {NoTask}, left : Nat, to : Sess \cup {NoSess}]
    /\ publishing.task = NoTask => publishing.left = 0 /\ publishing.to = NoSess
    /\ publishing.left > 0 => /\ publishing.task \in DOMAIN net.xsubbytaskid
                              /\ publishing.left <= Len(net.xsubbytaskid[publishing.task])

ReadingOK ==
    /\ reading \in Sess \cup {NoSess}
    /\ reading # NoSess => net.mem[reading] = "open" /\ publishing.task = NoTask

SubInv ==
    /\ NetOK(net) /\ sname \in [Sess -> Name \cup {NoName}]
    /\ ~unanswered => Known(net, sname)
    /\ PublishingOK /\ ReadingOK
    /\ unanswered \in BOOLEAN /\ ub \in BOOLEAN /\ NoUseAfterFree

-----------------------------------------------------------------------------
(* What the clients see.                                                   *)

Follows == {p \in Sess \X Task : p[1] \in QueueOf(net, p[2])}

Owed ==
    IF publishing.left = 0 THEN {}
    ELSE {net.xsubbytaskid[publishing.task][i] : i \in 1 .. publishing.left}

Seen == <<Follows, Owed, publishing.to>>

LEMMA SeenIs ==
    /\ PS!PubSubInit <=> Seen = <<{}, {}, NoSess>>
    /\ Seen' = Seen => UNCHANGED PS!pubsubVars
    /\ \A s \in Sess, t \in Task :
         Owed = {} /\ Seen' = <<Follows \cup {<<s, t>>}, {}, publishing.to>> => PS!Follow(s, t)
    /\ \A s \in Sess, t \in Task :
         Owed = {} /\ Seen' = <<Follows \ {<<s, t>>}, {}, publishing.to>> => PS!Unfollow(s, t)
    /\ \A C \in SUBSET Sess :
         Owed = {} /\ Seen' = <<{p \in Follows : p[1] \notin C}, {}, publishing.to>> => PS!Leave(C)
    /\ \A t \in Task :
         Owed = {} /\ Seen' = <<Follows, {s \in Sess : <<s, t>> \in Follows}, publishing.to>>
         => PS!Announce(t)
    /\ \A s \in Owed :
         Owed' = Owed \ {s} /\ publishing'.to = s
         /\ Follows' \in {Follows, {p \in Follows : p[1] \notin {s}}} => PS!Deliver(s)
    /\ Owed = {} /\ Seen' = <<Follows, {}, NoSess>> => PS!Finish
  BY DEF PS!PubSubInit, PS!pubsubVars, PS!Follow, PS!Unfollow, PS!Leave, PS!Left, PS!Announce,
         PS!Deliver, PS!Finish, Seen, Follows, Owed, Followers, QueueOf

LEMMA FollowsLeft ==
    ASSUME NEW C, \A t \in Task : QueueOf(net', t) = QueueOf(net, t) \ C
    PROVE  Follows' = {p \in Follows : p[1] \notin C}
  BY DEF Follows

(* Sessions are closed while nothing is being published.                   *)
LEMMA SomeLeave ==
    ASSUME SubInv, publishing.task = NoTask, publishing' = publishing,
           NEW C \in SUBSET Sess, \A t \in Task : QueueOf(net', t) = QueueOf(net, t) \ C
    PROVE  PS!PubSubNext
<1>1. Follows' = {p \in Follows : p[1] \notin C}
  BY FollowsLeft
<1>2. Owed = {} /\ Owed' = {} /\ publishing'.to = publishing.to
  BY DEF SubInv, PublishingOK, Owed
<1>3. PS!Leave(C)
  BY <1>1, <1>2, SeenIs DEF Seen
<1> QED
  BY <1>3 DEF PS!PubSubNext

(* No follower comes or goes, and nothing is published.                    *)
LEMMA NoneLeaves ==
    ASSUME SubInv, publishing.task = NoTask, publishing' = publishing,
           \A t \in Task : QueueOf(net', t) = QueueOf(net, t)
    PROVE  UNCHANGED PS!pubsubVars
<1>1. Follows' = Follows
  BY DEF Follows
<1>2. Owed = {} /\ Owed' = {} /\ publishing'.to = publishing.to
  BY DEF SubInv, PublishingOK, Owed
<1> QED
  BY <1>1, <1>2, SeenIs DEF Seen

-----------------------------------------------------------------------------
(* The steps.                                                              *)

(* While the answers come through, closing reads nothing that was freed.   *)
LEMMA NothingFreed ==
    ASSUME SubInv
    PROVE  /\ \A s \in Sess : ClosingReadsFreed(s) \in BOOLEAN /\ (ClosingReadsFreed(s) => unanswered)
           /\ \A n : KeyFreed(n) \in BOOLEAN /\ (KeyFreed(n) => unanswered)
           /\ \A s \in Sess : Dangling \notin Range(net.subs[s])
<1>1. net \in NetRec
  BY DEF SubInv, NetOK
<1>2. \A n : KeyFreed(n) \in BOOLEAN /\ (KeyFreed(n) => unanswered)
  <2>1. SUFFICES ASSUME NEW n, KeyFreed(n), ~unanswered PROVE FALSE
    BY DEF KeyFreed
  <2>2. PICK s \in Sess : <<s, n>> \in net.sessions /\ net.mem[s] = "free"
    BY <2>1 DEF KeyFreed
  <2>3. n \in Name
    BY <1>1, <2>2 DEF NetRec
  <2> QED
    BY <2>1, <2>2, <2>3 DEF SubInv, Known
<1>3. \A s \in Sess : Dangling \notin Range(net.subs[s])
  <2>1. SUFFICES ASSUME NEW s \in Sess PROVE Range(net.subs[s]) \subseteq Task
    BY DistinctAssumption
  <2>2. net.subs[s] \in Seq(Task)
    BY <1>1 DEF NetRec
  <2> QED
    BY <2>2 DEF Range
<1> QED
  BY <1>2, <1>3 DEF ClosingReadsFreed

(* A handler that leaves the loop of forward_to_monitclient() alone.       *)
LEMMA QuietStep ==
    ASSUME SubInv, NetOK(net'), sname' \in [Sess -> Name \cup {NoName}],
           ~unanswered' => Known(net', sname'), publishing.task = NoTask, publishing' = publishing,
           reading' = NoSess \/ (reading' \in Sess /\ net'.mem[reading'] = "open"),
           unanswered' \in BOOLEAN, ub' \in BOOLEAN, ub' => unanswered'
    PROVE  SubInv'
<1>1. PublishingOK'
  BY DEF SubInv, PublishingOK
<1>2. ReadingOK'
  BY DEF ReadingOK
<1>3. NetOK(net)' /\ (~unanswered => Known(net, sname))'
  BY DEF NetOK, NetRec, TableOK, Agree, ListsOK, QueueOf, Known
<1> QED
  BY <1>1, <1>2, <1>3 DEF SubInv, NoUseAfterFree

Kept == SubInv' /\ (PS!PubSubNext \/ UNCHANGED PS!pubsubVars)

SameBut(w, z, v) ==
    /\ NetOK(v) /\ v.mem = w.mem /\ v.sessions = z
    /\ \A t \in Task : QueueOf(v, t) = QueueOf(w, t)

(* Only the table of sessions by name changes.                             *)
LEMMA SessionsOnly ==
    ASSUME NEW w, NetOK(w), NEW z \in SUBSET (Sess \X Name), NEW v, v = [w EXCEPT !.sessions = z]
    PROVE  SameBut(w, z, v)
<1>1. /\ v.mem = w.mem /\ v.sessions = z /\ v.subs = w.subs /\ v.xsubbytaskid = w.xsubbytaskid
      /\ v = [mem |-> v.mem, sessions |-> v.sessions, subs |-> v.subs, xsubbytaskid |-> v.xsubbytaskid]
  BY DEF NetOK, NetRec
<1>2. v \in NetRec
  BY <1>1 DEF NetOK, NetRec
<1> QED
  BY <1>1, <1>2 DEF NetOK, Agree, ListsOK, QueueOf, SameBut

Shut(w, sn, s, v) ==
    /\ NetOK(v) /\ v.sessions \subseteq w.sessions
    /\ Known(w, sn) => Known(v, sn)
    /\ \A o \in Sess : o # s => v.mem[o] = w.mem[o]
    /\ \E C \in SUBSET {s} : \A t \in Task : QueueOf(v, t) = QueueOf(w, t) \ C

(* Closing a session, which may have been closed already.                  *)
LEMMA ClosedOr ==
    ASSUME NEW w, NetOK(w), NEW sn \in [Sess -> Name \cup {NoName}], NEW s \in Sess,
           NEW v \in Closed(w, sn, s)
    PROVE  Shut(w, sn, s, v)
<1>1. CASE w.mem[s] # "open"
  <2>1. v = w
    BY <1>1 DEF Closed
  <2>2. \A t \in Task : QueueOf(v, t) = QueueOf(w, t) \ {}
    BY <2>1
  <2> QED
    BY <2>1, <2>2 DEF Shut
<1>2. CASE w.mem[s] = "open"
  <2>1. /\ NetOK(v) /\ v.mem = [w.mem EXCEPT ![s] = "dead"]
        /\ v.sessions \in xhash_zap(w.sessions, sn, sn[s])
        /\ \A t \in Task : QueueOf(v, t) = QueueOf(w, t) \ {s}
    <3>1. Taken(w, sn, s, v)
      BY <1>2, ClosedIs
    <3> QED
      BY <3>1 DEF Taken
  <2>2. v.sessions \subseteq w.sessions
    BY <2>1 DEF xhash_zap
  <2>3. w.mem \in [Sess -> {"free", "open", "dead"}]
    BY DEF NetOK, NetRec
  <2>4. Known(w, sn) => Known(v, sn)
    BY <1>2, ClosedKnown
  <2> QED
    BY <2>1, <2>2, <2>3, <2>4 DEF Shut
<1> QED
  BY <1>1, <1>2

LEMMA AcceptStep == ASSUME SubInv, NEW s \in Sess, Accept(s) PROVE Kept
<1>1. /\ net \in NetRec /\ TableOK(net.xsubbytaskid) /\ Agree(net) /\ ListsOK(net)
      /\ net.mem \in [Sess -> {"free", "open", "dead"}] /\ net.mem[s] = "free"
      /\ net.subs \in [Sess -> Seq(Task)] /\ net.subs[s] = <<>>
  BY DEF SubInv, NetOK, NetRec, Accept, ListsOK
<1>2. /\ net'.mem = [net.mem EXCEPT ![s] = "open"] /\ net'.sessions = net.sessions
      /\ net'.subs = [net.subs EXCEPT ![s] = <<>>] /\ net'.xsubbytaskid = net.xsubbytaskid
      /\ net' = [mem |-> net'.mem, sessions |-> net'.sessions, subs |-> net'.subs,
                 xsubbytaskid |-> net'.xsubbytaskid]
  BY <1>1 DEF Accept, NetRec
<1>3. net'.subs = net.subs
  BY <1>1, <1>2
<1>4. net' \in NetRec
  <2>1. net'.mem \in [Sess -> {"free", "open", "dead"}]
    BY <1>1, <1>2
  <2> QED
    BY <1>1, <1>2, <1>3, <2>1 DEF NetRec
<1>5. \A t \in Task : QueueOf(net', t) = QueueOf(net, t)
  BY <1>2 DEF QueueOf
<1>6. Range(<<>>) = {}
  BY DEF Range
<1>7. Agree(net') /\ ListsOK(net')
  BY <1>1, <1>2, <1>3, <1>5, <1>6 DEF Agree, ListsOK
<1>8. NetOK(net')
  BY <1>1, <1>2, <1>4, <1>7 DEF NetOK
<1>9. /\ ~unanswered => Known(net, sname)
      /\ sname \in [Sess -> Name \cup {NoName}] /\ sname' = [sname EXCEPT ![s] = NoName]
      /\ publishing.task = NoTask /\ publishing' = publishing /\ reading' = NoSess
      /\ unanswered' = unanswered /\ ub' = ub
      /\ unanswered \in BOOLEAN /\ ub \in BOOLEAN /\ (ub => unanswered)
  BY DEF SubInv, Accept, Idle, NoUseAfterFree
<1>10. ~unanswered' => Known(net', sname')
  BY <1>1, <1>2, <1>9 DEF Known
<1>11. sname' \in [Sess -> Name \cup {NoName}]
  BY <1>9
<1>12. SubInv'
  BY <1>8, <1>9, <1>10, <1>11, QuietStep
<1>13. UNCHANGED PS!pubsubVars
  BY <1>5, <1>9, NoneLeaves
<1> QED
  BY <1>12, <1>13 DEF Kept

(* One session is closed by a step that does nothing else.                 *)
LEMMA ClosingStep ==
    ASSUME SubInv, NEW s \in Sess, publishing.task = NoTask, net' \in Closed(net, sname, s),
           ub' \in BOOLEAN, ub' => unanswered, reading' = NoSess,
           UNCHANGED <<sname, publishing, unanswered>>
    PROVE  Kept
<1>1. /\ NetOK(net) /\ sname \in [Sess -> Name \cup {NoName}] /\ unanswered \in BOOLEAN
      /\ ~unanswered => Known(net, sname)
  BY DEF SubInv
<1>2. Shut(net, sname, s, net')
  <2>1. PICK v \in Closed(net, sname, s) : v = net'
    OBVIOUS
  <2> QED
    BY <1>1, <2>1, ClosedOr
<1>3. ub' \in BOOLEAN /\ (ub' => unanswered)
  OBVIOUS
<1>4. SubInv'
  <2>1. NetOK(net') /\ (~unanswered' => Known(net', sname'))
    BY <1>1, <1>2 DEF Shut
  <2> QED
    BY <2>1, <1>1, <1>3, QuietStep
<1>5. PICK C \in SUBSET {s} : \A t \in Task : QueueOf(net', t) = QueueOf(net, t) \ C
  BY <1>2 DEF Shut
<1>6. C \in SUBSET Sess
  OBVIOUS
<1>7. PS!PubSubNext
  BY <1>5, <1>6, SomeLeave
<1> QED
  BY <1>4, <1>7 DEF Kept

LEMMA GoneStep == ASSUME SubInv, NEW s \in Sess, Gone(s) PROVE Kept
  BY ClosingStep, NothingFreed DEF Gone, Idle

LEMMA BadFrameStep == ASSUME SubInv, Tame, NEW s \in Sess, BadFrame(s) PROVE Kept
  BY ClosingStep, NothingFreed DEF BadFrame, Parsing, NextFrame, Tame

LEMMA _save_deadsessionStep == ASSUME SubInv, _save_deadsession PROVE Kept
<1>1. /\ net \in NetRec /\ TableOK(net.xsubbytaskid) /\ Agree(net) /\ ListsOK(net)
      /\ net.mem \in [Sess -> {"free", "open", "dead"}]
  BY DEF SubInv, NetOK, NetRec
<1> DEFINE m == [s \in Sess |-> IF net.mem[s] = "dead" THEN "free" ELSE net.mem[s]]
<1>2. /\ net'.mem = m /\ net'.sessions = net.sessions
      /\ net'.subs = net.subs /\ net'.xsubbytaskid = net.xsubbytaskid
      /\ net' = [mem |-> net'.mem, sessions |-> net'.sessions, subs |-> net'.subs,
                 xsubbytaskid |-> net'.xsubbytaskid]
  BY <1>1 DEF _save_deadsession, NetRec
<1>3. /\ m \in [Sess -> {"free", "open", "dead"}]
      /\ \A s \in Sess : m[s] = "open" <=> net.mem[s] = "open"
  BY <1>1
<1> HIDE DEF m
<1>4. net' \in NetRec
  BY <1>1, <1>2, <1>3 DEF NetRec
<1>5. \A t \in Task : QueueOf(net', t) = QueueOf(net, t)
  BY <1>2 DEF QueueOf
<1>6. Agree(net') /\ ListsOK(net')
  BY <1>1, <1>2, <1>3, <1>5 DEF Agree, ListsOK
<1>7. NetOK(net')
  BY <1>1, <1>2, <1>4, <1>6 DEF NetOK
<1>8. /\ (~unanswered => Known(net, sname)) /\ sname \in [Sess -> Name \cup {NoName}]
      /\ publishing.task = NoTask /\ publishing' = publishing /\ reading' = NoSess
      /\ unanswered' = unanswered /\ ub' = ub /\ sname' = sname
      /\ unanswered \in BOOLEAN /\ ub \in BOOLEAN /\ (ub => unanswered)
  BY DEF SubInv, _save_deadsession, Idle, NoUseAfterFree
<1>9. ~unanswered' => Known(net', sname')
  BY <1>2, <1>3, <1>8 DEF Known
<1>10. SubInv'
  BY <1>7, <1>8, <1>9, QuietStep
<1>11. UNCHANGED PS!pubsubVars
  BY <1>5, <1>8, NoneLeaves
<1> QED
  BY <1>10, <1>11 DEF Kept

(* Steps that leave net alone.                                             *)
LEMMA NetLeftAlone ==
    ASSUME SubInv, publishing.task = NoTask, sname' \in [Sess -> Name \cup {NoName}],
           ~unanswered => Known(net, sname'),
           reading' = NoSess \/ (reading' \in Sess /\ net.mem[reading'] = "open"),
           UNCHANGED <<net, publishing, unanswered, ub>>
    PROVE  Kept
<1>1. NetOK(net) /\ unanswered \in BOOLEAN /\ ub \in BOOLEAN /\ (ub => unanswered)
  BY DEF SubInv, NoUseAfterFree
<1>2. SubInv'
  BY <1>1, QuietStep
<1>3. UNCHANGED PS!pubsubVars
  BY NoneLeaves
<1> QED
  BY <1>2, <1>3 DEF Kept

LEMMA ReadStep == ASSUME SubInv, NEW s \in Sess, Read(s) PROVE Kept
<1>1. sname \in [Sess -> Name \cup {NoName}] /\ (~unanswered => Known(net, sname))
  BY DEF SubInv
<1> QED
  BY <1>1, NetLeftAlone DEF Read, Idle

LEMMA OtherFrameStep == ASSUME SubInv, Tame, NEW s \in Sess, OtherFrame(s) PROVE Kept
<1>1. sname \in [Sess -> Name \cup {NoName}] /\ (~unanswered => Known(net, sname))
  BY DEF SubInv
<1> QED
  BY <1>1, NetLeftAlone DEF OtherFrame, Parsing, NextFrame, Tame

(* The answer to a configuration reaches a connection that is registered,  *)
(* or closes it.                                                           *)
LEMMA configack_hookStep ==
    ASSUME SubInv, NEW n \in Name, configack_hook(n) PROVE Kept
<1> DEFINE dests == Found(net.sessions, sname, n)
<1>1. /\ sname \in [Sess -> Name \cup {NoName}] /\ (~unanswered => Known(net, sname))
      /\ NetOK(net) /\ unanswered \in BOOLEAN /\ dests \subseteq Sess
  BY DEF SubInv, Found
<1>2. /\ publishing.task = NoTask /\ reading' = NoSess
      /\ UNCHANGED <<sname, publishing, unanswered>>
  BY DEF configack_hook, Idle
<1>3. ub' = (KeyFreed(n) \/ ("answer" \in SendFails /\ \E d \in dests : ClosingReadsFreed(d)))
  BY DEF configack_hook
<1>4. ub' \in BOOLEAN /\ (ub' => unanswered)
  BY <1>1, <1>3, NothingFreed
<1>5. CASE net' = net
  <2>1. NetOK(net') /\ (~unanswered' => Known(net', sname'))
    BY <1>1, <1>2, <1>5
  <2>2. SubInv'
    BY <2>1, <1>1, <1>2, <1>4, QuietStep
  <2>3. UNCHANGED PS!pubsubVars
    BY <1>2, <1>5, NoneLeaves
  <2> QED
    BY <2>2, <2>3 DEF Kept
<1>6. CASE net' # net
  <2>1. PICK d \in dests : net' \in Closed(net, sname, d)
    BY <1>6 DEF configack_hook, p2p_stream_push
  <2> QED
    BY <2>1, <1>1, <1>2, <1>4, ClosingStep
<1> QED
  BY <1>5, <1>6

(* A connection that has no name yet is not in the table.                  *)
LEMMA Named ==
    ASSUME SubInv, ~unanswered, NEW s \in Sess, sname[s] = NoName, NEW n \in Name
    PROVE  /\ \A m \in Name : <<s, m>> \notin net.sessions
           /\ Known(net, [sname EXCEPT ![s] = n])
<1>1. Known(net, sname) /\ sname \in [Sess -> Name \cup {NoName}]
  BY DEF SubInv
<1>2. \A m \in Name : <<s, m>> \notin net.sessions
  BY <1>1, DistinctAssumption DEF Known
<1> QED
  BY <1>1, <1>2 DEF Known

LEMMA auth_shortStep ==
    ASSUME SubInv, Tame, NEW s \in Sess, NEW n \in Name, auth_short(s, n) PROVE Kept
<1>1. /\ sname \in [Sess -> Name \cup {NoName}] /\ sname[s] = NoName
      /\ sname' = [sname EXCEPT ![s] = n]
  BY DEF SubInv, auth_short, Tame
<1>2. sname' \in [Sess -> Name \cup {NoName}]
  BY <1>1
<1>3. ~unanswered => Known(net, sname')
  BY <1>1, Named
<1> QED
  BY <1>2, <1>3, NetLeftAlone DEF auth_short, Parsing, NextFrame, Tame

KickedTo(sn, n, o, k) ==
    /\ NetOK(k)
    /\ ~unanswered => Known(k, sn) /\ \A x \in Sess : <<x, n>> \notin k.sessions
    /\ \A x \in Sess : x # o => k.mem[x] = net.mem[x]
    /\ \E C \in SUBSET {o} : \A t \in Task : QueueOf(k, t) = QueueOf(net, t) \ C

(* The name is taken over: its holder is out of the table and closed.      *)
LEMMA Kicked ==
    ASSUME SubInv, NEW sn \in [Sess -> Name \cup {NoName}], NEW n \in Name,
           ~unanswered => Known(net, sn),
           NEW o \in Found(net.sessions, sn, n),
           NEW k \in Closed([net EXCEPT !.sessions = net.sessions \ {<<o, n>>}], sn, o)
    PROVE  KickedTo(sn, n, o, k)
<1> DEFINE z == net.sessions \ {<<o, n>>}
           v == [net EXCEPT !.sessions = z]
<1>1. NetOK(net) /\ o \in Sess /\ <<o, n>> \in net.sessions /\ z \in SUBSET (Sess \X Name)
  BY DEF SubInv, NetOK, NetRec, Found
<1>2. /\ NetOK(v) /\ v.mem = net.mem /\ v.sessions = z
      /\ \A t \in Task : QueueOf(v, t) = QueueOf(net, t)
  <2> HIDE DEF z
  <2>1. v = [net EXCEPT !.sessions = z]
    OBVIOUS
  <2> HIDE DEF v
  <2>2. SameBut(net, z, v)
    BY <1>1, <2>1, SessionsOnly
  <2> QED
    BY <2>2 DEF SameBut
<1>3. k \in Closed(v, sn, o)
  OBVIOUS
<1> HIDE DEF v
<1>4. Shut(v, sn, o, k)
  BY <1>1, <1>2, <1>3, ClosedOr
<1>5. ASSUME ~unanswered PROVE Known(k, sn) /\ \A x \in Sess : <<x, n>> \notin k.sessions
  <2>1. Known(v, sn)
    BY <1>2, <1>5 DEF Known, z
  <2>2. \A x \in Sess : <<x, n>> \notin v.sessions
    BY <1>1, <1>2, <1>5 DEF Known, z
  <2> QED
    BY <2>1, <2>2, <1>4 DEF Shut
<1>6. \E C \in SUBSET {o} : \A t \in Task : QueueOf(k, t) = QueueOf(net, t) \ C
  <2>1. PICK C \in SUBSET {o} : \A t \in Task : QueueOf(k, t) = QueueOf(v, t) \ C
    BY <1>4 DEF Shut
  <2> QED
    BY <2>1, <1>2
<1> QED
  BY <1>2, <1>4, <1>5, <1>6 DEF Shut, KickedTo

PushedTo(k, s, w) ==
    /\ NetOK(w) /\ w.sessions \subseteq k.sessions
    /\ \A o \in Sess : o # s => w.mem[o] = k.mem[o]
    /\ \E C \in SUBSET {s} : \A t \in Task : QueueOf(w, t) = QueueOf(k, t) \ C

(* The answer is sent, or the connection is closed on the way.             *)
LEMMA Pushed ==
    ASSUME NEW k, NetOK(k), NEW sn \in [Sess -> Name \cup {NoName}], NEW s \in Sess, NEW where,
           NEW w \in p2p_stream_push(k, sn, s, where)
    PROVE  PushedTo(k, s, w)
<1>1. CASE w = k
  <2>1. \A t \in Task : QueueOf(w, t) = QueueOf(k, t) \ {}
    BY <1>1
  <2> QED
    BY <1>1, <2>1 DEF PushedTo
<1>2. CASE w # k
  <2>1. w \in Closed(k, sn, s)
    BY <1>2 DEF p2p_stream_push
  <2>2. Shut(k, sn, s, w)
    BY <2>1, ClosedOr
  <2> QED
    BY <2>2 DEF Shut, PushedTo
<1> QED
  BY <1>1, <1>2

LEMMA auth_hookStep ==
    ASSUME SubInv, Tame, NEW s \in Sess, NEW n \in Name, auth_hook(s, n) PROVE Kept
<1> DEFINE sn == [sname EXCEPT ![s] = n]
           olds == Found(net.sessions, sn, n)
           kicked == IF olds = {} THEN {net}
                     ELSE UNION {Closed([net EXCEPT !.sessions = net.sessions \ {<<o, n>>}], sn, o) :
                                   o \in olds}
<1>1. /\ sname \in [Sess -> Name \cup {NoName}] /\ sname[s] = NoName /\ sname' = sn
      /\ net.mem[s] = "open" /\ NetOK(net) /\ publishing.task = NoTask
      /\ reading' = NoSess /\ publishing' = publishing /\ unanswered \in BOOLEAN
  <2>1. /\ sname \in [Sess -> Name \cup {NoName}] /\ NetOK(net) /\ unanswered \in BOOLEAN
        /\ reading # NoSess => net.mem[reading] = "open"
    BY DEF SubInv, ReadingOK
  <2>2. /\ reading = s /\ publishing.task = NoTask /\ sname[s] = NoName
        /\ sname' = [sname EXCEPT ![s] = n] /\ reading' = NoSess /\ publishing' = publishing
    BY DEF auth_hook, Parsing, NextFrame, Tame
  <2> QED
    BY <2>1, <2>2, DistinctAssumption
<1>2. sn \in [Sess -> Name \cup {NoName}] /\ sn[s] = n
  BY <1>1
<1>3. ~unanswered => Known(net, sn) /\ s \notin olds
  BY <1>1, Named DEF Found
<1>4. PICK k \in kicked : \E w \in p2p_stream_push(k, sn, s, "answer") :
              /\ unanswered' = (unanswered \/ w # k)
              /\ \E z \in xhash_zap(w.sessions, sn, n) :
                    net' = [w EXCEPT !.sessions = z \cup {<<s, n>>}]
  BY DEF auth_hook
<1>5. PICK w \in p2p_stream_push(k, sn, s, "answer") :
              /\ unanswered' = (unanswered \/ w # k)
              /\ \E z \in xhash_zap(w.sessions, sn, n) :
                    net' = [w EXCEPT !.sessions = z \cup {<<s, n>>}]
  BY <1>4
<1>6. PICK z \in xhash_zap(w.sessions, sn, n) : net' = [w EXCEPT !.sessions = z \cup {<<s, n>>}]
  BY <1>5
<1>7. ub' = (KeyFreed(n) \/ \E o \in olds \cup {s} : ClosingReadsFreed(o))
  BY DEF auth_hook
<1>8. olds \subseteq Sess
  BY DEF Found
<1> HIDE DEF sn
<1>9. /\ NetOK(k)
      /\ ~unanswered => /\ Known(k, sn) /\ k.mem[s] = "open"
                        /\ \A x \in Sess : <<x, n>> \notin k.sessions
      /\ \E C \in SUBSET Sess : \A t \in Task : QueueOf(k, t) = QueueOf(net, t) \ C
  <2>1. CASE olds = {}
    <3>1. k = net
      BY <2>1, <1>4
    <3>2. \A t \in Task : QueueOf(k, t) = QueueOf(net, t) \ {}
      BY <3>1
    <3>3. ~unanswered => \A x \in Sess : <<x, n>> \notin k.sessions
      BY <2>1, <3>1, <1>3 DEF Known, Found
    <3>4. {} \in SUBSET Sess
      OBVIOUS
    <3> QED
      BY <1>1, <1>3, <3>1, <3>2, <3>3, <3>4
  <2>2. CASE olds # {}
    <3>1. PICK o \in olds : k \in Closed([net EXCEPT !.sessions = net.sessions \ {<<o, n>>}], sn, o)
      BY <2>2, <1>4
    <3>2. KickedTo(sn, n, o, k)
      BY <3>1, <1>2, <1>3, Kicked
    <3>3. PICK C \in SUBSET {o} : \A t \in Task : QueueOf(k, t) = QueueOf(net, t) \ C
      BY <3>2 DEF KickedTo
    <3>4. C \in SUBSET Sess
      BY <1>8
    <3>5. ~unanswered => k.mem[s] = "open"
      BY <3>2, <1>1, <1>3 DEF KickedTo
    <3> QED
      BY <3>2, <3>3, <3>4, <3>5 DEF KickedTo
  <2> QED
    BY <2>1, <2>2
<1> HIDE DEF olds, kicked
<1>10. /\ NetOK(w) /\ w.sessions \subseteq k.sessions
       /\ \E C \in SUBSET {s} : \A t \in Task : QueueOf(w, t) = QueueOf(k, t) \ C
  <2>1. PushedTo(k, s, w)
    BY <1>2, <1>5, <1>9, Pushed
  <2> QED
    BY <2>1 DEF PushedTo
<1>11. z \in SUBSET (Sess \X Name) /\ z \subseteq w.sessions
  <2>1. w.sessions \in SUBSET (Sess \X Name)
    BY <1>10 DEF NetOK, NetRec
  <2> QED
    BY <2>1, <1>6 DEF xhash_zap
<1> DEFINE y == z \cup {<<s, n>>}
<1>12. y \in SUBSET (Sess \X Name)
  BY <1>11
<1>13. net' = [w EXCEPT !.sessions = y]
  BY <1>6
<1> HIDE DEF y
<1>14. /\ NetOK(net') /\ net'.mem = w.mem /\ net'.sessions = y
       /\ \A t \in Task : QueueOf(net', t) = QueueOf(w, t)
  <2>1. PICK v : v = net' /\ v = [w EXCEPT !.sessions = y]
    BY <1>13
  <2>2. SameBut(w, y, v)
    BY <1>10, <1>12, <2>1, SessionsOnly
  <2> QED
    BY <2>1, <2>2 DEF SameBut
<1>15. ~unanswered' => Known(net', sname')
  <2>1. SUFFICES ASSUME ~unanswered' PROVE Known(net', sn)
    BY <1>1
  <2>2. ~unanswered /\ w = k
    BY <2>1, <1>5
  <2>3. Known(k, sn) /\ k.mem[s] = "open" /\ \A x \in Sess : <<x, n>> \notin z
    BY <2>2, <1>9, <1>11
  <2>4. /\ \A x \in Sess, m \in Name : <<x, m>> \in y => <<x, m>> \in k.sessions \/ (x = s /\ m = n)
        /\ \A x \in Sess : <<x, n>> \in y => x = s
    BY <2>2, <2>3, <1>11 DEF y
  <2> QED
    BY <2>2, <2>3, <2>4, <1>2, <1>14 DEF Known
<1>16. unanswered' \in BOOLEAN /\ ub' \in BOOLEAN /\ (ub' => unanswered')
  <2>1. ub' => unanswered
    BY <1>7, <1>8, NothingFreed
  <2> QED
    BY <2>1, <1>5, <1>7
<1>17. SubInv'
  BY <1>1, <1>2, <1>14, <1>15, <1>16, QuietStep
<1>18. PS!PubSubNext
  <2>1. PICK C \in SUBSET Sess : \A t \in Task : QueueOf(k, t) = QueueOf(net, t) \ C
    BY <1>9
  <2>2. PICK E \in SUBSET {s} : \A t \in Task : QueueOf(w, t) = QueueOf(k, t) \ E
    BY <1>10
  <2>3. C \cup E \in SUBSET Sess
    OBVIOUS
  <2>4. \A t \in Task : QueueOf(net', t) = QueueOf(net, t) \ (C \cup E)
    BY <2>1, <2>2, <1>14
  <2> QED
    BY <2>3, <2>4, <1>1, SomeLeave
<1> QED
  BY <1>17, <1>18 DEF Kept

(* Putting an element at the end of a queue that does not hold it.         *)
LEMMA AppendIs ==
    ASSUME NEW S, NEW q \in Seq(S), NEW x \in S, IsInjective(q), x \notin Range(q)
    PROVE  /\ Append(q, x) \in Seq(S) /\ Append(q, x) # <<>> /\ IsInjective(Append(q, x))
           /\ Range(Append(q, x)) = Range(q) \cup {x}
<1>1. PICK n \in Nat : n = Len(q) /\ DOMAIN q = 1 .. n
  OBVIOUS
<1> DEFINE r == Append(q, x)
<1>2. /\ r \in Seq(S) /\ r # <<>> /\ DOMAIN r = 1 .. n + 1 /\ r[n + 1] = x
      /\ \A i \in 1 .. n : r[i] = q[i]
  BY <1>1
<1> HIDE DEF r
<1>3. \A i \in 1 .. n : q[i] # x
  BY <1>1 DEF Range
<1>4. IsInjective(r)
  <2>1. SUFFICES ASSUME NEW i \in 1 .. n + 1, NEW j \in 1 .. n + 1, r[i] = r[j] PROVE i = j
    BY <1>2 DEF IsInjective
  <2>2. \A k \in 1 .. n + 1 : k \in 1 .. n \/ k = n + 1
    BY <1>1
  <2>3. CASE i \in 1 .. n /\ j \in 1 .. n
    BY <2>1, <2>3, <1>1, <1>2 DEF IsInjective
  <2> QED
    BY <2>1, <2>2, <2>3, <1>2, <1>3
<1>5. Range(r) = Range(q) \cup {x}
  <2>1. ASSUME NEW y \in Range(r) PROVE y \in Range(q) \cup {x}
    <3>1. PICK i \in 1 .. n + 1 : y = r[i]
      BY <2>1, <1>2 DEF Range
    <3>2. CASE i = n + 1
      BY <3>1, <3>2, <1>2
    <3>3. CASE i \in 1 .. n
      BY <3>1, <3>3, <1>1, <1>2 DEF Range
    <3> QED
      BY <3>2, <3>3, <1>1
  <2>2. ASSUME NEW i \in 1 .. n PROVE q[i] \in Range(r)
    <3>1. i \in 1 .. n + 1
      BY <1>1
    <3>2. r[i] \in Range(r)
      BY <3>1, <1>2 DEF Range
    <3> QED
      BY <3>2, <1>2
  <2>3. x \in Range(r)
    <3>1. n + 1 \in 1 .. n + 1
      BY <1>1
    <3> QED
      BY <3>1, <1>2 DEF Range
  <2> QED
    BY <2>1, <2>2, <2>3, <1>1 DEF Range
<1> QED
  BY <1>2, <1>4, <1>5 DEF r

(* A session enters a task's queue, at its end.                            *)
LEMMA add_sess_to_subtableIs ==
    ASSUME NEW tab \in Tables, TableOK(tab), NEW t \in Task, NEW s \in Sess
    PROVE  LET r == add_sess_to_subtable(tab, t, s)
           IN  /\ r \in Tables /\ TableOK(r) /\ DOMAIN r = DOMAIN tab \cup {t}
               /\ \A u \in DOMAIN tab : u # t => r[u] = tab[u]
               /\ Range(r[t]) = {s} \cup (IF t \in DOMAIN tab THEN Range(tab[t]) ELSE {})
<1> DEFINE r == add_sess_to_subtable(tab, t, s)
           D == DOMAIN tab \cup {t}
           q == IF t \in DOMAIN tab THEN Without(tab[t], s) ELSE <<>>
<1>1. /\ DOMAIN tab \subseteq Task
      /\ \A u \in DOMAIN tab : tab[u] \in Seq(Sess) /\ tab[u] # <<>> /\ IsInjective(tab[u])
  BY TableIs DEF TableOK
<1>2. /\ q \in Seq(Sess) /\ IsInjective(q)
      /\ Range(q) = IF t \in DOMAIN tab THEN Range(tab[t]) \ {s} ELSE {}
  <2>1. CASE t \in DOMAIN tab
    BY <2>1, <1>1, WithoutIs
  <2>2. CASE t \notin DOMAIN tab
    BY <2>2 DEF IsInjective, Range
  <2> QED
    BY <2>1, <2>2
<1>3. r = [u \in D |-> IF u # t THEN tab[u] ELSE Append(q, s)]
  BY DEF add_sess_to_subtable
<1> HIDE DEF q, r
<1>4. s \notin Range(q)
  BY <1>2
<1>5. /\ Append(q, s) \in Seq(Sess) /\ Append(q, s) # <<>> /\ IsInjective(Append(q, s))
      /\ Range(Append(q, s)) = Range(q) \cup {s}
  BY <1>2, <1>4, AppendIs
<1> DEFINE a == Append(q, s)
<1> HIDE DEF a
<1>6. /\ r[t] = a /\ \A u \in DOMAIN tab : u # t => r[u] = tab[u]
      /\ r = [u \in D |-> IF u # t THEN tab[u] ELSE a]
  BY <1>3 DEF a
<1>7. a \in Seq(Sess) /\ a # <<>> /\ IsInjective(a) /\ Range(a) = Range(q) \cup {s}
  BY <1>5 DEF a
<1>8. D \subseteq Task /\ DOMAIN r = D
  BY <1>1, <1>6
<1>9. r \in [D -> Seq(Sess)]
  BY <1>1, <1>6, <1>7
<1>10. r \in Tables
  BY <1>8, <1>9, TableMade
<1>11. TableOK(r)
  BY <1>1, <1>6, <1>7, <1>8 DEF TableOK
<1> QED
  BY <1>2, <1>6, <1>7, <1>8, <1>10, <1>11 DEF r

LEMMA add_subs_to_sessIs ==
    ASSUME NEW S, NEW q \in Seq(S), NEW t \in S, IsInjective(q)
    PROVE  /\ add_subs_to_sess(q, t) \in Seq(S) /\ IsInjective(add_subs_to_sess(q, t))
           /\ Range(add_subs_to_sess(q, t)) = Range(q) \cup {t}
<1>1. CASE t \in Range(q)
  BY <1>1 DEF add_subs_to_sess
<1>2. CASE t \notin Range(q)
  BY <1>2, AppendIs DEF add_subs_to_sess
<1> QED
  BY <1>1, <1>2

(* What a session's frame about its subscriptions leaves to show.          *)
LEMMA SubsStep ==
    ASSUME SubInv, Tame, NEW s \in Sess, Parsing(s), NetOK(net'),
           net'.mem = net.mem, net'.sessions = net.sessions,
           ub' = (Dangling \in Range(net.subs[s])), NextFrame(s),
           UNCHANGED <<sname, publishing, unanswered>>
    PROVE  SubInv'
<1>1. /\ sname \in [Sess -> Name \cup {NoName}] /\ unanswered \in BOOLEAN
      /\ ~unanswered => Known(net, sname)
  BY DEF SubInv
<1>2. ~unanswered' => Known(net', sname')
  BY <1>1 DEF Known
<1>3. ub' \in BOOLEAN /\ ~ub'
  <2>1. Dangling \notin Range(net.subs[s])
    BY NothingFreed
  <2>2. ~ub'
    BY <2>1, Zenon
  <2>3. (Dangling \in Range(net.subs[s])) \in BOOLEAN
    OBVIOUS
  <2>4. ub' \in BOOLEAN
    BY <2>3, Zenon
  <2> QED
    BY <2>2, <2>4
<1>4. publishing.task = NoTask /\ reading' = NoSess
  BY DEF Parsing, NextFrame, Tame
<1> QED
  BY <1>1, <1>2, <1>3, <1>4, QuietStep

LEMMA sub_hookStep ==
    ASSUME SubInv, Tame, NEW s \in Sess, NEW t \in Task, sub_hook(s, t) PROVE Kept
<1>1. /\ net \in NetRec /\ net.xsubbytaskid \in Tables /\ TableOK(net.xsubbytaskid)
      /\ Agree(net) /\ ListsOK(net)
      /\ net.mem \in [Sess -> {"free", "open", "dead"}] /\ net.subs \in [Sess -> Seq(Task)]
  BY DEF SubInv, NetOK, NetRec
<1>2. net.mem[s] = "open" /\ Parsing(s) /\ NextFrame(s) /\ publishing.task = NoTask
  BY DistinctAssumption DEF SubInv, ReadingOK, sub_hook, Parsing
<1> DEFINE old == net.xsubbytaskid
           q == net.subs[s]
           tab == add_sess_to_subtable(old, t, s)
           list == add_subs_to_sess(q, t)
<1>3. /\ tab \in Tables /\ TableOK(tab) /\ DOMAIN tab = DOMAIN old \cup {t}
      /\ \A u \in DOMAIN old : u # t => tab[u] = old[u]
      /\ Range(tab[t]) = {s} \cup (IF t \in DOMAIN old THEN Range(old[t]) ELSE {})
  <2>1. old \in Tables /\ TableOK(old)
    BY <1>1
  <2> HIDE DEF old
  <2> QED
    BY <2>1, add_sess_to_subtableIs
<1>4. list \in Seq(Task) /\ IsInjective(list) /\ Range(list) = Range(q) \cup {t}
  <2>1. q \in Seq(Task) /\ IsInjective(q)
    BY <1>1 DEF ListsOK
  <2> HIDE DEF q
  <2> QED
    BY <2>1, add_subs_to_sessIs
<1> HIDE DEF tab, list
<1>5. net' = [net EXCEPT !.subs[s] = list, !.xsubbytaskid = tab]
  BY DEF sub_hook, tab, list
<1>6. /\ net'.mem = net.mem /\ net'.sessions = net.sessions
      /\ net'.subs = [net.subs EXCEPT ![s] = list] /\ net'.xsubbytaskid = tab
      /\ net' = [mem |-> net'.mem, sessions |-> net'.sessions, subs |-> net'.subs,
                 xsubbytaskid |-> net'.xsubbytaskid]
  BY <1>1, <1>5 DEF NetRec
<1>7. /\ net'.subs \in [Sess -> Seq(Task)] /\ net'.subs[s] = list
      /\ \A o \in Sess : o # s => net'.subs[o] = net.subs[o]
  BY <1>1, <1>4, <1>6
<1>8. net' \in NetRec
  BY <1>1, <1>3, <1>6, <1>7 DEF NetRec
<1>9. ListsOK(net')
  BY <1>1, <1>2, <1>4, <1>6, <1>7 DEF ListsOK
<1>10. \A u \in Task : QueueOf(net', u) = IF u = t THEN QueueOf(net, u) \cup {s} ELSE QueueOf(net, u)
  BY <1>3, <1>6 DEF QueueOf
<1>11. Agree(net')
  <2>1. SUFFICES ASSUME NEW o \in Sess, NEW u \in Task
                 PROVE  o \in QueueOf(net', u) <=> net'.mem[o] = "open" /\ u \in Range(net'.subs[o])
    BY DEF Agree
  <2>2. o \in QueueOf(net, u) <=> net.mem[o] = "open" /\ u \in Range(net.subs[o])
    BY <1>1 DEF Agree
  <2>3. CASE o = s
    BY <2>2, <2>3, <1>2, <1>4, <1>6, <1>7, <1>10
  <2>4. CASE o # s
    BY <2>2, <2>4, <1>6, <1>7, <1>10
  <2> QED
    BY <2>3, <2>4
<1>12. NetOK(net')
  BY <1>3, <1>6, <1>8, <1>9, <1>11 DEF NetOK
<1>13. SubInv'
  BY <1>2, <1>6, <1>12, SubsStep DEF sub_hook
<1>14. PS!PubSubNext
  <2>1. Follows' = Follows \cup {<<s, t>>}
    <3>1. ASSUME NEW p \in Sess \X Task
          PROVE  p[1] \in QueueOf(net', p[2]) <=> p[1] \in QueueOf(net, p[2]) \/ p = <<s, t>>
      BY <1>10
    <3> QED
      BY <3>1 DEF Follows
  <2>2. Owed = {} /\ Owed' = {} /\ publishing'.to = publishing.to
    BY <1>2 DEF SubInv, PublishingOK, Owed, sub_hook
  <2>3. PS!Follow(s, t)
    BY <2>1, <2>2, SeenIs DEF Seen
  <2> QED
    BY <2>3 DEF PS!PubSubNext
<1> QED
  BY <1>13, <1>14 DEF Kept

LEMMA unsub_hookStep ==
    ASSUME SubInv, Tame, NEW s \in Sess, NEW t \in Task, unsub_hook(s, t) PROVE Kept
<1>1. /\ net \in NetRec /\ net.xsubbytaskid \in Tables /\ TableOK(net.xsubbytaskid)
      /\ Agree(net) /\ ListsOK(net) /\ NetOK(net)
      /\ net.mem \in [Sess -> {"free", "open", "dead"}] /\ net.subs \in [Sess -> Seq(Task)]
  BY DEF SubInv, NetOK, NetRec
<1>2. /\ net.mem[s] = "open" /\ Parsing(s) /\ NextFrame(s) /\ publishing.task = NoTask
      /\ Range(net.subs[s]) \subseteq {t}
  BY DistinctAssumption DEF SubInv, ReadingOK, unsub_hook, Parsing, Tame
<1> DEFINE old == net.xsubbytaskid
           q == net.subs[s]
           tab == del_sess_from_subtable(old, {t}, s)
           mid == [net.subs EXCEPT ![s] = del_subs_from_sess(q, t)]
           new == clear_from_taskid_queue(mid, old, tab)
<1>3. tab \in Tables /\ TableOK(tab)
  BY <1>1, del_sess_from_subtableIs
<1>4. del_subs_from_sess(q, t) = <<>>
  <2>1. q \in Seq(Task) /\ IsInjective(q) /\ Range(q) \subseteq {t}
    BY <1>1, <1>2 DEF ListsOK
  <2> HIDE DEF q
  <2>2. Without(q, t) \in Seq(Task) /\ Range(Without(q, t)) = {}
    BY <2>1, WithoutIs
  <2>3. Without(q, t) = <<>>
    BY <2>2, EmptyRange
  <2>4. Len(Without(q, t)) = 0
    BY <2>3
  <2> QED
    BY <2>4 DEF del_subs_from_sess
<1>5. /\ mid \in [Sess -> Seq(Task)] /\ mid[s] = <<>>
      /\ \A o \in Sess : o # s => mid[o] = net.subs[o]
  BY <1>1, <1>4
<1>6. new = mid
  <2>1. ASSUME NEW o \in Sess PROVE \A i \in DOMAIN mid[o] : mid[o][i] \notin DOMAIN old \ DOMAIN tab
    <3>1. CASE o = s
      BY <3>1, <1>5
    <3>2. CASE o # s
      <4>1. \A i \in DOMAIN net.subs[o] : net.subs[o][i] \notin DOMAIN old \ DOMAIN tab
        BY <3>2, <1>1, ListsKept
      <4> QED
        BY <3>2, <4>1, <1>5
    <3> QED
      BY <3>1, <3>2
  <2>2. new = [o \in Sess |-> new[o]]
    BY DEF clear_from_taskid_queue
  <2> HIDE DEF mid, old, tab, new
  <2>3. ASSUME NEW o \in Sess PROVE clear_from_taskid_queue(mid, old, tab)[o] = mid[o]
    <3>1. \A i \in DOMAIN mid[o] : mid[o][i] \notin DOMAIN old \ DOMAIN tab
      BY <2>1
    <3>2. mid \in [Sess -> Seq(Task)]
      BY <1>5
    <3> QED
      BY <3>1, <3>2, ClearedIs
  <2>4. \A o \in Sess : new[o] = mid[o]
    BY <2>3 DEF new
  <2> QED
    BY <2>2, <2>4, <1>5
<1>7. net' = [net EXCEPT !.xsubbytaskid = tab, !.subs = new]
  BY DEF unsub_hook
<1> HIDE DEF tab, mid, new
<1>8. /\ net'.mem = net.mem /\ net'.sessions = net.sessions
      /\ net'.subs = mid /\ net'.xsubbytaskid = tab
      /\ net' = [mem |-> net'.mem, sessions |-> net'.sessions, subs |-> net'.subs,
                 xsubbytaskid |-> net'.xsubbytaskid]
  BY <1>1, <1>6, <1>7 DEF NetRec
<1>9. net' \in NetRec
  BY <1>1, <1>3, <1>5, <1>8 DEF NetRec
<1>10. ListsOK(net')
  <2>1. IsInjective(<<>>)
    BY DEF IsInjective
  <2> QED
    BY <2>1, <1>1, <1>5, <1>8 DEF ListsOK
<1>11. \A u \in Task : QueueOf(net', u) = IF u = t THEN QueueOf(net, u) \ {s} ELSE QueueOf(net, u)
  <2>1. PICK v : v = net'
    OBVIOUS
  <2>2. PICK T : T = {t}
    OBVIOUS
  <2>3. v.xsubbytaskid = del_sess_from_subtable(net.xsubbytaskid, T, s)
    BY <2>1, <2>2, <1>8 DEF tab
  <2>4. PICK w : w = net /\ NetOK(w) /\ v.xsubbytaskid = del_sess_from_subtable(w.xsubbytaskid, T, s)
    BY <2>3, <1>1
  <2>5. ASSUME NEW u \in Task
        PROVE  QueueOf(v, u) = IF u \in T THEN QueueOf(w, u) \ {s} ELSE QueueOf(w, u)
    BY <2>4, QueuesLeft
  <2> QED
    BY <2>1, <2>2, <2>4, <2>5
<1>12. Agree(net')
  <2>1. SUFFICES ASSUME NEW o \in Sess, NEW u \in Task
                 PROVE  o \in QueueOf(net', u) <=> net'.mem[o] = "open" /\ u \in Range(net'.subs[o])
    BY DEF Agree
  <2>2. o \in QueueOf(net, u) <=> net.mem[o] = "open" /\ u \in Range(net.subs[o])
    BY <1>1 DEF Agree
  <2>3. CASE o = s
    <3>1. u \notin Range(net'.subs[o])
      BY <2>3, <1>5, <1>8 DEF Range
    <3> QED
      BY <2>2, <2>3, <3>1, <1>2, <1>11
  <2>4. CASE o # s
    BY <2>2, <2>4, <1>5, <1>8, <1>11
  <2> QED
    BY <2>3, <2>4
<1>13. NetOK(net')
  BY <1>3, <1>8, <1>9, <1>10, <1>12 DEF NetOK
<1>14. SubInv'
  BY <1>2, <1>8, <1>13, SubsStep DEF unsub_hook
<1>15. PS!PubSubNext
  <2>1. Follows' = Follows \ {<<s, t>>}
    <3>1. ASSUME NEW p \in Sess \X Task
          PROVE  p[1] \in QueueOf(net', p[2]) <=> p[1] \in QueueOf(net, p[2]) /\ p # <<s, t>>
      BY <1>11
    <3>2. ASSUME NEW p \in Sess \X Task
          PROVE  p[1] \in QueueOf(net', p[2]) => p # <<s, t>>
      BY <1>11
    <3> QED
      BY <3>1 DEF Follows
  <2>2. Owed = {} /\ Owed' = {} /\ publishing'.to = publishing.to
    BY <1>2 DEF SubInv, PublishingOK, Owed, unsub_hook
  <2>3. PS!Unfollow(s, t)
    BY <2>1, <2>2, SeenIs DEF Seen
  <2> QED
    BY <2>3 DEF PS!PubSubNext
<1> QED
  BY <1>14, <1>15 DEF Kept

-----------------------------------------------------------------------------
(* Publishing.                                                             *)

LEMMA PublishBeginStep == ASSUME SubInv, NEW t \in Task, PublishBegin(t) PROVE Kept
<1> DEFINE q == net.xsubbytaskid[t]
<1>1. /\ publishing.task = NoTask /\ publishing.left = 0 /\ publishing.to = NoSess
      /\ t \in DOMAIN net.xsubbytaskid /\ reading = NoSess
      /\ net' = net /\ sname' = sname /\ reading' = reading /\ unanswered' = unanswered /\ ub' = ub
      /\ publishing' = [task |-> t, left |-> Len(q), to |-> NoSess]
  BY DEF SubInv, PublishingOK, PublishBegin, Idle
<1>2. net.xsubbytaskid \in Tables /\ TableOK(net.xsubbytaskid)
  BY DEF SubInv, NetOK, NetRec
<1>3. q \in Seq(Sess) /\ q # <<>>
  BY <1>1, <1>2, TableIs DEF TableOK
<1>4. QueueOf(net, t) = Range(q)
  BY <1>1 DEF QueueOf
<1> HIDE DEF q
<1>5. PICK n \in Nat : n = Len(q) /\ n > 0 /\ DOMAIN q = 1 .. n
  BY <1>3
<1>6. publishing'.task = t /\ publishing'.left = n /\ publishing'.to = NoSess
  BY <1>1, <1>5
<1>7. PublishingOK'
  <2>1. publishing' \in [task : Task \cup {NoTask}, left : Nat, to : Sess \cup {NoSess}]
    BY <1>1, <1>5
  <2>2. publishing'.left <= Len(net'.xsubbytaskid[publishing'.task])
    BY <1>1, <1>5, <1>6 DEF q
  <2>3. publishing'.task # NoTask
    BY <1>6, DistinctAssumption
  <2> QED
    BY <2>1, <2>2, <2>3, <1>1, <1>6 DEF PublishingOK
<1>8. SubInv'
  <2>1. NetOK(net)' /\ (~unanswered => Known(net, sname))'
    BY <1>1 DEF SubInv, NetOK, NetRec, TableOK, Agree, ListsOK, QueueOf, Known
  <2> QED
    BY <2>1, <1>1, <1>7 DEF SubInv, ReadingOK, NoUseAfterFree
<1>9. Follows' = Follows
  BY <1>1 DEF Follows, QueueOf
<1>10. Owed = {} /\ Owed' = {s \in Sess : <<s, t>> \in Follows}
  <2>1. Owed' = {q[i] : i \in 1 .. n}
    BY <1>1, <1>5, <1>6 DEF Owed, q
  <2>2. Range(q) = {q[i] : i \in 1 .. n} /\ Range(q) \subseteq Sess
    BY <1>3, <1>5 DEF Range
  <2>3. \A s \in Sess : <<s, t>> \in Follows <=> s \in Range(q)
    BY <1>4 DEF Follows
  <2> QED
    BY <2>1, <2>2, <2>3, <1>1 DEF Owed
<1>11. PS!Announce(t)
  BY <1>1, <1>6, <1>9, <1>10, SeenIs DEF Seen
<1>12. PS!PubSubNext
  BY <1>11 DEF PS!PubSubNext
<1> QED
  BY <1>8, <1>12 DEF Kept

LEMMA TailLeft == ASSUME NEW S, NEW q \in Seq(S), Len(q) > 1 PROVE Tail(q) # <<>>
<1>1. Tail(q) \in Seq(S) /\ Len(Tail(q)) = Len(q) - 1 /\ Len(q) \in Nat
  OBVIOUS
<1>2. Len(Tail(q)) # 0
  BY <1>1
<1> QED
  BY <1>1, <1>2, EmptySeq

Firsts(q, m) == {q[i] : i \in 1 .. m}

(* Whoever is first has been sent to; the next ones have still to be.      *)
LEMMA OwedNext ==
    ASSUME NEW S, NEW q \in Seq(S), IsInjective(q), NEW m \in Nat, m > 0, m <= Len(q), NEW r,
           \A k \in 1 .. Len(q) - 1 : r[k] = q[k + 1]
    PROVE  Firsts(r, m - 1) = Firsts(q, m) \ {Head(q)}
<1>1. PICK n \in Nat : n = Len(q) /\ n > 0 /\ DOMAIN q = 1 .. n /\ Head(q) = q[1]
  OBVIOUS
<1>2. \A k \in 1 .. m - 1 : r[k] = q[k + 1] /\ k + 1 \in 1 .. m /\ q[k + 1] # q[1]
  <2>1. SUFFICES ASSUME NEW k \in 1 .. m - 1
                 PROVE  r[k] = q[k + 1] /\ k + 1 \in 1 .. m /\ q[k + 1] # q[1]
    OBVIOUS
  <2>2. k \in 1 .. n - 1 /\ k + 1 \in 1 .. n /\ k + 1 \in 1 .. m /\ k + 1 # 1 /\ 1 \in 1 .. n
    BY <1>1
  <2>3. q[k + 1] # q[1]
    BY <2>2, <1>1 DEF IsInjective
  <2> QED
    BY <2>2, <2>3, <1>1
<1>3. \A i \in 1 .. m : i # 1 => \E k \in 1 .. m - 1 : r[k] = q[i]
  <2>1. SUFFICES ASSUME NEW i \in 1 .. m, i # 1 PROVE \E k \in 1 .. m - 1 : r[k] = q[i]
    OBVIOUS
  <2>2. PICK k \in 1 .. m - 1 : k + 1 = i
    <3>1. i - 1 \in 1 .. m - 1 /\ (i - 1) + 1 = i
      BY <2>1
    <3> QED
      BY <3>1
  <2>3. r[k] = q[i]
    BY <2>2, <1>2
  <2> QED
    BY <2>3
<1>5. ASSUME NEW x \in {r[i] : i \in 1 .. m - 1} PROVE x \in {q[i] : i \in 1 .. m} \ {Head(q)}
  BY <1>1, <1>2
<1>6. ASSUME NEW x \in {q[i] : i \in 1 .. m} \ {Head(q)} PROVE x \in {r[i] : i \in 1 .. m - 1}
  <2>1. PICK i \in 1 .. m : x = q[i] /\ i # 1
    BY <1>1
  <2> QED
    BY <2>1, <1>3
<1> QED
  BY <1>5, <1>6 DEF Firsts

TurnedTo(w, t, v) ==
    /\ NetOK(v) /\ v.mem = w.mem /\ v.subs = w.subs /\ v.sessions = w.sessions
    /\ DOMAIN v.xsubbytaskid = DOMAIN w.xsubbytaskid
    /\ v.xsubbytaskid[t] = Rotate(w.xsubbytaskid[t])
    /\ \A u \in Task : QueueOf(v, u) = QueueOf(w, u)

(* The first of a queue goes to its end.                                   *)
LEMMA Rotated ==
    ASSUME NEW w, NetOK(w), NEW t \in DOMAIN w.xsubbytaskid, NEW v,
           v = [w EXCEPT !.xsubbytaskid[t] = Rotate(w.xsubbytaskid[t])]
    PROVE  TurnedTo(w, t, v)
<1> DEFINE old == w.xsubbytaskid
           q == old[t]
           tab == v.xsubbytaskid
<1>1. w \in NetRec /\ old \in Tables /\ TableOK(old) /\ Agree(w) /\ ListsOK(w)
  BY DEF NetOK, NetRec
<1>2. q \in Seq(Sess) /\ q # <<>> /\ IsInjective(q) /\ t \in DOMAIN old
  BY <1>1, TableIs DEF TableOK
<1>3. /\ v.mem = w.mem /\ v.sessions = w.sessions /\ v.subs = w.subs
      /\ tab = [old EXCEPT ![t] = Rotate(q)]
      /\ v = [mem |-> v.mem, sessions |-> v.sessions, subs |-> v.subs, xsubbytaskid |-> v.xsubbytaskid]
  BY <1>1 DEF NetRec
<1> HIDE DEF q
<1>4. Rotate(q) \in Seq(Sess) /\ Rotate(q) # <<>> /\ IsInjective(Rotate(q)) /\ Range(Rotate(q)) = Range(q)
  BY <1>2, RotateIs
<1>5. DOMAIN old \subseteq Task /\ old \in [DOMAIN old -> Seq(Sess)]
  BY <1>1, TableIs
<1> DEFINE r == Rotate(q)
<1> HIDE DEF r, old
<1>6. /\ tab \in [DOMAIN old -> Seq(Sess)] /\ DOMAIN tab = DOMAIN old /\ tab[t] = r
      /\ \A u \in DOMAIN old : u # t => tab[u] = old[u]
  <2>1. tab = [old EXCEPT ![t] = r] /\ r \in Seq(Sess)
    BY <1>3, <1>4 DEF r, old
  <2> HIDE DEF tab
  <2> QED
    BY <2>1, <1>2, <1>5
<1>7. tab \in Tables
  BY <1>5, <1>6, TableMade
<1>8. TableOK(tab)
  <2>1. r # <<>> /\ IsInjective(r)
    BY <1>4 DEF r
  <2> QED
    BY <2>1, <1>1, <1>6 DEF TableOK
<1>9. v \in NetRec
  BY <1>1, <1>3, <1>7 DEF NetRec
<1>10. \A u \in Task : QueueOf(v, u) = QueueOf(w, u)
  <2>1. Range(r) = Range(q)
    BY <1>4 DEF r
  <2>2. q = old[t]
    BY DEF q, old
  <2> QED
    BY <2>1, <2>2, <1>6 DEF QueueOf, old
<1>11. Agree(v) /\ ListsOK(v)
  BY <1>1, <1>3, <1>10 DEF Agree, ListsOK
<1> QED
  BY <1>3, <1>6, <1>8, <1>9, <1>10, <1>11 DEF NetOK, TurnedTo, r, q, old

(* What a turn of the loop does to the queue being published to, and to    *)
(* whoever is first in it.                                                 *)
TurnTo(t, q, h, v) ==
    /\ NetOK(v)
    /\ ~unanswered => Known(v, sname)
    /\ \E C \in {{}, {h}} : \A u \in Task : QueueOf(v, u) = QueueOf(net, u) \ C
    /\ Len(q) > 1 => /\ t \in DOMAIN v.xsubbytaskid
                     /\ Len(v.xsubbytaskid[t]) >= Len(q) - 1
                     /\ \A k \in 1 .. Len(q) - 1 : v.xsubbytaskid[t][k] = q[k + 1]

LEMMA Turn ==
    ASSUME SubInv, NEW t \in DOMAIN net.xsubbytaskid, NEW q, q = net.xsubbytaskid[t],
           NEW w, w = [net EXCEPT !.xsubbytaskid[t] = Rotate(net.xsubbytaskid[t])],
           NEW v \in p2p_stream_push(w, sname, Head(q), "publish")
    PROVE  TurnTo(t, q, Head(q), v) /\ Head(q) \in Sess /\ net.mem[Head(q)] = "open"
<1> DEFINE h == Head(q)
           r == Rotate(q)
<1>1. /\ NetOK(net) /\ sname \in [Sess -> Name \cup {NoName}] /\ Agree(net)
      /\ ~unanswered => Known(net, sname)
      /\ net.xsubbytaskid \in Tables /\ TableOK(net.xsubbytaskid)
  BY DEF SubInv, NetOK, NetRec
<1>2. t \in Task /\ q \in Seq(Sess) /\ q # <<>> /\ IsInjective(q)
  BY <1>1, TableIs DEF TableOK
<1>3. /\ NetOK(w) /\ w.mem = net.mem /\ w.subs = net.subs /\ w.sessions = net.sessions
      /\ DOMAIN w.xsubbytaskid = DOMAIN net.xsubbytaskid
      /\ w.xsubbytaskid[t] = Rotate(net.xsubbytaskid[t])
      /\ \A u \in Task : QueueOf(w, u) = QueueOf(net, u)
  <2>1. PICK n : n = net
    OBVIOUS
  <2>2. NetOK(n) /\ t \in DOMAIN n.xsubbytaskid /\ w = [n EXCEPT !.xsubbytaskid[t] = Rotate(n.xsubbytaskid[t])]
    BY <2>1, <1>1
  <2>3. TurnedTo(n, t, w)
    BY <2>2, Rotated
  <2> QED
    BY <2>1, <2>3 DEF TurnedTo
<1>4. w.xsubbytaskid[t] = r
  BY <1>3
<1>5. /\ r \in Seq(Sess) /\ r # <<>> /\ IsInjective(r)
      /\ Range(r) = Range(q) /\ Len(r) = Len(q) /\ h \in Range(q)
      /\ Without(r, h) = Tail(q)
      /\ \A k \in 1 .. Len(q) - 1 : r[k] = q[k + 1] /\ Tail(q)[k] = q[k + 1]
  BY <1>2, RotateIs
<1>6. h \in Sess /\ h \in QueueOf(net, t) /\ net.mem[h] = "open" /\ t \in Range(net.subs[h])
  <2>1. h \in Sess
    BY <1>2
  <2>2. h \in QueueOf(net, t)
    BY <1>5 DEF QueueOf
  <2> QED
    BY <2>1, <2>2, <1>1, <1>2 DEF Agree
<1>7. ~unanswered => Known(w, sname)
  BY <1>1, <1>3 DEF Known
<1>8. v \in p2p_stream_push(w, sname, h, "publish")
  OBVIOUS
<1>9. PICK n \in Nat : n = Len(q)
  BY <1>2
<1> HIDE DEF h, r
<1>10. CASE v = w
  <2>1. \A u \in Task : QueueOf(v, u) = QueueOf(net, u) \ {}
    BY <1>3, <1>10
  <2>2. t \in DOMAIN v.xsubbytaskid /\ Len(v.xsubbytaskid[t]) = Len(q)
    BY <1>3, <1>4, <1>5, <1>10
  <2>3. \A k \in 1 .. Len(q) - 1 : v.xsubbytaskid[t][k] = q[k + 1]
    BY <1>4, <1>5, <1>10
  <2>4. NetOK(v) /\ (~unanswered => Known(v, sname))
    BY <1>3, <1>7, <1>10
  <2>5. TurnTo(t, q, h, v)
    BY <2>1, <2>2, <2>3, <2>4, <1>9 DEF TurnTo
  <2> QED
    BY <2>5, <1>6 DEF h
<1>11. CASE v # w
  <2>1. v \in Closed(w, sname, h) /\ w.mem[h] = "open"
    BY <1>3, <1>6, <1>8, <1>11 DEF p2p_stream_push
  <2>2. Taken(w, sname, h, v)
    BY <2>1, <1>3, <1>6, ClosedIs
  <2>3. Shut(w, sname, h, v)
    BY <2>1, <1>1, <1>3, <1>6, ClosedOr
  <2>4. NetOK(v) /\ (~unanswered => Known(v, sname))
    BY <2>3, <1>7 DEF Shut
  <2>5. \A u \in Task : QueueOf(v, u) = QueueOf(net, u) \ {h}
    BY <2>2, <1>3 DEF Taken
  <2>6. ASSUME n > 1
        PROVE  /\ t \in DOMAIN v.xsubbytaskid /\ v.xsubbytaskid[t] = Tail(q)
    <3> DEFINE T == Range(w.subs[h])
               old == w.xsubbytaskid
    <3>1. v.xsubbytaskid = del_sess_from_subtable(old, T, h)
      BY <2>2 DEF Taken
    <3>2. t \in DOMAIN old /\ t \in T /\ Without(old[t], h) = Tail(q)
      BY <1>3, <1>4, <1>5, <1>6
    <3>3. Tail(q) # <<>>
      BY <2>6, <1>2, <1>9, TailLeft
    <3> HIDE DEF T, old
    <3> QED
      BY <3>1, <3>2, <3>3 DEF del_sess_from_subtable
  <2>7. n > 1 => /\ t \in DOMAIN v.xsubbytaskid
                 /\ Len(v.xsubbytaskid[t]) >= n - 1
                 /\ \A k \in 1 .. n - 1 : v.xsubbytaskid[t][k] = q[k + 1]
    <3>1. SUFFICES ASSUME n > 1
                   PROVE  /\ t \in DOMAIN v.xsubbytaskid
                          /\ Len(v.xsubbytaskid[t]) >= n - 1
                          /\ \A k \in 1 .. n - 1 : v.xsubbytaskid[t][k] = q[k + 1]
      OBVIOUS
    <3>2. Len(Tail(q)) = n - 1 /\ \A k \in 1 .. n - 1 : Tail(q)[k] = q[k + 1]
      BY <1>2, <1>9
    <3>3. t \in DOMAIN v.xsubbytaskid /\ v.xsubbytaskid[t] = Tail(q)
      BY <3>1, <2>6
    <3>4. Len(v.xsubbytaskid[t]) >= n - 1
      BY <3>2, <3>3, <1>9
    <3>5. \A k \in 1 .. n - 1 : v.xsubbytaskid[t][k] = q[k + 1]
      BY <3>2, <3>3
    <3> QED
      BY <3>3, <3>4, <3>5
  <2>8. TurnTo(t, q, h, v)
    BY <2>4, <2>5, <2>7, <1>9 DEF TurnTo
  <2> QED
    BY <2>8, <1>6 DEF h
<1> QED
  BY <1>10, <1>11

LEMMA PublishNextStep == ASSUME SubInv, PublishNext PROVE Kept
<1>0. PICK t, q, w, h, left :
         /\ t = publishing.task /\ q = net.xsubbytaskid[t]
         /\ w = [net EXCEPT !.xsubbytaskid[t] = Rotate(net.xsubbytaskid[t])]
         /\ h = Head(q) /\ left = publishing.left
  OBVIOUS
<1>1. /\ publishing \in [task : Task \cup {NoTask}, left : Nat, to : Sess \cup {NoSess}]
      /\ left \in Nat /\ left > 0 /\ t \in DOMAIN net.xsubbytaskid /\ left <= Len(q)
      /\ net.xsubbytaskid \in Tables /\ TableOK(net.xsubbytaskid)
      /\ ~ub /\ sname' = sname /\ reading' = reading /\ unanswered' = unanswered
      /\ sname \in [Sess -> Name \cup {NoName}] /\ unanswered \in BOOLEAN
  BY <1>0 DEF SubInv, PublishingOK, PublishNext, NetOK, NetRec
<1>2. t \in Task /\ q \in Seq(Sess) /\ q # <<>> /\ IsInjective(q)
  BY <1>0, <1>1, TableIs DEF TableOK
<1>3. t # NoTask /\ reading = NoSess
  BY <1>0, <1>2, DistinctAssumption DEF SubInv, ReadingOK
<1>4. /\ publishing' = [publishing EXCEPT !.left = left - 1, !.to = h]
      /\ net' \in p2p_stream_push(w, sname, h, "publish")
      /\ ub' = (net.mem[h] = "free" \/ ("publish" \in SendFails /\ ClosingReadsFreed(h)))
  BY <1>0, <1>1 DEF PublishNext
<1>5. TurnTo(t, q, h, net') /\ h \in Sess /\ net.mem[h] = "open"
  <2>1. PICK v \in p2p_stream_push(w, sname, h, "publish") : v = net'
    BY <1>4
  <2>2. TurnTo(t, q, Head(q), v) /\ Head(q) \in Sess /\ net.mem[Head(q)] = "open"
    BY <2>1, <1>0, <1>1, Turn
  <2> QED
    BY <2>1, <2>2, <1>0
<1>6. publishing'.task = t /\ publishing'.left = left - 1 /\ publishing'.to = h
  BY <1>0, <1>1, <1>4
<1>7. publishing' \in [task : Task \cup {NoTask}, left : Nat, to : Sess \cup {NoSess}]
  <2>1. left - 1 \in Nat
    BY <1>1
  <2>2. publishing' = [task |-> publishing.task, left |-> left - 1, to |-> h]
    BY <1>1, <1>4
  <2> QED
    BY <2>1, <2>2, <1>0, <1>1, <1>2, <1>5
<1>8. ub' \in BOOLEAN /\ (ub' => unanswered)
  <2>1. ClosingReadsFreed(h) \in BOOLEAN /\ (ClosingReadsFreed(h) => unanswered)
    BY <1>5, NothingFreed
  <2>2. ub' = ("publish" \in SendFails /\ ClosingReadsFreed(h))
    BY <1>4, <1>5
  <2>3. ub' => ClosingReadsFreed(h)
    BY <2>2
  <2>4. ub' \in BOOLEAN
    BY <2>1, <2>2
  <2> QED
    BY <2>1, <2>3, <2>4
<1>9. left - 1 > 0 => /\ t \in DOMAIN net'.xsubbytaskid
                      /\ left - 1 <= Len(net'.xsubbytaskid[t])
                      /\ \A k \in 1 .. Len(q) - 1 : net'.xsubbytaskid[t][k] = q[k + 1]
  <2>1. SUFFICES ASSUME left - 1 > 0
                 PROVE  /\ t \in DOMAIN net'.xsubbytaskid
                        /\ left - 1 <= Len(net'.xsubbytaskid[t])
                        /\ \A k \in 1 .. Len(q) - 1 : net'.xsubbytaskid[t][k] = q[k + 1]
    OBVIOUS
  <2>2. PICK n \in Nat : n = Len(q)
    BY <1>2
  <2>3. Len(q) > 1
    BY <2>1, <2>2, <1>1
  <2>4. /\ t \in DOMAIN net'.xsubbytaskid /\ Len(net'.xsubbytaskid[t]) >= Len(q) - 1
        /\ \A k \in 1 .. Len(q) - 1 : net'.xsubbytaskid[t][k] = q[k + 1]
    BY <2>3, <1>5 DEF TurnTo
  <2>5. Len(net'.xsubbytaskid[t]) \in Nat
    <3>1. net'.xsubbytaskid \in Tables
      BY <1>5 DEF TurnTo, NetOK, NetRec
    <3>2. net'.xsubbytaskid[t] \in Seq(Sess)
      BY <3>1, <2>4, TableIs
    <3> QED
      BY <3>2
  <2> QED
    BY <2>2, <2>4, <2>5, <1>1
<1>10. SubInv'
  <2>1. PublishingOK'
    BY <1>3, <1>6, <1>7, <1>9 DEF PublishingOK
  <2>2. ReadingOK'
    BY <1>1, <1>3, <1>6 DEF ReadingOK
  <2>3. NetOK(net)' /\ (~unanswered => Known(net, sname))'
    <3>1. NetOK(net') /\ (~unanswered => Known(net', sname))
      BY <1>5 DEF TurnTo
    <3> QED
      BY <3>1, <1>1 DEF NetOK, NetRec, TableOK, Agree, ListsOK, QueueOf, Known
  <2> QED
    BY <2>1, <2>2, <2>3, <1>1, <1>8 DEF SubInv, NoUseAfterFree
<1>11. PS!PubSubNext
  <2>1. Owed = {q[i] : i \in 1 .. left}
    BY <1>0, <1>1 DEF Owed
  <2>2. Owed' = {net'.xsubbytaskid[t][i] : i \in 1 .. left - 1}
    BY <1>1, <1>6 DEF Owed
  <2>3. h \in Owed
    <3>1. h = q[1] /\ 1 \in 1 .. left
      BY <1>0, <1>1, <1>2
    <3> QED
      BY <3>1, <2>1
  <2>4. Owed' = Owed \ {h}
    <3>1. CASE left - 1 > 0
      <4> DEFINE r == net'.xsubbytaskid[t]
      <4>1. \A k \in 1 .. Len(q) - 1 : r[k] = q[k + 1]
        BY <3>1, <1>9
      <4> HIDE DEF r
      <4>2. left > 0 /\ left <= Len(q) /\ left \in Nat
        BY <1>0, <1>1
      <4>3. Firsts(r, left - 1) = Firsts(q, left) \ {Head(q)}
        BY <4>1, <4>2, <1>2, OwedNext
      <4> QED
        BY <4>3, <2>1, <2>2, <1>0 DEF r, Firsts
    <3>2. CASE left = 1
      <4>1. Owed' = {}
        BY <2>2, <3>2
      <4>2. Owed = {h}
        BY <2>1, <3>2, <1>0, <1>2
      <4> QED
        BY <4>1, <4>2
    <3> QED
      BY <3>1, <3>2, <1>1
  <2>5. Follows' \in {Follows, {p \in Follows : p[1] \notin {h}}}
    <3>1. PICK C \in {{}, {h}} : \A u \in Task : QueueOf(net', u) = QueueOf(net, u) \ C
      BY <1>5 DEF TurnTo
    <3>2. Follows' = {p \in Follows : p[1] \notin C}
      BY <3>1, FollowsLeft
    <3> QED
      BY <3>1, <3>2 DEF Follows
  <2>6. PS!Deliver(h)
    <3>1. \A s \in Owed :
            Owed' = Owed \ {s} /\ publishing'.to = s
            /\ Follows' \in {Follows, {p \in Follows : p[1] \notin {s}}} => PS!Deliver(s)
      BY SeenIs
    <3> QED
      BY <3>1, <2>3, <2>4, <2>5, <1>6
  <2>7. h \in Sess
    BY <1>5
  <2> QED
    BY <2>6, <2>7 DEF PS!PubSubNext
<1> QED
  BY <1>10, <1>11 DEF Kept

LEMMA PublishEndStep == ASSUME SubInv, PublishEnd PROVE Kept
<1>1. /\ publishing \in [task : Task \cup {NoTask}, left : Nat, to : Sess \cup {NoSess}]
      /\ publishing.left = 0 /\ publishing.task # NoTask
      /\ publishing' = [publishing EXCEPT !.task = NoTask, !.to = NoSess]
      /\ net' = net /\ sname' = sname /\ reading' = reading /\ unanswered' = unanswered /\ ub' = ub
  BY DEF SubInv, PublishingOK, PublishEnd
<1>2. publishing'.task = NoTask /\ publishing'.left = 0 /\ publishing'.to = NoSess
  BY <1>1
<1>3. PublishingOK'
  <2>1. publishing' \in [task : Task \cup {NoTask}, left : Nat, to : Sess \cup {NoSess}]
    BY <1>1
  <2> QED
    BY <2>1, <1>2 DEF PublishingOK
<1>4. SubInv'
  <2>1. NetOK(net)' /\ (~unanswered => Known(net, sname))'
    BY <1>1 DEF SubInv, NetOK, NetRec, TableOK, Agree, ListsOK, QueueOf, Known
  <2>2. reading = NoSess
    BY <1>1 DEF SubInv, ReadingOK
  <2> QED
    BY <2>1, <2>2, <1>1, <1>3 DEF SubInv, ReadingOK, NoUseAfterFree
<1>5. Follows' = Follows /\ Owed = {} /\ Owed' = {}
  BY <1>1, <1>2 DEF Follows, QueueOf, Owed
<1>6. PS!Finish
  BY <1>2, <1>5, SeenIs DEF Seen
<1>7. PS!PubSubNext
  BY <1>6 DEF PS!PubSubNext
<1> QED
  BY <1>4, <1>7 DEF Kept

-----------------------------------------------------------------------------
(* The invariant holds, and every step is one of PubSub or a stutter.      *)

LEMMA InitOK == ASSUME Init PROVE SubInv /\ PS!PubSubInit
<1>1. /\ net.mem = [s \in Sess |-> "free"] /\ net.sessions = {}
      /\ net.subs = [s \in Sess |-> <<>>] /\ net.xsubbytaskid = <<>>
      /\ net = [mem |-> net.mem, sessions |-> net.sessions, subs |-> net.subs,
                xsubbytaskid |-> net.xsubbytaskid]
  BY DEF Init
<1>2. DOMAIN <<>> = {} /\ <<>> \in [{} -> Seq(Sess)]
  OBVIOUS
<1>3. net.xsubbytaskid \in Tables
  <2>1. {} \subseteq Task
    OBVIOUS
  <2> QED
    BY <2>1, <1>1, <1>2, TableMade
<1>4. net \in NetRec
  <2>1. net.mem \in [Sess -> {"free", "open", "dead"}]
    BY <1>1
  <2>2. net.subs \in [Sess -> Seq(Task)]
    BY <1>1
  <2> QED
    BY <2>1, <2>2, <1>1, <1>3 DEF NetRec
<1>5. IsInjective(<<>>) /\ Range(<<>>) = {}
  BY DEF IsInjective, Range
<1>6. TableOK(net.xsubbytaskid) /\ Agree(net) /\ ListsOK(net)
  BY <1>1, <1>2, <1>5 DEF TableOK, Agree, ListsOK, QueueOf
<1>7. PublishingOK /\ ReadingOK /\ Known(net, sname)
  BY <1>1 DEF Init, PublishingOK, ReadingOK, Known
<1>8. SubInv
  BY <1>4, <1>6, <1>7 DEF Init, SubInv, NetOK, NoUseAfterFree
<1>9. Seen = <<{}, {}, NoSess>>
  BY <1>1, <1>2 DEF Init, Seen, Follows, Owed, QueueOf
<1> QED
  BY <1>8, <1>9, SeenIs

LEMMA NextOK == ASSUME SubInv, Tame, [Next]_vars PROVE Kept
<1>1. CASE UNCHANGED vars
  <2>1. SubInv'
    <3>1. NetOK(net)' /\ (~unanswered => Known(net, sname))'
      BY <1>1 DEF SubInv, vars, NetOK, NetRec, TableOK, Agree, ListsOK, QueueOf, Known
    <3> QED
      BY <3>1, <1>1 DEF SubInv, vars, PublishingOK, ReadingOK, NoUseAfterFree
  <2>2. Seen' = Seen
    BY <1>1 DEF Seen, vars, Follows, Owed, QueueOf
  <2> QED
    BY <2>1, <2>2, SeenIs DEF Kept
<1>2. ASSUME NEW s \in Sess, Accept(s) \/ Gone(s) \/ Read(s) PROVE Kept
  BY <1>2, AcceptStep, GoneStep, ReadStep
<1>3. ASSUME NEW s \in Sess, Frame(s) PROVE Kept
  <2>1. CASE BadFrame(s) \/ OtherFrame(s)
    BY <2>1, BadFrameStep, OtherFrameStep
  <2>2. ASSUME NEW n \in Name, auth_hook(s, n) \/ auth_short(s, n) PROVE Kept
    BY <2>2, auth_hookStep, auth_shortStep
  <2>3. ASSUME NEW t \in Task, sub_hook(s, t) \/ unsub_hook(s, t) PROVE Kept
    BY <2>3, sub_hookStep, unsub_hookStep
  <2> QED
    BY <1>3, <2>1, <2>2, <2>3 DEF Frame
<1>4. CASE _save_deadsession
  BY <1>4, _save_deadsessionStep
<1>5. ASSUME NEW t \in Task, PublishBegin(t) PROVE Kept
  BY <1>5, PublishBeginStep
<1>6. CASE PublishNext
  BY <1>6, PublishNextStep
<1>7. CASE PublishEnd
  BY <1>7, PublishEndStep
<1>8. ASSUME NEW n \in Name, configack_hook(n) PROVE Kept
  BY <1>8, configack_hookStep
<1> QED
  BY <1>1, <1>2, <1>3, <1>4, <1>5, <1>6, <1>7, <1>8 DEF Next

(* The inductive invariant: the two records of the subscriptions agree, no *)
(* list or queue names anything twice, and the table of sessions holds     *)
(* open sessions under the names they have, unless an answer was lost.     *)
THEOREM Inductive == ASSUME Tame PROVE Spec => []SubInv
<1>1. Init => SubInv
  BY InitOK
<1>2. SubInv /\ [Next]_vars => SubInv'
  BY NextOK DEF Kept
<1> QED
  BY <1>1, <1>2, PTL DEF Spec

(* Type correctness: what is stored in the sessions and in xsubbytaskid is *)
(* what the handlers expect, and no entry of xsubbytaskid has an empty     *)
(* queue.                                                                  *)
THEOREM TypeCorrect == ASSUME Tame PROVE Spec => []TypeOK
<1>1. ASSUME SubInv PROVE TypeOK
  <2>1. net \in NetRec /\ TableOK(net.xsubbytaskid) /\ net.xsubbytaskid \in Tables
    BY <1>1 DEF SubInv, NetOK, NetRec
  <2>2. \A s \in Sess : Range(net.subs[s]) \subseteq Task \cup {Dangling}
    <3>1. \A s \in Sess : net.subs[s] \in Seq(Task)
      BY <2>1 DEF NetRec
    <3> QED
      BY <3>1 DEF Range
  <2>3. \A t \in DOMAIN net.xsubbytaskid : Range(net.xsubbytaskid[t]) \in (SUBSET Sess) \ {{}}
    <3>1. SUFFICES ASSUME NEW t \in DOMAIN net.xsubbytaskid
                   PROVE  Range(net.xsubbytaskid[t]) \in (SUBSET Sess) \ {{}}
      OBVIOUS
    <3>2. net.xsubbytaskid[t] \in Seq(Sess) /\ net.xsubbytaskid[t] # <<>>
      BY <2>1, TableIs DEF TableOK
    <3>3. Range(net.xsubbytaskid[t]) # {}
      BY <3>2, EmptyRange
    <3>4. Range(net.xsubbytaskid[t]) \subseteq Sess
      BY <3>2 DEF Range
    <3> QED
      BY <3>3, <3>4
  <2>4. DOMAIN net.xsubbytaskid \subseteq Task
    BY <2>1, TableIs
  <2> QED
    BY <1>1, <2>1, <2>2, <2>3, <2>4 DEF SubInv, PublishingOK, ReadingOK, TypeOK, NetRec
<1> QED
  BY <1>1, Inductive, PTL

(* A connection is in a task's queue exactly when it is open and lists the *)
(* task, and it is there once: so nothing is sent to a connection that is  *)
(* closed, or twice to one that is open.                                   *)
THEOREM SubsMatchTableHolds == ASSUME Tame PROVE Spec => []SubsMatchTable
<1>1. ASSUME SubInv PROVE SubsMatchTable
  BY <1>1 DEF SubInv, NetOK, Agree, TableOK, QueueOf, Followers, SubsMatchTable
<1> QED
  BY <1>1, Inductive, PTL

(* Nothing that was freed is read: no session, queue or task name, as long *)
(* as the answers to the clients' auths came through.                      *)
THEOREM NoUseAfterFreeHolds == ASSUME Tame PROVE Spec => []NoUseAfterFree
<1>1. ASSUME SubInv PROVE NoUseAfterFree
  BY <1>1 DEF SubInv
<1> QED
  BY <1>1, Inductive, PTL

(* The handlers implement the promise: a message about a task is sent once *)
(* to each client that followed it when it came in, though the loop        *)
(* changes the queue it walks and clients are closed under it.             *)
THEOREM Refinement == ASSUME Tame PROVE Spec => PromiseKept
<1>1. Init => PS!PubSubInit
  BY InitOK
<1>2. SubInv /\ [Next]_vars => [PS!PubSubNext]_(PS!pubsubVars)
  BY NextOK DEF Kept
<1> QED
  BY <1>1, <1>2, Inductive, PTL DEF Spec, PromiseKept, PS!PubSubSpec
=============================================================================
