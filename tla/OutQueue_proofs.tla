--------------------------- MODULE OutQueue_proofs ---------------------------
(***************************************************************************)
(* Proofs about the write path.                                            *)
(***************************************************************************)
EXTENDS OutQueue, SequenceTheorems, TLAPS

-----------------------------------------------------------------------------
(* The elements of sequences.                                              *)

LEMMA RangeHeadTail ==
    ASSUME NEW S, NEW q \in Seq(S), q # <<>>
    PROVE  Range(q) = {Head(q)} \cup Range(Tail(q))
<1>1. /\ Len(q) \in Nat \ {0} /\ DOMAIN q = 1 .. Len(q)
      /\ Len(Tail(q)) = Len(q) - 1 /\ DOMAIN Tail(q) = 1 .. Len(q) - 1
      /\ Head(q) = q[1]
      /\ \A i \in 1 .. Len(q) - 1 : Tail(q)[i] = q[i + 1]
  BY HeadTailProperties, EmptySeq
<1>2. ASSUME NEW x \in Range(q) PROVE x \in {Head(q)} \cup Range(Tail(q))
  <2>1. PICK i \in 1 .. Len(q) : x = q[i]
    BY <1>1 DEF Range
  <2>2. CASE i = 1
    BY <2>1, <2>2, <1>1
  <2>3. CASE i # 1
    <3>1. i - 1 \in 1 .. Len(q) - 1 /\ Tail(q)[i - 1] = x
      BY <2>1, <2>3, <1>1
    <3> QED
      BY <3>1, <1>1 DEF Range
  <2> QED
    BY <2>2, <2>3
<1>3. ASSUME NEW x \in Range(Tail(q)) PROVE x \in Range(q)
  <2>1. PICK i \in 1 .. Len(q) - 1 : x = Tail(q)[i]
    BY <1>1 DEF Range
  <2>2. i + 1 \in 1 .. Len(q) /\ x = q[i + 1]
    BY <2>1, <1>1
  <2> QED
    BY <2>2, <1>1 DEF Range
<1>4. Head(q) \in Range(q)
  <2>1. 1 \in DOMAIN q
    BY <1>1
  <2> QED
    BY <2>1, <1>1 DEF Range
<1> QED
  BY <1>2, <1>3, <1>4

LEMMA RangeAppend ==
    ASSUME NEW S, NEW q \in Seq(S), NEW e \in S
    PROVE  Range(Append(q, e)) = Range(q) \cup {e}
<1> DEFINE s == Append(q, e)
<1>1. /\ Len(q) \in Nat /\ DOMAIN q = 1 .. Len(q) /\ DOMAIN s = 1 .. Len(q) + 1
      /\ \A i \in 1 .. Len(q) : s[i] = q[i]
      /\ s[Len(q) + 1] = e
  BY AppendProperties
<1> HIDE DEF s
<1>2. ASSUME NEW x \in Range(s) PROVE x \in Range(q) \cup {e}
  <2>1. PICK i \in 1 .. Len(q) + 1 : x = s[i]
    BY <1>1 DEF Range
  <2>2. CASE i \in 1 .. Len(q)
    BY <2>1, <2>2, <1>1 DEF Range
  <2>3. CASE i = Len(q) + 1
    BY <2>1, <2>3, <1>1
  <2> QED
    BY <2>2, <2>3, <1>1
<1>3. ASSUME NEW x \in Range(q) PROVE x \in Range(s)
  <2>1. PICK i \in 1 .. Len(q) : x = q[i]
    BY <1>1 DEF Range
  <2>2. i \in DOMAIN s /\ x = s[i]
    BY <2>1, <1>1
  <2> QED
    BY <2>2 DEF Range
<1>4. e \in Range(s)
  <2>1. Len(q) + 1 \in DOMAIN s
    BY <1>1
  <2> QED
    BY <2>1, <1>1 DEF Range
<1> QED
  BY <1>2, <1>3, <1>4 DEF s

LEMMA RangeEmpty == Range(<<>>) = {}
  BY DEF Range

-----------------------------------------------------------------------------
(* The packets that wait: a sequence with the pending one for its head.    *)

LEMMA WaitingCases ==
    ASSUME NEW w \in IoType
    PROVE  /\ w.wbufpending = None => Waiting(w) = w.wbufq
           /\ w.wbufpending # None =>
                  /\ Waiting(w) \in Seq(Packet \cup {0})
                  /\ Waiting(w) # <<>>
                  /\ Head(Waiting(w)) = w.wbufpending.packet
                  /\ Tail(Waiting(w)) = w.wbufq
                  /\ Len(Waiting(w)) = Len(w.wbufq) + 1
<1> DEFINE q == w.wbufq
           S == Packet \cup {0}
<1>1. q \in Seq(S) /\ q \in Seq(Packet) /\ Len(q) \in Nat
  BY DEF IoType
<1>2. CASE w.wbufpending = None
  BY <1>1, <1>2, ConcatEmptySeq DEF Waiting
<1>3. CASE w.wbufpending # None
  <2> DEFINE p == w.wbufpending.packet
             s == <<p>> \o q
  <2>0. Waiting(w) = s
    BY <1>3 DEF Waiting
  <2>1. <<p>> \in Seq(S) /\ Len(<<p>>) = 1 /\ <<p>>[1] = p
    BY DEF IoType, Packet
  <2>2. /\ s \in Seq(S)
        /\ Len(s) = 1 + Len(q)
        /\ \A i \in 1 .. 1 + Len(q) : s[i] = IF i <= 1 THEN p ELSE q[i - 1]
    BY <1>1, <2>1, ConcatProperties
  <2> HIDE DEF s, q, p
  <2>3. s # <<>> /\ Head(s) = p
    BY <2>2, <1>1
  <2>4. /\ Tail(s) \in Seq(S) /\ Len(Tail(s)) = Len(q)
        /\ \A i \in 1 .. Len(q) : Tail(s)[i] = s[i + 1]
    BY <2>2, <2>3, <1>1, HeadTailProperties
  <2>5. \A i \in 1 .. Len(q) : Tail(s)[i] = q[i]
    BY <2>2, <2>4, <1>1
  <2>6. Tail(s) = q
    BY <2>4, <2>5, <1>1, SeqEqual
  <2> QED
    BY <2>0, <2>2, <2>3, <2>6, <1>1, <1>3 DEF p, q
<1> QED
  BY <1>2, <1>3

LEMMA WaitingRange ==
    ASSUME NEW w \in IoType
    PROVE  Range(Waiting(w)) = Range(w.wbufq)
               \cup IF w.wbufpending = None THEN {} ELSE {w.wbufpending.packet}
<1>1. CASE w.wbufpending = None
  BY <1>1, WaitingCases
<1>2. CASE w.wbufpending # None
  BY <1>2, WaitingCases, RangeHeadTail
<1> QED
  BY <1>1, <1>2

-----------------------------------------------------------------------------
(* The inductive invariant, of a connection w and the sizes sz of the      *)
(* packets pushed so far; its parts hold between the steps of a handler.   *)

(* The packets that wait were pushed, and wait in the order they were.     *)
Ordered(w, sz) ==
    LET q == w.wbufq
    IN  /\ \A i \in 1 .. Len(q) : q[i] \in 1 .. Len(sz)
        /\ \A i, j \in 1 .. Len(q) : i < j => q[i] < q[j]
        /\ w.wbufpending # None =>
               /\ w.wbufpending.packet \in 1 .. Len(sz)
               /\ w.wbufpending.left \in 1 .. sz[w.wbufpending.packet]
               /\ \A i \in 1 .. Len(q) : w.wbufpending.packet < q[i]

(* The pool has lent what waits; a packet nobody heard of does not wait.   *)
Pool(w, sz) ==
    /\ w.cacheque_use = Range(Waiting(w)) \cup w.unheard
    /\ Range(Waiting(w)) \cap w.unheard = {}
    /\ w.unheard \subseteq 1 .. Len(sz)

(* A closed client has no packets, its next connection begins without.     *)
Emptied(w) == client /\ ~w.open => w.wbufpending = None /\ w.wbufq = <<>>

(* While packets are queued the handler will not return at once.           *)
Asked(w) == w.open /\ w.wbufq # <<>> => w.want_write > 0

(* One byte may follow another.                                            *)
Follows(a, b, sz) ==
    \/ b = <<a[1], a[2] + 1>>
    \/ a[2] = sz[a[1]] /\ b[1] > a[1] /\ b[2] = 1

(* The bytes sent are in order, and those of packets that were pushed.     *)
Sent(w, sz) ==
    /\ \A i \in 1 .. Len(w.wire) : w.wire[i][1] \in 1 .. Len(sz)
    /\ w.wire # <<>> => w.wire[1][2] = 1
    /\ \A i \in 1 .. Len(w.wire) - 1 : Follows(w.wire[i], w.wire[i + 1], sz)

Begun(w, sz) == w.wbufpending # None /\ w.wbufpending.left < sz[w.wbufpending.packet]

(* The last byte sent is the one before the pending packet's rest; between *)
(* packets it is the last of a packet pushed before those that wait.       *)
AtEnd(w, sz) ==
    LET last == w.wire[Len(w.wire)]
    IN  /\ Begun(w, sz) =>
               /\ w.wire # <<>>
               /\ last = <<w.wbufpending.packet, sz[w.wbufpending.packet] - w.wbufpending.left>>
        /\ ~Begun(w, sz) /\ w.wire # <<>> =>
               /\ last[2] = sz[last[1]]
               /\ w.wbufpending # None => last[1] < w.wbufpending.packet
               /\ \A i \in 1 .. Len(w.wbufq) : last[1] < w.wbufq[i]

Good(w, sz) ==
    /\ w \in IoType
    /\ Ordered(w, sz)
    /\ Pool(w, sz)
    /\ Emptied(w)
    /\ Asked(w)
    /\ Sent(w, sz)
    /\ w.open => AtEnd(w, sz)

IInv ==
    /\ TypeOK
    /\ Good(io, size)
    /\ NoStall

Sizes == {sz \in Seq(0 .. MaxSize) : Len(sz) <= MaxPush}

LEMMA Bounds == MaxQueue \in Nat /\ MaxSize \in Nat /\ MaxPush \in Nat /\ MaxWant \in Nat
  BY BoundAssumption

LEMMA SizesType ==
    ASSUME NEW sz \in Sizes
    PROVE  /\ sz \in Seq(0 .. MaxSize) /\ Len(sz) \in Nat /\ Len(sz) <= MaxPush
           /\ \A i \in 1 .. Len(sz) : sz[i] \in 0 .. MaxSize
<1>1. sz \in Seq(0 .. MaxSize) /\ Len(sz) <= MaxPush
  BY DEF Sizes
<1>2. Len(sz) \in Nat
  BY <1>1, LenProperties
<1>3. ASSUME NEW i \in 1 .. Len(sz) PROVE sz[i] \in 0 .. MaxSize
  BY <1>1, ElementOfSeq
<1> QED
  BY <1>1, <1>2, <1>3

-----------------------------------------------------------------------------
(* Pulling a packet from the queue.                                        *)

LEMMA PulledGood ==
    ASSUME NEW sz \in Sizes, NEW w, Good(w, sz), w.open,
           w.wbufpending = None, w.wbufq # <<>>
    PROVE  Good(Pulled(w, sz), sz) /\ Pulled(w, sz).open
<1> DEFINE q    == w.wbufq
           out  == Head(q)
           rest == Tail(q)
           kept == IF Len(rest) > MaxQueue THEN <<>> ELSE rest
           free == (Range(rest) \ Range(kept)) \cup (IF sz[out] = 0 THEN {out} ELSE {})
           pend == IF sz[out] = 0 THEN None ELSE [packet |-> out, left |-> sz[out]]
           r    == Pulled(w, sz)
<1>w. w \in IoType /\ Ordered(w, sz) /\ Pool(w, sz) /\ Sent(w, sz) /\ AtEnd(w, sz)
  BY DEF Good
<1>q. /\ q \in Seq(Packet) /\ Len(q) \in Nat \ {0} /\ out = q[1] /\ out \in Packet
      /\ rest \in Seq(Packet) /\ Len(rest) = Len(q) - 1
      /\ \A i \in 1 .. Len(q) - 1 : rest[i] = q[i + 1]
  BY <1>w, HeadTailProperties, EmptySeq DEF IoType
<1>k. /\ kept \in Seq(Packet) /\ Len(kept) \in Nat /\ Len(kept) <= Len(q) - 1
      /\ \A i \in 1 .. Len(kept) : kept[i] = q[i + 1]
      /\ kept = rest \/ kept = <<>>
  BY <1>q
<1>n. Len(sz) \in Nat /\ \A i \in 1 .. Len(sz) : sz[i] \in 0 .. MaxSize
  BY SizesType
<1>o. /\ out \in 1 .. Len(sz) /\ sz[out] \in 0 .. MaxSize
      /\ \A i \in 1 .. Len(kept) : kept[i] \in 1 .. Len(sz) /\ out < kept[i]
      /\ \A i, j \in 1 .. Len(kept) : i < j => kept[i] < kept[j]
  <2>1. out \in 1 .. Len(sz)
    BY <1>w, <1>q DEF Ordered
  <2>2. ASSUME NEW i \in 1 .. Len(kept)
        PROVE  kept[i] = q[i + 1] /\ i + 1 \in 1 .. Len(q) /\ 1 < i + 1 /\ 1 \in 1 .. Len(q)
    BY <1>q, <1>k
  <2>3. ASSUME NEW i \in 1 .. Len(kept) PROVE kept[i] \in 1 .. Len(sz) /\ out < kept[i]
    BY <2>2, <1>w, <1>q DEF Ordered
  <2>4. ASSUME NEW i \in 1 .. Len(kept), NEW j \in 1 .. Len(kept), i < j
        PROVE  kept[i] < kept[j]
    <3>1. i + 1 < j + 1
      BY <2>4, <1>k
    <3> QED
      BY <3>1, <2>2, <1>w DEF Ordered
  <2> HIDE DEF kept, out, q, rest
  <2> QED
    BY <2>1, <2>3, <2>4, <1>n
<1>p. pend \in [packet : 0 .. MaxPush, left : 0 .. MaxSize]
      /\ (pend # None <=> sz[out] # 0)
  BY <1>q, <1>o, Bounds DEF None, Packet
<1> HIDE DEF q, out, rest, kept, free, pend
<1>r. r = [w EXCEPT !.cacheque_use = w.cacheque_use \ free, !.wbufq = kept,
                    !.want_write = Len(kept), !.wbufpending = pend,
                    !.done = IF sz[out] = 0 THEN Append(w.done, out) ELSE w.done]
  BY <1>w DEF Pulled, response_pkt_free, q, out, rest, kept, free, pend, IoType
<1>t. (IF sz[out] = 0 THEN Append(w.done, out) ELSE w.done) \in Seq(Packet)
  <2>1. w.done \in Seq(Packet) /\ Append(w.done, out) \in Seq(Packet)
    BY <1>w, <1>q, AppendProperties DEF IoType
  <2> QED
    BY <2>1
<1> HIDE DEF r
<1>f. /\ r.wbufq = kept /\ r.wbufpending = pend /\ r.want_write = Len(kept)
      /\ r.open = w.open /\ r.wire = w.wire /\ r.unheard = w.unheard
      /\ r.cacheque_use = w.cacheque_use \ free
      /\ r.done = IF sz[out] = 0 THEN Append(w.done, out) ELSE w.done
  BY <1>w, <1>r DEF IoType
<1>y. r \in IoType
  <2>1. w.cacheque_use \ free \in SUBSET Packet
    BY <1>w DEF IoType
  <2> QED
    BY <1>w, <1>r, <2>1, <1>k, <1>p, <1>t DEF IoType
<1>1. Ordered(r, sz)
  <2>1. pend # None => pend.packet = out /\ pend.left = sz[out]
    BY <1>p DEF pend
  <2> QED
    BY <2>1, <1>f, <1>o, <1>p DEF Ordered
<1>2. Pool(r, sz)
  <2>1. Range(Waiting(w)) = {out} \cup Range(rest)
    BY <1>w, <1>q, WaitingRange, RangeHeadTail DEF q, out, rest
  <2>2. Range(Waiting(r)) = Range(kept) \cup (IF sz[out] = 0 THEN {} ELSE {out})
    BY <1>f, <1>y, <1>p, WaitingRange DEF pend, None
  <2>3. Range(kept) \subseteq Range(rest)
    BY <1>k, RangeEmpty
  <2>4. out \notin Range(rest)
    <3>1. DOMAIN rest = 1 .. Len(q) - 1
      BY <1>q
    <3>2. ASSUME NEW i \in 1 .. Len(q) - 1 PROVE rest[i] # out
      <4>1. i + 1 \in 1 .. Len(q) /\ 1 \in 1 .. Len(q) /\ 1 < i + 1
        BY <1>q
      <4>2. q[1] < q[i + 1] /\ q[1] \in Packet /\ q[i + 1] \in Packet
        BY <4>1, <1>q, <1>w, ElementOfSeq DEF Ordered, q
      <4> QED
        BY <4>2, <1>q DEF Packet
    <3> QED
      BY <3>1, <3>2 DEF Range
  <2>5. w.cacheque_use = {out} \cup Range(rest) \cup w.unheard
        /\ out \notin w.unheard /\ Range(rest) \cap w.unheard = {} /\ w.unheard \subseteq 1 .. Len(sz)
    BY <2>1, <1>w DEF Pool
  <2>6. r.cacheque_use = Range(Waiting(r)) \cup w.unheard
    <3>1. CASE sz[out] = 0
      BY <3>1, <2>2, <2>3, <2>4, <2>5, <1>f DEF free
    <3>2. CASE sz[out] # 0
      BY <3>2, <2>2, <2>3, <2>4, <2>5, <1>f DEF free
    <3> QED
      BY <3>1, <3>2
  <2>7. Range(Waiting(r)) \cap w.unheard = {}
    BY <2>2, <2>3, <2>5
  <2> QED
    BY <2>5, <2>6, <2>7, <1>f DEF Pool
<1>3. Emptied(r)
  BY <1>f DEF Emptied
<1>4. Asked(r)
  BY <1>f, <1>k, EmptySeq DEF Asked
<1>5. Sent(r, sz)
  BY <1>f, <1>w DEF Sent
<1>6. AtEnd(r, sz)
  <2>1. ~Begun(r, sz)
    BY <1>f, <1>p, <1>o DEF Begun, pend
  <2>2. ASSUME w.wire # <<>>
        PROVE  LET last == w.wire[Len(w.wire)]
               IN  /\ last[2] = sz[last[1]]
                   /\ last[1] < out
                   /\ \A i \in 1 .. Len(kept) : last[1] < kept[i]
    <3> DEFINE last == w.wire[Len(w.wire)]
    <3>1. last[2] = sz[last[1]] /\ \A i \in 1 .. Len(q) : last[1] < q[i]
      BY <1>w, <2>2 DEF AtEnd, Begun, q
    <3>2. 1 \in 1 .. Len(q) /\ \A i \in 1 .. Len(kept) : i + 1 \in 1 .. Len(q)
      BY <1>q, <1>k
    <3> HIDE DEF last
    <3>3. last[2] = sz[last[1]] /\ last[1] < out /\ \A i \in 1 .. Len(kept) : last[1] < kept[i]
      BY <3>1, <3>2, <1>q, <1>k
    <3> QED
      BY <3>3 DEF last
  <2>3. pend # None => pend.packet = out
    BY DEF pend
  <2> QED
    BY <2>1, <2>2, <2>3, <1>f DEF AtEnd
<1> QED
  BY <1>1, <1>2, <1>3, <1>4, <1>5, <1>6, <1>f, <1>y DEF Good, r

-----------------------------------------------------------------------------
(* The socket takes bytes of the pending packet.                           *)

LEMMA BytesType ==
    ASSUME NEW sz \in Sizes, NEW p \in 1 .. Len(sz), NEW left \in 1 .. sz[p], NEW k \in 0 .. left
    PROVE  LET B == Bytes([packet |-> p, left |-> left], k, sz)
           IN  /\ B \in Seq(Packet \X (1 .. MaxSize))
               /\ Len(B) = k
               /\ \A i \in 1 .. k : B[i] = <<p, sz[p] - left + i>>
<1> DEFINE B == Bytes([packet |-> p, left |-> left], k, sz)
<1>1. B = [i \in 1 .. k |-> <<p, sz[p] - left + i>>]
  BY DEF Bytes
<1>2. sz[p] \in 0 .. MaxSize /\ p \in Packet /\ k \in Nat
  BY SizesType, Bounds DEF Packet
<1>3. ASSUME NEW i \in 1 .. k PROVE sz[p] - left + i \in 1 .. MaxSize
  BY <1>2, Bounds
<1>4. B \in [1 .. k -> Packet \X (1 .. MaxSize)]
  BY <1>1, <1>2, <1>3
<1>5. B \in Seq(Packet \X (1 .. MaxSize))
  BY <1>2, <1>4, SeqDef
<1>6. Len(B) = k
  BY <1>2, <1>4, <1>5, LenProperties
<1> QED
  BY <1>1, <1>5, <1>6

(* Bytes B of packet p, from number a + 1 on, may follow u.                *)
MayFollow(u, B, p, a, sz) ==
    /\ p \in Nat /\ a \in Nat
    /\ \A i \in 1 .. Len(B) : B[i] = <<p, a + i>>
    /\ u # <<>> => u[1][2] = 1
    /\ \A i \in 1 .. Len(u) - 1 : Follows(u[i], u[i + 1], sz)
    /\ Len(u) = 0 => a = 0
    /\ Len(u) # 0 => \/ u[Len(u)] = <<p, a>>
                     \/ u[Len(u)][2] = sz[u[Len(u)][1]] /\ p > u[Len(u)][1] /\ a = 0

LEMMA FollowsExtends ==
    ASSUME NEW sz, NEW S, NEW u \in Seq(S), NEW B \in Seq(S), NEW p, NEW a,
           MayFollow(u, B, p, a, sz)
    PROVE  /\ u \o B \in Seq(S) /\ Len(u \o B) = Len(u) + Len(B)
           /\ \A i \in 1 .. Len(u) : (u \o B)[i] = u[i]
           /\ \A i \in Len(u) + 1 .. Len(u) + Len(B) : (u \o B)[i] = <<p, a + (i - Len(u))>>
           /\ u \o B # <<>> => (u \o B)[1][2] = 1
           /\ \A i \in 1 .. Len(u) + Len(B) - 1 : Follows((u \o B)[i], (u \o B)[i + 1], sz)
<1>n. PICK N \in Nat, k \in Nat : N = Len(u) /\ k = Len(B)
  BY LenProperties
<1>m. /\ p \in Nat /\ a \in Nat
      /\ \A i \in 1 .. k : B[i] = <<p, a + i>>
      /\ u # <<>> => u[1][2] = 1
      /\ \A i \in 1 .. N - 1 : Follows(u[i], u[i + 1], sz)
      /\ N = 0 => a = 0
      /\ N # 0 => \/ u[N] = <<p, a>>
                  \/ u[N][2] = sz[u[N][1]] /\ p > u[N][1] /\ a = 0
  BY <1>n DEF MayFollow
<1> DEFINE v == u \o B
<1>1. /\ v \in Seq(S) /\ Len(v) = N + k
      /\ \A i \in 1 .. N + k : v[i] = IF i <= N THEN u[i] ELSE B[i - N]
  BY <1>n, ConcatProperties
<1> HIDE DEF v
<1>2. ASSUME NEW i \in 1 .. N PROVE v[i] = u[i]
  BY <1>1
<1>3. ASSUME NEW i \in N + 1 .. N + k PROVE v[i] = <<p, a + (i - N)>>
  <2>1. i \in 1 .. N + k /\ ~(i <= N) /\ i - N \in 1 .. k
    OBVIOUS
  <2> QED
    BY <2>1, <1>1, <1>m
<1>4. ASSUME v # <<>> PROVE v[1][2] = 1
  <2>1. CASE N = 0
    <3>1. k # 0
      BY <2>1, <1>1, <1>4, <1>n, EmptySeq
    <3>2. v[1] = <<p, a + (1 - N)>> /\ a = 0
      BY <3>1, <2>1, <1>3, <1>m
    <3> QED
      BY <3>2, <2>1, <1>m
  <2>2. CASE N # 0
    <3>1. u # <<>> /\ 1 \in 1 .. N
      BY <2>2, <1>n, EmptySeq
    <3> QED
      BY <3>1, <1>2, <1>m
  <2> QED
    BY <2>1, <2>2
<1>5. ASSUME NEW i \in 1 .. N + k - 1 PROVE Follows(v[i], v[i + 1], sz)
  <2>1. CASE i < N
    <3>1. i \in 1 .. N - 1 /\ i \in 1 .. N /\ i + 1 \in 1 .. N
      BY <2>1
    <3> QED
      BY <3>1, <1>2, <1>m
  <2>2. CASE i = N
    <3>1. N \in 1 .. N
      BY <2>2
    <3>2. PICK j \in N + 1 .. N + k : j = i + 1
      BY <2>2
    <3>3. v[i] = u[i]
      BY <2>2, <3>1, <1>2
    <3>4. v[j] = <<p, a + (j - N)>>
      BY <1>3
    <3>5. a + (j - N) = a + 1
      BY <2>2, <3>2, <1>m
    <3>6. v[i] = u[N] /\ v[i + 1] = <<p, a + 1>>
      BY <2>2, <3>2, <3>3, <3>4, <3>5
    <3>7. N # 0 /\ N \in Nat
      BY <2>2
    <3> QED
      BY <3>6, <3>7, <1>m DEF Follows
  <2>3. CASE i > N
    <3>1. i \in N + 1 .. N + k
      BY <2>3
    <3>2. PICK j \in N + 1 .. N + k : j = i + 1
      BY <2>3
    <3>3. v[i] = <<p, a + (i - N)>> /\ v[j] = <<p, a + (j - N)>>
      BY <3>1, <1>3
    <3>4. a + (j - N) = a + (i - N) + 1
      BY <3>2, <1>m
    <3> QED
      BY <3>2, <3>3, <3>4 DEF Follows
  <2> QED
    BY <2>1, <2>2, <2>3
<1> QED
  BY <1>1, <1>2, <1>3, <1>4, <1>5, <1>n DEF v

LEMMA TakenGood ==
    ASSUME NEW sz \in Sizes, NEW w, Good(w, sz), w.open,
           w.wbufpending # None, NEW k \in 0 .. w.wbufpending.left
    PROVE  /\ Good(Taken(w, k, sz), sz)
           /\ Taken(w, k, sz).open
           /\ Taken(w, k, sz).wbufpending # None => Taken(w, k, sz).want_write > 0
<1> DEFINE out  == w.wbufpending
           B    == Bytes(out, k, sz)
           wire == w.wire \o B
           r    == Taken(w, k, sz)
<1>w. w \in IoType /\ Ordered(w, sz) /\ Pool(w, sz) /\ Asked(w) /\ Sent(w, sz) /\ AtEnd(w, sz)
  BY DEF Good
<1>p. PICK p \in 1 .. Len(sz), left \in Nat :
         /\ left \in 1 .. sz[p]
         /\ out = [packet |-> p, left |-> left]
         /\ \A i \in 1 .. Len(w.wbufq) : p < w.wbufq[i]
  <2>1. /\ out.packet \in 1 .. Len(sz) /\ out.left \in 1 .. sz[out.packet]
        /\ \A i \in 1 .. Len(w.wbufq) : out.packet < w.wbufq[i]
    BY <1>w DEF Ordered
  <2>2. out \in [packet : 0 .. MaxPush, left : 0 .. MaxSize]
    BY <1>w DEF IoType
  <2>3. out = [packet |-> out.packet, left |-> out.left] /\ out.left \in Nat
    BY <2>2, Bounds
  <2> QED
    BY <2>1, <2>3
<1>z. /\ sz[p] \in 0 .. MaxSize /\ k \in Nat /\ k <= left /\ p \in Nat /\ sz[p] - left \in Nat
      /\ Len(sz) \in Nat /\ k \in 0 .. left
  BY <1>p, SizesType
<1>n. PICK N \in Nat : N = Len(w.wire) /\ (N = 0 <=> w.wire = <<>>)
  BY <1>w, LenProperties, EmptySeq DEF IoType
<1>b. /\ B \in Seq(Packet \X (1 .. MaxSize)) /\ Len(B) = k
      /\ \A i \in 1 .. k : B[i] = <<p, sz[p] - left + i>>
  <2> HIDE DEF out
  <2> QED
    BY <1>p, <1>z, BytesType
<1>c. w.wire \in Seq(Packet \X (1 .. MaxSize))
  BY <1>w DEF IoType
(* The last byte sent before is the one before these, or ends a packet.    *)
<1>e. /\ N # 0 => \/ w.wire[N] = <<p, sz[p] - left>>
                  \/ w.wire[N][2] = sz[w.wire[N][1]] /\ p > w.wire[N][1] /\ sz[p] - left = 0
      /\ N = 0 => sz[p] - left = 0
  <2>1. CASE left < sz[p]
    BY <1>n, <1>p, <2>1, <1>w DEF AtEnd, Begun
  <2>2. CASE left = sz[p]
    <3>1. ~Begun(w, sz)
      BY <2>2, <1>p, <1>z DEF Begun
    <3>2. N # 0 => w.wire[N][2] = sz[w.wire[N][1]] /\ w.wire[N][1] < p
      BY <3>1, <1>n, <1>p, <1>w DEF AtEnd
    <3> QED
      BY <3>2, <2>2, <1>z
  <2> QED
    BY <2>1, <2>2, <1>p, <1>z
<1>s. /\ wire \in Seq(Packet \X (1 .. MaxSize)) /\ Len(wire) = N + k
      /\ \A i \in 1 .. N : wire[i] = w.wire[i]
      /\ \A i \in N + 1 .. N + k : wire[i] = <<p, sz[p] - left + (i - N)>>
      /\ wire # <<>> => wire[1][2] = 1
      /\ \A i \in 1 .. N + k - 1 : Follows(wire[i], wire[i + 1], sz)
  <2>1. /\ w.wire # <<>> => w.wire[1][2] = 1
        /\ \A i \in 1 .. N - 1 : Follows(w.wire[i], w.wire[i + 1], sz)
    BY <1>w, <1>n DEF Sent
  <2> DEFINE u == w.wire
             T == Packet \X (1 .. MaxSize)
             a == sz[p] - left
  <2>2. u \in Seq(T) /\ B \in Seq(T) /\ MayFollow(u, B, p, a, sz)
    BY <2>1, <1>b, <1>c, <1>e, <1>n, <1>z DEF MayFollow
  <2> HIDE DEF B, u, T, a
  <2>3. /\ u \o B \in Seq(T) /\ Len(u \o B) = Len(u) + Len(B)
        /\ \A i \in 1 .. Len(u) : (u \o B)[i] = u[i]
        /\ \A i \in Len(u) + 1 .. Len(u) + Len(B) : (u \o B)[i] = <<p, a + (i - Len(u))>>
        /\ u \o B # <<>> => (u \o B)[1][2] = 1
        /\ \A i \in 1 .. Len(u) + Len(B) - 1 : Follows((u \o B)[i], (u \o B)[i + 1], sz)
    BY <2>2, FollowsExtends
  <2> QED
    BY <2>3, <1>n, <1>b DEF u, T, a
<1> HIDE DEF wire, B
<1>t. ASSUME NEW i \in 1 .. N + k PROVE wire[i][1] \in 1 .. Len(sz)
  <2>1. CASE i \in 1 .. N
    BY <2>1, <1>s, <1>n, <1>w DEF Sent
  <2>2. CASE i \in N + 1 .. N + k
    <3>1. wire[i] = <<p, sz[p] - left + (i - N)>>
      BY <2>2, <1>s
    <3> QED
      BY <3>1
  <2> QED
    BY <2>1, <2>2, <1>z
<1>1. CASE k < left
  <2> DEFINE pend == [packet |-> p, left |-> left - k]
  <2>q. [out EXCEPT !.left = out.left - k] = pend /\ k < out.left
    BY <1>1, <1>p
  <2>r. r = [w EXCEPT !.wire = wire, !.wbufpending = pend, !.want_write = w.want_write + 1]
    <3> HIDE DEF pend
    <3> QED
      BY <2>q DEF Taken, wire, B
  <2> HIDE DEF r
  <2>p. /\ pend \in [packet : 0 .. MaxPush, left : 0 .. MaxSize] /\ pend # None
        /\ pend.packet = p /\ pend.left = left - k /\ left - k \in 1 .. sz[p]
    BY <1>1, <1>p, <1>z, SizesType, Bounds DEF None
  <2> HIDE DEF pend
  <2>f. /\ r.wire = wire /\ r.wbufpending = pend /\ r.wbufq = w.wbufq /\ r.open = w.open
        /\ r.cacheque_use = w.cacheque_use /\ r.unheard = w.unheard
        /\ r.want_write = w.want_write + 1 /\ w.want_write \in Nat
    BY <2>r, <1>w DEF IoType
  <2>y. r \in IoType
    <3>1. w.want_write + 1 \in Nat /\ wire \in Seq(Packet \X (1 .. MaxSize))
      BY <2>f, <1>s
    <3> QED
      BY <2>r, <2>p, <3>1, <1>w DEF IoType
  <2>1. Ordered(r, sz)
    BY <2>f, <2>p, <1>p, <1>w DEF Ordered
  <2>2. Pool(r, sz)
    <3>1. Range(Waiting(r)) = Range(w.wbufq) \cup {p}
      BY <2>f, <2>y, <2>p, WaitingRange
    <3>2. Range(Waiting(w)) = Range(w.wbufq) \cup {p}
      BY <1>p, <1>w, WaitingRange
    <3> QED
      BY <3>1, <3>2, <2>f, <1>w DEF Pool
  <2>3. Emptied(r) /\ Asked(r)
    BY <2>f DEF Emptied, Asked
  <2>4. Sent(r, sz)
    BY <2>f, <1>s, <1>t DEF Sent
  <2>5. AtEnd(r, sz)
    <3>1. CASE k = 0
      <4>1. wire = w.wire
        <5>1. Len(wire) = Len(w.wire) /\ \A i \in 1 .. Len(wire) : wire[i] = w.wire[i]
          BY <3>1, <1>s, <1>n
        <5> QED
          BY <5>1, <1>s, <1>c, SeqEqual
      <4>2. pend = out
        BY <3>1, <1>p DEF pend
      <4> QED
        BY <4>1, <4>2, <2>f, <1>w DEF AtEnd, Begun
    <3>2. CASE k # 0
      <4>1. Begun(r, sz)
        BY <3>2, <2>f, <2>p, <1>z, <1>p DEF Begun
      <4>2. PICK j \in N + 1 .. N + k : j = N + k
        BY <3>2, <1>z
      <4>3. wire[j] = <<p, sz[p] - left + k>>
        <5>1. wire[j] = <<p, sz[p] - left + (j - N)>>
          BY <1>s
        <5>2. j - N = k
          BY <4>2, <1>z
        <5> QED
          BY <5>1, <5>2
      <4>4. sz[p] - left + k = sz[p] - (left - k)
        BY <1>z
      <4>5. wire # <<>>
        BY <1>s, <4>2, EmptySeq, <1>z
      <4> QED
        BY <4>1, <4>2, <4>3, <4>4, <4>5, <2>f, <2>p, <1>s DEF AtEnd
    <3> QED
      BY <3>1, <3>2
  <2> QED
    BY <2>1, <2>2, <2>3, <2>4, <2>5, <2>f, <2>y DEF Good, r
<1>2. CASE ~(k < left)
  <2>r. r = [w EXCEPT !.wire = wire, !.cacheque_use = w.cacheque_use \ {p},
                      !.wbufpending = None, !.done = Append(w.done, p)]
    BY <1>2, <1>p, <1>w DEF Taken, response_pkt_free, wire, B, IoType
  <2> HIDE DEF r
  <2>k. k = left /\ p \in Packet
    BY <1>2, <1>p, <1>z, SizesType, Bounds DEF Packet
  <2>f. /\ r.wire = wire /\ r.wbufpending = None /\ r.wbufq = w.wbufq /\ r.open = w.open
        /\ r.cacheque_use = w.cacheque_use \ {p} /\ r.unheard = w.unheard
        /\ r.want_write = w.want_write /\ w.want_write \in Nat
    BY <2>r, <1>w DEF IoType
  <2>y. r \in IoType
    <3>1. Append(w.done, p) \in Seq(Packet)
      BY <2>k, <1>w, AppendProperties DEF IoType
    <3>2. None \in [packet : 0 .. MaxPush, left : 0 .. MaxSize]
      BY Bounds DEF None
    <3>3. w.cacheque_use \ {p} \in SUBSET Packet
      BY <1>w DEF IoType
    <3> QED
      BY <2>r, <3>1, <3>2, <3>3, <1>s, <1>w DEF IoType
  <2>1. Ordered(r, sz)
    BY <2>f, <1>w DEF Ordered
  <2>2. Pool(r, sz)
    <3>1. Range(Waiting(r)) = Range(w.wbufq)
      BY <2>f, <2>y, WaitingRange
    <3>2. Range(Waiting(w)) = Range(w.wbufq) \cup {p}
      BY <1>p, <1>w, WaitingRange
    <3>3. p \notin Range(w.wbufq)
      <4>1. DOMAIN w.wbufq = 1 .. Len(w.wbufq)
        BY <1>w, LenProperties DEF IoType
      <4>2. \A i \in DOMAIN w.wbufq : p # w.wbufq[i]
        BY <4>1, <1>p, <1>z
      <4> QED
        BY <4>2 DEF Range
    <3> QED
      BY <3>1, <3>2, <3>3, <2>f, <1>w DEF Pool
  <2>3. Emptied(r) /\ Asked(r)
    BY <2>f, <1>w DEF Emptied, Asked
  <2>4. Sent(r, sz)
    BY <2>f, <1>s, <1>t DEF Sent
  <2>5. AtEnd(r, sz)
    <3>1. ~Begun(r, sz)
      BY <2>f DEF Begun
    <3>2. PICK j \in N + 1 .. N + k : j = N + k
      BY <2>k, <1>z, <1>p
    <3>3. wire[j] = <<p, sz[p]>>
      <4>1. wire[j] = <<p, sz[p] - left + (j - N)>>
        BY <1>s
      <4>2. sz[p] - left + (j - N) = sz[p]
        BY <3>2, <1>z, <2>k
      <4> QED
        BY <4>1, <4>2
    <3> QED
      BY <3>1, <3>2, <3>3, <2>f, <1>s, <1>p DEF AtEnd
  <2> QED
    BY <2>1, <2>2, <2>3, <2>4, <2>5, <2>f, <2>y DEF Good, r
<1> QED
  BY <1>1, <1>2

-----------------------------------------------------------------------------
(* A connection stops: its packets are given back, or are kept.            *)

(* r is w when packets were given back to the pool, and it was closed.     *)
Stopped(w, r) ==
    /\ r \in IoType
    /\ ~r.open
    /\ r.unheard = w.unheard /\ r.wire = w.wire /\ r.done = w.done
    /\ r.wbufq = w.wbufq \/ r.wbufq = <<>>
    /\ r.wbufpending = w.wbufpending \/ r.wbufpending = None
    /\ client => r.wbufq = <<>> /\ r.wbufpending = None
    /\ r.cacheque_use = w.cacheque_use \ (Range(Waiting(w)) \ Range(Waiting(r)))

LEMMA StoppedGood ==
    ASSUME NEW sz \in Sizes, NEW w, Good(w, sz), NEW r, Stopped(w, r)
    PROVE  Good(r, sz)
<1>w. w \in IoType /\ Ordered(w, sz) /\ Pool(w, sz) /\ Sent(w, sz)
  BY DEF Good
<1>e. Range(<<>>) = {} /\ Len(<<>>) = 0
  BY RangeEmpty
<1>1. Ordered(r, sz)
  BY <1>w, <1>e DEF Ordered, Stopped
<1>2. Pool(r, sz)
  <2>1. Range(Waiting(r)) \subseteq Range(Waiting(w))
    BY <1>w, <1>e, WaitingRange DEF Stopped
  <2> QED
    BY <2>1, <1>w DEF Pool, Stopped
<1>3. Emptied(r) /\ Asked(r) /\ Sent(r, sz) /\ ~r.open
  BY <1>w DEF Emptied, Asked, Sent, Stopped
<1> QED
  BY <1>1, <1>2, <1>3 DEF Good, Stopped

LEMMA ReleaseFields ==
    ASSUME NEW w \in IoType
    PROVE  LET r == _p2pclient_release(w)
           IN  /\ r = [w EXCEPT !.cacheque_use = w.cacheque_use \ Range(Waiting(w)),
                                !.wbufq = <<>>, !.wbufpending = None]
               /\ r \in IoType
<1> DEFINE r == _p2pclient_release(w)
           use == w.cacheque_use \ Range(Waiting(w))
<1>1. r = [w EXCEPT !.cacheque_use = use, !.wbufq = <<>>, !.wbufpending = None]
  BY DEF _p2pclient_release, response_pkt_free
<1>2. use \in SUBSET Packet
  BY DEF IoType
<1>3. None \in [packet : 0 .. MaxPush, left : 0 .. MaxSize] /\ <<>> \in Seq(Packet)
  BY Bounds DEF None
<1> HIDE DEF r, use
<1>4. r \in IoType
  BY <1>1, <1>2, <1>3 DEF IoType
<1> QED
  BY <1>1, <1>4 DEF r, use

LEMMA ReleaseStops ==
    ASSUME NEW w \in IoType, NEW k \in BOOLEAN
    PROVE  Stopped(w, [_p2pclient_release(w) EXCEPT !.open = FALSE, !.kept = k])
<1> DEFINE x == _p2pclient_release(w)
           r == [x EXCEPT !.open = FALSE, !.kept = k]
<1>1. /\ x = [w EXCEPT !.cacheque_use = w.cacheque_use \ Range(Waiting(w)),
                       !.wbufq = <<>>, !.wbufpending = None]
      /\ x \in IoType
  BY ReleaseFields
<1> HIDE DEF x
<1>2. r \in IoType
  BY <1>1 DEF IoType
<1>3. /\ ~r.open /\ r.unheard = w.unheard /\ r.wire = w.wire /\ r.done = w.done
      /\ r.wbufq = <<>> /\ r.wbufpending = None
      /\ r.cacheque_use = w.cacheque_use \ Range(Waiting(w))
  BY <1>1 DEF IoType
<1>4. Range(Waiting(r)) = {}
  BY <1>2, <1>3, WaitingRange, RangeEmpty
<1> QED
  BY <1>2, <1>3, <1>4 DEF Stopped, x

LEMMA ClosedStops ==
    ASSUME NEW w \in IoType, client \in BOOLEAN
    PROVE  Stopped(w, Closed(w)) /\ Closed(w).kept = w.kept
<1>1. CASE client
  <2>1. /\ _p2pclient_release(w) = [w EXCEPT !.cacheque_use = w.cacheque_use \ Range(Waiting(w)),
                                             !.wbufq = <<>>, !.wbufpending = None]
        /\ w.kept \in BOOLEAN
    BY ReleaseFields DEF IoType
  <2>2. Closed(w) = [_p2pclient_release(w) EXCEPT !.open = FALSE, !.kept = w.kept]
    BY <1>1, <2>1 DEF Closed, IoType
  <2>3. Closed(w).kept = w.kept
    BY <2>1, <2>2 DEF IoType
  <2> QED
    BY <2>1, <2>2, <2>3, ReleaseStops
<1>2. CASE ~client
  <2>1. Closed(w) = [w EXCEPT !.open = FALSE]
    BY <1>2 DEF Closed
  <2>2. Closed(w) \in IoType /\ Waiting(Closed(w)) = Waiting(w)
    BY <2>1 DEF IoType, Waiting
  <2> QED
    BY <1>2, <2>1, <2>2 DEF Stopped, IoType
<1> QED
  BY <1>1, <1>2

LEMMA FailedStops ==
    ASSUME NEW sz \in Sizes, NEW w, Good(w, sz), w.wbufpending # None, client \in BOOLEAN
    PROVE  Stopped(w, Failed(w)) /\ Failed(w).kept = w.kept
<1> DEFINE p == w.wbufpending.packet
           x == [w EXCEPT !.wbufpending = None]
           c == Closed(x)
           r == Failed(w)
<1>w. w \in IoType /\ Ordered(w, sz)
  BY DEF Good
<1>1. x \in IoType
  <2>1. None \in [packet : 0 .. MaxPush, left : 0 .. MaxSize]
    BY Bounds DEF None
  <2> QED
    BY <2>1, <1>w DEF IoType
<1>2. /\ x.wbufq = w.wbufq /\ x.wbufpending = None /\ x.unheard = w.unheard /\ x.wire = w.wire
      /\ x.done = w.done /\ x.cacheque_use = w.cacheque_use /\ x.kept = w.kept
  BY <1>w DEF IoType
<1> HIDE DEF x
<1>3. Stopped(x, c) /\ c.kept = x.kept
  BY <1>1, ClosedStops
<1>4. r = [c EXCEPT !.cacheque_use = c.cacheque_use \ {p}, !.want_write = 0]
  BY DEF Failed, response_pkt_free, x
<1> HIDE DEF c, r
<1>5. r \in IoType
  <2>1. c \in IoType
    BY <1>3 DEF Stopped
  <2>2. c.cacheque_use \ {p} \in SUBSET Packet
    BY <2>1 DEF IoType
  <2> QED
    BY <1>4, <2>1, <2>2 DEF IoType
<1>6. /\ r.open = c.open /\ r.unheard = c.unheard /\ r.wire = c.wire /\ r.done = c.done
      /\ r.wbufq = c.wbufq /\ r.wbufpending = c.wbufpending /\ r.kept = c.kept
      /\ r.cacheque_use = c.cacheque_use \ {p}
  BY <1>3, <1>4 DEF Stopped, IoType
<1>7. c.wbufpending = None
  BY <1>2, <1>3 DEF Stopped
<1>8. /\ Range(Waiting(w)) = Range(w.wbufq) \cup {p}
      /\ Range(Waiting(x)) = Range(w.wbufq)
      /\ Range(Waiting(c)) = Range(c.wbufq)
      /\ Range(Waiting(r)) = Range(c.wbufq)
  <2>1. Range(Waiting(w)) = Range(w.wbufq) \cup {p}
    BY <1>w, WaitingRange
  <2>2. Range(Waiting(x)) = Range(w.wbufq)
    BY <1>1, <1>2, WaitingRange
  <2>3. Range(Waiting(c)) = Range(c.wbufq)
    BY <1>3, <1>7, WaitingRange DEF Stopped
  <2>4. Range(Waiting(r)) = Range(c.wbufq)
    BY <1>5, <1>6, <1>7, WaitingRange
  <2> QED
    BY <2>1, <2>2, <2>3, <2>4
<1>9. p \notin Range(w.wbufq) /\ Range(c.wbufq) \subseteq Range(w.wbufq)
  <2>1. DOMAIN w.wbufq = 1 .. Len(w.wbufq)
    BY <1>w, LenProperties DEF IoType
  <2>2. \A i \in DOMAIN w.wbufq : p < w.wbufq[i] /\ p \in Nat
    BY <2>1, <1>w, SizesType DEF Ordered
  <2>3. p \notin Range(w.wbufq)
    BY <2>2 DEF Range
  <2> QED
    BY <2>3, <1>2, <1>3, RangeEmpty DEF Stopped
<1>10. r.cacheque_use = w.cacheque_use \ (Range(Waiting(w)) \ Range(Waiting(r)))
  <2>1. c.cacheque_use = w.cacheque_use \ (Range(w.wbufq) \ Range(c.wbufq))
    BY <1>2, <1>3, <1>8 DEF Stopped
  <2> QED
    BY <2>1, <1>6, <1>8, <1>9
<1>11. /\ r \in IoType /\ ~r.open
       /\ r.unheard = w.unheard /\ r.wire = w.wire /\ r.done = w.done
       /\ r.wbufq = w.wbufq \/ r.wbufq = <<>>
       /\ r.wbufpending = None
       /\ client => r.wbufq = <<>>
       /\ r.kept = w.kept
  BY <1>2, <1>3, <1>5, <1>6, <1>7 DEF Stopped
<1> QED
  BY <1>10, <1>11 DEF Stopped, r

-----------------------------------------------------------------------------
(* A write event.                                                          *)

(* Nothing waits, or the handler will write. *)
Minded(w) == w.open => w.want_write > 0 \/ (w.wbufpending = None /\ w.wbufq = <<>>)

LEMMA CanWriteGood ==
    ASSUME NEW sz \in Sizes, client \in BOOLEAN, NEW w, Good(w, sz), w.open, Minded(w),
           NEW r \in _p2p_can_write(w, sz)
    PROVE  Good(r, sz) /\ Minded(r)
<1>w. w \in IoType /\ Asked(w)
  BY DEF Good
<1>1. CASE w.want_write = 0
  BY <1>1 DEF _p2p_can_write
<1>2. CASE w.want_write # 0
  <2> DEFINE p == _p2p_get_pending_write(w, sz)
  <2>1. Good(p, sz) /\ p.open /\ (p.wbufpending = None => Minded(p))
    <3>1. CASE w.wbufpending # None \/ w.wbufq = <<>>
      BY <3>1 DEF _p2p_get_pending_write, Minded
    <3>2. CASE w.wbufpending = None /\ w.wbufq # <<>>
      <4>1. p = Pulled(w, sz)
        BY <3>2 DEF _p2p_get_pending_write
      <4>2. Good(p, sz) /\ p.open
        BY <3>2, <4>1, PulledGood
      <4>3. Asked(p)
        BY <4>2 DEF Good
      <4> QED
        BY <4>2, <4>3 DEF Asked, Minded
    <3> QED
      BY <3>1, <3>2
  <2>2. IF p.wbufpending = None THEN r = p
        ELSE r = Failed(p) \/ \E k \in 0 .. p.wbufpending.left : r = Taken(p, k, sz)
    BY <1>2 DEF _p2p_can_write
  <2> HIDE DEF p
  <2>3. CASE p.wbufpending = None
    BY <2>1, <2>2, <2>3
  <2>4. CASE p.wbufpending # None /\ r = Failed(p)
    <3>1. Stopped(p, r)
      BY <2>1, <2>4, FailedStops
    <3> QED
      BY <3>1, <2>1, StoppedGood DEF Minded, Stopped
  <2>5. CASE p.wbufpending # None /\ \E k \in 0 .. p.wbufpending.left : r = Taken(p, k, sz)
    <3>1. PICK k \in 0 .. p.wbufpending.left : r = Taken(p, k, sz)
      BY <2>5
    <3>2. Good(r, sz) /\ r.open /\ (r.wbufpending # None => r.want_write > 0)
      BY <2>1, <2>5, <3>1, TakenGood
    <3>3. Asked(r)
      BY <3>2 DEF Good
    <3> QED
      BY <3>2, <3>3 DEF Asked, Minded
  <2> QED
    BY <2>2, <2>3, <2>4, <2>5
<1> QED
  BY <1>1, <1>2, <1>w DEF IoType

-----------------------------------------------------------------------------
(* A packet is pushed.                                                     *)

LEMMA SizesAppend ==
    ASSUME NEW sz \in Sizes, NEW n \in 0 .. MaxSize, Len(sz) < MaxPush
    PROVE  /\ Append(sz, n) \in Sizes
           /\ Len(Append(sz, n)) = Len(sz) + 1
           /\ \A i \in 1 .. Len(sz) : Append(sz, n)[i] = sz[i] /\ i \in 1 .. Len(Append(sz, n))
<1> DEFINE s2 == Append(sz, n)
<1>1. sz \in Seq(0 .. MaxSize) /\ Len(sz) \in Nat
  BY SizesType
<1>2. /\ s2 \in Seq(0 .. MaxSize) /\ Len(s2) = Len(sz) + 1
      /\ \A i \in 1 .. Len(sz) : s2[i] = sz[i]
  BY <1>1, AppendProperties
<1> HIDE DEF s2
<1>3. s2 \in Sizes
  BY <1>1, <1>2, Bounds DEF Sizes
<1>4. \A i \in 1 .. Len(sz) : i \in 1 .. Len(s2)
  BY <1>1, <1>2
<1> QED
  BY <1>2, <1>3, <1>4 DEF s2

LEMMA LongerGood ==
    ASSUME NEW sz \in Sizes, NEW n \in 0 .. MaxSize, Len(sz) < MaxPush, NEW w, Good(w, sz)
    PROVE  Good(w, Append(sz, n))
<1> DEFINE s2 == Append(sz, n)
<1>w. /\ w \in IoType /\ Ordered(w, sz) /\ Pool(w, sz) /\ Emptied(w) /\ Asked(w) /\ Sent(w, sz)
      /\ w.open => AtEnd(w, sz)
  BY DEF Good
<1>s. /\ Len(s2) = Len(sz) + 1 /\ Len(sz) \in Nat
      /\ \A i \in 1 .. Len(sz) : s2[i] = sz[i] /\ i \in 1 .. Len(s2)
  BY SizesAppend, SizesType
<1>n. PICK N \in Nat : N = Len(w.wire) /\ (N = 0 <=> w.wire = <<>>)
  BY <1>w, LenProperties, EmptySeq DEF IoType
<1> HIDE DEF s2
<1>1. Ordered(w, s2)
  BY <1>w, <1>s DEF Ordered
<1>2. Pool(w, s2)
  BY <1>w, <1>s DEF Pool
<1>3. Sent(w, s2)
  <2>1. \A i \in 1 .. N : w.wire[i][1] \in 1 .. Len(sz)
    BY <1>w, <1>n DEF Sent
  <2>2. ASSUME NEW i \in 1 .. N - 1
        PROVE  Follows(w.wire[i], w.wire[i + 1], s2)
    <3>1. Follows(w.wire[i], w.wire[i + 1], sz)
      BY <1>w, <1>n DEF Sent
    <3>2. i \in 1 .. N
      OBVIOUS
    <3>3. w.wire[i][1] \in 1 .. Len(sz)
      BY <2>1, <3>2
    <3> QED
      BY <3>1, <3>3, <1>s DEF Follows
  <2>3. w.wire # <<>> => w.wire[1][2] = 1
    BY <1>w DEF Sent
  <2> QED
    BY <2>1, <2>2, <2>3, <1>n, <1>s DEF Sent
<1>4. w.open => AtEnd(w, s2)
  <2>1. Begun(w, s2) <=> Begun(w, sz)
    BY <1>w, <1>s DEF Ordered, Begun
  <2>2. N # 0 => N \in 1 .. N
    OBVIOUS
  <2>3. N # 0 => s2[w.wire[N][1]] = sz[w.wire[N][1]]
    BY <2>2, <1>n, <1>w, <1>s DEF Sent
  <2>4. Begun(w, sz) => s2[w.wbufpending.packet] = sz[w.wbufpending.packet]
    BY <1>w, <1>s DEF Ordered, Begun
  <2> QED
    BY <2>1, <2>3, <2>4, <1>n, <1>w DEF AtEnd
<1> QED
  BY <1>1, <1>2, <1>3, <1>4, <1>w DEF Good, s2

LEMMA PushedGood ==
    ASSUME NEW sz \in Sizes, NEW n \in 0 .. MaxSize, Len(sz) < MaxPush,
           NEW w, Good(w, sz), client => w.open
    PROVE  LET p == Len(sz) + 1
               x == [w EXCEPT !.cacheque_use = w.cacheque_use \cup {p},
                              !.wbufq = Append(w.wbufq, p), !.want_write = 1]
           IN  Good(x, Append(sz, n)) /\ Minded(x) /\ x.open = w.open
<1> DEFINE s2 == Append(sz, n)
           p  == Len(sz) + 1
           q  == Append(w.wbufq, p)
           x  == [w EXCEPT !.cacheque_use = w.cacheque_use \cup {p}, !.wbufq = q, !.want_write = 1]
<1>g. Good(w, sz) /\ Good(w, s2)
  BY LongerGood
<1>w. /\ w \in IoType /\ Ordered(w, sz) /\ Pool(w, sz) /\ Sent(w, sz) /\ (w.open => AtEnd(w, sz))
      /\ Ordered(w, s2) /\ Sent(w, s2) /\ (w.open => AtEnd(w, s2))
  BY <1>g DEF Good
<1>s. /\ Len(s2) = p /\ Len(sz) \in Nat /\ p \in Packet /\ p = Len(sz) + 1
      /\ s2 \in Sizes
  BY SizesAppend, SizesType, Bounds DEF Packet
<1>q. /\ w.wbufq \in Seq(Packet) /\ Len(w.wbufq) \in Nat
      /\ q \in Seq(Packet) /\ Len(q) = Len(w.wbufq) + 1 /\ q # <<>>
      /\ \A i \in 1 .. Len(w.wbufq) : q[i] = w.wbufq[i]
      /\ q[Len(w.wbufq) + 1] = p
      /\ Range(q) = Range(w.wbufq) \cup {p}
  <2> DEFINE b == w.wbufq
  <2>1. b \in Seq(Packet) /\ Len(b) \in Nat
    BY <1>w DEF IoType
  <2> HIDE DEF b, p
  <2>2. /\ Append(b, p) \in Seq(Packet) /\ Append(b, p) # <<>>
        /\ Len(Append(b, p)) = Len(b) + 1
        /\ \A i \in 1 .. Len(b) : Append(b, p)[i] = b[i]
        /\ Append(b, p)[Len(b) + 1] = p
    BY <2>1, <1>s, AppendProperties
  <2>3. Range(Append(b, p)) = Range(b) \cup {p}
    BY <2>1, <1>s, RangeAppend
  <2> QED
    BY <2>1, <2>2, <2>3 DEF b
<1> HIDE DEF s2, p, q, x
<1>f. /\ x.wire = w.wire /\ x.wbufpending = w.wbufpending /\ x.wbufq = q /\ x.open = w.open
      /\ x.cacheque_use = w.cacheque_use \cup {p} /\ x.unheard = w.unheard /\ x.want_write = 1
  BY <1>w DEF IoType, x
<1>y. x \in IoType
  <2>1. w.cacheque_use \cup {p} \in SUBSET Packet
    BY <1>w, <1>s DEF IoType
  <2> QED
    BY <2>1, <1>q, <1>w DEF IoType, x
<1>e. ASSUME NEW i \in 1 .. Len(q)
      PROVE  \/ i \in 1 .. Len(w.wbufq) /\ q[i] = w.wbufq[i] /\ w.wbufq[i] \in 1 .. Len(sz)
             \/ i = Len(w.wbufq) + 1 /\ q[i] = p
  BY <1>q, <1>w DEF Ordered
<1>1. Ordered(x, s2)
  <2>1. ASSUME NEW i \in 1 .. Len(q) PROVE q[i] \in 1 .. Len(s2)
    BY <1>e, <1>s
  <2>2. ASSUME NEW i \in 1 .. Len(q), NEW j \in 1 .. Len(q), i < j PROVE q[i] < q[j]
    <3>1. i \in 1 .. Len(w.wbufq)
      BY <2>2, <1>q
    <3>2. q[i] = w.wbufq[i] /\ w.wbufq[i] \in 1 .. Len(sz)
      BY <3>1, <1>q, <1>w DEF Ordered
    <3>3. CASE j = Len(w.wbufq) + 1
      BY <3>2, <3>3, <1>q, <1>s
    <3>4. CASE j \in 1 .. Len(w.wbufq)
      BY <2>2, <3>1, <3>4, <1>q, <1>w DEF Ordered
    <3> QED
      BY <3>3, <3>4, <1>q
  <2>3. ASSUME w.wbufpending # None, NEW i \in 1 .. Len(q)
        PROVE  w.wbufpending.packet < q[i]
    <3>1. w.wbufpending.packet \in 1 .. Len(sz)
      BY <2>3, <1>w DEF Ordered
    <3>2. \A k \in 1 .. Len(w.wbufq) : w.wbufpending.packet < w.wbufq[k]
      BY <2>3, <1>w DEF Ordered
    <3> QED
      BY <3>1, <3>2, <1>e, <1>s
  <2> QED
    BY <2>1, <2>2, <2>3, <1>f, <1>w DEF Ordered
<1>2. Pool(x, s2)
  <2>1. Range(Waiting(x)) = Range(Waiting(w)) \cup {p}
    BY <1>f, <1>q, <1>w, <1>y, WaitingRange
  <2>2. p \notin w.unheard
    BY <1>w, <1>s DEF Pool
  <2>3. w.unheard \subseteq 1 .. Len(s2)
    BY <1>w, <1>s DEF Pool
  <2> QED
    BY <2>1, <2>2, <2>3, <1>w, <1>f DEF Pool
<1>3. Emptied(x) /\ Asked(x) /\ Minded(x)
  BY <1>f DEF Emptied, Asked, Minded
<1>4. Sent(x, s2)
  BY <1>f, <1>w DEF Sent
<1>5. x.open => AtEnd(x, s2)
  <2> SUFFICES ASSUME w.open PROVE AtEnd(x, s2)
    BY <1>f
  <2>1. Begun(x, s2) <=> Begun(w, s2)
    BY <1>f DEF Begun
  <2>2. ASSUME ~Begun(w, s2), w.wire # <<>>, NEW i \in 1 .. Len(q)
        PROVE  w.wire[Len(w.wire)][1] < q[i]
    <3>1. w.wire[Len(w.wire)][1] \in 1 .. Len(sz)
      <4>1. Len(w.wire) \in 1 .. Len(w.wire)
        BY <2>2, <1>w, EmptySeq DEF IoType
      <4> QED
        BY <4>1, <1>w DEF Sent
    <3>2. \A k \in 1 .. Len(w.wbufq) : w.wire[Len(w.wire)][1] < w.wbufq[k]
      BY <2>2, <1>w DEF AtEnd
    <3> QED
      BY <3>1, <3>2, <1>e, <1>s
  <2> QED
    BY <2>1, <2>2, <1>f, <1>w DEF AtEnd
<1> QED
  BY <1>1, <1>2, <1>3, <1>4, <1>5, <1>f, <1>y DEF Good, x, s2, p, q

(* A packet is pushed to a closed client connection.                       *)
LEMMA UnheardGood ==
    ASSUME NEW sz \in Sizes, NEW n \in 0 .. MaxSize, Len(sz) < MaxPush,
           NEW w, Good(w, sz), client, ~w.open
    PROVE  LET p == Len(sz) + 1
               x == [w EXCEPT !.cacheque_use = w.cacheque_use \cup {p},
                              !.unheard = w.unheard \cup {p}]
           IN  Good(x, Append(sz, n)) /\ ~x.open
<1> DEFINE s2 == Append(sz, n)
           p  == Len(sz) + 1
           x  == [w EXCEPT !.cacheque_use = w.cacheque_use \cup {p}, !.unheard = w.unheard \cup {p}]
<1>1. Good(w, s2)
  BY LongerGood
<1>2. /\ Len(s2) = p /\ Len(sz) \in Nat /\ p \in Packet /\ p = Len(sz) + 1
  BY SizesAppend, SizesType, Bounds DEF Packet
<1>3. /\ w \in IoType /\ Pool(w, sz) /\ Ordered(w, s2) /\ Sent(w, s2)
      /\ w.wbufpending = None /\ w.wbufq = <<>>
  BY <1>1 DEF Good, Emptied
<1> HIDE DEF s2, p, x
<1>4. x \in IoType
  <2>1. w.cacheque_use \cup {p} \in SUBSET Packet /\ w.unheard \cup {p} \in SUBSET Packet
    BY <1>2, <1>3 DEF IoType
  <2> QED
    BY <2>1, <1>3 DEF IoType, x
<1>5. /\ x.wire = w.wire /\ x.wbufpending = None /\ x.wbufq = <<>> /\ x.open = w.open
      /\ x.cacheque_use = w.cacheque_use \cup {p} /\ x.unheard = w.unheard \cup {p}
  BY <1>3 DEF IoType, x
<1>6. Pool(x, s2)
  <2>1. Range(Waiting(x)) = {} /\ Range(Waiting(w)) = {}
    BY <1>3, <1>4, <1>5, WaitingRange, RangeEmpty
  <2>2. w.unheard \cup {p} \subseteq 1 .. Len(s2)
    BY <1>2, <1>3 DEF Pool
  <2> QED
    BY <2>1, <2>2, <1>3, <1>5 DEF Pool
<1>7. Ordered(x, s2) /\ Emptied(x) /\ Asked(x) /\ Sent(x, s2)
  BY <1>3, <1>5 DEF Ordered, Emptied, Asked, Sent
<1> QED
  BY <1>4, <1>5, <1>6, <1>7 DEF Good, x, s2, p

-----------------------------------------------------------------------------
(* The inductive invariant.                                                *)

LEMMA Inits == Init => IInv
<1> SUFFICES ASSUME Init PROVE IInv
  OBVIOUS
<1>1. size = <<>> /\ size \in Sizes /\ client \in BOOLEAN /\ wpolled = FALSE
  BY Bounds DEF Init, Sizes
<1>2. /\ io.wbufq = <<>> /\ io.wbufpending = None /\ io.open /\ io.wire = <<>>
      /\ io.cacheque_use = {} /\ io.unheard = {}
  BY DEF Init
<1>3. io \in IoType
  <2>1. None \in [packet : 0 .. MaxPush, left : 0 .. MaxSize]
    BY Bounds DEF None
  <2> QED
    BY <2>1 DEF Init, IoType
<1>4. Pool(io, size)
  <2>1. Range(Waiting(io)) = {}
    BY <1>2, <1>3, WaitingRange, RangeEmpty
  <2> QED
    BY <2>1, <1>2 DEF Pool
<1>5. Ordered(io, size) /\ Sent(io, size) /\ AtEnd(io, size)
  BY <1>2 DEF Ordered, Sent, AtEnd, Begun
<1>6. Emptied(io) /\ Asked(io) /\ NoStall
  BY <1>2 DEF Emptied, Asked, NoStall, Idle
<1>7. TypeOK
  BY <1>1, <1>3 DEF TypeOK, Sizes
<1> QED
  BY <1>3, <1>4, <1>5, <1>6, <1>7 DEF IInv, Good

LEMMA Pushes ==
    ASSUME IInv, NEW n \in 0 .. MaxSize, p2p_stream_push(n)
    PROVE  IInv'
<1> DEFINE p  == Len(size) + 1
           s2 == Append(size, n)
           l  == [io EXCEPT !.cacheque_use = io.cacheque_use \cup {p}]
           w  == [l EXCEPT !.wbufq = Append(l.wbufq, p), !.want_write = 1]
<1>1. /\ size \in Sizes /\ Len(size) < MaxPush /\ Good(io, size) /\ NoStall
      /\ client \in BOOLEAN /\ wpolled \in BOOLEAN /\ client' = client /\ io \in IoType
  BY DEF IInv, TypeOK, Sizes, p2p_stream_push, Good
<1>2. size' = s2 /\ size' \in Sizes
  BY <1>1, SizesAppend DEF p2p_stream_push
<1>3. CASE io.open
  <2>1. /\ w = [io EXCEPT !.cacheque_use = io.cacheque_use \cup {p},
                          !.wbufq = Append(io.wbufq, p), !.want_write = 1]
    BY <1>1 DEF IoType
  <2>2. Good(w, s2) /\ Minded(w) /\ w.open
    BY <1>1, <1>3, <2>1, PushedGood
  <2>3. io' \in _p2p_can_write(w, s2) /\ wpolled' = (io'.open /\ (wpolled \/ io'.want_write > 0))
    BY <1>2, <1>3 DEF p2p_stream_push, response_pkt_new
  <2> HIDE DEF w, s2
  <2>4. Good(io', s2) /\ Minded(io')
    BY <1>1, <1>2, <2>2, <2>3, CanWriteGood
  <2>5. NoStall'
    BY <2>3, <2>4 DEF Minded, NoStall, Idle
  <2>6. io' \in IoType /\ wpolled' \in BOOLEAN
    BY <2>3, <2>4 DEF Good
  <2> QED
    BY <1>1, <1>2, <2>4, <2>5, <2>6 DEF IInv, TypeOK, Sizes, Good, Emptied, Pool,
       IoType, Packet, Waiting
<1>4. CASE ~io.open
  <2>1. io' = (IF client THEN [l EXCEPT !.unheard = l.unheard \cup {p}] ELSE w)
    BY <1>4 DEF p2p_stream_push, response_pkt_new
  <2>2. Good(io', s2) /\ ~io'.open
    <3>1. CASE client
      <4>1. io' = [io EXCEPT !.cacheque_use = io.cacheque_use \cup {p},
                             !.unheard = io.unheard \cup {p}]
        BY <2>1, <3>1, <1>1 DEF IoType
      <4> QED
        BY <4>1, <3>1, <1>1, <1>4, UnheardGood
    <3>2. CASE ~client
      <4>1. io' = [io EXCEPT !.cacheque_use = io.cacheque_use \cup {p},
                             !.wbufq = Append(io.wbufq, p), !.want_write = 1]
        BY <2>1, <3>2, <1>1 DEF IoType
      <4> QED
        BY <4>1, <3>2, <1>1, <1>4, PushedGood
    <3> QED
      BY <3>1, <3>2
  <2>3. wpolled' \in BOOLEAN /\ NoStall' /\ io' \in IoType
    BY <1>1, <1>4, <2>2 DEF p2p_stream_push, NoStall, Good
  <2> QED
    BY <1>1, <1>2, <2>2, <2>3 DEF IInv, TypeOK, Sizes, Good, Emptied
<1> QED
  BY <1>3, <1>4

LEMMA WriteEvents ==
    ASSUME IInv, WriteEvent
    PROVE  IInv'
<1>1. /\ size \in Sizes /\ Good(io, size) /\ io.open /\ NoStall
      /\ client \in BOOLEAN /\ client' = client /\ size' = size
  BY DEF IInv, TypeOK, Sizes, WriteEvent
<1>2. Minded(io)
  BY <1>1 DEF NoStall, Idle, Minded
<1>3. io' \in _p2p_can_write(io, size) /\ wpolled' = (io'.want_write > 0)
  BY DEF WriteEvent
<1>4. Good(io', size) /\ Minded(io')
  BY <1>1, <1>2, <1>3, CanWriteGood
<1>5. io' \in IoType /\ wpolled' \in BOOLEAN /\ (wpolled' <=> io'.want_write > 0)
  <2> DEFINE more == io'.want_write > 0
  <2>1. io' \in IoType /\ io'.want_write \in Nat
    BY <1>4 DEF Good, IoType
  <2>2. more \in BOOLEAN
    BY <2>1
  <2>3. wpolled' = more
    BY <1>3
  <2> HIDE DEF more
  <2>4. wpolled' \in BOOLEAN /\ (wpolled' <=> more)
    BY <2>2, <2>3
  <2> QED
    BY <2>1, <2>4 DEF more
<1>6. NoStall'
  BY <1>4, <1>5 DEF Minded, NoStall, Idle
<1> QED
  BY <1>1, <1>4, <1>5, <1>6 DEF IInv, TypeOK, Sizes, Good, Emptied

LEMMA Stops ==
    ASSUME IInv, Stopped(io, io'), size' = size, client' = client, wpolled' \in BOOLEAN
    PROVE  IInv'
<1>1. size \in Sizes /\ Good(io, size) /\ client \in BOOLEAN
  BY DEF IInv, TypeOK, Sizes
<1>2. Good(io', size)
  BY <1>1, StoppedGood
<1>3. NoStall'
  BY DEF NoStall, Stopped
<1> QED
  BY <1>1, <1>2, <1>3 DEF IInv, TypeOK, Sizes, Good, Emptied

LEMMA Closes ==
    ASSUME IInv, Close
    PROVE  IInv'
<1>1. Stopped(io, Closed(io))
  BY ClosedStops DEF IInv, TypeOK
<1> QED
  BY <1>1, Stops DEF Close

LEMMA Frees ==
    ASSUME IInv, sess_free
    PROVE  Stopped(io, io') /\ IInv'
<1>1. io \in IoType /\ ~io.open /\ wpolled \in BOOLEAN
  BY DEF IInv, TypeOK, sess_free
<1>2. /\ _p2pclient_release(io) =
             [io EXCEPT !.cacheque_use = io.cacheque_use \ Range(Waiting(io)),
                        !.wbufq = <<>>, !.wbufpending = None]
      /\ _p2pclient_release(io) \in IoType
  BY <1>1, ReleaseFields
<1>3. io' = [_p2pclient_release(io) EXCEPT !.open = FALSE, !.kept = FALSE]
  BY <1>1, <1>2 DEF sess_free, IoType
<1>4. Stopped(io, io')
  BY <1>1, <1>3, ReleaseStops
<1> QED
  BY <1>1, <1>4, Stops DEF sess_free

LEMMA Connects ==
    ASSUME IInv, p2pclient_connect
    PROVE  IInv'
<1>1. /\ size \in Sizes /\ Good(io, size) /\ client \in BOOLEAN /\ wpolled \in BOOLEAN
      /\ io \in IoType /\ Pool(io, size)
      /\ client' = client /\ size' = size /\ wpolled' = wpolled
      /\ io.wbufpending = None /\ io.wbufq = <<>>
  BY DEF IInv, TypeOK, Sizes, Good, Emptied, p2pclient_connect
<1>2. io' = [io EXCEPT !.open = TRUE, !.wire = <<>>]
  BY DEF p2pclient_connect
<1>3. io' \in IoType
  <2>1. <<>> \in Seq(Packet \X (1 .. MaxSize))
    OBVIOUS
  <2> QED
    BY <1>1, <1>2, <2>1 DEF IoType
<1>4. /\ io'.wire = <<>> /\ io'.wbufpending = None /\ io'.wbufq = <<>> /\ io'.open
      /\ io'.cacheque_use = io.cacheque_use /\ io'.unheard = io.unheard
  BY <1>1, <1>2 DEF IoType
<1>5. Pool(io', size)
  <2>1. Range(Waiting(io)) = {} /\ Range(Waiting(io')) = {}
    BY <1>1, <1>3, <1>4, WaitingRange, RangeEmpty
  <2> QED
    BY <2>1, <1>1, <1>4 DEF Pool
<1>6. Ordered(io', size) /\ Emptied(io') /\ Asked(io') /\ Sent(io', size) /\ AtEnd(io', size)
  BY <1>4 DEF Ordered, Emptied, Asked, Sent, AtEnd, Begun
<1>7. NoStall'
  BY <1>4 DEF NoStall, Idle
<1> QED
  BY <1>1, <1>3, <1>5, <1>6, <1>7 DEF IInv, TypeOK, Sizes, Good, Emptied

LEMMA Steps == IInv /\ [Next]_vars => IInv'
<1> SUFFICES ASSUME IInv, [Next]_vars PROVE IInv'
  OBVIOUS
<1>1. ASSUME NEW n \in 0 .. MaxSize, p2p_stream_push(n) PROVE IInv'
  BY <1>1, Pushes
<1>2. CASE WriteEvent
  BY <1>2, WriteEvents
<1>3. CASE Close
  BY <1>3, Closes
<1>4. CASE sess_free
  BY <1>4, Frees
<1>5. CASE p2pclient_connect
  BY <1>5, Connects
<1>6. CASE UNCHANGED vars
  BY <1>6 DEF vars, IInv, TypeOK, Good, Emptied, NoStall, Idle
<1> QED
  BY <1>1, <1>2, <1>3, <1>4, <1>5, <1>6 DEF Next

LEMMA Invariance == Spec => []IInv
  BY Inits, Steps, PTL DEF Spec

(* The state of a connection is of its type after any sequence of pushes,  *)
(* write events, closes and reconnections: want_write never runs below     *)
(* zero, what is pending is never a packet of no bytes left to send twice. *)
THEOREM TypeCorrect == Spec => []TypeOK
<1>1. IInv => TypeOK
  BY DEF IInv
<1> QED
  BY <1>1, Invariance, PTL

(* Nothing is left lying: as long as a packet, or the rest of one, waits   *)
(* on an open connection, mio polls the descriptor for writing and         *)
(* want_write makes the handler write, however pushes, partial sends and   *)
(* thrown away backlogs interleave.                                        *)
THEOREM NoStallHolds == Spec => []NoStall
<1>1. IInv => NoStall
  BY DEF IInv
<1> QED
  BY <1>1, Invariance, PTL

(* The peer receives whole packets in the order of their pushes, whatever  *)
(* parts send() takes them in and whatever is thrown away between them.    *)
THEOREM WholeInOrderHolds == Spec => []WholeInOrder
<1>1. IInv => WholeInOrder
  BY DEF IInv, Good, Sent, Follows, WholeInOrder
<1> QED
  BY <1>1, Invariance, PTL

(* What the pool of packets has lent is what waits on the connection, and  *)
(* what was written to a client connection while it was closed: a backlog  *)
(* thrown away, a failed send, a close, a free and a renewal give back     *)
(* everything else, and nothing that is still to be sent.                  *)
THEOREM LentHolds == Spec => []Lent
<1>1. IInv => Lent
  BY DEF IInv, Good, Pool, Lent
<1> QED
  BY <1>1, Invariance, PTL

-----------------------------------------------------------------------------
(* The write path implements the lossy queue.                              *)

LEMMA HeadTailEqual ==
    ASSUME NEW S, NEW s \in Seq(S), NEW t \in Seq(S), s # <<>>, t # <<>>,
           Head(s) = Head(t), Tail(s) = Tail(t)
    PROVE  s = t
<1> DEFINE a == Tail(s)
           b == Tail(t)
<1>1. /\ Len(a) = Len(s) - 1 /\ \A i \in 1 .. Len(s) - 1 : a[i] = s[i + 1]
      /\ Len(b) = Len(t) - 1 /\ \A i \in 1 .. Len(t) - 1 : b[i] = t[i + 1]
      /\ Head(s) = s[1] /\ Head(t) = t[1]
      /\ Len(s) \in Nat \ {0} /\ Len(t) \in Nat \ {0}
  BY HeadTailProperties, EmptySeq
<1>2. a = b
  OBVIOUS
<1> HIDE DEF a, b
<1>3. PICK n \in Nat : n = Len(s) - 1 /\ n = Len(t) - 1
  BY <1>1, <1>2
<1>4. Len(s) = n + 1 /\ Len(t) = n + 1
  BY <1>1, <1>3
<1>5. ASSUME NEW i \in 1 .. n + 1 PROVE s[i] = t[i]
  <2>1. CASE i = 1
    BY <2>1, <1>1
  <2>2. CASE i # 1
    <3>1. i - 1 \in 1 .. n /\ i = (i - 1) + 1
      BY <2>2
    <3>2. PICK j \in 1 .. n : i = j + 1
      BY <3>1
    <3>3. a[j] = s[j + 1] /\ b[j] = t[j + 1]
      BY <1>1, <1>3
    <3> QED
      BY <3>2, <3>3, <1>2
  <2> QED
    BY <2>1, <2>2
<1> QED
  BY <1>4, <1>5, SeqEqual

LEMMA WaitingAppend ==
    ASSUME NEW w \in IoType, NEW p \in Packet, NEW x \in IoType,
           x.wbufpending = w.wbufpending, x.wbufq = Append(w.wbufq, p)
    PROVE  Waiting(x) = Append(Waiting(w), p)
<1> DEFINE S == Packet \cup {0}
           v == Waiting(w)
           u == Waiting(x)
<1>1. w.wbufq \in Seq(S) /\ w.wbufq \in Seq(Packet)
  BY DEF IoType
<1>2. CASE w.wbufpending = None
  BY <1>2, WaitingCases
<1>3. CASE w.wbufpending # None
  <2>1. /\ u \in Seq(S) /\ u # <<>> /\ Head(u) = w.wbufpending.packet
        /\ Tail(u) = Append(w.wbufq, p)
    BY <1>3, WaitingCases
  <2>2. /\ v \in Seq(S) /\ v # <<>> /\ Head(v) = w.wbufpending.packet
        /\ Tail(v) = w.wbufq
    BY <1>3, WaitingCases
  <2> HIDE DEF u, v
  <2>3. /\ Append(v, p) \in Seq(S) /\ Append(v, p) # <<>>
    BY <2>2, AppendProperties
  <2>4. Head(Append(v, p)) = Head(v) /\ Tail(Append(v, p)) = Append(Tail(v), p)
    BY <2>2, HeadTailAppend
  <2>5. u = Append(v, p)
    BY <2>1, <2>2, <2>3, <2>4, HeadTailEqual
  <2> QED
    BY <2>5 DEF u, v
<1> QED
  BY <1>2, <1>3

(* r is w when a packet left from the head of those in v, or none did.     *)
Leaves(v, w, r) ==
    \/ Waiting(r) = v /\ r.done = w.done
    \/ v # <<>> /\ Waiting(r) = Tail(v) /\ r.done = Append(w.done, Head(v))

LEMMA PulledLeaves ==
    ASSUME NEW sz \in Sizes, NEW w, Good(w, sz), w.open,
           w.wbufpending = None, w.wbufq # <<>>
    PROVE  LET r == Pulled(w, sz)
           IN  /\ r.open
               /\ \E v \in Fifo!Thinned(Waiting(w)) :
                     IF r.wbufpending = None THEN Leaves(v, w, r)
                     ELSE Waiting(r) = v /\ r.done = w.done
<1> DEFINE q    == w.wbufq
           out  == Head(q)
           rest == Tail(q)
           kept == IF Len(rest) > MaxQueue THEN <<>> ELSE rest
           pend == IF sz[out] = 0 THEN None ELSE [packet |-> out, left |-> sz[out]]
           r    == Pulled(w, sz)
           S    == Packet \cup {0}
<1>w. w \in IoType /\ Waiting(w) = q
  BY WaitingCases DEF Good
<1>q. /\ q \in Seq(Packet) /\ q \in Seq(S) /\ Len(q) \in Nat \ {0} /\ out \in Packet
      /\ rest \in Seq(Packet) /\ Len(rest) = Len(q) - 1
  BY <1>w, HeadTailProperties, EmptySeq DEF IoType
<1>p. pend # None => pend.packet = out
  BY DEF pend
<1>n. pend = None <=> sz[out] = 0
  BY DEF pend, None
<1>g. r \in IoType /\ r.open
  BY PulledGood DEF Good
<1>f. /\ r.wbufq = kept /\ r.wbufpending = pend
      /\ r.done = IF sz[out] = 0 THEN Append(w.done, out) ELSE w.done
  <2> HIDE DEF out, rest, kept, pend
  <2> QED
    BY <1>w DEF Pulled, response_pkt_free, q, out, rest, kept, pend, IoType
<1> HIDE DEF r, pend
<1>1. PICK v \in Fifo!Thinned(q) : v \in Seq(S) /\ v # <<>> /\ Head(v) = out /\ Tail(v) = kept
  <2>1. CASE Len(rest) > MaxQueue
    <3>1. <<out>> \in Fifo!Thinned(q)
      BY <2>1, <1>q, Bounds DEF Fifo!Thinned
    <3>2. <<out>> \in Seq(S) /\ <<out>> # <<>> /\ Head(<<out>>) = out /\ Tail(<<out>>) = <<>>
      BY <1>q
    <3> QED
      BY <2>1, <3>1, <3>2
  <2>2. CASE ~(Len(rest) > MaxQueue)
    <3>1. q \in Fifo!Thinned(q) /\ kept = rest
      BY <2>2 DEF Fifo!Thinned
    <3> QED
      BY <3>1, <1>q
  <2> QED
    BY <2>1, <2>2
<1>2. CASE sz[out] = 0
  <2>1. Waiting(r) = kept
    BY <1>2, <1>n, <1>f, <1>g, WaitingCases
  <2> QED
    BY <2>1, <1>1, <1>2, <1>n, <1>f, <1>g, <1>w DEF Leaves, r
<1>3. CASE sz[out] # 0
  <2>1. /\ Waiting(r) \in Seq(S) /\ Waiting(r) # <<>>
        /\ Head(Waiting(r)) = out /\ Tail(Waiting(r)) = kept
    BY <1>3, <1>n, <1>p, <1>f, <1>g, WaitingCases
  <2>2. Waiting(r) = v
    BY <2>1, <1>1, HeadTailEqual
  <2> QED
    BY <2>2, <1>1, <1>3, <1>n, <1>f, <1>g, <1>w DEF r
<1> QED
  BY <1>2, <1>3

LEMMA TakenLeaves ==
    ASSUME NEW sz \in Sizes, NEW w, Good(w, sz), w.open,
           w.wbufpending # None, NEW k \in 0 .. w.wbufpending.left
    PROVE  Leaves(Waiting(w), w, Taken(w, k, sz))
<1> DEFINE out == w.wbufpending
           r   == Taken(w, k, sz)
<1>w. w \in IoType /\ r \in IoType
  BY TakenGood DEF Good
<1>v. /\ Waiting(w) # <<>> /\ Head(Waiting(w)) = out.packet /\ Tail(Waiting(w)) = w.wbufq
  BY <1>w, WaitingCases
<1>l. out.left \in Nat /\ k \in Nat /\ out.packet # 0
  <2>1. Ordered(w, sz)
    BY DEF Good
  <2> QED
    BY <2>1, <1>w, SizesType, Bounds DEF Ordered, IoType
<1>1. CASE k < out.left
  <2>1. /\ r.wbufq = w.wbufq /\ r.done = w.done
        /\ r.wbufpending = [out EXCEPT !.left = out.left - k]
    BY <1>1, <1>w DEF Taken, IoType
  <2>2. r.wbufpending.packet = out.packet /\ r.wbufpending # None
    BY <2>1, <1>l, <1>w DEF IoType, None
  <2>3. Waiting(r) = Waiting(w)
    BY <2>1, <2>2 DEF Waiting
  <2> QED
    BY <2>1, <2>3 DEF Leaves
<1>2. CASE ~(k < out.left)
  <2>1. r.wbufq = w.wbufq /\ r.done = Append(w.done, out.packet) /\ r.wbufpending = None
    BY <1>2, <1>w DEF Taken, response_pkt_free, IoType
  <2>2. Waiting(r) = w.wbufq
    BY <2>1, <1>w, WaitingCases
  <2> QED
    BY <2>1, <2>2, <1>v DEF Leaves
<1> QED
  BY <1>1, <1>2

LEMMA CanWriteLeaves ==
    ASSUME NEW sz \in Sizes, client \in BOOLEAN, NEW w, Good(w, sz), w.open,
           NEW r \in _p2p_can_write(w, sz)
    PROVE  IF r.open THEN \E v \in Fifo!Thinned(Waiting(w)) : Leaves(v, w, r)
           ELSE r.done = w.done
<1>t. Waiting(w) \in Fifo!Thinned(Waiting(w))
  BY DEF Fifo!Thinned
<1>1. CASE w.want_write = 0
  BY <1>1, <1>t DEF _p2p_can_write, Leaves
<1>2. CASE w.want_write # 0
  <2> DEFINE p == _p2p_get_pending_write(w, sz)
  <2>1. /\ Good(p, sz) /\ p.open
        /\ \E v \in Fifo!Thinned(Waiting(w)) :
              IF p.wbufpending = None THEN Leaves(v, w, p)
              ELSE Waiting(p) = v /\ p.done = w.done
    <3>1. CASE w.wbufpending # None \/ w.wbufq = <<>>
      BY <3>1, <1>t DEF _p2p_get_pending_write, Leaves
    <3>2. CASE w.wbufpending = None /\ w.wbufq # <<>>
      <4>1. p = Pulled(w, sz)
        BY <3>2 DEF _p2p_get_pending_write
      <4> HIDE DEF p
      <4> QED
        BY <3>2, <4>1, PulledGood, PulledLeaves
    <3> QED
      BY <3>1, <3>2
  <2>2. IF p.wbufpending = None THEN r = p
        ELSE r = Failed(p) \/ \E k \in 0 .. p.wbufpending.left : r = Taken(p, k, sz)
    BY <1>2 DEF _p2p_can_write
  <2> HIDE DEF p
  <2>3. CASE p.wbufpending = None
    BY <2>1, <2>2, <2>3
  <2>4. CASE p.wbufpending # None /\ r = Failed(p)
    <3>1. ~r.open /\ r.done = p.done
      BY <2>1, <2>4, FailedStops DEF Stopped
    <3> QED
      BY <3>1, <2>1, <2>4
  <2>5. CASE p.wbufpending # None /\ \E k \in 0 .. p.wbufpending.left : r = Taken(p, k, sz)
    <3>1. PICK k \in 0 .. p.wbufpending.left : r = Taken(p, k, sz)
      BY <2>5
    <3>2. r.open /\ Leaves(Waiting(p), p, r)
      BY <2>1, <2>5, <3>1, TakenGood, TakenLeaves
    <3> QED
      BY <3>2, <2>1, <2>5 DEF Leaves
  <2> QED
    BY <2>2, <2>3, <2>4, <2>5
<1> QED
  BY <1>1, <1>2

LEMMA FifoSteps ==
    ASSUME IInv, [Next]_vars
    PROVE  [Fifo!Next]_<<Waiting(io), io.done, io.open>>
<1>i. /\ size \in Sizes /\ Good(io, size) /\ client \in BOOLEAN /\ io \in IoType
      /\ (client /\ ~io.open => io.wbufpending = None /\ io.wbufq = <<>>)
  BY DEF IInv, TypeOK, Sizes, Good, Emptied
<1>m. ASSUME io.open, NEW V \in Fifo!Offered, NEW v \in Fifo!Thinned(V), io'.open,
             io'.open \in BOOLEAN, Leaves(v, io, io')
      PROVE  Fifo!Move
  <2>1. v \in UNION {Fifo!Thinned(u) : u \in Fifo!Offered}
    BY <1>m
  <2>2. io'.open = TRUE
    BY <1>m
  <2> QED
    BY <1>m, <2>1, <2>2 DEF Fifo!Move, Leaves
<1>c. ASSUME io' \in IoType, ~io'.open, io'.done = io.done
      PROVE  Fifo!Close
  BY <1>c DEF Fifo!Close, IoType
<1>1. ASSUME NEW n \in 0 .. MaxSize, p2p_stream_push(n)
      PROVE  [Fifo!Next]_<<Waiting(io), io.done, io.open>>
  <2> DEFINE p  == Len(size) + 1
             s2 == Append(size, n)
             l  == [io EXCEPT !.cacheque_use = io.cacheque_use \cup {p}]
             w  == [l EXCEPT !.wbufq = Append(l.wbufq, p), !.want_write = 1]
  <2>1. size' = s2 /\ s2 \in Sizes /\ p \in Packet /\ Len(size) < MaxPush
    BY <1>i, <1>1, SizesAppend, SizesType, Bounds DEF p2p_stream_push, Packet
  <2>2. CASE io.open
    <3>1. w = [io EXCEPT !.cacheque_use = io.cacheque_use \cup {p},
                         !.wbufq = Append(io.wbufq, p), !.want_write = 1]
      BY <1>i DEF IoType
    <3>2. Good(w, s2) /\ w.open
      BY <1>i, <2>1, <2>2, <3>1, PushedGood
    <3>3. w.done = io.done /\ w.wbufpending = io.wbufpending /\ w.wbufq = Append(io.wbufq, p)
      BY <1>i, <3>1 DEF IoType
    <3>4. io' \in _p2p_can_write(w, s2)
      BY <2>1, <2>2, <1>1 DEF p2p_stream_push, response_pkt_new
    <3> HIDE DEF w, s2
    <3>5. io' \in IoType
      <4>1. w \in IoType
        BY <3>2 DEF Good
      <4>2. Minded(w)
        BY <3>1, <4>1, <1>i DEF Minded, IoType
      <4> QED
        BY <1>i, <2>1, <3>2, <3>4, <4>2, CanWriteGood DEF Good
    <3>6. Waiting(w) = Append(Waiting(io), p)
      BY <1>i, <2>1, <3>2, <3>3, WaitingAppend DEF Good
    <3>7. Waiting(w) \in Fifo!Offered
      BY <2>1, <3>6 DEF Fifo!Offered
    <3>8. IF io'.open THEN \E v \in Fifo!Thinned(Waiting(w)) : Leaves(v, w, io')
          ELSE io'.done = w.done
      BY <1>i, <2>1, <3>2, <3>4, CanWriteLeaves
    <3>9. CASE io'.open
      <4>1. PICK v \in Fifo!Thinned(Waiting(w)) : Leaves(v, w, io')
        BY <3>8, <3>9
      <4>2. Leaves(v, io, io') /\ io'.open \in BOOLEAN
        BY <4>1, <3>3, <3>5 DEF Leaves, IoType
      <4> QED
        BY <2>2, <3>7, <3>9, <4>2, <1>m DEF Fifo!Next
    <3>10. CASE ~io'.open
      BY <3>3, <3>5, <3>8, <3>10, <1>c DEF Fifo!Next
    <3> QED
      BY <3>9, <3>10
  <2>3. CASE ~io.open
    <3>1. io' = (IF client THEN [l EXCEPT !.unheard = l.unheard \cup {p}] ELSE w)
      BY <1>1, <2>3 DEF p2p_stream_push, response_pkt_new
    <3>2. io'.open = FALSE /\ io'.done = io.done
      BY <1>i, <2>3, <3>1 DEF IoType
    <3> QED
      BY <3>2 DEF Fifo!Close, Fifo!Next
  <2> QED
    BY <2>2, <2>3
<1>2. CASE WriteEvent
  <2>1. io.open /\ io' \in _p2p_can_write(io, size) /\ size' = size /\ client' = client
    BY <1>2 DEF WriteEvent
  <2>2. io' \in IoType
    BY <1>2, WriteEvents DEF IInv, TypeOK
  <2>3. IF io'.open THEN \E v \in Fifo!Thinned(Waiting(io)) : Leaves(v, io, io')
        ELSE io'.done = io.done
    BY <1>i, <2>1, CanWriteLeaves
  <2>4. Waiting(io) \in Fifo!Offered
    BY DEF Fifo!Offered
  <2>5. CASE io'.open
    BY <2>1, <2>2, <2>3, <2>4, <2>5, <1>m DEF Fifo!Next, IoType
  <2>6. CASE ~io'.open
    BY <2>2, <2>3, <2>6, <1>c DEF Fifo!Next
  <2> QED
    BY <2>5, <2>6
<1>3. CASE Close
  <2>1. Stopped(io, io')
    BY <1>i, <1>3, ClosedStops DEF Close
  <2> QED
    BY <2>1, <1>c DEF Stopped, Fifo!Next
<1>4. CASE sess_free
  <2>1. Stopped(io, io')
    BY <1>4, Frees
  <2> QED
    BY <2>1, <1>c DEF Stopped, Fifo!Next
<1>5. CASE p2pclient_connect
  <2>1. ~io.open /\ io' = [io EXCEPT !.open = TRUE, !.wire = <<>>]
        /\ io.wbufpending = None /\ io.wbufq = <<>>
    BY <1>i, <1>5 DEF p2pclient_connect
  <2>2. io'.open = TRUE /\ io'.done = io.done /\ io'.wbufpending = None /\ io'.wbufq = <<>>
    BY <2>1, <1>i DEF IoType
  <2>3. Waiting(io') = <<>>
    BY <2>2, ConcatEmptySeq, EmptySeq DEF Waiting
  <2> QED
    BY <2>1, <2>2, <2>3 DEF Fifo!Renew, Fifo!Next
<1>6. CASE UNCHANGED vars
  BY <1>6 DEF vars, Waiting
<1> QED
  BY <1>1, <1>2, <1>3, <1>4, <1>5, <1>6 DEF Next

(* The write path implements LossyFifo: packets reach the peer in the      *)
(* order they were pushed, each once, and nothing is lost from an open     *)
(* connection but a backlog longer than max_queue, all but its first       *)
(* packet at once.                                                         *)
THEOREM Refinement == Spec => ImplementsFifo
<1>1. Init => Fifo!Init
  <2> SUFFICES ASSUME Init PROVE Fifo!Init
    OBVIOUS
  <2>1. io.wbufpending = None /\ io.wbufq = <<>> /\ io.done = <<>> /\ io.open = TRUE
    BY DEF Init
  <2>2. Waiting(io) = <<>>
    BY <2>1, ConcatEmptySeq, EmptySeq DEF Waiting
  <2> QED
    BY <2>1, <2>2 DEF Fifo!Init
<1>2. IInv /\ [Next]_vars => [Fifo!Next]_<<Waiting(io), io.done, io.open>>
  BY FifoSteps
<1> QED
  BY <1>1, <1>2, Invariance, PTL DEF Spec, ImplementsFifo, Fifo!Spec
=============================================================================
