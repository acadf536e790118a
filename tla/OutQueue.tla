------------------------------ MODULE OutQueue ------------------------------
(***************************************************************************)
(* The write path of one connection (p2p.c and p2pclient.c): the queue of  *)
(* packets, the packet that is partly sent, want_write, mio's interest in  *)
(* writing, and what the pool of packets has lent.  A packet is the number *)
(* of its push; the socket takes any number of its bytes, none included,   *)
(* or fails.  A packet given back to the pool may be lent again at once.   *)
(*                                                                         *)
(* An accepted connection keeps its packets when it is closed, until its   *)
(* session is freed.  A client connection gives them back in its CLOSE     *)
(* handler, has no queue then, and is renewed with an empty one.           *)
(***************************************************************************)
EXTENDS Naturals, Sequences, SequencesExt

CONSTANTS
    MaxQueue,   \* max_queue
    MaxSize,    \* bytes of the largest packet
    MaxPush,    \* bound: packets pushed
    MaxWant     \* bound: want_write, which grows with every partial send

ASSUME BoundAssumption == {MaxQueue, MaxSize, MaxPush, MaxWant} \subseteq Nat

VARIABLES
    size,       \* bytes of each packet pushed so far
    client,     \* a client connection
    io,         \* what a write event changes, see IoType
    wpolled     \* mio polls the descriptor for writing

vars == <<size, client, io, wpolled>>

Packet == 1 .. MaxPush

None == [packet |-> 0, left |-> 0]

IoType == [wbufq       : Seq(Packet),
           wbufpending : [packet : 0 .. MaxPush, left : 0 .. MaxSize],
           want_write  : Nat,
           open        : BOOLEAN,
           kept        : BOOLEAN,                       \* the session is not freed
           cacheque_use : SUBSET Packet,                \* the packets the pool has lent
           unheard     : SUBSET Packet,                 \* history: written to a closed client
           wire        : Seq(Packet \X (1 .. MaxSize)), \* bytes the socket took
           done        : Seq(Packet)]                   \* packets sent completely

TypeOK ==
    /\ size \in Seq(0 .. MaxSize) /\ Len(size) <= MaxPush
    /\ io \in IoType
    /\ client \in BOOLEAN /\ wpolled \in BOOLEAN

Init ==
    /\ size = <<>>
    /\ client \in BOOLEAN
    /\ io = [wbufq |-> <<>>, wbufpending |-> None, want_write |-> 0, open |-> TRUE,
             kept |-> TRUE, cacheque_use |-> {}, unheard |-> {}, wire |-> <<>>, done |-> <<>>]
    /\ wpolled = FALSE

-----------------------------------------------------------------------------
response_pkt_new(w, p) == [w EXCEPT !.cacheque_use = w.cacheque_use \cup {p}]

(* A packet that is not lent is not looked for any further.                *)
response_pkt_free(w, P) == [w EXCEPT !.cacheque_use = w.cacheque_use \ P]

(* The packets of a connection: the pending one and the queued ones.       *)
Waiting(w) ==
    (IF w.wbufpending = None THEN <<>> ELSE <<w.wbufpending.packet>>) \o w.wbufq

(* All packets of a connection are given back.                             *)
_p2pclient_release(w) ==
    [response_pkt_free(w, Range(Waiting(w))) EXCEPT !.wbufq = <<>>, !.wbufpending = None]

-----------------------------------------------------------------------------
(* Mutant: the backlog is thrown away together with the packet pulled.     *)
Pulled_DropsHead(w, sz) ==
    LET out  == Head(w.wbufq)
        rest == Tail(w.wbufq)
        over == Len(rest) > MaxQueue
    IN  [response_pkt_free(w, IF over THEN Range(w.wbufq) ELSE IF sz[out] = 0 THEN {out} ELSE {})
            EXCEPT !.wbufq = IF over THEN <<>> ELSE rest,
                   !.want_write = IF over THEN 0 ELSE Len(rest),
                   !.wbufpending = IF over \/ sz[out] = 0 THEN None
                                   ELSE [packet |-> out, left |-> sz[out]],
                   !.done = IF sz[out] = 0 THEN Append(w.done, out) ELSE w.done]

(* The first packet of the queue becomes pending, unless it is empty.  If  *)
(* more than max_queue are left in the queue, all of them are thrown away. *)
Pulled(w, sz) ==
    LET out  == Head(w.wbufq)
        rest == Tail(w.wbufq)
        kept == IF Len(rest) > MaxQueue THEN <<>> ELSE rest
        free == (Range(rest) \ Range(kept)) \cup (IF sz[out] = 0 THEN {out} ELSE {})
    IN  [response_pkt_free(w, free) EXCEPT
            !.wbufq = kept,
            !.want_write = Len(kept),
            !.wbufpending = IF sz[out] = 0 THEN None ELSE [packet |-> out, left |-> sz[out]],
            !.done = IF sz[out] = 0 THEN Append(w.done, out) ELSE w.done]

_p2p_get_pending_write(w, sz) ==
    IF w.wbufpending # None \/ w.wbufq = <<>> THEN w ELSE Pulled(w, sz)

(* The bytes the socket takes: k of the pending packet's rest.             *)
Bytes(out, k, sz) == [i \in 1 .. k |-> <<out.packet, sz[out.packet] - out.left + i>>]

(* Mutant: the rest of a packet is kept, but not asked to be written.      *)
Taken_Forgets(w, k, sz) ==
    LET out == w.wbufpending
        rest == [w EXCEPT !.wire = w.wire \o Bytes(out, k, sz)]
    IN  IF k < out.left
        THEN [rest EXCEPT !.wbufpending = [out EXCEPT !.left = out.left - k]]
        ELSE [response_pkt_free(rest, {out.packet}) EXCEPT
                  !.wbufpending = None,
                  !.done = Append(w.done, out.packet)]

(* Mutant: the rest of a packet is sent from its first byte again.         *)
Taken_Resends(w, k, sz) ==
    LET out == w.wbufpending
        rest == [w EXCEPT !.wire = w.wire \o Bytes(out, k, sz)]
    IN  IF k < out.left
        THEN [rest EXCEPT !.want_write = w.want_write + 1]
        ELSE [response_pkt_free(rest, {out.packet}) EXCEPT
                  !.wbufpending = None,
                  !.done = Append(w.done, out.packet)]

Taken(w, k, sz) ==
    LET out == w.wbufpending
        rest == [w EXCEPT !.wire = w.wire \o Bytes(out, k, sz)]
    IN  IF k < out.left
        THEN [rest EXCEPT !.wbufpending = [out EXCEPT !.left = out.left - k],
                          !.want_write = w.want_write + 1]
        ELSE [response_pkt_free(rest, {out.packet}) EXCEPT
                  !.wbufpending = None,
                  !.done = Append(w.done, out.packet)]

(* What the CLOSE handler does with the packets.                           *)
Closed(w) == [IF client THEN _p2pclient_release(w) ELSE w EXCEPT !.open = FALSE]

(* Mutant: the packet whose send failed is left to the CLOSE handler.      *)
Failed_KeepsPacket(w) ==
    [Closed([w EXCEPT !.wbufpending = None]) EXCEPT !.want_write = 0]

(* send() failed: the connection is closed, the packet given back.         *)
Failed(w) ==
    [response_pkt_free(Closed([w EXCEPT !.wbufpending = None]), {w.wbufpending.packet})
        EXCEPT !.want_write = 0]

(* The possible results of a write event; the handler returns want_write.  *)
_p2p_can_write(w, sz) ==
    IF w.want_write = 0 THEN {w}
    ELSE LET p == _p2p_get_pending_write(w, sz)
         IN  IF p.wbufpending = None THEN {p}
             ELSE {Taken(p, k, sz) : k \in 0 .. p.wbufpending.left} \cup {Failed(p)}

-----------------------------------------------------------------------------
(* p2p_stream_push(): mio_write() calls the write handler at once, and     *)
(* polls for writing if it returns that there is more.  On a closed        *)
(* connection it does nothing; a client connection has no queue then, and  *)
(* p2pclient_write() returns without the packet being given back.          *)
p2p_stream_push(n) ==
    LET p == Len(size) + 1
        l == response_pkt_new(io, p)
        w == [l EXCEPT !.wbufq = Append(l.wbufq, p), !.want_write = 1]
    IN  /\ io.kept /\ Len(size) < MaxPush
        /\ size' = Append(size, n)
        /\ IF io.open
           THEN /\ io' \in _p2p_can_write(w, size')
                /\ wpolled' = (io'.open /\ (wpolled \/ io'.want_write > 0))
           ELSE /\ io' = IF client THEN [l EXCEPT !.unheard = l.unheard \cup {p}] ELSE w
                /\ wpolled' = wpolled
        /\ io'.want_write <= MaxWant
        /\ UNCHANGED client

(* The socket is writable. *)
WriteEvent ==
    /\ io.open /\ wpolled
    /\ io' \in _p2p_can_write(io, size)
    /\ wpolled' = (io'.want_write > 0)
    /\ io'.want_write <= MaxWant
    /\ UNCHANGED <<size, client>>

(* The connection is closed for another reason: the peer, another handler. *)
Close ==
    /\ io.open
    /\ io' = Closed(io)
    /\ wpolled' = FALSE
    /\ UNCHANGED <<size, client>>

(* Some seconds later an accepted connection's session is freed ...        *)
sess_free ==
    /\ ~client /\ ~io.open /\ io.kept
    /\ io' = [_p2pclient_release(io) EXCEPT !.kept = FALSE]
    /\ UNCHANGED <<size, client, wpolled>>

(* ... and a client connection renewed.                                    *)
p2pclient_connect ==
    /\ client /\ ~io.open
    /\ io' = [io EXCEPT !.open = TRUE, !.wire = <<>>]
    /\ UNCHANGED <<size, client, wpolled>>

Next ==
    \/ \E n \in 0 .. MaxSize : p2p_stream_push(n)
    \/ WriteEvent
    \/ Close
    \/ sess_free
    \/ p2pclient_connect

Spec == Init /\ [][Next]_vars

-----------------------------------------------------------------------------
Idle == io.wbufpending = None /\ io.wbufq = <<>>

(* Nothing is left lying: while a packet waits, or the rest of one, mio    *)
(* polls for writing and the handler will write when it is called.         *)
NoStall == io.open /\ ~Idle => wpolled /\ io.want_write > 0

(* The peer receives whole packets in the order of their pushes: a byte is *)
(* followed by the next one of its packet, or, after the last one, by the  *)
(* first byte of a later packet.                                           *)
WholeInOrder ==
    /\ io.wire # <<>> => io.wire[1][2] = 1
    /\ \A i \in 1 .. Len(io.wire) - 1 :
          LET a == io.wire[i]
              b == io.wire[i + 1]
          IN  \/ b = <<a[1], a[2] + 1>>
              \/ a[2] = size[a[1]] /\ b[1] > a[1] /\ b[2] = 1

(* The pool has lent the packets that wait, so that none of them is lent   *)
(* again and overwritten, and none is forgotten when a backlog is thrown   *)
(* away, a send fails, or the connection is closed, freed or renewed: but  *)
(* for those written to a client connection while it is closed.            *)
Lent == io.cacheque_use = Range(Waiting(io)) \cup io.unheard

(* The write path implements LossyFifo.                                    *)
Fifo == INSTANCE LossyFifo WITH waiting <- Waiting(io), delivered <- io.done, open <- io.open

ImplementsFifo == Fifo!Spec
=============================================================================
