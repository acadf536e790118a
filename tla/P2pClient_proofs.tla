-------------------------- MODULE P2pClient_proofs --------------------------
(***************************************************************************)
(* Proofs about the client connections of frontsvr, monitor and bdsvr, the *)
(* programs whose sweep empties zombie_que.  (bdjob's does not: it bounds  *)
(* the loop by the size of session_que.)                                   *)
(***************************************************************************)
EXTENDS P2pClient, TLAPS

Sweeping == "bdjob" \notin Programs

(* A peer that answers within Delay seconds is heard of before the limit   *)
(* on silence, if a ping is sent to it PingWait seconds after it was heard *)
(* of last.                                                                *)
InTime == \A p \in Programs : Delay + PingWait <= Silence[p]

HomeType == [lives : 0 .. 1, zombies : 0 .. 1, dead : 0 .. 1]

-----------------------------------------------------------------------------
(* The inductive invariant.                                                *)

(* zombie_que is used within a sweep only; session_que holds no closed     *)
(* session when one is renewed, and if the renewed one is closed at once,  *)
(* it was heard of too recently to be swept.                               *)
Places ==
    /\ home.zombies > 0 => pc = "clear"
    /\ pc = "save" /\ ~conn.open => home.lives = 0
    /\ pc = "sweep" /\ ~conn.open /\ home.lives > 0 => clock.idle = 0

(* The loop counts a second at most in a turn, so that no ping is late.    *)
OnTime == pc = "mio" /\ clock.turn = 0 => clock.ping < PingWait

(* A prompt peer has been heard of within PingWait seconds of the next     *)
(* ping, or of a request it has still time to answer.                      *)
Heard ==
    prompt /\ conn.open =>
        IF owed = {} THEN clock.idle <= clock.ping /\ conn.binitsess
        ELSE \E a \in owed : clock.idle <= a + PingWait

(* Then a prompt peer's connection is not swept.                           *)
Spared == InTime /\ pc = "clear" /\ prompt /\ conn.open => home.zombies = 0

HInv == TypeOK /\ OneHome /\ Places

IInv == HInv /\ OnTime /\ Heard /\ Spared

-----------------------------------------------------------------------------
LEMMA SilenceType == ASSUME TypeOK PROVE Silence[program] \in Nat
<1>1. program \in {"frontsvr", "monitor", "bdsvr", "bdjob"}
  BY ProgramsAssumption DEF TypeOK
<1> QED
  BY <1>1 DEF Silence

LEMMA AtMostType ==
    ASSUME NEW n \in Nat, NEW b \in Nat
    PROVE  AtMost(n, b) \in 0 .. b /\ AtMost(n, b) <= n /\ (n <= b => AtMost(n, b) = n)
  BY DEF AtMost

(* A connection is closed: once, and its session queued for renewal.       *)
LEMMA CloseOf ==
    ASSUME NEW h \in HomeType, NEW c \in ConnType, c.open
    PROVE  /\ Closed(h, c).home = [h EXCEPT !.dead = h.dead + 1]
           /\ Closed(h, c).conn \in ConnType
           /\ ~Closed(h, c).conn.open
           /\ Closed(h, c).conn.binitsess = c.binitsess
  BY DEF Closed, ConnType

(* What a write can do: nothing, as the connection is closed; send; or     *)
(* find an error and close it.                                             *)
Written(h, c, o, out) ==
    \/ ~c.open /\ out.home = h /\ out.conn = c /\ out.owed = o
    \/ c.open /\ out.home = h /\ out.conn = c /\ out.owed = (IF prompt' THEN o \cup {0} ELSE {})
    \/ /\ c.open /\ out.home = [h EXCEPT !.dead = h.dead + 1]
       /\ out.conn \in ConnType /\ ~out.conn.open /\ out.owed = {}

LEMMA WriteOf ==
    ASSUME NEW h \in HomeType, NEW c \in ConnType, NEW o, NEW out \in p2pclient_write(h, c, o)
    PROVE  Written(h, c, o, out)
<1>1. CASE ~c.open
  BY <1>1 DEF p2pclient_write, Written
<1>2. CASE c.open
  <2> DEFINE k == SendFailed(h, c)
             d == [c EXCEPT !.want_read = ~GivesUpReading]
  <2>1. d \in ConnType /\ d.open
    BY <1>2 DEF ConnType, GivesUpReading
  <2> HIDE DEF d
  <2>2. /\ Closed(h, d).home = [h EXCEPT !.dead = h.dead + 1]
        /\ Closed(h, d).conn \in ConnType /\ ~Closed(h, d).conn.open
    BY <2>1, CloseOf
  <2> DEFINE e == Closed(h, d)
  <2>3. k = IF GivesUpReading THEN e
            ELSE [e EXCEPT !.conn = [e.conn EXCEPT !.rfds = e.conn.rfds \cup {c.fd}]]
    BY DEF SendFailed, d
  <2>4. e = [home |-> e.home, conn |-> e.conn]
    BY <2>1 DEF Closed
  <2> HIDE DEF e, k
  <2>5. k.home = [h EXCEPT !.dead = h.dead + 1] /\ k.conn \in ConnType /\ ~k.conn.open
    <3>1. CASE GivesUpReading
      BY <3>1, <2>2, <2>3 DEF e
    <3>2. CASE ~GivesUpReading
      <4> DEFINE g == [e.conn EXCEPT !.rfds = e.conn.rfds \cup {c.fd}]
      <4>1. g \in ConnType /\ ~g.open
        BY <2>2 DEF e, ConnType
      <4> HIDE DEF g
      <4>2. k.home = e.home /\ k.conn = g
        BY <3>2, <2>3, <2>4 DEF g
      <4> QED
        BY <4>1, <4>2, <2>2 DEF e
    <3> QED
      BY <3>1, <3>2
  <2>6. \/ out = [home |-> h, conn |-> c, owed |-> IF prompt' THEN o \cup {0} ELSE {}]
        \/ out = [home |-> k.home, conn |-> k.conn, owed |-> {}]
    BY <1>2 DEF p2pclient_write, k
  <2> QED
    BY <1>2, <2>5, <2>6 DEF Written
<1> QED
  BY <1>1, <1>2 DEF ConnType

-----------------------------------------------------------------------------
LEMMA Inits == Init => IInv
<1> SUFFICES ASSUME Init PROVE IInv
  OBVIOUS
<1>1. PICK f \in Fd : conn = [open |-> TRUE, fd |-> f, binitsess |-> FALSE,
                              want_read |-> TRUE, rfds |-> {f}]
  BY DEF Init
<1>2. program \in Programs /\ program \in {"frontsvr", "monitor", "bdsvr", "bdjob"}
  BY ProgramsAssumption DEF Init
<1>3. Silence[program] \in Nat
  BY <1>2 DEF Silence
<1>4. home \in HomeType /\ owed = {0} /\ prompt = TRUE /\ pc = "mio"
  BY DEF Init, HomeType
<1>5. conn \in ConnType /\ conn.open
  BY <1>1 DEF ConnType
<1>6. clock \in ClockType /\ clock.idle = 0 /\ clock.ping = 0
  BY <1>3 DEF Init, ClockType, SaveWait, SweepWait, PingWait
<1>7. TypeOK
  BY <1>2, <1>4, <1>5, <1>6, DelayAssumption DEF TypeOK, HomeType
<1>8. OneHome /\ Places
  BY <1>4, <1>5 DEF Init, OneHome, Places
<1>9. OnTime /\ Heard /\ Spared
  BY <1>4, <1>6 DEF OnTime, Heard, Spared, PingWait
<1> QED
  BY <1>7, <1>8, <1>9 DEF IInv, HInv

(* What the steps of mio_run() and the pings do to the connection: nothing,*)
(* or it is closed; what they do to a closed one leaves it closed.         *)
Touched ==
    \/ home' = home /\ conn' \in ConnType /\ conn'.open = conn.open
    \/ /\ conn.open /\ home' = [home EXCEPT !.dead = home.dead + 1]
       /\ conn' \in ConnType /\ ~conn'.open

LEMMA TouchedHomes ==
    ASSUME HInv, Touched, pc # "clear", pc' \in {"mio", "deads"},
           pc' = "deads" => home' = home
    PROVE  home' \in HomeType /\ OneHome' /\ Places'
  BY DEF HInv, TypeOK, HomeType, Touched, OneHome, Places

LEMMA TickStep ==
    ASSUME IInv, Tick
    PROVE  IInv'
<1>a. /\ TypeOK /\ OneHome /\ Places /\ OnTime /\ Heard /\ Spared /\ clock \in ClockType
      /\ Silence[program] \in Nat /\ Delay \in Nat
  BY SilenceType, DelayAssumption DEF IInv, HInv, TypeOK
<1>1. /\ pc = "mio" /\ pc' = "mio" /\ program' = program /\ home' = home /\ conn' = conn
      /\ clock.turn = 0 /\ clock.ping < PingWait
      /\ prompt' = (prompt /\ PollWorks)
      /\ owed' = IF prompt' THEN {a + 1 : a \in owed} ELSE {}
  BY <1>a DEF Tick, OnTime
<1> DEFINE idle  == AtMost(clock.idle + 1, Silence[program] + 1)
           save  == AtMost(clock.save + 1, SaveWait)
           sweep == AtMost(clock.sweep + 1, SweepWait + 1)
           ping  == AtMost(clock.ping + 1, PingWait)
<1>2. clock' = [clock EXCEPT !.idle = idle, !.save = save, !.sweep = sweep,
                             !.ping = ping, !.turn = 1]
  BY DEF Tick
<1>3. /\ clock.idle \in Nat /\ clock.save \in Nat /\ clock.sweep \in Nat /\ clock.ping \in Nat
  BY <1>a DEF ClockType, SaveWait, SweepWait, PingWait
<1>4. idle \in 0 .. Silence[program] + 1 /\ idle <= clock.idle + 1
  <2>1. PICK n \in Nat : n = Silence[program]
    BY <1>a
  <2> QED
    BY <2>1, <1>3 DEF AtMost
<1>5. save \in 0 .. SaveWait /\ sweep \in 0 .. SweepWait + 1
  BY <1>3 DEF AtMost, SaveWait, SweepWait
<1>p. ping \in 0 .. PingWait /\ ping = clock.ping + 1
  BY <1>1, <1>3 DEF AtMost, PingWait
<1> HIDE DEF idle, save, sweep, ping
<1>k. /\ clock' \in ClockType
      /\ clock'.idle = idle /\ clock'.ping = ping /\ clock'.turn = 1
  <2> DEFINE I == 0 .. Silence[program] + 1
             S == 0 .. SaveWait
             W == 0 .. SweepWait + 1
             P == 0 .. PingWait
  <2>1. ClockType = [idle : I, save : S, sweep : W, ping : P, turn : 0 .. 1, due : BOOLEAN]
    BY DEF ClockType
  <2>2. idle \in I /\ save \in S /\ sweep \in W /\ ping \in P /\ 1 \in 0 .. 1
    BY <1>4, <1>5, <1>p
  <2> HIDE DEF I, S, W, P
  <2> QED
    BY <2>1, <2>2, <1>a, <1>2
<1>i. idle \in Nat
  BY <1>4, <1>a
<1>6. prompt' \in BOOLEAN /\ owed' \subseteq 0 .. Delay
  <2>1. prompt' \in BOOLEAN
    BY <1>1, <1>a DEF TypeOK, PollWorks
  <2>2. ASSUME prompt', NEW a \in owed PROVE a + 1 \in 0 .. Delay
    <3>1. a \in 0 .. Delay /\ a < Delay
      BY <2>2, <1>1, <1>a DEF Tick, TypeOK
    <3> QED
      BY <3>1, <1>a
  <2> QED
    BY <2>1, <2>2, <1>1, <1>a
<1>7. TypeOK'
  BY <1>a, <1>1, <1>k, <1>6 DEF TypeOK, ClockType, ConnType
<1>8. OneHome' /\ Places' /\ Spared' /\ OnTime'
  BY <1>a, <1>1, <1>k DEF OneHome, Places, Spared, OnTime
<1>9. Heard'
  <2> SUFFICES ASSUME prompt', conn.open
               PROVE  IF owed' = {} THEN clock'.idle <= clock'.ping /\ conn.binitsess
                      ELSE \E b \in owed' : clock'.idle <= b + PingWait
    BY <1>1 DEF Heard
  <2>1. prompt /\ owed' = {a + 1 : a \in owed}
    BY <1>1
  <2>2. CASE owed = {}
    <3>1. clock.idle <= clock.ping /\ conn.binitsess /\ owed' = {}
      BY <2>1, <2>2, <1>a DEF Heard
    <3> QED
      BY <3>1, <1>i, <1>3, <1>4, <1>p, <1>k
  <2>3. CASE owed # {}
    <3>1. PICK a \in owed : clock.idle <= a + PingWait
      BY <2>1, <2>3, <1>a DEF Heard
    <3>2. a + 1 \in owed' /\ a \in Nat
      BY <2>1, <1>a DEF TypeOK
    <3>3. clock'.idle <= a + 1 + PingWait
      BY <3>1, <3>2, <1>i, <1>3, <1>4, <1>k DEF PingWait
    <3> QED
      BY <3>2, <3>3
  <2> QED
    BY <2>2, <2>3
<1> QED
  BY <1>7, <1>8, <1>9 DEF IInv, HInv

LEMMA ReadStep ==
    ASSUME TypeOK, Read, program' = program
    PROVE  /\ clock' \in ClockType' /\ clock'.idle = 0
           /\ clock'.ping = clock.ping /\ clock'.turn = clock.turn
<1>1. Silence[program] \in Nat
  BY SilenceType
<1> QED
  BY <1>1 DEF TypeOK, Read, ClockType

LEMMA AnswerStep ==
    ASSUME IInv, Answer
    PROVE  IInv'
<1>a. TypeOK /\ OneHome /\ Places /\ OnTime /\ Heard /\ Spared /\ home \in HomeType
  BY DEF IInv, HInv, TypeOK, HomeType
<1> DEFINE rest == owed \ Oldest(owed)
           c == [conn EXCEPT !.binitsess = TRUE]
<1>1. /\ pc = "mio" /\ pc' = "mio" /\ program' = program /\ prompt' = prompt /\ conn.open /\ Read
  BY DEF Answer
<1>2. /\ clock' \in ClockType' /\ clock'.idle = 0
      /\ clock'.ping = clock.ping /\ clock'.turn = clock.turn
  BY <1>a, <1>1, ReadStep
<1>c. c \in ConnType /\ c.open /\ c.binitsess = TRUE
  BY <1>a, <1>1 DEF TypeOK, ConnType
<1>3. \/ home' = home /\ conn' = c /\ owed' \subseteq rest \cup {0}
      \/ ~prompt /\ home' = home /\ conn' = conn /\ owed' = rest
      \/ /\ home' = [home EXCEPT !.dead = home.dead + 1] /\ conn' \in ConnType /\ ~conn'.open
         /\ owed' = {}
  <2> HIDE DEF c, rest
  <2>1. CASE Becomes([home |-> home, conn |-> c, owed |-> rest])
    BY <2>1 DEF Becomes
  <2>2. CASE \E out \in p2pclient_write(home, c, rest) : Becomes(out)
    <3>1. PICK out \in p2pclient_write(home, c, rest) : Becomes(out)
      BY <2>2
    <3>2. Written(home, c, rest, out)
      BY <3>1, <1>a, <1>c, WriteOf
    <3> QED
      BY <3>1, <3>2, <1>c DEF Written, Becomes
  <2>3. CASE ~prompt /\ Becomes([home |-> home, conn |-> conn, owed |-> rest])
    BY <2>3 DEF Becomes
  <2> QED
    BY <2>1, <2>2, <2>3 DEF Answer, c, rest
<1>4. owed' \subseteq 0 .. Delay
  BY <1>3, <1>a, DelayAssumption DEF TypeOK
<1>5. Touched
  BY <1>1, <1>3, <1>a, <1>c DEF Touched, TypeOK
<1>6. home' \in HomeType /\ OneHome' /\ Places'
  BY <1>1, <1>5, TouchedHomes DEF IInv
<1>7. TypeOK'
  BY <1>a, <1>1, <1>2, <1>3, <1>4, <1>6, <1>c DEF TypeOK, HomeType
<1>8. OnTime' /\ Spared'
  BY <1>a, <1>1, <1>2 DEF OnTime, Spared
<1>9. Heard'
  <2> SUFFICES ASSUME prompt', conn'.open
               PROVE  IF owed' = {} THEN clock'.idle <= clock'.ping /\ conn'.binitsess
                      ELSE \E b \in owed' : clock'.idle <= b + PingWait
    BY DEF Heard
  <2>1. conn'.binitsess = TRUE
    BY <1>1, <1>3, <1>c
  <2>2. clock.ping \in Nat /\ owed' \subseteq Nat
    BY <1>a, <1>4, DelayAssumption DEF TypeOK, ClockType, PingWait
  <2> QED
    BY <2>1, <2>2, <1>2 DEF PingWait
<1> QED
  BY <1>6, <1>7, <1>8, <1>9 DEF IInv, HInv

(* A step that closes the connection leaves nothing to be heard.           *)
LEMMA ClosingStep ==
    ASSUME IInv, Touched, ~conn'.open, pc = "mio", pc' = "mio", program' = program,
           prompt' \in BOOLEAN, owed' \subseteq 0 .. Delay,
           clock' \in ClockType', clock'.ping = clock.ping, clock'.turn = clock.turn
    PROVE  IInv'
<1>a. TypeOK /\ OneHome /\ Places /\ OnTime
  BY DEF IInv, HInv
<1>1. home' \in HomeType /\ OneHome' /\ Places'
  BY TouchedHomes DEF IInv
<1>2. TypeOK'
  BY <1>a, <1>1 DEF TypeOK, HomeType, ConnType, Touched
<1>3. OnTime' /\ Heard' /\ Spared'
  BY <1>a DEF OnTime, Heard, Spared
<1> QED
  BY <1>1, <1>2, <1>3 DEF IInv, HInv

LEMMA RejectStep ==
    ASSUME IInv, Reject
    PROVE  IInv'
<1>1. /\ TypeOK /\ home \in HomeType /\ conn \in ConnType /\ conn.open /\ prompt \in BOOLEAN
      /\ pc = "mio" /\ pc' = "mio" /\ program' = program /\ prompt' = prompt /\ owed' = {} /\ Read
  BY DEF IInv, HInv, TypeOK, HomeType, Reject
<1>2. /\ clock' \in ClockType' /\ clock'.ping = clock.ping /\ clock'.turn = clock.turn
  BY <1>1, ReadStep
<1> DEFINE k == Closed(home, conn)
<1>3. /\ k.home = [home EXCEPT !.dead = home.dead + 1]
      /\ k.conn \in ConnType /\ ~k.conn.open
  BY <1>1, CloseOf
<1>4. /\ home' = k.home
      /\ conn' = [k.conn EXCEPT !.rfds = k.conn.rfds \cup {f \in {conn.fd} : conn.want_read}]
  BY DEF Reject
<1> HIDE DEF k
<1>5. conn' \in ConnType /\ ~conn'.open
  BY <1>1, <1>3, <1>4 DEF ConnType
<1>6. Touched
  BY <1>1, <1>3, <1>4, <1>5 DEF Touched
<1> QED
  BY <1>1, <1>2, <1>5, <1>6, ClosingStep

LEMMA PeerClosesStep ==
    ASSUME IInv, PeerCloses
    PROVE  IInv'
<1>1. /\ TypeOK /\ home \in HomeType /\ conn \in ConnType /\ conn.open /\ prompt \in BOOLEAN
      /\ pc = "mio" /\ pc' = "mio" /\ program' = program /\ prompt' = prompt /\ owed' = {} /\ Read
  BY DEF IInv, HInv, TypeOK, HomeType, PeerCloses
<1>2. /\ clock' \in ClockType' /\ clock'.ping = clock.ping /\ clock'.turn = clock.turn
  BY <1>1, ReadStep
<1>3. Touched /\ ~conn'.open
  BY <1>1, CloseOf DEF PeerCloses, Touched
<1> QED
  BY <1>1, <1>2, <1>3, ClosingStep

LEMMA ForwardStep ==
    ASSUME IInv, Forward
    PROVE  IInv'
<1>1. /\ TypeOK /\ home \in HomeType /\ conn \in ConnType /\ prompt \in BOOLEAN
      /\ pc = "mio" /\ pc' = "mio" /\ program' = program /\ prompt' = prompt /\ clock' = clock
  BY DEF IInv, HInv, TypeOK, HomeType, Forward
<1>2. PICK out \in p2pclient_write(home, conn, owed) :
         Becomes([out EXCEPT !.owed = IF out.conn.open THEN owed ELSE {}])
  BY DEF Forward
<1>3. Written(home, conn, owed, out)
  BY <1>1, <1>2, WriteOf
<1>4. out = [home |-> out.home, conn |-> out.conn, owed |-> out.owed]
  BY <1>2 DEF p2pclient_write
<1>5. home' = out.home /\ conn' = out.conn /\ owed' = IF out.conn.open THEN owed ELSE {}
  BY <1>2, <1>4 DEF Becomes
<1>6. CASE conn' = conn /\ home' = home /\ conn.open
  BY <1>1, <1>5, <1>6 DEF IInv, HInv, TypeOK, ClockType, ConnType, OneHome, Places, OnTime, Heard, Spared
<1>7. CASE conn' = conn /\ home' = home /\ ~conn.open
  <2>1. Touched
    BY <1>1, <1>7 DEF Touched
  <2> QED
    BY <2>1, <1>1, <1>5, <1>7, ClosingStep DEF TypeOK, ClockType
<1>8. CASE Touched /\ ~conn'.open /\ conn.open
  BY <1>1, <1>5, <1>8, ClosingStep DEF TypeOK, ClockType
<1> QED
  BY <1>3, <1>5, <1>6, <1>7, <1>8 DEF Written, Touched

LEMMA GoSilentStep ==
    ASSUME IInv, GoSilent
    PROVE  IInv'
  BY DEF IInv, HInv, GoSilent, TypeOK, ClockType, ConnType, OneHome, Places, OnTime, Heard, Spared

LEMMA MioRunReturnsStep ==
    ASSUME IInv, MioRunReturns
    PROVE  IInv'
  BY DEF IInv, HInv, MioRunReturns, TypeOK, ClockType, ConnType, OneHome, Places, OnTime, Heard, Spared

LEMMA ClearDeadsStep ==
    ASSUME IInv, clear_deads_from_lives
    PROVE  IInv'
<1>a. /\ TypeOK /\ OneHome /\ Places /\ OnTime /\ Heard /\ Spared /\ home \in HomeType
      /\ pc = "deads"
  BY DEF IInv, HInv, TypeOK, HomeType, clear_deads_from_lives
<1>1. /\ pc' = "save" /\ program' = program /\ conn' = conn /\ clock' = clock
      /\ prompt' = prompt /\ owed' = owed
      /\ home' = IF home.dead > 0 THEN [home EXCEPT !.lives = 0] ELSE home
  BY DEF clear_deads_from_lives
<1>2. /\ home' \in HomeType /\ home'.zombies = home.zombies /\ home'.dead = home.dead
      /\ home'.lives = IF home.dead > 0 THEN 0 ELSE home.lives
  BY <1>a, <1>1 DEF HomeType
<1>3. TypeOK'
  BY <1>a, <1>1, <1>2 DEF TypeOK, HomeType, ClockType, ConnType
<1>4. OneHome' /\ Places'
  BY <1>a, <1>1, <1>2 DEF OneHome, Places
<1>5. OnTime' /\ Heard' /\ Spared'
  BY <1>a, <1>1 DEF OnTime, Heard, Spared
<1> QED
  BY <1>3, <1>4, <1>5 DEF IInv, HInv

(* Two clocks are set back.                                                *)
LEMMA ClockReset ==
    ASSUME TypeOK, program' = program, NEW i \in {clock.idle, 0},
           clock' = [clock EXCEPT !.save = 0, !.idle = i]
    PROVE  clock' \in ClockType' /\ clock'.idle = i /\ clock'.ping = clock.ping
<1> DEFINE I == 0 .. Silence[program] + 1
           S == 0 .. SaveWait
           W == 0 .. SweepWait + 1
           P == 0 .. PingWait
<1>1. /\ ClockType = [idle : I, save : S, sweep : W, ping : P, turn : 0 .. 1, due : BOOLEAN]
      /\ ClockType' = ClockType
  BY DEF ClockType
<1>2. Silence[program] \in Nat /\ clock \in ClockType
  BY SilenceType DEF TypeOK
<1>3. 0 \in I /\ 0 \in S
  BY <1>2 DEF SaveWait
<1> HIDE DEF I, S, W, P
<1> QED
  BY <1>1, <1>2, <1>3

LEMMA SaveStep ==
    ASSUME IInv, _save_deadsession
    PROVE  IInv'
<1>a. /\ TypeOK /\ OneHome /\ Places /\ Heard /\ home \in HomeType /\ conn \in ConnType
      /\ clock \in ClockType /\ Silence[program] \in Nat
      /\ pc = "save" /\ program' = program /\ pc' \in {"sweep", "ping"}
  BY SilenceType DEF IInv, HInv, TypeOK, HomeType, _save_deadsession
<1>t. OnTime' /\ Spared'
  BY <1>a DEF OnTime, Spared
<1>1. CASE UNCHANGED <<home, conn, owed, prompt>> /\ clock' \in {clock, [clock EXCEPT !.save = 0]}
  <2>1. clock' \in ClockType' /\ clock'.idle = clock.idle /\ clock'.ping = clock.ping
    BY <1>a, <1>1 DEF ClockType, SaveWait
  <2>2. TypeOK'
    BY <1>a, <1>1, <2>1 DEF TypeOK, ConnType
  <2>3. OneHome' /\ Places' /\ Heard'
    BY <1>a, <1>1, <2>1 DEF OneHome, Places, Heard, HomeType
  <2> QED
    BY <1>t, <2>2, <2>3 DEF IInv, HInv
<1>2. CASE home.dead # 0 /\ p2pclient_connect
  <2>1. ~conn.open /\ home.lives = 0 /\ home.zombies = 0 /\ home.dead = 1
    BY <1>a, <1>2 DEF OneHome, Places, HomeType
  <2>2. CASE /\ conn' = [conn EXCEPT !.binitsess = FALSE]
             /\ home' = home /\ owed' = {} /\ prompt' = prompt
             /\ clock' = [clock EXCEPT !.save = 0]
    <3>1. /\ clock' \in ClockType' /\ clock'.idle = clock.idle /\ clock'.ping = clock.ping
          /\ conn' \in ConnType /\ ~conn'.open
      <4>1. clock' = [clock EXCEPT !.save = 0, !.idle = clock.idle]
        BY <1>a, <2>2 DEF ClockType
      <4>2. conn' \in ConnType /\ ~conn'.open
        BY <1>a, <2>1, <2>2 DEF ConnType
      <4> QED
        BY <1>a, <4>1, <4>2, ClockReset
    <3>2. TypeOK'
      BY <1>a, <2>2, <3>1 DEF TypeOK, ConnType
    <3>3. OneHome' /\ Places' /\ Heard'
      BY <1>a, <2>1, <2>2, <3>1 DEF OneHome, Places, Heard
    <3> QED
      BY <1>t, <3>2, <3>3 DEF IInv, HInv
  <2>3. CASE /\ prompt' \in BOOLEAN
             /\ \E f \in Fd :
                   \E out \in p2pclient_write([home EXCEPT !.lives = home.lives + 1,
                                                           !.dead = home.dead - 1],
                                              Connected(f), {}) : Becomes(out)
             /\ clock' = [clock EXCEPT !.save = 0, !.idle = 0]
    <3> DEFINE h == [home EXCEPT !.lives = home.lives + 1, !.dead = home.dead - 1]
    <3>0. PICK f \in Fd : \E out \in p2pclient_write(h, Connected(f), {}) : Becomes(out)
      BY <2>3
    <3>1. PICK out \in p2pclient_write(h, Connected(f), {}) : Becomes(out)
      BY <3>0
    <3>2. h \in HomeType /\ h.lives = 1 /\ h.zombies = 0 /\ h.dead = 0
      <4>1. h = [home EXCEPT !.lives = 1, !.dead = 0]
        BY <2>1
      <4> QED
        BY <4>1, <1>a, <2>1 DEF HomeType
    <3>3. Connected(f) \in ConnType /\ Connected(f).open
      BY <1>a DEF Connected, ConnType
    <3> HIDE DEF h
    <3>4. Written(h, Connected(f), {}, out)
      BY <3>1, <3>2, <3>3, WriteOf
    <3>5. /\ clock' \in ClockType' /\ clock'.idle = 0 /\ clock'.ping = clock.ping
      BY <1>a, <2>3, ClockReset
    <3>6. \/ home' = h /\ conn' = Connected(f) /\ owed' = IF prompt' THEN {0} ELSE {}
          \/ /\ home' = [h EXCEPT !.dead = h.dead + 1]
             /\ conn' \in ConnType /\ ~conn'.open /\ owed' = {}
      BY <3>1, <3>3, <3>4 DEF Written, Becomes
    <3>7. home' \in HomeType /\ conn' \in ConnType /\ owed' \subseteq 0 .. Delay
      BY <3>2, <3>3, <3>6, DelayAssumption DEF HomeType
    <3>8. TypeOK'
      BY <1>a, <2>3, <3>5, <3>7 DEF TypeOK, HomeType, ConnType
    <3>9. OneHome' /\ Places'
      BY <1>a, <3>2, <3>3, <3>5, <3>6 DEF OneHome, Places, HomeType
    <3>10. Heard'
      BY <3>3, <3>5, <3>6 DEF Heard, PingWait
    <3> QED
      BY <1>t, <3>8, <3>9, <3>10 DEF IInv, HInv
  <2> QED
    BY <1>2, <2>2, <2>3 DEF p2pclient_connect
<1> QED
  BY <1>1, <1>2 DEF _save_deadsession

LEMMA RemoveZombieStep ==
    ASSUME IInv, remove_zombie_from_lives
    PROVE  IInv'
<1>a. /\ TypeOK /\ OneHome /\ Places /\ Heard /\ home \in HomeType /\ conn \in ConnType
      /\ clock.idle \in Nat /\ clock.ping \in 0 .. PingWait /\ Silence[program] \in Nat
      /\ owed \subseteq 0 .. Delay /\ Delay \in Nat /\ program \in Programs /\ pc = "sweep"
  BY SilenceType, DelayAssumption DEF IInv, HInv, TypeOK, HomeType, ClockType, remove_zombie_from_lives
<1>1. /\ pc' = "clear" /\ program' = program /\ conn' = conn /\ clock' = clock
      /\ prompt' = prompt /\ owed' = owed
      /\ home' = IF check_zombie /\ home.lives > 0
                 THEN [home EXCEPT !.lives = home.lives - 1, !.zombies = home.zombies + 1]
                 ELSE home
  BY DEF remove_zombie_from_lives
<1>2. OnTime' /\ Heard'
  BY <1>a, <1>1 DEF OnTime, Heard
<1>3. CASE ~(check_zombie /\ home.lives > 0)
  <2>1. home' = home
    BY <1>1, <1>3
  <2>2. TypeOK' /\ OneHome'
    BY <1>a, <1>1, <2>1 DEF TypeOK, ClockType, OneHome
  <2>3. home.zombies = 0
    BY <1>a DEF Places, HomeType
  <2>4. Places' /\ Spared'
    BY <1>1, <2>1, <2>3 DEF Places, Spared
  <2> QED
    BY <1>2, <2>2, <2>4 DEF IInv, HInv
<1>4. CASE check_zombie /\ home.lives > 0
  <2>1. clock.idle > Silence[program]
    BY <1>4 DEF check_zombie
  <2>2. conn.open
    BY <1>a, <1>4, <2>1 DEF Places
  <2>3. home.lives = 1 /\ home.zombies = 0 /\ home.dead = 0
    BY <1>a, <1>4, <2>2 DEF OneHome, HomeType
  <2>4. home' = [home EXCEPT !.lives = 0, !.zombies = 1]
    BY <1>1, <1>4, <2>3
  <2>5. home' \in HomeType /\ home'.lives = 0 /\ home'.zombies = 1 /\ home'.dead = 0
    BY <1>a, <2>3, <2>4 DEF HomeType
  <2>6. TypeOK' /\ OneHome' /\ Places'
    BY <1>a, <1>1, <2>2, <2>5 DEF TypeOK, ClockType, HomeType, OneHome, Places
  <2>7. ~(InTime /\ prompt)
    <3> SUFFICES ASSUME InTime, prompt PROVE FALSE
      OBVIOUS
    <3>1. Delay + PingWait <= Silence[program]
      BY <1>a DEF InTime
    <3>2. CASE owed = {}
      <4>1. clock.idle <= clock.ping
        BY <1>a, <2>2, <3>2 DEF Heard
      <4> QED
        BY <1>a, <2>1, <3>1, <4>1 DEF PingWait
    <3>3. CASE owed # {}
      <4>1. PICK a \in owed : clock.idle <= a + PingWait
        BY <1>a, <2>2, <3>3 DEF Heard
      <4>2. a \in 0 .. Delay
        BY <1>a
      <4> QED
        BY <1>a, <2>1, <3>1, <4>1, <4>2 DEF PingWait
    <3> QED
      BY <3>2, <3>3
  <2>8. Spared'
    BY <1>1, <2>7 DEF Spared
  <2> QED
    BY <1>2, <2>6, <2>8 DEF IInv, HInv
<1> QED
  BY <1>3, <1>4

LEMMA ClearZombiesStep ==
    ASSUME Sweeping, IInv, clear_zombies
    PROVE  IInv'
<1>a. /\ TypeOK /\ OneHome /\ Heard /\ home \in HomeType /\ conn \in ConnType
      /\ clock \in ClockType /\ Silence[program] \in Nat
      /\ program # "bdjob" /\ pc = "clear"
  BY SilenceType DEF IInv, HInv, TypeOK, HomeType, Sweeping, clear_zombies
<1>1. /\ pc' = "ping" /\ program' = program /\ prompt' = prompt
      /\ clock' = [clock EXCEPT !.sweep = clock.turn]
      /\ IF home.zombies > 0
         THEN /\ home' = Closed([home EXCEPT !.zombies = home.zombies - 1], conn).home
              /\ conn' = Closed([home EXCEPT !.zombies = home.zombies - 1], conn).conn
              /\ owed' = {}
         ELSE UNCHANGED <<home, conn, owed>>
  BY <1>a DEF clear_zombies, ZombieCount
<1>2. clock' \in ClockType' /\ clock'.idle = clock.idle /\ clock'.ping = clock.ping
  <2>1. clock.turn \in 0 .. SweepWait + 1
    BY <1>a DEF ClockType, SweepWait
  <2>2. ClockType' = ClockType
    BY <1>1 DEF ClockType
  <2> QED
    BY <1>a, <1>1, <2>1, <2>2 DEF ClockType
<1>3. OnTime' /\ Spared'
  BY <1>1 DEF OnTime, Spared
<1>4. CASE ~(home.zombies > 0)
  <2>1. TypeOK' /\ OneHome' /\ Places' /\ Heard'
    BY <1>a, <1>1, <1>2, <1>4 DEF TypeOK, ConnType, OneHome, Places, Heard
  <2> QED
    BY <1>3, <2>1 DEF IInv, HInv
<1>5. CASE home.zombies > 0
  <2> DEFINE h == [home EXCEPT !.zombies = home.zombies - 1]
  <2>1. conn.open /\ home.lives = 0 /\ home.zombies = 1 /\ home.dead = 0
    BY <1>a, <1>5 DEF OneHome, HomeType
  <2>2. h \in HomeType /\ h.lives = 0 /\ h.zombies = 0 /\ h.dead = 0
    <3>1. h = [home EXCEPT !.zombies = 0]
      BY <2>1
    <3> QED
      BY <3>1, <1>a, <2>1 DEF HomeType
  <2>3. home' = Closed(h, conn).home /\ conn' = Closed(h, conn).conn /\ owed' = {}
    BY <1>1, <1>5
  <2> HIDE DEF h
  <2>4. home' = [h EXCEPT !.dead = h.dead + 1] /\ conn' \in ConnType /\ ~conn'.open
    BY <1>a, <2>1, <2>2, <2>3, CloseOf
  <2>5. home' = [h EXCEPT !.dead = 1]
    BY <2>2, <2>4
  <2>6. home' \in HomeType /\ home'.lives = 0 /\ home'.zombies = 0 /\ home'.dead = 1
    BY <2>2, <2>5 DEF HomeType
  <2>7. TypeOK' /\ OneHome' /\ Places' /\ Heard'
    BY <1>a, <1>1, <1>2, <2>3, <2>4, <2>6 DEF TypeOK, HomeType, ConnType, OneHome, Places, Heard
  <2> QED
    BY <1>3, <2>7 DEF IInv, HInv
<1> QED
  BY <1>4, <1>5

LEMMA PingStep ==
    ASSUME IInv, _pingsession
    PROVE  IInv'
<1>a. /\ TypeOK /\ OneHome /\ Places /\ Heard /\ home \in HomeType /\ conn \in ConnType
      /\ clock \in ClockType /\ Silence[program] \in Nat /\ Delay \in Nat
      /\ owed \subseteq 0 .. Delay /\ prompt \in BOOLEAN
      /\ pc = "ping" /\ pc' = "mio" /\ program' = program /\ prompt' = prompt
  BY SilenceType, DelayAssumption DEF IInv, HInv, TypeOK, HomeType, _pingsession
<1> DEFINE ping == clock.ping >= PingWait
           p    == IF ping THEN 0 ELSE clock.ping
           due  == clock.sweep > SweepWait
<1>1. clock' = [clock EXCEPT !.ping = p, !.turn = 0, !.due = due]
  BY DEF _pingsession
<1>2. /\ clock.ping \in 0 .. PingWait /\ clock.idle \in Nat /\ p \in 0 .. PingWait - 1
      /\ due \in BOOLEAN /\ p \in 0 .. PingWait
      /\ (~ping => p = clock.ping) /\ (ping => clock.ping = PingWait)
  BY <1>a DEF ClockType, PingWait, SweepWait
<1>3. IF ping /\ home.lives > 0 /\ conn.binitsess
      THEN \E out \in p2pclient_write(home, conn, owed) : Becomes(out)
      ELSE UNCHANGED <<home, conn, owed>>
  BY DEF _pingsession
<1> HIDE DEF p, due, ping
<1>4. clock' \in ClockType' /\ clock'.idle = clock.idle /\ clock'.ping = p /\ clock'.turn = 0
  <2>1. ClockType' = ClockType /\ 0 \in 0 .. 1
    BY <1>a DEF ClockType
  <2> QED
    BY <1>a, <1>1, <1>2, <2>1 DEF ClockType
<1>5. OnTime' /\ Spared'
  BY <1>a, <1>2, <1>4 DEF OnTime, Spared, PingWait
<1>6. CASE ping /\ home.lives > 0 /\ conn.binitsess
  <2>1. PICK out \in p2pclient_write(home, conn, owed) : Becomes(out)
    BY <1>3, <1>6
  <2>2. Written(home, conn, owed, out)
    BY <1>a, <2>1, WriteOf
  <2>3. Touched /\ owed' \subseteq 0 .. Delay
    BY <1>a, <2>1, <2>2 DEF Written, Becomes, Touched
  <2>4. home' \in HomeType /\ OneHome' /\ Places'
    BY <1>a, <2>3, TouchedHomes DEF IInv
  <2>5. TypeOK'
    BY <1>a, <1>4, <2>3, <2>4 DEF TypeOK, HomeType, ConnType, Touched
  <2>6. Heard'
    <3> SUFFICES ASSUME prompt, conn'.open
                 PROVE  IF owed' = {} THEN clock'.idle <= clock'.ping /\ conn'.binitsess
                        ELSE \E a \in owed' : clock'.idle <= a + PingWait
      BY <1>a DEF Heard
    <3>1. conn.open /\ owed' = owed \cup {0}
      BY <1>a, <2>1, <2>2 DEF Written, Becomes
    <3>2. CASE owed = {}
      <4>1. clock.idle <= clock.ping
        BY <1>a, <3>1, <3>2 DEF Heard
      <4> QED
        BY <1>2, <1>4, <3>1, <4>1 DEF PingWait
    <3>3. CASE owed # {}
      <4>1. PICK a \in owed : clock.idle <= a + PingWait
        BY <1>a, <3>1, <3>3 DEF Heard
      <4> QED
        BY <1>4, <3>1, <4>1
    <3> QED
      BY <3>2, <3>3
  <2> QED
    BY <1>5, <2>4, <2>5, <2>6 DEF IInv, HInv
<1>7. CASE ~(ping /\ home.lives > 0 /\ conn.binitsess)
  <2>1. home' = home /\ conn' = conn /\ owed' = owed
    BY <1>3, <1>7
  <2>2. TypeOK' /\ OneHome' /\ Places'
    BY <1>a, <1>4, <2>1 DEF TypeOK, ConnType, OneHome, Places
  <2>3. Heard'
    <3>1. CASE owed = {} /\ prompt /\ conn.open
      <4>1. home.lives > 0 /\ conn.binitsess /\ clock.idle <= clock.ping
        BY <1>a, <3>1 DEF OneHome, Places, Heard, HomeType
      <4>2. ~ping
        BY <1>7, <4>1
      <4> QED
        BY <1>2, <1>4, <2>1, <3>1, <4>1, <4>2 DEF Heard
    <3>2. CASE ~(owed = {} /\ prompt /\ conn.open)
      BY <1>a, <1>4, <2>1, <3>2 DEF Heard
    <3> QED
      BY <3>1, <3>2
  <2> QED
    BY <1>5, <2>2, <2>3 DEF IInv, HInv
<1> QED
  BY <1>6, <1>7

-----------------------------------------------------------------------------
LEMMA Steps ==
    ASSUME Sweeping
    PROVE  IInv /\ [Next]_vars => IInv'
<1> SUFFICES ASSUME IInv, [Next]_vars PROVE IInv'
  OBVIOUS
<1>1. CASE Handler
  BY <1>1, TickStep, AnswerStep, RejectStep, PeerClosesStep, ForwardStep DEF Handler
<1>2. CASE GoSilent
  BY <1>2, GoSilentStep
<1>3. CASE Housekeeping
  BY <1>3, MioRunReturnsStep, ClearDeadsStep, SaveStep, RemoveZombieStep, ClearZombiesStep,
     PingStep DEF Housekeeping
<1>4. CASE UNCHANGED vars
  BY <1>4 DEF vars, IInv, HInv, TypeOK, ClockType, ConnType, OneHome, Places, OnTime, Heard, Spared
<1> QED
  BY <1>1, <1>2, <1>3, <1>4 DEF Next

LEMMA Invariance ==
    ASSUME Sweeping
    PROVE  Spec => []IInv
  BY Inits, Steps, PTL DEF Spec

(* The variables of a client connection keep their types: the session is   *)
(* never twice in one of the three queues, the clocks stay in their        *)
(* bounds, and the poll set holds descriptors.                             *)
THEOREM TypeCorrect ==
    ASSUME Sweeping
    PROVE  Spec => []TypeOK
<1>1. IInv => TypeOK
  BY DEF IInv, HInv
<1> QED
  BY <1>1, Invariance, PTL

(* An open connection's session is in exactly one of session_que and       *)
(* zombie_que, a closed one's in dead_sess and in no zombie_que: however   *)
(* reads, failed sends, sweeps, renewals and refusals follow one another,  *)
(* no session is lost to the timers and none is closed twice.              *)
THEOREM OneHomeHolds ==
    ASSUME Sweeping
    PROVE  Spec => []OneHome
<1>1. IInv => OneHome
  BY DEF IInv, HInv
<1> QED
  BY <1>1, Invariance, PTL

(* The sweep never closes the connection of a peer that answers within     *)
(* Delay seconds, for every program whose limit on silence is at least     *)
(* Delay + PingWait: 5 seconds for bdsvr, 8 for monitor, 18 for frontsvr.  *)
THEOREM PromptKeptHolds ==
    ASSUME Sweeping, InTime
    PROVE  Spec => PromptKept
<1>1. ASSUME IInv, [Next]_vars, pc = "clear", conn.open, prompt
      PROVE  conn'.open
  <2>1. home.zombies = 0
    BY <1>1 DEF IInv, Spared
  <2>2. CASE clear_zombies
    BY <1>1, <2>1, <2>2 DEF clear_zombies
  <2>3. CASE GoSilent
    BY <1>1, <2>3 DEF GoSilent
  <2>4. CASE UNCHANGED vars
    BY <1>1, <2>4 DEF vars
  <2> QED
    BY <1>1, <2>2, <2>3, <2>4 DEF Next, Handler, Housekeeping, Tick, Answer, Reject, PeerCloses,
       Forward, MioRunReturns, clear_deads_from_lives, _save_deadsession,
       remove_zombie_from_lives, _pingsession
<1>2. IInv /\ [Next]_vars => [pc = "clear" /\ conn.open /\ prompt => conn'.open]_vars
  BY <1>1
<1> QED
  BY <1>2, Invariance, PTL DEF Spec, PromptKept
=============================================================================
