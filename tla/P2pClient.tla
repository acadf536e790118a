----------------------------- MODULE P2pClient -----------------------------
(***************************************************************************)
(* The client connection of a program: frontsvr's to warnsvr, monitor's    *)
(* and bdsvr's to frontsvr, bdjob's to bdsvr.  The session (p2pclient_st)  *)
(* lives as long as the program; its connection is opened, initialised,    *)
(* pinged, found silent, closed and renewed.  Time is counted in seconds;  *)
(* mio_run() takes none or one of them.                                    *)
(***************************************************************************)
EXTENDS Naturals, FiniteSets

CONSTANTS
    Programs,   \* the programs considered
    Fd,         \* socket numbers
    Delay,      \* a prompt peer answers within Delay seconds
    SendFails   \* send() may fail

ASSUME ProgramsAssumption == Programs \subseteq {"frontsvr", "monitor", "bdsvr", "bdjob"}
ASSUME FdAssumption == Fd # {}
ASSUME DelayAssumption == Delay \in Nat
ASSUME FaultAssumption == SendFails \in BOOLEAN

VARIABLES
    program,
    pc,         \* place in the loop of main()
    home,       \* how often the session is in each of the three queues
    conn,       \* the connection, see ConnType
    clock,      \* seconds since certain events, see ClockType
    prompt,     \* the peer has answered every request within Delay seconds
    owed        \* ages of the requests a prompt peer has not answered yet

vars == <<program, pc, home, conn, clock, prompt, owed>>

(* The waits in seconds: check_zombie(), and the arguments in main().      *)
Silence == [frontsvr |-> 20, monitor |-> 10, bdsvr |-> 7, bdjob |-> 7]
SaveWait  == 7
SweepWait == 2
PingWait  == 2

ConnType == [open      : BOOLEAN,
             fd        : Fd,
             binitsess : BOOLEAN,
             want_read : BOOLEAN,
             rfds      : SUBSET Fd]   \* what select() is given

ClockType == [idle  : 0 .. Silence[program] + 1,  \* since last_activity
              save  : 0 .. SaveWait,              \* since the last rounds of
              sweep : 0 .. SweepWait + 1,         \* the housekeeping functions
              ping  : 0 .. PingWait,
              turn  : 0 .. 1,                     \* since `now` was taken
              due   : BOOLEAN]                    \* this turn will sweep

TypeOK ==
    /\ program \in Programs
    /\ pc \in {"mio", "deads", "save", "sweep", "clear", "ping"}
    /\ home \in [lives : 0 .. 1, zombies : 0 .. 1, dead : 0 .. 1]
    /\ conn \in ConnType
    /\ clock \in ClockType
    /\ prompt \in BOOLEAN
    /\ owed \subseteq 0 .. Delay

PollWorks == conn.rfds \subseteq (IF conn.open THEN {conn.fd} ELSE {})

(* main() leaves when its first connect fails, so that it starts open with *)
(* initsession on its way.                                                 *)
Init ==
    /\ program \in Programs
    /\ pc = "mio"
    /\ home = [lives |-> 1, zombies |-> 0, dead |-> 0]
    /\ \E f \in Fd : conn = [open |-> TRUE, fd |-> f, binitsess |-> FALSE,
                             want_read |-> TRUE, rfds |-> {f}]
    /\ clock = [idle |-> 0, save |-> 0, sweep |-> 0, ping |-> 0, turn |-> 0, due |-> FALSE]
    /\ prompt = TRUE
    /\ owed = {0}

-----------------------------------------------------------------------------
AtMost(n, bound) == IF n > bound THEN bound ELSE n

(* mio_close() and the CLOSE handler.                                      *)
Closed(h, c) ==
    IF ~c.open THEN [home |-> h, conn |-> c]
    ELSE [home |-> [h EXCEPT !.dead = h.dead + 1],
          conn |-> [c EXCEPT !.open = FALSE, !.rfds = c.rfds \ {c.fd}]]

GivesUpReading == program \in {"frontsvr", "monitor"}

(* send() fails: _p2pclient_can_write() closes the connection, and then    *)
(* p2pclient_write() asks mio to read from it if want_read is still set;   *)
(* frontsvr and monitor have reset it by then, bdsvr and bdjob have not.   *)
SendFailed(h, c) ==
    LET k == Closed(h, [c EXCEPT !.want_read = ~GivesUpReading])
    IN  IF GivesUpReading THEN k
        ELSE [k EXCEPT !.conn = [k.conn EXCEPT !.rfds = k.conn.rfds \cup {c.fd}]]

(* Outcomes of p2pclient_write(): home, connection, and what the peer owes.*)
(* A closed connection has no queue (wbufq) to put the packet in.          *)
p2pclient_write(h, c, o) ==
    IF ~c.open THEN {[home |-> h, conn |-> c, owed |-> o]}
    ELSE {[home |-> h, conn |-> c, owed |-> IF prompt' THEN o \cup {0} ELSE {}]}
         \cup (IF SendFails
               THEN {[home |-> SendFailed(h, c).home, conn |-> SendFailed(h, c).conn,
                      owed |-> {}]}
               ELSE {})

Becomes(out) == home' = out.home /\ conn' = out.conn /\ owed' = out.owed

-----------------------------------------------------------------------------
(* mio_run(): select() waits a second, or returns at once, and the handler *)
(* of a descriptor is called.                                              *)
Tick ==
    /\ pc = "mio"
    /\ clock.turn = 0
    /\ prompt /\ PollWorks => \A a \in owed : a < Delay
    /\ clock' = [clock EXCEPT !.idle  = AtMost(@ + 1, Silence[program] + 1),
                              !.save  = AtMost(@ + 1, SaveWait),
                              !.sweep = AtMost(@ + 1, SweepWait + 1),
                              !.ping  = AtMost(@ + 1, PingWait),
                              !.turn  = 1]
    /\ prompt' = (prompt /\ PollWorks)
    /\ owed' = IF prompt' THEN {a + 1 : a \in owed} ELSE {}
    /\ UNCHANGED <<program, pc, home, conn>>

Oldest(ages) == {a \in ages : \A b \in ages : b <= a}

(* Mutant: the reader forgets to note the time.                            *)
Read_NotNoted == clock' = clock

(* on_read_action() notes the time, whatever arrives.                      *)
Read == clock' = [clock EXCEPT !.idle = 0]

(* The peer answers.  The first answer is the initack: it permits pings,   *)
(* and auth is sent (but not by bdjob).  An initack that does not parse, or*)
(* has no role, changes nothing; a prompt peer sends none such.            *)
Answer ==
    /\ pc = "mio" /\ conn.open /\ PollWorks
    /\ prompt => owed # {}
    /\ prompt' = prompt
    /\ LET rest == owed \ Oldest(owed)
           c == [conn EXCEPT !.binitsess = TRUE]
       IN  \/ /\ conn.binitsess \/ program = "bdjob"
              /\ Becomes([home |-> home, conn |-> c, owed |-> rest])
           \/ /\ ~conn.binitsess /\ program # "bdjob"
              /\ \E out \in p2pclient_write(home, c, rest) : Becomes(out)
           \/ /\ ~prompt
              /\ Becomes([home |-> home, conn |-> conn, owed |-> rest])
    /\ Read
    /\ UNCHANGED <<program, pc>>

(* initack or authack with "fail": the handler closes the connection, and  *)
(* then _p2pclient_can_read() asks mio to read from it.                    *)
Reject ==
    /\ pc = "mio" /\ conn.open /\ PollWorks
    /\ LET k == Closed(home, conn)
       IN  /\ home' = k.home
           /\ conn' = [k.conn EXCEPT !.rfds = k.conn.rfds \cup
                                              {f \in {conn.fd} : conn.want_read}]
    /\ owed' = {}
    /\ Read
    /\ UNCHANGED <<program, pc, prompt>>

(* The peer closes the connection, or an error is found while reading, or  *)
(* while writing the rest of a packet.                                     *)
PeerCloses ==
    /\ pc = "mio" /\ conn.open /\ PollWorks
    /\ home' = Closed(home, conn).home /\ conn' = Closed(home, conn).conn
    /\ owed' = {}
    /\ Read
    /\ UNCHANGED <<program, pc, prompt>>

(* From now on the peer takes longer, or has vanished. *)
GoSilent ==
    /\ prompt
    /\ prompt' = FALSE /\ owed' = {}
    /\ UNCHANGED <<program, pc, home, conn, clock>>

(* A handler of another session forwards a message on this connection. It  *)
(* asks for no answer.                                                     *)
Forward ==
    /\ pc = "mio" /\ PollWorks
    /\ prompt' = prompt
    /\ \E out \in p2pclient_write(home, conn, owed) : Becomes([out EXCEPT !.owed =
            IF out.conn.open THEN owed ELSE {}])
    /\ UNCHANGED <<program, pc, clock>>

MioRunReturns ==
    /\ pc = "mio"
    /\ pc' = "deads"
    /\ UNCHANGED <<program, home, conn, clock, prompt, owed>>

-----------------------------------------------------------------------------
clear_deads_from_lives ==
    /\ pc = "deads"
    /\ home' = IF home.dead > 0 THEN [home EXCEPT !.lives = 0] ELSE home
    /\ pc' = "save"
    /\ UNCHANGED <<program, conn, clock, prompt, owed>>

Connected(f) ==
    [open |-> TRUE, fd |-> f, binitsess |-> FALSE, want_read |-> TRUE,
     rfds |-> conn.rfds \cup {f}]

(* p2pclient_connect() of the session pulled from dead_sess, and           *)
(* p2pclient_init().  If it fails the session goes back.                   *)
p2pclient_connect ==
    \/ /\ conn' = [conn EXCEPT !.binitsess = FALSE]
       /\ home' = home /\ owed' = {}
       /\ UNCHANGED prompt
       /\ clock' = [clock EXCEPT !.save = 0]
    \/ /\ prompt' \in BOOLEAN
       /\ \E f \in Fd :
             \E out \in p2pclient_write([home EXCEPT !.lives = @ + 1, !.dead = @ - 1],
                                        Connected(f), {}) :
                Becomes(out)
       /\ clock' = [clock EXCEPT !.save = 0, !.idle = 0]

(* Mutant: `last` is set in every turn, so that the wait never ends.       *)
_save_deadsession_NeverDue ==
    /\ pc = "save"
    /\ pc' = IF clock.due THEN "sweep" ELSE "ping"
    /\ clock' = [clock EXCEPT !.save = 0]
    /\ UNCHANGED <<program, home, conn, prompt, owed>>

_save_deadsession ==
    /\ pc = "save"
    /\ pc' = IF clock.due THEN "sweep" ELSE "ping"
    /\ IF clock.save < SaveWait
       THEN UNCHANGED <<home, conn, clock, prompt, owed>>
       ELSE IF home.dead = 0
       THEN /\ clock' = [clock EXCEPT !.save = 0]
            /\ UNCHANGED <<home, conn, prompt, owed>>
       ELSE p2pclient_connect
    /\ UNCHANGED program

check_zombie == clock.idle > Silence[program]

(* Mutant: only initialised connections are looked at, as for the pings.   *)
remove_zombie_from_lives_Initialised ==
    /\ pc = "sweep"
    /\ home' = IF check_zombie /\ conn.binitsess /\ home.lives > 0
               THEN [home EXCEPT !.lives = home.lives - 1, !.zombies = home.zombies + 1]
               ELSE home
    /\ pc' = "clear"
    /\ UNCHANGED <<program, conn, clock, prompt, owed>>

remove_zombie_from_lives ==
    /\ pc = "sweep"
    /\ home' = IF check_zombie /\ home.lives > 0
               THEN [home EXCEPT !.lives = home.lives - 1, !.zombies = home.zombies + 1]
               ELSE home
    /\ pc' = "clear"
    /\ UNCHANGED <<program, conn, clock, prompt, owed>>

(* Mutant: the bound of the loop is that of the wrong queue.               *)
ZombieCount_Lives == home.lives

(* How many sessions clear_zombies() will pull from zombie_que; bdjob asks *)
(* the size of session_que.                                                *)
ZombieCount == IF program = "bdjob" THEN home.lives ELSE home.zombies

clear_zombies ==
    /\ pc = "clear"
    /\ IF ZombieCount > 0 /\ home.zombies > 0
       THEN LET k == Closed([home EXCEPT !.zombies = home.zombies - 1], conn)
            IN  home' = k.home /\ conn' = k.conn /\ owed' = {}
       ELSE UNCHANGED <<home, conn, owed>>
    /\ clock' = [clock EXCEPT !.sweep = clock.turn]
    /\ pc' = "ping"
    /\ UNCHANGED <<program, prompt>>

(* Then the loop starts anew, and takes the time for the next sweep.       *)
_pingsession ==
    /\ pc = "ping"
    /\ prompt' = prompt
    /\ LET ping == clock.ping >= PingWait
       IN  /\ IF ping /\ home.lives > 0 /\ conn.binitsess
              THEN \E out \in p2pclient_write(home, conn, owed) : Becomes(out)
              ELSE UNCHANGED <<home, conn, owed>>
           /\ clock' = [clock EXCEPT !.ping = IF ping THEN 0 ELSE clock.ping,
                                     !.turn = 0,
                                     !.due  = clock.sweep > SweepWait]
    /\ pc' = "mio"
    /\ UNCHANGED program

-----------------------------------------------------------------------------
Handler == Tick \/ Answer \/ Reject \/ PeerCloses \/ Forward

Housekeeping ==
    \/ MioRunReturns
    \/ clear_deads_from_lives
    \/ _save_deadsession
    \/ remove_zombie_from_lives
    \/ clear_zombies
    \/ _pingsession

Next == Handler \/ GoSilent \/ Housekeeping

Spec == Init /\ [][Next]_vars

(* The loop goes round and time passes.  In the time a prompt peer has, it *)
(* answers.                                                                *)
Fairness ==
    /\ WF_vars(Housekeeping)
    /\ SF_vars(Tick)
    /\ SF_vars(prompt /\ Answer)

FairSpec == Spec /\ Fairness

-----------------------------------------------------------------------------
(* An open connection's session is in session_que or, within a sweep, in   *)
(* zombie_que; a closed one's is in dead_sess, so that it will be renewed, *)
(* and in no zombie_que, where it would be closed a second time.           *)
OneHome ==
    IF conn.open THEN home.lives + home.zombies = 1 /\ home.dead = 0
    ELSE home.zombies = 0 /\ home.dead = 1

(* The sweep does not close the connection of a peer that answers in time: *)
(* pings go out often enough for the limit on silence.                     *)
PromptKept == [][pc = "clear" /\ conn.open /\ prompt => conn'.open]_vars

(* A connection on which nothing arrives is closed ...                     *)
SilentClosed ==
    (conn.open /\ clock.idle > Silence[program]) ~> (~conn.open \/ clock.idle = 0)

(* ... and a closed one is renewed, if the server does not refuse for      *)
(* ever.                                                                   *)
ServerAccepts == SF_vars(_save_deadsession /\ conn'.open)
Renewed == ServerAccepts => (~conn.open ~> conn.open)
=============================================================================
