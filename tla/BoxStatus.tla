----------------------------- MODULE BoxStatus ------------------------------
(***************************************************************************)
(* The messages that pass through frontsvr, and the table of active boxes  *)
(* (userstatus.c) they keep up to date: a box of which nothing is recorded *)
(* for the time set by the operator is declared to have disappeared.  One  *)
(* step is one handler; the peers (monitor, bdsvr, warnsvr, boxes on the   *)
(* Internet) come and go, also within a handler, by a send that fails.     *)
(* How they are registered is the subject of FrontSession.                 *)
(***************************************************************************)
EXTENDS Integers

CONSTANTS
    Box,        \* task numbers, by which boxes are known
    WarnTime,   \* values of g_warntime, in seconds
    Sec,        \* seconds between checks (5)
    SendFails   \* send() may fail

ASSUME PeerAssumption == {"monitor", "bdsvr01", "warnsvr"} \cap Box = {}
ASSUME SecAssumption == Sec \in 1 .. 5
(* The code's values are multiples of 60, and nothing keeps them positive. *)
ASSUME WarnTimeAssumption == \A t \in WarnTime : t \in Int /\ t % Sec = 0
ASSUME SendAssumption == SendFails \in BOOLEAN

VARIABLES
    front,      \* what the handlers change, see FrontType
    g_warntime,
    elapsed     \* seconds since the last check, counted up to Sec

vars == <<front, g_warntime, elapsed>>

Peer == {"monitor", "bdsvr01", "warnsvr"} \cup Box

FrontType ==
    [open   : SUBSET Peer,       \* registered sessions, and the link to warnsvr
     _t     : SUBSET Box,        \* the table of active boxes,
     _q     : [Box -> Nat],      \* how often the queue beside it holds each box,
     life   : [Box -> Int],
     due    : [Box -> Nat],      \* time the box still has, by the clock
     db     : [Box -> {"none", "logon", "report", "disappear"}], \* last row about it
     view   : [Box -> {"unknown", "active", "gone"}], \* last the monitor was told
     up     : BOOLEAN]           \* frontsvr runs

TypeOK ==
    /\ front \in FrontType
    /\ g_warntime \in WarnTime
    /\ elapsed \in 0 .. Sec

(* A start of frontsvr; its connect to warnsvr has succeeded. *)
Started ==
    [open   |-> {"warnsvr"},
     _t     |-> {},
     _q     |-> [b \in Box |-> 0],
     life   |-> [b \in Box |-> 0],
     due    |-> [b \in Box |-> 0],
     db     |-> [b \in Box |-> "none"],
     view   |-> [b \in Box |-> "unknown"],
     up     |-> TRUE]

Init ==
    /\ front = Started
    /\ g_warntime \in {t \in WarnTime : t > 0}
    /\ elapsed = 0

-----------------------------------------------------------------------------
(* Operators that may end in several ways return the set of outcomes.      *)

(* The connection of a peer is closed. *)
Closed(w, p) ==
    [w EXCEPT !.open = w.open \ {p},
              !.view = IF p = "monitor" THEN [b \in Box |-> "unknown"] ELSE w.view]

(* p2p_stream_push() or p2pclient_write(), if the peer is there. *)
Push(w, p) == {w} \cup (IF SendFails THEN {Closed(w, p)} ELSE {})

(* A frame has all fields ("whole"), lacks its location, time or executor  *)
(* ("partly"), or the task number, the net, or any JSON at all ("not").    *)
Form == {"whole", "partly", "not"}

Told(w, b, what) == [w EXCEPT !.view = [w.view EXCEPT ![b] = what]]

(* A message of box b is passed to monitor as it came.  One that is not    *)
(* whole does not count as news of b.                                      *)
forward_to_monitor(w, b, form) ==
    IF "monitor" \notin w.open THEN {w}
    ELSE Push(IF form = "whole" THEN Told(w, b, "active") ELSE w, "monitor")

(* A message of warnsvr or an acknowledgement is passed to monitor. *)
forward_other_to_monitor(w) == IF "monitor" \in w.open THEN Push(w, "monitor") ELSE {w}

forward_to_warnsvr(w) == IF "warnsvr" \in w.open THEN Push(w, "warnsvr") ELSE {w}

(* To bdsvr, if the box is on the BeiDou net, else to the box.  If bdsvr   *)
(* is absent, the pointer taskid is logged, which was not initialised.     *)
forward_to_app(w, b, net, form) ==
    LET dest == IF net = "bd" THEN "bdsvr01" ELSE b
    IN  IF form = "not" \/ ~w.up THEN {w}
        ELSE IF dest \in w.open
        THEN Push(w, dest)
        ELSE {w} \cup {[w EXCEPT !.up = FALSE] : n \in {net} \cap {"bd"}}

-----------------------------------------------------------------------------
(* Mutant: the record is queued again when its life is prolonged.          *)
users_act_save_Queues(w, b) ==
    [w EXCEPT !._t = w._t \cup {b},
              !._q = [w._q EXCEPT ![b] = w._q[b] + 1],
              !.life = [w.life EXCEPT ![b] = g_warntime],
              !.due = [w.due EXCEPT ![b] = IF g_warntime > 0 THEN g_warntime ELSE 0]]

(* The box is put in the table, or its life prolonged.                     *)
users_act_save(w, b) ==
    [w EXCEPT !._t = w._t \cup {b},
              !._q = IF b \in w._t THEN w._q ELSE [w._q EXCEPT ![b] = w._q[b] + 1],
              !.life = [w.life EXCEPT ![b] = g_warntime],
              !.due = [w.due EXCEPT ![b] = IF g_warntime > 0 THEN g_warntime ELSE 0]]

Row(w, b, what) == [w EXCEPT !.db = [w.db EXCEPT ![b] = what]]

(* save_position(), save_warning(), save_orig_log(), save_status(): a row  *)
(* in the database, and the box is active.                                 *)
save_report(w, b, form) ==
    IF form = "whole" THEN users_act_save(Row(w, b, "report"), b) ELSE w

(* Mutant: the log is stored even if monitor is absent.                    *)
forward_log_x_to_monitor_Stores(w, b, form) ==
    IF form # "whole" \/ ~w.up THEN {w}
    ELSE IF "monitor" \notin w.open THEN {Row(w, b, "report")}
    ELSE {users_act_save(Row(v, b, "report"), b) : v \in Push(Told(w, b, "active"), "monitor")}

(* A log about the message, which frontsvr writes itself, goes to monitor, *)
(* is stored, and counts as a report of the box; all only if monitor is    *)
(* there.                                                                  *)
forward_log_x_to_monitor(w, b, form) ==
    IF form # "whole" \/ "monitor" \notin w.open \/ ~w.up THEN {w}
    ELSE {save_report(v, b, form) : v \in Push(Told(w, b, "active"), "monitor")}

(* The log of a logon or of an awakening: it is stored first.              *)
log_to_monitor(w, b) ==
    LET v == Row(w, b, "logon")
    IN  IF "monitor" \notin v.open THEN {v}
        ELSE {users_act_save(u, b) : u \in Push(Told(v, b, "active"), "monitor")}

Handled(outcomes) ==
    /\ front.up
    /\ front' \in outcomes
    /\ UNCHANGED <<g_warntime, elapsed>>

-----------------------------------------------------------------------------
(* Frames of boxes and of bdsvr (bdsvr_exp_cb()).                          *)

(* A box identifies itself: who had its name is cut off, and so is the box *)
(* if the password is wrong.  A frame without a password ends there.       *)
auth_hook(b, form, authentic) ==
    LET w == Closed(front, b)
        v == [w EXCEPT !.open = w.open \cup {b}]
    IN  Handled(IF form = "not" THEN {front}
                ELSE IF ~authentic THEN {w}
                ELSE IF form = "partly" THEN {w, v}
                ELSE log_to_monitor(v, b) \cup
                     (IF SendFails THEN log_to_monitor(w, b) ELSE {}))

(* bdsvr identifies itself; no password is asked for.                      *)
auth_hook_bdsvr ==
    \E open \in {front.open \cup {"bdsvr01"}, front.open \ {"bdsvr01"}} :
        Handled({[front EXCEPT !.open = open]})

(* The frame of a connected box with another task number; the log is       *)
(* written whether or not the password is right.                           *)
awake_hook(b, authentic) ==
    LET v == IF authentic THEN [front EXCEPT !.open = @ \cup {b}] ELSE front
    IN  Handled(UNION {log_to_monitor(u, b) : u \in Push(v, b)})

position(b, form) ==
    Handled(UNION {forward_to_monitor(w, b, form) :
                      w \in forward_to_warnsvr(save_report(front, b, form))})

warning(b, form) ==
    Handled(forward_to_monitor(save_report(front, b, form), b, form))

log(b, form) ==
    Handled({save_report(w, b, form) : w \in forward_to_monitor(front, b, form)})

status(b, form) == log(b, form)

reqcode(b, form) ==
    Handled(UNION {forward_log_x_to_monitor(w, b, form) : w \in forward_to_warnsvr(front)})

(* Mutant: the message is passed on only. *)
task_NotLogged(b, form) == Handled(forward_to_monitor(front, b, form))

(* taskpau, taskcon, taskdone *)
task(b, form) ==
    Handled(UNION {forward_log_x_to_monitor(w, b, form) :
                      w \in forward_to_monitor(front, b, form)})

-----------------------------------------------------------------------------
(* Frames of monitor (monitor_exp_cb()), which need not have registered.   *)

authack_hook ==
    LET w == Closed(front, "monitor")
    IN  Handled({w, [w EXCEPT !.open = w.open \cup {"monitor"}]})

(* The operator's answer to taskpau, taskcon, taskdone. *)
task_answer(b, net, form) ==
    Handled(UNION {forward_to_app(w, b, net, form) : w \in forward_to_warnsvr(front)})

(* The operator has granted or denied a code; a denial must name executor. *)
verify_hook(b, net, form) ==
    \/ Handled(forward_to_app(front, b, net, form))
    \/ form = "partly" /\ Handled({front})

(* Mutant: the conversion to seconds is done twice, as at the start.       *)
config_hook_Twice(t) ==
    /\ front.up
    /\ t # 0
    /\ g_warntime' = 60 * t
    /\ front' \in forward_other_to_monitor(front)
    /\ UNCHANGED elapsed

(* The time a box may be silent is changed.  The database refuses 0.       *)
config_hook(t) ==
    /\ front.up
    /\ t # 0
    /\ g_warntime' = t
    /\ front' \in forward_other_to_monitor(front)
    /\ UNCHANGED elapsed

(* remoteunlock, rptctrl: the command is passed on twice. *)
command(b, net, form) ==
    LET once  == forward_to_app(front, b, net, form)
        twice == UNION {forward_to_app(w, b, net, form) : w \in once}
    IN  Handled(UNION {forward_log_x_to_monitor(w, b, form) : w \in twice})

-----------------------------------------------------------------------------
(* Frames of warnsvr (warnsvr_exp_cb()).  Its warnings are stored as well, *)
(* but not as a report of the box.                                         *)
warn(b, net, form) ==
    Handled(UNION {forward_to_app(w, b, net, form) : w \in forward_other_to_monitor(front)})

dyncode(b, net, form) ==
    Handled(UNION {forward_log_x_to_monitor(w, b, form) :
                      w \in forward_to_app(front, b, net, form)})

verify(b, form) ==
    Handled(UNION {forward_log_x_to_monitor(w, b, form) :
                      w \in forward_other_to_monitor(front)})

-----------------------------------------------------------------------------
(* A peer's connection is closed: by the peer, an error, a failed ping, a  *)
(* bad frame, or for its silence.                                          *)
Leave(p) ==
    /\ p \in front.open
    /\ Handled({Closed(front, p)})

(* The link to warnsvr is renewed (P2pClient). *)
Renew == Handled({[front EXCEPT !.open = @ \cup {"warnsvr"}]})

(* frontsvr is started again after a crash. *)
Restart ==
    /\ ~front.up
    /\ front' = Started
    /\ g_warntime' \in {t \in WarnTime : t > 0}
    /\ elapsed' = 0

Tick ==
    /\ front.up
    /\ elapsed' = IF elapsed < Sec THEN elapsed + 1 ELSE elapsed
    /\ front' = [front EXCEPT !.due =
                    [b \in Box |-> IF front.due[b] > 0 THEN front.due[b] - 1 ELSE 0]]
    /\ UNCHANGED g_warntime

(* The life left to a box after a check, which deals with every entry of   *)
(* the queue.                                                              *)
Life(b) == front.life[b] - Sec * front._q[b]

(* Mutant: off by one. *)
Gone_AtZero == {b \in Box : front._q[b] > 0 /\ Life(b) <= 0}

Gone == {b \in Box : front._q[b] > 0 /\ Life(b) < 0}

(* Mutant: the shortened life is not written back.                         *)
users_act_check_NotWritten ==
    [front EXCEPT !._t = front._t \ Gone,
                  !._q = [b \in Box |-> IF b \in Gone THEN 0 ELSE front._q[b]]]

(* users_act_check(): boxes whose life is over leave queue and table. *)
users_act_check ==
    [front EXCEPT !._t = front._t \ Gone,
                  !._q = [b \in Box |-> IF b \in Gone THEN 0 ELSE front._q[b]],
                  !.life = [b \in Box |-> IF b \in Gone THEN front.life[b] ELSE Life(b)]]

(* For each of them monitor and the database get a warning.                *)
check_inactive_client ==
    /\ front.up
    /\ elapsed = Sec
    /\ elapsed' = 0
    /\ LET w == [users_act_check EXCEPT
                   !.db = [b \in Box |-> IF b \in Gone THEN "disappear" ELSE front.db[b]]]
           told == [w EXCEPT !.view = [b \in Box |-> IF b \in Gone THEN "gone"
                                                     ELSE front.view[b]]]
       IN  front' \in IF Gone = {} \/ "monitor" \notin front.open THEN {w}
                      ELSE Push(told, "monitor")
    /\ UNCHANGED g_warntime

-----------------------------------------------------------------------------
BoxFrame(b) ==
    \/ \E form \in Form :
          \/ \E authentic \in BOOLEAN : auth_hook(b, form, authentic)
          \/ position(b, form)
          \/ warning(b, form)
          \/ log(b, form)
          \/ status(b, form)
          \/ reqcode(b, form)
          \/ task(b, form)
    \/ \E authentic \in BOOLEAN : awake_hook(b, authentic)

MonitorFrame(b) ==
    \E net \in {"inet", "bd"}, form \in Form :
       \/ task_answer(b, net, form)
       \/ verify_hook(b, net, form)
       \/ command(b, net, form)

WarnsvrFrame(b) ==
    /\ "warnsvr" \in front.open
    /\ \E form \in Form :
          \/ \E net \in {"inet", "bd"} : warn(b, net, form) \/ dyncode(b, net, form)
          \/ verify(b, form)

Next ==
    \/ \E b \in Box : BoxFrame(b) \/ MonitorFrame(b) \/ WarnsvrFrame(b)
    \/ auth_hook_bdsvr
    \/ authack_hook
    \/ \E t \in WarnTime : config_hook(t)
    \/ \E p \in Peer : Leave(p)
    \/ Renew
    \/ Restart
    \/ Tick
    \/ check_inactive_client

Spec == Init /\ [][Next]_vars

(* Time passes, and every turn of the loop checks. *)
Fairness == WF_vars(Tick) /\ WF_vars(check_inactive_client)

FairSpec == Spec /\ Fairness

-----------------------------------------------------------------------------
(* The queue that is checked and the table that is asked hold the same     *)
(* boxes, each once: a life is shortened once per check, and the table     *)
(* refers to no record that was freed.                                     *)
OneRecord == \A b \in Box : front._q[b] = IF b \in front._t THEN 1 ELSE 0

(* No box is declared to have disappeared before the time it was given has *)
(* passed, however checks, reports and changes of that time interleave.    *)
NoFalseAlarm ==
    [][\A b \in Box : front.db[b] # "disappear" /\ front'.db[b] = "disappear"
                      => front.due[b] = 0]_vars

(* The database tells who is watched: a box whose last row is a report of  *)
(* it will be declared when it falls silent, one that has been declared    *)
(* was taken from the table, so that it is declared once.  (Of a logon     *)
(* nothing is said: one that monitor misses is stored and not watched.)    *)
RecordAgrees ==
    \A b \in Box : /\ front.db[b] = "report" => b \in front._t
                   /\ front.db[b] = "disappear" => b \notin front._t

(* What monitor was told last of a box is right as long as it stays        *)
(* connected, though a handler tells monitor and notes the box in either   *)
(* order, and a failed send may come between.                              *)
ViewAgrees ==
    front.up => \A b \in Box : /\ front.view[b] = "active" => b \in front._t
                               /\ front.view[b] = "gone" => b \notin front._t

(* A box whose time is over is declared, unless it reports after all.      *)
SilenceNoted ==
    \A b \in Box : b \in front._t /\ front.due[b] = 0
                   ~> b \notin front._t \/ front.due[b] > 0 \/ ~front.up
=============================================================================
