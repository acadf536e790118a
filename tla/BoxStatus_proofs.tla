-------------------------- MODULE BoxStatus_proofs --------------------------
(* Proofs about the boxes frontsvr watches, whatever frames arrive and     *)
(* whichever peers are there.                                              *)
EXTENDS BoxStatus, TLAPS

(* The record of box c: once in the queue if in the table, a whole number  *)
(* of checks left, and no more time by the clock than these checks take.   *)
Entry(w, c) ==
    /\ w._q[c] = IF c \in w._t THEN 1 ELSE 0
    /\ w.life[c] % Sec = 0
    /\ c \in w._t => IF w.life[c] < 0 THEN w.due[c] = 0
                     ELSE w.due[c] <= w.life[c] + Sec - elapsed

Recorded(w, c) == /\ w.db[c] = "report" => c \in w._t
                  /\ w.db[c] = "disappear" => c \notin w._t

Viewed(w, c) == /\ w.view[c] = "active" => c \in w._t
                /\ w.view[c] = "gone" => c \notin w._t

Unseen(w) == "monitor" \notin w.open => \A c \in Box : w.view[c] = "unknown"

(* No box was declared to have disappeared since the handler began. *)
Quiet(w) == \A c \in Box : w.db[c] = "disappear" => front.db[c] = "disappear"

(* A value of front within a handler: the boxes of D may lack a row that   *)
(* agrees with the table, those of V a view of monitor that does.          *)
Sound(w, D, V) ==
    /\ w \in FrontType
    /\ \A c \in Box : Entry(w, c)
    /\ \A c \in Box \ D : Recorded(w, c)
    /\ \A c \in Box \ V : Viewed(w, c)
    /\ Unseen(w)
    /\ Quiet(w)

IInv == TypeOK /\ Sound(front, {}, {})

(* Between the message to monitor about box b and the note of b. *)
Halfway(w, b) == Sound(w, {}, {b}) /\ w.view[b] # "gone"

-----------------------------------------------------------------------------
(* What each update of front leaves in its fields.                         *)

LEMMA FieldTypes ==
    ASSUME NEW w \in FrontType
    PROVE  /\ w.open \in SUBSET Peer
           /\ w._t \in SUBSET Box
           /\ w._q \in [Box -> Nat]
           /\ w.life \in [Box -> Int]
           /\ w.due \in [Box -> Nat]
           /\ w.db \in [Box -> {"none", "logon", "report", "disappear"}]
           /\ w.view \in [Box -> {"unknown", "active", "gone"}]
           /\ w.up \in BOOLEAN
  BY DEF FrontType

LEMMA OpenFields ==
    ASSUME NEW w \in FrontType, NEW P \in SUBSET Peer
    PROVE  LET v == [w EXCEPT !.open = P]
           IN  /\ v \in FrontType /\ v.open = P
               /\ v._t = w._t /\ v._q = w._q /\ v.life = w.life /\ v.due = w.due
               /\ v.db = w.db /\ v.view = w.view /\ v.up = w.up
  BY DEF FrontType

LEMMA ClosedFields ==
    ASSUME NEW w \in FrontType, NEW p \in Peer
    PROVE  LET v == Closed(w, p)
           IN  /\ v \in FrontType /\ v.open = w.open \ {p}
               /\ v._t = w._t /\ v._q = w._q /\ v.life = w.life /\ v.due = w.due
               /\ v.db = w.db /\ v.up = w.up
               /\ v.view = IF p = "monitor" THEN [b \in Box |-> "unknown"] ELSE w.view
  BY DEF FrontType, Closed

LEMMA ToldFields ==
    ASSUME NEW w \in FrontType, NEW b \in Box
    PROVE  LET v == Told(w, b, "active")
           IN  /\ v \in FrontType /\ v.open = w.open
               /\ v._t = w._t /\ v._q = w._q /\ v.life = w.life /\ v.due = w.due
               /\ v.db = w.db /\ v.up = w.up
               /\ v.view = [w.view EXCEPT ![b] = "active"]
  BY DEF FrontType, Told

LEMMA SaveFields ==
    ASSUME NEW w \in FrontType, NEW b \in Box, g_warntime \in Int
    PROVE  LET v == users_act_save(w, b)
           IN  /\ v \in FrontType /\ v.open = w.open
               /\ v._t = w._t \cup {b}
               /\ v._q = IF b \in w._t THEN w._q ELSE [w._q EXCEPT ![b] = w._q[b] + 1]
               /\ v.life = [w.life EXCEPT ![b] = g_warntime]
               /\ v.due = [w.due EXCEPT ![b] = IF g_warntime > 0 THEN g_warntime ELSE 0]
               /\ v.db = w.db /\ v.view = w.view /\ v.up = w.up
<1> DEFINE d == IF g_warntime > 0 THEN g_warntime ELSE 0
<1>1. d \in Nat
  OBVIOUS
<1>2. (IF b \in w._t THEN w._q ELSE [w._q EXCEPT ![b] = w._q[b] + 1]) \in [Box -> Nat]
  BY FieldTypes
<1> QED
  BY <1>1, <1>2 DEF FrontType, users_act_save

LEMMA DownFields ==
    ASSUME NEW w \in FrontType
    PROVE  LET v == [w EXCEPT !.up = FALSE]
           IN  /\ v \in FrontType /\ v.open = w.open
               /\ v._t = w._t /\ v._q = w._q /\ v.life = w.life /\ v.due = w.due
               /\ v.db = w.db /\ v.view = w.view
  BY DEF FrontType

-----------------------------------------------------------------------------
(* The updates keep front sound.                                           *)

LEMMA OpenedSound ==
    ASSUME NEW w, NEW D, NEW V, Sound(w, D, V), NEW p \in Peer
    PROVE  Sound([w EXCEPT !.open = w.open \cup {p}], D, V)
<1> DEFINE v == [w EXCEPT !.open = w.open \cup {p}]
<1>1. w \in FrontType /\ w.open \cup {p} \in SUBSET Peer
  BY FieldTypes DEF Sound
<1>2. /\ v \in FrontType /\ v.open = w.open \cup {p}
      /\ v._t = w._t /\ v._q = w._q /\ v.life = w.life /\ v.due = w.due
      /\ v.db = w.db /\ v.view = w.view
  BY <1>1, OpenFields
<1> HIDE DEF v
<1>3. Sound(v, D, V)
  BY <1>2 DEF Sound, Entry, Recorded, Viewed, Unseen, Quiet
<1> QED
  BY <1>3 DEF v

LEMMA ClosedSound ==
    ASSUME NEW w, NEW D, NEW V, Sound(w, D, V), NEW p \in Peer
    PROVE  Sound(Closed(w, p), D, V)
<1> DEFINE v == Closed(w, p)
<1>1. w \in FrontType
  BY DEF Sound
<1>2. /\ v \in FrontType /\ v.open = w.open \ {p}
      /\ v._t = w._t /\ v._q = w._q /\ v.life = w.life /\ v.due = w.due
      /\ v.db = w.db
      /\ v.view = IF p = "monitor" THEN [b \in Box |-> "unknown"] ELSE w.view
  BY <1>1, ClosedFields
<1> HIDE DEF v
<1>3. v._t = w._t /\ Quiet(v) /\ (\A c \in Box : Entry(v, c))
      /\ (\A c \in Box \ D : Recorded(v, c))
  BY <1>2 DEF Sound, Entry, Recorded, Quiet
<1>4. Unseen(v) /\ \A c \in Box \ V : Viewed(v, c)
  <2>1. CASE p = "monitor"
    BY <1>2, <2>1 DEF Viewed, Unseen
  <2>2. CASE p # "monitor"
    BY <1>2, <2>2 DEF Sound, Viewed, Unseen
  <2> QED
    BY <2>1, <2>2
<1>5. Sound(v, D, V)
  BY <1>2, <1>3, <1>4 DEF Sound
<1> QED
  BY <1>5 DEF v

(* Also a push that fails.                                                 *)
LEMMA PushSound ==
    ASSUME NEW w, NEW D, NEW V, Sound(w, D, V), NEW p \in Peer,
           NEW v \in Push(w, p)
    PROVE  Sound(v, D, V)
  BY ClosedSound DEF Push

LEMMA PushFields ==
    ASSUME NEW w \in FrontType, NEW p \in Peer, NEW v \in Push(w, p)
    PROVE  /\ v.db = w.db /\ v._t = w._t /\ v.up = w.up
           /\ \A b \in Box : v.view[b] = w.view[b] \/ v.view[b] = "unknown"
<1>1. CASE v = w
  BY <1>1
<1>2. CASE v = Closed(w, p)
  BY <1>2, ClosedFields
<1> QED
  BY <1>1, <1>2 DEF Push

LEMMA ToldHalfway ==
    ASSUME NEW w, NEW b \in Box, Sound(w, {}, {b}), "monitor" \in w.open
    PROVE  Halfway(Told(w, b, "active"), b)
<1> DEFINE v == Told(w, b, "active")
<1>1. w \in FrontType /\ w.view \in [Box -> {"unknown", "active", "gone"}]
  BY FieldTypes DEF Sound
<1>2. /\ v \in FrontType /\ v.open = w.open
      /\ v._t = w._t /\ v._q = w._q /\ v.life = w.life /\ v.due = w.due
      /\ v.db = w.db /\ v.view = [w.view EXCEPT ![b] = "active"]
  BY <1>1, ToldFields
<1> HIDE DEF v
<1>3. Sound(v, {}, {b})
  BY <1>2, <1>1 DEF Sound, Entry, Recorded, Viewed, Unseen, Quiet
<1>4. v.view[b] # "gone"
  BY <1>1, <1>2
<1> QED
  BY <1>3, <1>4 DEF Halfway, v

LEMMA RowSound ==
    ASSUME NEW w, NEW b \in Box, NEW V, Sound(w, {}, V), NEW what \in {"logon", "report"}
    PROVE  /\ Sound(Row(w, b, what), {b}, V)
           /\ what = "logon" => Sound(Row(w, b, what), {}, V)
           /\ Row(w, b, what).db[b] = what
           /\ Row(w, b, what).view = w.view
<1> DEFINE v == Row(w, b, what)
<1>1. w \in FrontType /\ w.db \in [Box -> {"none", "logon", "report", "disappear"}]
  BY FieldTypes DEF Sound
<1>2. /\ v \in FrontType /\ v.open = w.open
      /\ v._t = w._t /\ v._q = w._q /\ v.life = w.life /\ v.due = w.due
      /\ v.view = w.view /\ v.db = [w.db EXCEPT ![b] = what]
  BY <1>1, what \in {"logon", "report"} DEF FrontType, Row
<1> HIDE DEF v
<1>3. /\ v.db[b] = what
      /\ \A c \in Box \ {b} : v.db[c] = w.db[c]
  BY <1>1, <1>2
<1>4. Sound(v, {b}, V)
  BY <1>2, <1>3 DEF Sound, Entry, Recorded, Viewed, Unseen, Quiet
<1>5. what = "logon" => Recorded(v, b)
  BY <1>3 DEF Recorded
<1>6. what = "logon" => Sound(v, {}, V)
  BY <1>4, <1>5 DEF Sound
<1> QED
  BY <1>2, <1>3, <1>4, <1>6 DEF v

(* The box is entered with a life of whole checks.                         *)
LEMMA SaveSound ==
    ASSUME TypeOK, NEW w, NEW b \in Box, Sound(w, {b}, {b}), w.db[b] # "disappear"
    PROVE  /\ Sound(users_act_save(w, b), {}, {b})
           /\ b \in users_act_save(w, b)._t
           /\ w.view[b] # "gone" => Sound(users_act_save(w, b), {}, {})
<1> DEFINE v == users_act_save(w, b)
<1>1. /\ w \in FrontType /\ g_warntime \in Int /\ g_warntime % Sec = 0
      /\ Sec \in 1 .. 5 /\ elapsed \in 0 .. Sec
  BY WarnTimeAssumption, SecAssumption DEF Sound, TypeOK
<1>2. /\ w._q \in [Box -> Nat] /\ w.life \in [Box -> Int] /\ w.due \in [Box -> Nat]
      /\ w._t \in SUBSET Box
  BY <1>1, FieldTypes
<1>3. /\ v \in FrontType /\ v.open = w.open
      /\ v._t = w._t \cup {b}
      /\ v._q = IF b \in w._t THEN w._q ELSE [w._q EXCEPT ![b] = w._q[b] + 1]
      /\ v.life = [w.life EXCEPT ![b] = g_warntime]
      /\ v.due = [w.due EXCEPT ![b] = IF g_warntime > 0 THEN g_warntime ELSE 0]
      /\ v.db = w.db /\ v.view = w.view
  BY <1>1, SaveFields
<1> HIDE DEF v
<1>4. Entry(v, b)
  <2>1. v._q[b] = 1 /\ b \in v._t
    <3>1. w._q[b] = IF b \in w._t THEN 1 ELSE 0
      BY DEF Sound, Entry
    <3> QED
      BY <1>2, <1>3, <3>1
  <2>2. v.life[b] = g_warntime /\ v.due[b] = IF g_warntime > 0 THEN g_warntime ELSE 0
    BY <1>2, <1>3
  <2>3. g_warntime >= 0 => v.due[b] = g_warntime
    BY <1>1, <2>2
  <2>4. g_warntime < 0 => v.due[b] = 0
    BY <1>1, <2>2
  <2> QED
    BY <1>1, <2>1, <2>2, <2>3, <2>4 DEF Entry
<1>5. ASSUME NEW c \in Box \ {b}
      PROVE  Entry(v, c) /\ Recorded(v, c) /\ Viewed(v, c)
  <2>1. /\ v._q[c] = w._q[c] /\ v.life[c] = w.life[c] /\ v.due[c] = w.due[c]
        /\ c \in v._t <=> c \in w._t
        /\ v.db[c] = w.db[c] /\ v.view[c] = w.view[c]
    BY <1>2, <1>3
  <2>2. Entry(w, c) /\ Recorded(w, c) /\ Viewed(w, c)
    BY DEF Sound
  <2> QED
    BY <2>1, <2>2 DEF Entry, Recorded, Viewed
<1>6. Recorded(v, b) /\ (w.view[b] # "gone" => Viewed(v, b))
  BY <1>3 DEF Recorded, Viewed
<1>7. Unseen(v) /\ Quiet(v)
  BY <1>3 DEF Sound, Unseen, Quiet
<1>8. Sound(v, {}, {b}) /\ (w.view[b] # "gone" => Sound(v, {}, {}))
  BY <1>3, <1>4, <1>5, <1>6, <1>7 DEF Sound
<1> QED
  BY <1>3, <1>8 DEF v

(* Losing the process changes nothing that is said about boxes.            *)
LEMMA DownSound ==
    ASSUME NEW w, Sound(w, {}, {})
    PROVE  Sound([w EXCEPT !.up = FALSE], {}, {})
<1> DEFINE v == [w EXCEPT !.up = FALSE]
<1>1. w \in FrontType
  BY DEF Sound
<1>2. /\ v \in FrontType /\ v.open = w.open
      /\ v._t = w._t /\ v._q = w._q /\ v.life = w.life /\ v.due = w.due
      /\ v.db = w.db /\ v.view = w.view
  BY <1>1, DownFields
<1> HIDE DEF v
<1>3. Sound(v, {}, {})
  BY <1>2 DEF Sound, Entry, Recorded, Viewed, Unseen, Quiet
<1> QED
  BY <1>3 DEF v

-----------------------------------------------------------------------------
(* What the helpers of the handlers do, for each of their outcomes.        *)

LEMMA Weaker ==
    ASSUME NEW w, NEW b \in Box, Sound(w, {}, {})
    PROVE  Sound(w, {b}, {b}) /\ Sound(w, {}, {b}) /\ Sound(w, {b}, {})
  BY DEF Sound

(* Without monitor there is no view of it to agree with. *)
LEMMA NoMonitor ==
    ASSUME NEW w, NEW b \in Box, Sound(w, {}, {b}), "monitor" \notin w.open
    PROVE  Sound(w, {}, {})
  BY DEF Sound, Unseen, Viewed

LEMMA ReportSaved ==
    ASSUME TypeOK, NEW w, NEW b \in Box, NEW V \in {{}, {b}}, Sound(w, {}, V)
    PROVE  LET v == users_act_save(Row(w, b, "report"), b)
           IN  /\ Sound(v, {}, {b}) /\ b \in v._t
               /\ w.view[b] # "gone" => Sound(v, {}, {})
<1>1. Sound(w, {}, {b})
  BY Weaker
<1>2. /\ Sound(Row(w, b, "report"), {b}, {b})
      /\ Row(w, b, "report").db[b] = "report"
      /\ Row(w, b, "report").view = w.view
  BY <1>1, RowSound, "report" \in {"logon", "report"}
<1> QED
  BY <1>2, SaveSound

LEMMA ReportAfterMessage ==
    ASSUME TypeOK, NEW w, NEW b \in Box, NEW form, Halfway(w, b), form = "whole"
    PROVE  Sound(save_report(w, b, form), {}, {})
  BY ReportSaved DEF save_report, Halfway

(* The message may have been told to monitor, and the push have failed. *)
LEMMA ToldAndPushed ==
    ASSUME NEW w, NEW b \in Box, Sound(w, {}, {b}), "monitor" \in w.open,
           NEW v \in Push(Told(w, b, "active"), "monitor")
    PROVE  /\ Halfway(v, b)
           /\ v._t = w._t /\ v.db = w.db /\ v.up = w.up
<1>1. Halfway(Told(w, b, "active"), b)
  BY ToldHalfway
<1>2. Sound(v, {}, {b})
  BY <1>1, PushSound DEF Halfway, Peer
<1>3. w \in FrontType /\ Told(w, b, "active") \in FrontType /\ "monitor" \in Peer
  BY <1>1 DEF Sound, Halfway, Peer
<1>4. v.view[b] # "gone"
  BY <1>1, <1>3, PushFields DEF Halfway
<1>5. LET u == Told(w, b, "active")
      IN  v._t = u._t /\ v.db = u.db /\ v.up = u.up
  BY <1>3, PushFields
<1>6. LET u == Told(w, b, "active")
      IN  u._t = w._t /\ u.db = w.db /\ u.up = w.up
  BY <1>3, ToldFields
<1> QED
  BY <1>2, <1>4, <1>5, <1>6 DEF Halfway

(* A message of b is passed before b is noted. *)
LEMMA PassedFirst ==
    ASSUME NEW w, NEW b \in Box, NEW form, Sound(w, {}, {}),
           NEW v \in forward_to_monitor(w, b, form)
    PROVE  /\ form # "whole" => Sound(v, {}, {})
           /\ Sound(v, {}, {b})
           /\ form = "whole" => Halfway(v, b)
           /\ v.up = w.up
<1>1. CASE "monitor" \notin w.open
  <2>1. w.view[b] = "unknown"
    BY <1>1 DEF Sound, Unseen
  <2> QED
    BY <1>1, <2>1, Weaker DEF forward_to_monitor, Halfway
<1>2. CASE "monitor" \in w.open /\ form = "whole"
  <2>1. v \in Push(Told(w, b, "active"), "monitor")
    BY <1>2 DEF forward_to_monitor
  <2> QED
    BY <1>2, <2>1, Weaker, ToldAndPushed DEF Halfway
<1>3. CASE "monitor" \in w.open /\ form # "whole"
  <2>1. v \in Push(w, "monitor")
    BY <1>3 DEF forward_to_monitor
  <2>2. Sound(v, {}, {})
    BY <2>1, PushSound DEF Peer
  <2>3. v.up = w.up
    BY <2>1, PushFields DEF Peer, Sound
  <2> QED
    BY <1>3, <2>2, <2>3, Weaker
<1> QED
  BY <1>1, <1>2, <1>3

(* A message of b is passed after b was noted. *)
LEMMA PassedAfter ==
    ASSUME NEW w, NEW b \in Box, NEW form,
           \/ Sound(w, {}, {}) /\ form # "whole"
           \/ Sound(w, {}, {b}) /\ form = "whole" /\ b \in w._t,
           NEW v \in forward_to_monitor(w, b, form)
    PROVE  Sound(v, {}, {})
<1>1. CASE form # "whole"
  <2>1. Sound(w, {}, {})
    BY <1>1
  <2> QED
    BY <1>1, <2>1, PassedFirst
<1>2. CASE form = "whole" /\ "monitor" \notin w.open
  BY <1>2, NoMonitor DEF forward_to_monitor
<1>3. CASE form = "whole" /\ "monitor" \in w.open
  <2>1. v \in Push(Told(w, b, "active"), "monitor")
    BY <1>3 DEF forward_to_monitor
  <2>2. Halfway(v, b) /\ b \in v._t
    BY <1>3, <2>1, ToldAndPushed
  <2> QED
    BY <2>2 DEF Halfway, Sound, Viewed
<1> QED
  BY <1>1, <1>2, <1>3

LEMMA OtherSound ==
    ASSUME NEW w, Sound(w, {}, {}),
           NEW v \in forward_other_to_monitor(w) \cup forward_to_warnsvr(w)
    PROVE  Sound(v, {}, {}) /\ v.up = w.up
<1>1. v = w \/ v \in Push(w, "monitor") \/ v \in Push(w, "warnsvr")
  BY DEF forward_other_to_monitor, forward_to_warnsvr
<1> QED
  BY <1>1, PushSound, PushFields DEF Peer, Sound

LEMMA WarnsvrHalfway ==
    ASSUME NEW w, NEW b \in Box, Sound(w, {}, {b}), NEW v \in forward_to_warnsvr(w)
    PROVE  Sound(v, {}, {b}) /\ v._t = w._t
<1>1. v = w \/ v \in Push(w, "warnsvr")
  BY DEF forward_to_warnsvr
<1> QED
  BY <1>1, PushSound, PushFields DEF Peer, Sound

LEMMA AppSound ==
    ASSUME NEW w, NEW b \in Box, NEW net \in {"inet", "bd"}, NEW form,
           Sound(w, {}, {}), NEW v \in forward_to_app(w, b, net, form)
    PROVE  Sound(v, {}, {})
<1>1. v = w \/ v \in Push(w, "bdsvr01") \/ v \in Push(w, b) \/ v = [w EXCEPT !.up = FALSE]
  BY DEF forward_to_app
<1> QED
  BY <1>1, PushSound, DownSound DEF Peer

LEMMA LogSound ==
    ASSUME TypeOK, NEW w, NEW b \in Box, NEW form,
           \/ Sound(w, {}, {})
           \/ Sound(w, {}, {b}) /\ form = "whole" /\ w.up,
           NEW v \in forward_log_x_to_monitor(w, b, form)
    PROVE  Sound(v, {}, {})
<1>1. Sound(w, {}, {b})
  BY Weaker
<1>2. CASE form # "whole" \/ ~w.up
  BY <1>2 DEF forward_log_x_to_monitor
<1>3. CASE "monitor" \notin w.open
  BY <1>1, <1>3, NoMonitor DEF forward_log_x_to_monitor
<1>4. CASE form = "whole" /\ w.up /\ "monitor" \in w.open
  <2>1. PICK u \in Push(Told(w, b, "active"), "monitor") : v = save_report(u, b, form)
    BY <1>4 DEF forward_log_x_to_monitor
  <2>2. Halfway(u, b)
    BY <1>1, <1>4, ToldAndPushed
  <2> QED
    BY <1>4, <2>1, <2>2, ReportAfterMessage
<1> QED
  BY <1>2, <1>3, <1>4

LEMMA LogonSound ==
    ASSUME TypeOK, NEW w, NEW b \in Box, Sound(w, {}, {}), NEW v \in log_to_monitor(w, b)
    PROVE  Sound(v, {}, {})
<1> DEFINE r == Row(w, b, "logon")
<1>1. Sound(r, {}, {}) /\ r.db[b] = "logon"
  BY RowSound, "logon" \in {"logon", "report"}
<1>2. CASE "monitor" \notin r.open
  BY <1>1, <1>2 DEF log_to_monitor
<1>3. CASE "monitor" \in r.open
  <2>1. PICK u \in Push(Told(r, b, "active"), "monitor") : v = users_act_save(u, b)
    BY <1>3 DEF log_to_monitor
  <2>2. Halfway(u, b) /\ u.db[b] = "logon"
    BY <1>1, <1>3, Weaker, ToldAndPushed
  <2>3. Sound(u, {b}, {b})
    BY <2>2 DEF Halfway, Sound
  <2> QED
    BY <2>1, <2>2, <2>3, SaveSound DEF Halfway
<1> QED
  BY <1>2, <1>3

-----------------------------------------------------------------------------
(* The initial state, and a restart.                                       *)
LEMMA StartedSound ==
    ASSUME elapsed = 0
    PROVE  Sound(Started, {}, {})
<1> DEFINE v == Started
<1>1. /\ v._t = {} /\ v._q = [b \in Box |-> 0] /\ v.life = [b \in Box |-> 0]
      /\ v.db = [b \in Box |-> "none"] /\ v.view = [b \in Box |-> "unknown"]
  BY DEF Started
<1>2. v \in FrontType
  BY DEF Started, FrontType, Peer
<1>3. 0 % Sec = 0
  <2>1. \/ Sec = 1 \/ Sec = 2 \/ Sec = 3 \/ Sec = 4 \/ Sec = 5
    BY SecAssumption
  <2> QED
    BY <2>1
<1> HIDE DEF v
<1>4. Sound(v, {}, {})
  BY <1>1, <1>2, <1>3 DEF Sound, Entry, Recorded, Viewed, Unseen, Quiet
<1> QED
  BY <1>4 DEF v

LEMMA InitIInv == Init => IInv
<1> SUFFICES ASSUME Init PROVE IInv
  OBVIOUS
<1>1. Sound(front, {}, {})
  BY StartedSound DEF Init
<1>2. TypeOK
  BY <1>1, SecAssumption DEF Init, TypeOK, Sound
<1> QED
  BY <1>1, <1>2 DEF IInv

(* What a step may do to what is recorded of the boxes. *)
NoAlarm == \A b \in Box : front.db[b] # "disappear" /\ front'.db[b] = "disappear"
                           => front.due[b] = 0

Kept == IInv' /\ NoAlarm

LEMMA HandlerKeeps ==
    ASSUME TypeOK, Sound(front', {}, {}), UNCHANGED elapsed,
           g_warntime' \in WarnTime
    PROVE  Kept
<1>1. TypeOK'
  BY DEF TypeOK, Sound
<1>2. Sound(front, {}, {})'
  BY DEF Sound, Entry, Recorded, Viewed, Unseen, Quiet
<1>3. NoAlarm
  BY DEF Sound, Quiet, NoAlarm
<1> QED
  BY <1>1, <1>2, <1>3 DEF Kept, IInv

(* It is enough that every outcome of a handler is sound. *)
LEMMA HandledKeeps ==
    ASSUME TypeOK, NEW outcomes, \A v \in outcomes : Sound(v, {}, {}), Handled(outcomes)
    PROVE  Kept
  BY HandlerKeeps DEF Handled, TypeOK

LEMMA BoxFrameKeeps ==
    ASSUME IInv, NEW b \in Box, BoxFrame(b)
    PROVE  Kept
<1>0. TypeOK /\ Sound(front, {}, {}) /\ b \in Peer
  BY DEF IInv, Peer
<1>1. ASSUME NEW form \in Form, NEW authentic \in BOOLEAN, auth_hook(b, form, authentic)
      PROVE  Kept
  <2> DEFINE w == Closed(front, b)
             v == [w EXCEPT !.open = w.open \cup {b}]
  <2>1. Sound(w, {}, {})
    BY <1>0, ClosedSound
  <2>2. Sound(v, {}, {})
    BY <1>0, <2>1, OpenedSound
  <2>3. Handled(IF form = "not" THEN {front}
                ELSE IF ~authentic THEN {w}
                ELSE IF form = "partly" THEN {w, v}
                ELSE log_to_monitor(v, b) \cup
                     (IF SendFails THEN log_to_monitor(w, b) ELSE {}))
    BY <1>1 DEF auth_hook
  <2> HIDE DEF w, v
  <2> QED
    BY <1>0, <2>1, <2>2, <2>3, LogonSound, HandledKeeps
<1>2. ASSUME NEW form \in Form, position(b, form)
      PROVE  Kept
  <2>1. ASSUME NEW w \in forward_to_warnsvr(save_report(front, b, form)),
               NEW v \in forward_to_monitor(w, b, form)
        PROVE  Sound(v, {}, {})
    <3>1. CASE form = "whole"
      BY <1>0, <2>1, <3>1, ReportSaved, WarnsvrHalfway, PassedAfter DEF save_report
    <3>2. CASE form # "whole"
      BY <1>0, <2>1, <3>2, OtherSound, PassedAfter DEF save_report
    <3> QED
      BY <3>1, <3>2
  <2> QED
    BY <1>0, <1>2, <2>1, HandledKeeps DEF position
<1>3. ASSUME NEW form \in Form, warning(b, form)
      PROVE  Kept
  <2>1. ASSUME NEW v \in forward_to_monitor(save_report(front, b, form), b, form)
        PROVE  Sound(v, {}, {})
    <3>1. CASE form = "whole"
      BY <1>0, <2>1, <3>1, ReportSaved, PassedAfter DEF save_report
    <3>2. CASE form # "whole"
      BY <1>0, <2>1, <3>2, PassedAfter DEF save_report
    <3> QED
      BY <3>1, <3>2
  <2> QED
    BY <1>0, <1>3, <2>1, HandledKeeps DEF warning
<1>4. ASSUME NEW form \in Form, log(b, form) \/ status(b, form)
      PROVE  Kept
  <2>1. ASSUME NEW w \in forward_to_monitor(front, b, form)
        PROVE  Sound(save_report(w, b, form), {}, {})
    <3>1. /\ form # "whole" => Sound(w, {}, {})
          /\ Sound(w, {}, {b})
          /\ form = "whole" => Halfway(w, b)
      BY <1>0, <2>1, PassedFirst
    <3>2. CASE form = "whole"
      BY <1>0, <3>1, <3>2, ReportAfterMessage
    <3>3. CASE form # "whole"
      BY <3>1, <3>3 DEF save_report
    <3> QED
      BY <3>2, <3>3
  <2> QED
    BY <1>0, <1>4, <2>1, HandledKeeps DEF log, status
<1>5. ASSUME NEW form \in Form, reqcode(b, form)
      PROVE  Kept
  <2>1. ASSUME NEW w \in forward_to_warnsvr(front),
               NEW v \in forward_log_x_to_monitor(w, b, form)
        PROVE  Sound(v, {}, {})
    <3>1. Sound(w, {}, {})
      BY <1>0, OtherSound
    <3> QED
      BY <1>0, <3>1, LogSound
  <2>2. \A v \in UNION {forward_log_x_to_monitor(w, b, form) : w \in forward_to_warnsvr(front)} :
            Sound(v, {}, {})
    BY <2>1
  <2> QED
    BY <1>0, <1>5, <2>2, HandledKeeps DEF reqcode
<1>6. ASSUME NEW form \in Form, task(b, form)
      PROVE  Kept
  <2>1. ASSUME front.up, NEW w \in forward_to_monitor(front, b, form),
               NEW v \in forward_log_x_to_monitor(w, b, form)
        PROVE  Sound(v, {}, {})
    <3>1. /\ Sound(w, {}, {b}) /\ w.up
          /\ form # "whole" => Sound(w, {}, {})
      BY <1>0, <2>1, PassedFirst
    <3> QED
      BY <1>0, <3>1, LogSound
  <2> QED
    BY <1>0, <1>6, <2>1, HandledKeeps DEF task, Handled
<1>7. ASSUME NEW authentic \in BOOLEAN, awake_hook(b, authentic)
      PROVE  Kept
  <2> DEFINE v == IF authentic THEN [front EXCEPT !.open = @ \cup {b}] ELSE front
  <2>1. Sound(v, {}, {})
    BY <1>0, OpenedSound
  <2>2. Handled(UNION {log_to_monitor(u, b) : u \in Push(v, b)})
    BY <1>7 DEF awake_hook
  <2> HIDE DEF v
  <2> QED
    BY <1>0, <2>1, <2>2, PushSound, LogonSound, HandledKeeps
<1> QED
  BY <1>1, <1>2, <1>3, <1>4, <1>5, <1>6, <1>7 DEF BoxFrame

LEMMA MonitorFrameKeeps ==
    ASSUME IInv, NEW b \in Box, MonitorFrame(b)
    PROVE  Kept
<1>0. TypeOK /\ Sound(front, {}, {})
  BY DEF IInv
<1>1. ASSUME NEW net \in {"inet", "bd"}, NEW form \in Form, task_answer(b, net, form)
      PROVE  Kept
  <2>1. ASSUME NEW w \in forward_to_warnsvr(front), NEW v \in forward_to_app(w, b, net, form)
        PROVE  Sound(v, {}, {})
    <3>1. Sound(w, {}, {})
      BY <1>0, OtherSound
    <3> QED
      BY <3>1, AppSound
  <2> QED
    BY <1>0, <1>1, <2>1, HandledKeeps DEF task_answer
<1>2. ASSUME NEW net \in {"inet", "bd"}, NEW form \in Form, verify_hook(b, net, form)
      PROVE  Kept
  BY <1>0, <1>2, AppSound, HandledKeeps DEF verify_hook
<1>3. ASSUME NEW net \in {"inet", "bd"}, NEW form \in Form, command(b, net, form)
      PROVE  Kept
  <2> DEFINE once  == forward_to_app(front, b, net, form)
             twice == UNION {forward_to_app(w, b, net, form) : w \in once}
  <2>1. ASSUME NEW w \in twice
        PROVE  Sound(w, {}, {})
    <3>1. PICK u \in once : w \in forward_to_app(u, b, net, form)
      BY <2>1
    <3>2. Sound(u, {}, {})
      BY <1>0, <3>1, AppSound
    <3> QED
      BY <3>1, <3>2, AppSound
  <2>2. Handled(UNION {forward_log_x_to_monitor(w, b, form) : w \in twice})
    BY <1>3 DEF command
  <2> HIDE DEF twice
  <2>3. ASSUME NEW w \in twice, NEW v \in forward_log_x_to_monitor(w, b, form)
        PROVE  Sound(v, {}, {})
    BY <1>0, <2>1, <2>3, LogSound
  <2> QED
    BY <1>0, <2>2, <2>3, HandledKeeps
<1> QED
  BY <1>1, <1>2, <1>3 DEF MonitorFrame

LEMMA WarnsvrFrameKeeps ==
    ASSUME IInv, NEW b \in Box, WarnsvrFrame(b)
    PROVE  Kept
<1>0. TypeOK /\ Sound(front, {}, {})
  BY DEF IInv
<1>1. ASSUME NEW net \in {"inet", "bd"}, NEW form \in Form, warn(b, net, form)
      PROVE  Kept
  <2>1. ASSUME NEW w \in forward_other_to_monitor(front),
               NEW v \in forward_to_app(w, b, net, form)
        PROVE  Sound(v, {}, {})
    <3>1. Sound(w, {}, {})
      BY <1>0, OtherSound
    <3> QED
      BY <3>1, AppSound
  <2> QED
    BY <1>0, <1>1, <2>1, HandledKeeps DEF warn
<1>2. ASSUME NEW net \in {"inet", "bd"}, NEW form \in Form, dyncode(b, net, form)
      PROVE  Kept
  <2>1. ASSUME NEW w \in forward_to_app(front, b, net, form),
               NEW v \in forward_log_x_to_monitor(w, b, form)
        PROVE  Sound(v, {}, {})
    <3>1. Sound(w, {}, {})
      BY <1>0, AppSound
    <3> QED
      BY <1>0, <3>1, LogSound
  <2> QED
    BY <1>0, <1>2, <2>1, HandledKeeps DEF dyncode
<1>3. ASSUME NEW form \in Form, verify(b, form)
      PROVE  Kept
  <2>1. ASSUME NEW w \in forward_other_to_monitor(front),
               NEW v \in forward_log_x_to_monitor(w, b, form)
        PROVE  Sound(v, {}, {})
    <3>1. Sound(w, {}, {})
      BY <1>0, OtherSound
    <3> QED
      BY <1>0, <3>1, LogSound
  <2> QED
    BY <1>0, <1>3, <2>1, HandledKeeps DEF verify
<1> QED
  BY <1>1, <1>2, <1>3 DEF WarnsvrFrame

(* Peers that come and go. *)
LEMMA PeersKeep ==
    ASSUME IInv, auth_hook_bdsvr \/ authack_hook \/ Renew \/ \E p \in Peer : Leave(p)
    PROVE  Kept
<1>0. TypeOK /\ Sound(front, {}, {})
  BY DEF IInv
<1>1. ASSUME auth_hook_bdsvr
      PROVE  Kept
  <2>1. Sound([front EXCEPT !.open = front.open \cup {"bdsvr01"}], {}, {})
    BY <1>0, OpenedSound DEF Peer
  <2>2. Sound([front EXCEPT !.open = front.open \ {"bdsvr01"}], {}, {})
    <3>1. Sound(Closed(front, "bdsvr01"), {}, {})
      BY <1>0, ClosedSound DEF Peer
    <3>2. Closed(front, "bdsvr01") = [front EXCEPT !.open = front.open \ {"bdsvr01"}]
      <4> DEFINE v == [front EXCEPT !.open = front.open \ {"bdsvr01"}]
      <4>1. Closed(front, "bdsvr01") = [v EXCEPT !.view = front.view]
        BY DEF Closed
      <4>2. v \in FrontType /\ v.view = front.view
        BY <1>0, FieldTypes, OpenFields DEF Sound
      <4>3. [v EXCEPT !.view = v.view] = v
        <5> HIDE DEF v
        <5> QED
          BY <4>2 DEF FrontType
      <4> QED
        BY <4>1, <4>2, <4>3
    <3> QED
      BY <3>1, <3>2
  <2> QED
    BY <1>0, <1>1, <2>1, <2>2, HandledKeeps DEF auth_hook_bdsvr
<1>2. ASSUME authack_hook
      PROVE  Kept
  <2> DEFINE w == Closed(front, "monitor")
             v == [w EXCEPT !.open = w.open \cup {"monitor"}]
  <2>1. Sound(w, {}, {})
    BY <1>0, ClosedSound DEF Peer
  <2>2. Sound(v, {}, {})
    BY <2>1, OpenedSound DEF Peer
  <2> HIDE DEF w
  <2>3. Handled({w, v})
    BY <1>2 DEF authack_hook, w
  <2> QED
    BY <1>0, <2>1, <2>2, <2>3, HandledKeeps
<1>3. ASSUME Renew
      PROVE  Kept
  <2>1. Sound([front EXCEPT !.open = front.open \cup {"warnsvr"}], {}, {})
    BY <1>0, OpenedSound DEF Peer
  <2> QED
    BY <1>0, <1>3, <2>1, HandledKeeps DEF Renew
<1>4. ASSUME NEW p \in Peer, Leave(p)
      PROVE  Kept
  BY <1>0, <1>4, ClosedSound, HandledKeeps DEF Leave
<1> QED
  BY <1>1, <1>2, <1>3, <1>4

LEMMA ConfigKeeps ==
    ASSUME IInv, NEW t \in WarnTime, config_hook(t)
    PROVE  Kept
<1>1. Sound(front', {}, {})
  BY OtherSound DEF IInv, config_hook
<1> QED
  BY <1>1, HandlerKeeps DEF IInv, config_hook

LEMMA RestartKeeps ==
    ASSUME IInv, Restart
    PROVE  Kept
<1>1. Init'
  BY DEF Restart, Init
<1>2. IInv'
  BY <1>1, InitIInv, PTL
<1>3. NoAlarm
  BY DEF Restart, Started, NoAlarm
<1> QED
  BY <1>2, <1>3 DEF Kept

LEMMA TickKeeps ==
    ASSUME IInv, Tick
    PROVE  Kept
<1> DEFINE left == [b \in Box |-> IF front.due[b] > 0 THEN front.due[b] - 1 ELSE 0]
<1>1. /\ front \in FrontType /\ elapsed \in 0 .. Sec /\ Sec \in 1 .. 5
      /\ g_warntime \in WarnTime
  BY SecAssumption DEF IInv, TypeOK, Sound
<1>2. front.due \in [Box -> Nat] /\ front.life \in [Box -> Int]
  BY <1>1, FieldTypes
<1>3. left \in [Box -> Nat]
  BY <1>2
<1>4. front' = [front EXCEPT !.due = left] /\ UNCHANGED g_warntime
  BY DEF Tick
<1>5. elapsed' = IF elapsed < Sec THEN elapsed + 1 ELSE elapsed
  BY DEF Tick
<1> HIDE DEF left
<1>6. /\ front' \in FrontType /\ front'.open = front.open
      /\ front'._t = front._t /\ front'._q = front._q /\ front'.life = front.life
      /\ front'.due = left /\ front'.db = front.db /\ front'.view = front.view
  BY <1>1, <1>3, <1>4 DEF FrontType
<1>7. elapsed' \in 0 .. Sec /\ elapsed' <= elapsed + 1 /\ (elapsed = Sec => elapsed' = Sec)
  BY <1>1, <1>5
<1>8. ASSUME NEW c \in Box
      PROVE  Entry(front, c)'
  <2>1. Entry(front, c)
    BY DEF IInv, Sound
  <2>2. left[c] = IF front.due[c] > 0 THEN front.due[c] - 1 ELSE 0
    BY DEF left
  <2>3. front.due[c] \in Nat /\ front.life[c] \in Int
    BY <1>2
  <2>4. c \in front._t /\ front.life[c] < 0 => left[c] = 0
    BY <2>1, <2>2, <2>3 DEF Entry
  <2>5. c \in front._t /\ ~(front.life[c] < 0) => left[c] <= front.life[c] + Sec - elapsed'
    BY <1>1, <1>7, <2>1, <2>2, <2>3 DEF Entry
  <2> QED
    BY <1>6, <2>1, <2>4, <2>5 DEF Entry
<1>9. Sound(front, {}, {})'
  BY <1>6, <1>8 DEF IInv, Sound, Recorded, Viewed, Unseen, Quiet
<1>10. TypeOK' /\ NoAlarm
  BY <1>1, <1>4, <1>6, <1>7 DEF TypeOK, NoAlarm
<1> QED
  BY <1>9, <1>10 DEF Kept, IInv

-----------------------------------------------------------------------------
(* The check: a box has gone after as many checks as its life has periods, *)
(* which takes the time it was given at least.                             *)

LEMMA GoneIsDue ==
    ASSUME IInv, elapsed = Sec, NEW c \in Gone
    PROVE  c \in front._t /\ front.due[c] = 0
<1>1. /\ front \in FrontType /\ Sec \in 1 .. 5 /\ c \in Box
      /\ Entry(front, c) /\ front._q[c] > 0 /\ front.life[c] - Sec * front._q[c] < 0
  BY SecAssumption DEF IInv, Sound, Gone, Life
<1>2. front.life[c] \in Int /\ front.due[c] \in Nat
  BY <1>1, FieldTypes
<1>3. c \in front._t /\ front._q[c] = 1
  BY <1>1 DEF Entry
<1>4. front.life[c] < Sec /\ front.life[c] % Sec = 0
  BY <1>1, <1>2, <1>3 DEF Entry
<1>5. front.life[c] <= 0
  <2>1. \/ Sec = 1 \/ Sec = 2 \/ Sec = 3 \/ Sec = 4 \/ Sec = 5
    BY <1>1
  <2> QED
    BY <1>2, <1>4, <2>1
<1>6. front.life[c] = 0 => front.due[c] <= 0
  BY <1>1, <1>2, <1>3 DEF Entry
<1>7. front.life[c] < 0 => front.due[c] = 0
  BY <1>1, <1>3 DEF Entry
<1> QED
  BY <1>2, <1>3, <1>5, <1>6, <1>7

LEMMA CheckFields ==
    ASSUME IInv, check_inactive_client
    PROVE  /\ front' \in FrontType
           /\ front'._t = front._t \ Gone
           /\ front'._q = [b \in Box |-> IF b \in Gone THEN 0 ELSE front._q[b]]
           /\ front'.life = [b \in Box |-> IF b \in Gone THEN front.life[b] ELSE Life(b)]
           /\ front'.due = front.due
           /\ front'.db = [b \in Box |-> IF b \in Gone THEN "disappear" ELSE front.db[b]]
           /\ Unseen(front)'
           /\ \A b \in Box : \/ front'.view[b] = "unknown"
                             \/ b \in Gone /\ front'.view[b] = "gone"
                             \/ b \notin Gone /\ front'.view[b] = front.view[b]
<1> DEFINE u == users_act_check
           w == [u EXCEPT
                   !.db = [b \in Box |-> IF b \in Gone THEN "disappear" ELSE front.db[b]]]
           told == [w EXCEPT !.view = [b \in Box |-> IF b \in Gone THEN "gone"
                                                     ELSE front.view[b]]]
<1>1. /\ front \in FrontType /\ Unseen(front) /\ Sec \in 1 .. 5
      /\ front._t \in SUBSET Box
      /\ front._q \in [Box -> Nat] /\ front.life \in [Box -> Int]
      /\ front.db \in [Box -> {"none", "logon", "report", "disappear"}]
      /\ front.view \in [Box -> {"unknown", "active", "gone"}]
  BY FieldTypes, SecAssumption DEF IInv, Sound
<1>2. /\ front._t \ Gone \in SUBSET Box
      /\ [b \in Box |-> IF b \in Gone THEN 0 ELSE front._q[b]] \in [Box -> Nat]
      /\ [b \in Box |-> IF b \in Gone THEN front.life[b] ELSE Life(b)] \in [Box -> Int]
      /\ [b \in Box |-> IF b \in Gone THEN "disappear" ELSE front.db[b]]
             \in [Box -> {"none", "logon", "report", "disappear"}]
      /\ [b \in Box |-> IF b \in Gone THEN "gone" ELSE front.view[b]]
             \in [Box -> {"unknown", "active", "gone"}]
  <2>1. \A b \in Box : Life(b) \in Int
    BY <1>1 DEF Life
  <2> QED
    BY <1>1, <2>1
<1>3. /\ u \in FrontType /\ u.open = front.open /\ u._t = front._t \ Gone
      /\ u._q = [b \in Box |-> IF b \in Gone THEN 0 ELSE front._q[b]]
      /\ u.life = [b \in Box |-> IF b \in Gone THEN front.life[b] ELSE Life(b)]
      /\ u.due = front.due /\ u.view = front.view
  BY <1>1, <1>2 DEF users_act_check, FrontType
<1> HIDE DEF u
<1>4. /\ w \in FrontType /\ w.open = u.open /\ w._t = u._t /\ w._q = u._q
      /\ w.life = u.life /\ w.due = u.due /\ w.view = u.view
      /\ w.db = [b \in Box |-> IF b \in Gone THEN "disappear" ELSE front.db[b]]
  BY <1>2, <1>3 DEF FrontType
<1> HIDE DEF w
<1>5. /\ told \in FrontType /\ told.open = w.open /\ told._t = w._t /\ told._q = w._q
      /\ told.life = w.life /\ told.due = w.due /\ told.db = w.db
      /\ told.view = [b \in Box |-> IF b \in Gone THEN "gone" ELSE front.view[b]]
  BY <1>2, <1>4 DEF FrontType
<1> HIDE DEF told
<1>6. front' \in IF Gone = {} \/ "monitor" \notin front.open THEN {w}
                 ELSE Push(told, "monitor")
  BY DEF check_inactive_client, u, w, told
<1>7. CASE front' = w /\ (Gone = {} \/ "monitor" \notin front.open)
  <2>1. \A b \in Box : front.view[b] = "unknown" \/ b \notin Gone
    BY <1>1, <1>7 DEF Unseen
  <2> QED
    BY <1>1, <1>3, <1>4, <1>7, <2>1 DEF Unseen
<1>8. CASE front' = told /\ "monitor" \in front.open
  BY <1>1, <1>3, <1>4, <1>5, <1>8 DEF Unseen
<1>9. CASE front' = Closed(told, "monitor")
  <2>1. LET v == Closed(told, "monitor")
        IN  /\ v \in FrontType
            /\ v._t = told._t /\ v._q = told._q /\ v.life = told.life /\ v.due = told.due
            /\ v.db = told.db /\ v.view = [b \in Box |-> "unknown"]
    BY <1>5, ClosedFields DEF Peer
  <2> QED
    BY <1>3, <1>4, <1>5, <1>9, <2>1 DEF Unseen
<1> QED
  BY <1>6, <1>7, <1>8, <1>9 DEF Push

LEMMA CheckKeeps ==
    ASSUME IInv, check_inactive_client
    PROVE  Kept
<1>1. /\ front \in FrontType /\ Sec \in 1 .. 5 /\ elapsed = Sec /\ elapsed' = 0
      /\ g_warntime \in WarnTime /\ UNCHANGED g_warntime
  BY SecAssumption DEF IInv, TypeOK, Sound, check_inactive_client
<1>2. \A c \in Gone : c \in front._t /\ front.due[c] = 0
  BY <1>1, GoneIsDue
<1>3. ASSUME NEW c \in Box
      PROVE  /\ Entry(front, c)' /\ Recorded(front, c)' /\ Viewed(front, c)'
             /\ front'.db[c] = "disappear" => front.db[c] = "disappear" \/ c \in Gone
  <2>1. Entry(front, c) /\ Recorded(front, c) /\ Viewed(front, c)
    BY DEF IInv, Sound
  <2>2. front._q[c] \in Nat /\ front.life[c] \in Int /\ front.due[c] \in Nat
    BY <1>1, FieldTypes
  <2>3. CASE c \in Gone
    <3>1. /\ c \notin front'._t /\ front'._q[c] = 0 /\ front'.life[c] = front.life[c]
          /\ front'.db[c] = "disappear"
          /\ front'.view[c] = "unknown" \/ front'.view[c] = "gone"
      BY <2>3, CheckFields
    <3> QED
      BY <2>1, <2>3, <3>1 DEF Entry, Recorded, Viewed
  <2>4. CASE c \notin Gone
    <3>1. /\ c \in front'._t <=> c \in front._t
          /\ front'._q[c] = front._q[c] /\ front'.life[c] = Life(c)
          /\ front'.due[c] = front.due[c] /\ front'.db[c] = front.db[c]
          /\ front'.view[c] = "unknown" \/ front'.view[c] = front.view[c]
      BY <2>4, CheckFields
    <3>2. Life(c) % Sec = 0
      <4>1. Life(c) = IF c \in front._t THEN front.life[c] - Sec ELSE front.life[c]
        BY <1>1, <2>1, <2>2 DEF Life, Entry
      <4>2. \/ Sec = 1 \/ Sec = 2 \/ Sec = 3 \/ Sec = 4 \/ Sec = 5
        BY <1>1
      <4>3. front.life[c] % Sec = 0
        BY <2>1 DEF Entry
      <4> QED
        BY <2>2, <4>1, <4>2, <4>3
    <3>3. c \in front._t => Life(c) >= 0 /\ front.due[c] <= Life(c) + Sec
      <4>1. SUFFICES ASSUME c \in front._t
                     PROVE  Life(c) >= 0 /\ front.due[c] <= Life(c) + Sec
        OBVIOUS
      <4>2. front._q[c] = 1 /\ Life(c) = front.life[c] - Sec
        BY <1>1, <2>1, <2>2, <4>1 DEF Life, Entry
      <4>3. ~(Life(c) < 0)
        BY <2>4, <4>2 DEF Gone
      <4>4. ~(front.life[c] < 0)
        BY <1>1, <2>2, <4>2, <4>3
      <4>5. front.due[c] <= front.life[c] + Sec - Sec
        BY <1>1, <2>1, <4>1, <4>4 DEF Entry
      <4> QED
        BY <1>1, <2>2, <4>2, <4>3, <4>5
    <3>4. Entry(front, c)'
      <4>1. front'._q[c] = IF c \in front'._t THEN 1 ELSE 0
        BY <2>1, <3>1 DEF Entry
      <4>2. front'.life[c] % Sec = 0
        BY <3>1, <3>2
      <4>3. c \in front'._t => /\ ~(front'.life[c] < 0)
                              /\ front'.due[c] <= front'.life[c] + Sec - elapsed'
        <5>1. Life(c) \in Int
          BY <1>1, <2>2 DEF Life, Entry
        <5> QED
          BY <1>1, <2>2, <3>1, <3>3, <5>1
      <4> QED
        BY <4>1, <4>2, <4>3 DEF Entry
    <3>5. Recorded(front, c)' /\ Viewed(front, c)'
      BY <2>1, <3>1 DEF Recorded, Viewed
    <3> QED
      BY <3>1, <3>4, <3>5
  <2> QED
    BY <2>3, <2>4
<1>4. Sound(front, {}, {})'
  BY <1>3, CheckFields DEF Sound, Quiet
<1>5. TypeOK'
  BY <1>1, CheckFields DEF TypeOK
<1>6. NoAlarm
  BY <1>2, <1>3 DEF NoAlarm
<1> QED
  BY <1>4, <1>5, <1>6 DEF Kept, IInv

LEMMA StepKeeps == IInv /\ [Next]_vars => Kept
<1> SUFFICES ASSUME IInv, [Next]_vars
             PROVE  Kept
  OBVIOUS
<1>1. ASSUME NEW b \in Box, BoxFrame(b) \/ MonitorFrame(b) \/ WarnsvrFrame(b)
      PROVE  Kept
  BY <1>1, BoxFrameKeeps, MonitorFrameKeeps, WarnsvrFrameKeeps
<1>2. CASE auth_hook_bdsvr \/ authack_hook \/ Renew \/ \E p \in Peer : Leave(p)
  BY <1>2, PeersKeep
<1>3. CASE \E t \in WarnTime : config_hook(t)
  BY <1>3, ConfigKeeps
<1>4. CASE Restart
  BY <1>4, RestartKeeps
<1>5. CASE Tick
  BY <1>5, TickKeeps
<1>6. CASE check_inactive_client
  BY <1>6, CheckKeeps
<1>7. CASE UNCHANGED vars
  BY <1>7, HandlerKeeps DEF vars, IInv, TypeOK
<1> QED
  BY <1>1, <1>2, <1>3, <1>4, <1>5, <1>6, <1>7 DEF Next

LEMMA Invariance == Spec => []IInv
<1>1. IInv /\ [Next]_vars => IInv'
  BY StepKeeps DEF Kept
<1> QED
  BY <1>1, InitIInv, PTL DEF Spec

(* The variables keep their types, whichever handler runs and whichever    *)
(* send within it fails.                                                   *)
THEOREM TypeCorrect == Spec => []TypeOK
<1>1. IInv => TypeOK
  BY DEF IInv
<1> QED
  BY <1>1, Invariance, PTL

(* The queue users_act_check() walks and the table users_act_save() asks   *)
(* hold the same boxes, each once.                                         *)
THEOREM OneRecordHolds == Spec => []OneRecord
<1>1. IInv => OneRecord
  BY DEF IInv, Sound, Entry, OneRecord
<1> QED
  BY <1>1, Invariance, PTL

(* The last row about a box agrees with whether it is watched, although    *)
(* the handlers store and note it at different places.                     *)
THEOREM RecordAgreesHolds == Spec => []RecordAgrees
<1>1. IInv => RecordAgrees
  BY DEF IInv, Sound, Recorded, RecordAgrees
<1> QED
  BY <1>1, Invariance, PTL

(* A connected monitor was last told the truth about every box.            *)
THEOREM ViewAgreesHolds == Spec => []ViewAgrees
<1>1. IInv => ViewAgrees
  BY DEF IInv, Sound, Viewed, ViewAgrees
<1> QED
  BY <1>1, Invariance, PTL

(* No box is declared to have disappeared before the time it was given has *)
(* passed, for every check period up to 5 s and every time to wait that is *)
(* a multiple of it.                                                       *)
THEOREM NoFalseAlarmHolds == Spec => NoFalseAlarm
<1>1. IInv /\ [Next]_vars
        => [\A b \in Box : front.db[b] # "disappear" /\ front'.db[b] = "disappear"
                          => front.due[b] = 0]_vars
  BY StepKeeps DEF Kept, NoAlarm
<1> QED
  BY <1>1, Invariance, PTL DEF Spec, NoFalseAlarm
=============================================================================
