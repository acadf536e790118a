# Verification of the mobox gateway

mobox connects "smart boxes" (over the Internet, or over the BeiDou satellite's
short messages) with monitoring clients. It is four C programs on a vendored
jabberd library (`src/mobox/jabber/{util,mio}`). The repository has no README,
design document or test: what the models and the properties say is taken from the
code, from its comments and from its log messages.

Contents: 1 inventory, 2 modules, 3 runs, 4 bounds and fairness, 5 proofs,
6 disagreements found, 7 not modelled, 8 plan.

## 1. Inventory

| program | serves | is a client of | own state |
|---|---|---|---|
| frontsvr | app boxes and bdsvr on 7120, monitor on 7126 | warnsvr 5433 | sessions by name, three session queues, box status table, database |
| monitor | monitoring clients on 3354 | frontsvr 7126 | sessions by name, subscriptions of tasks in two tables |
| bdsvr | bdjob on 3348 | frontsvr 7120 | job queue, jobber_free, session of bdjob, database |
| bdjob | nobody | bdsvr 3348 | three lists of BeiDou devices on serial ports, their timer thread |

Each program is one thread around `mio_run()` (a `select()` loop that calls READ,
WRITE, CLOSE and ACCEPT handlers), followed in every turn by housekeeping. bdjob has
in addition a timer thread and one reader thread per serial port.

A job (a code to transmit) travels: monitoring client -> monitor -> frontsvr ->
bdsvr (queued) -> bdjob (assigned to a device) -> satellite. Reports of a box travel
the other way and are published to the clients that subscribed to the box's task.

### Components

**frontsvr connections** (`frontsvr/p2p.c`, `main.c`, `opensess_exp.c`, the auth and
awake hooks of `bdsvr_callback.c`, `getrefsvr.c`). State: `p2p_st` objects with name,
role, last activity; `session_que` (live), `zombie_que` (silent for 20 s), `dead_sess`
(closed, freed after 7 s); the hash table `sessions` keyed by POINTERS to the
sessions' own names; mio's table from descriptor to handler. Operations: accept,
read and parse, close, initsession, auth, awake, ping, forward, the four
housekeeping functions. Hard: handlers run the CLOSE handler of other sessions, or
of their own, in the middle of their work; descriptor numbers and addresses are
reused; the key text of an entry changes when the name is overwritten; the rest of
a buffer is parsed after its connection was closed. Correct when: no session leaks or
is freed twice; events reach their own session; the table returns open sessions
only, and the right one; a silent peer is got rid of; freed memory is not read.

**monitor subscriptions** (`monitor/subscribe.c`, `moniclient_callback.c`, `p2p.c`,
`forward_to_monitclient` in `frontsvr_callback.c`). State: every session's list of
tasks, and per task a queue of sessions, both pointing to one heap copy of the
task's name. Operations: auth, sub, unsub, close, publish. Hard: publishing rotates
the task's queue, and a send that fails in the middle closes a follower, which edits
or frees that very queue. Correct when: both records agree; only open sessions
follow; each follower is sent each message once; no freed queue, name or session
is used.

**bdjob devices** (`bdjob/BDDeviceArray.cpp`, `bdexplain.cpp`). State: lists idles,
determinings, workings; per device the seconds till it may send again, the job, and
the flags initialised, pending, normal. Operations: the timer thread's round (check,
release, transmit), HasFreeDevice and GetFreeDevice/AssignWork of the main thread, the
reports ICI, FKI, ZTI of the reader threads. Hard: the reader threads take no lock;
the main thread's assignment takes it twice; receipts get lost; ports fail. Correct
when: a device is in one list; no job overwrites another; no device transmits within
its service period; a working device becomes free again.

**job dispatch** (`bdsvr/main.c`, `frontsvr_callback.cpp`, `bdjobber_callback.cpp`,
`opensess_exp.c`; `bdjob/main.cpp`, `bdsvrcallback.cpp`, `p2pclient.c`). State: the job
queue, `jobber_free`, bdjob's `m_nRemoteStatus` (hasjob, nojob), the connection.
Operations: queue a job, JOBME, NOJOB, CCTXA, loss, reconnection, restart. Hard: the
pull protocol is a handshake over two flags that must not end with both sides
waiting; losses and restarts between request and answer. Correct when: a job is in
one place at a time and is transmitted at most once; nobody waits for ever.

**write path** (`*/p2p.c`, `*/p2pclient.c`) and **message buffers** (`responsepkt.c`): pending
packet, queue of packets, want_write, and the packets the pool has lent; partial sends, a
backlog thrown away beyond `max_queue`. Hard: a packet leaves a connection in six ways (sent,
empty, part of a backlog, send failed, connection closed, session freed). Correct when: the
peer receives packets whole, in order, at most once; no waiting packet is lent to somebody
else, none is lent for ever.

**client connections** (`*/p2pclient.c`, `_save_deadsession` of the four programs):
connect, lose, reconnect on a timer, ping. Correct when: a lost connection is
renewed, and a renewed one is not taken for the lost one.

**message routing** (`frontsvr/bdsvr_callback.c`, `forward.c`, `monitor_callback.c`,
`warnsvr_callback.c`; `monitor/frontsvr_callback.c`; `bdsvr/bdjobber_callback.cpp`): which
peer gets a message, which state of a box and which database row changes, and what
happens when a peer is absent. Hard: a handler passes a message on, stores a row and
prolongs the box's life in an order that differs from handler to handler, and each send may
close the peer it was meant for.

**box status** (`frontsvr/userstatus.c`). State: hash table of active boxes, and a queue
of the same records that is checked every 5 seconds; `g_warntime`, which the operator
changes while records live. Correct when: table and queue hold the same records; a
box is declared to have disappeared when its time is over and not before; the
database and the monitor are told the same as the table says.

**frame search** (`expat.c`, and a copy of `search_frame` in `*_expat.c` per kind of peer). State: the
status of the search and the frame so far, which outlive a read; the window compared
with the titles, which does not. Operations: one byte at a time, find a title, collect,
find the end, give up. Hard: TCP cuts frames anywhere; the search goes back in the read
when it finds a title; a client's searcher survives its connection; an accepted connection begins with a
searcher for `$initsess` alone, which is replaced, and the work on its read ended, by the first frame
(`explain` returns -1). Correct when: frames are found whole, once, in order, wherever they are cut, and
the program comes back from every read.

**BeiDou sentence search** (`Tools/BDProtocal`, `bdjob/bdexplain.cpp`). State: per device
the status, the sentence so far and the length it claims; per class of searchers ONE
array for the title. Operations: as above, with a length field or a line end, then the
checksum. Hard: reader threads of several devices; a length field damaged on the line
is believed before the checksum. Correct when: undamaged sentences are found, and the
search gets into step again behind a damaged one.

PROJECT.json lists these and the remaining parts (database, configuration, vendored
code, files that no project file builds) with their status.

## 2. Modules

| module | models |
|---|---|
| `FrontSession` | connections of frontsvr: one action per frame kind, socket event and housekeeping function |
| `FrontSession_proofs` | its inductive invariants and eight theorems |
| `PubSub` | what publishing promises: follows, owed, sent |
| `Subscription` | the two subscription tables and the publishing loop; implements `PubSub` |
| `Subscription_proofs` | its inductive invariant, four theorems, one of them the refinement |
| `BdDevices` | devices, timer thread, reader threads, main thread's two-step assignment |
| `JobDispatch` | bdsvr's queue and bdjob's loop joined by a lossy link; extends `BdDevices` |
| `JobDispatch_proofs` | the inductive invariants of both, and that the devices behave under dispatch as they do alone |
| `LossyFifo` | what the write path promises: order, once, and when packets may be dropped |
| `OutQueue` | the write path of one connection, accepted or of a client, and what the pool of packets has lent; implements `LossyFifo` |
| `OutQueue_proofs` | its inductive invariant and five theorems, one of them the refinement |
| `P2pClient` | the client connection of a program: initialised, pinged, silent, closed, renewed, in seconds |
| `P2pClient_proofs` | its inductive invariant and three theorems |
| `BoxStatus` | the messages through frontsvr, and the table of active boxes they keep up to date |
| `BoxStatus_proofs` | its inductive invariant and five theorems |
| `FrameSearch` | the search for frames in what a connection delivers |
| `FrameSearch_proofs` | its inductive invariant and three theorems |
| `SentenceSearch` | the search for BeiDou sentences in what serial lines deliver to several threads |
| `SentenceSearch_proofs` | its inductive invariants and four theorems |
| `MC*` | constants of the instances |

Conventions. A session is an ADDRESS: it is allocated by an accept, freed, and may be
allocated again, so stale pointers are expressible. The closing of a connection
(mio's table, the hash table, the queues) is an operator that yields the set of
possible next values (`Closed`), since a search by name may find any of several equal
keys; handlers are composed from it, so that a CLOSE inside a handler is part of that
handler's step. Reading a freed session is undefined: the models set `ub` and stop.
Operators named `X_Something` beside an operator `X`, marked "Mutant", are variants with
a plausible error; no specification uses them. They serve to show that each property
notices an error of its kind.

`FrontSession`: `pc` is the place in `main()`'s loop; `net` is what `mio_close()` changes
(slot, poll set, hash table, live and dead queue); `sname`, `role`, `idle` are session
fields; `answered` is a history variable (the name last acknowledged); `reading` is the
session whose buffer is being parsed. Queues are counts per session, since the code
rotates them all the time and only membership matters.

`Subscription`: `net` again holds what closing changes, here also `subs` (the tasks of a
session) and `table` (the followers of a task); the publishing loop is one step per
follower, since between two followers a failing send runs the CLOSE handler.
`PubSub` is its abstraction: `follows` is read off the table, `owed` is what the loop
has still to send, `sent` what it has sent. `unanswered` is a history variable: a send failed while an auth
was answered.

`BdDevices`: a round of the timer thread is three steps (after which the reader threads
may interleave): `ChechDeviceState`, `CheckFreeList`, `SendComm`/`SendCommReturns` per device. The
main thread's `HasFreeDevice`, `GetFreeDevice` and `AssignWork` need the lock
(timer = "sleep"); `ICI`, `FKI` and `ZTI` do not. `since` is a history variable: seconds
since the device last transmitted.

`JobDispatch`: FIFO links in both directions, emptied when the connection is lost;
`jobber` says what bdsvr's session for "bdjob" is (current, stale, closed, freed). bdjob's
steps are those of `BdDevices`, conjoined with the link.

`OutQueue`: `io` is what a write event changes (queue, pending packet, want_write), with the
bytes the socket took as history; the result of a push or write event is a set, one
element for each part of the packet the socket may take. `client` chooses what the CLOSE
handler does: an accepted connection keeps its packets until `sess_free`, a client gives
them back at once and is renewed (`p2pclient_connect`). `cacheque_use` is the packets the pool has lent;
`unheard` those written to a closed client, which nobody gives back. `LossyFifo` sees the pending
packet and the queue as one sequence.

`FrameSearch`: a byte is <<f, i>>, the i-th of the f-th frame, so that "is this a title"
and "is this the line end" are questions about positions, and a frame glued together from
two is visible as such. `exp` is what outlives a read, `call` the local variables of
`exp_process_data` and `search_frame`; one step per byte. `program` chooses the limit, whether a NUL is
passed over and whether the searcher is cleared on a loss. `phase` says whether the connection is one
to a server, or an accepted one and how far that has come: connected, `$initsess` sent, open. Until it is open the
only title is that of `$initsess`, and the end of that frame ends the work on the read (`EndOfOpening`).
The copies of `search_frame` differ in titles and limits only.

`SentenceSearch`: the same bytes, per device; `head` is the static array of each class.
Steps of two devices interleave byte by byte. `Damaged` is what the line does to a
sentence: one byte lost or replaced.

`P2pClient`: `home` counts the session's entries in `session_que`, `zombie_que`, `dead_sess`;
`clock` holds the seconds since the last read, the last round of each timer, and since
`main()` took `now`; `owed` the ages of the requests a prompt peer has not answered. `program`
chooses the silence limit, whether a failed send resets `want_read` (`GivesUpReading`: frontsvr and monitor), and which queue's
size bounds `clear_zombies`.

`BoxStatus`: one action per handler of `bdsvr_exp_cb`, `monitor_exp_cb` and `warnsvr_exp_cb`.
`front` is what they change: the peers registered, the table `_t`, the queue `_q` (how often it
holds each box), each record's life. An operator that may send yields the set of its
outcomes, one of them with the peer closed. A frame's content is its `form`: it has every field,
lacks one that only some of the callees need, or lacks one that all need. History variables: `due`,
the time a box has left by the clock; `db`, the kind of the last row about it; `view`, what the
monitor was last told. When bdsvr is absent `forward_to_app` logs a pointer that was never
set; one of the outcomes is that frontsvr ends (`up`), and `Restart` begins anew.

## 3. Runs

| run | shows |
|---|---|
| front_any | whatever peers send, in any interleaving with the sweeps: one home per session, events reach their session, a parsed session is allocated, a silent peer's session is freed |
| front_polite | with peers that identify themselves once and wait for answers: the table names open sessions, the answered peer is reachable, the poll set is good, freed memory is not read |
| sub_any | both subscription records agree wherever a send fails; `Subscription` implements `PubSub`; publishing never uses a freed queue, name or session |
| sub_unsub | violation, see 6 |
| dev_any | one list per device, no overwritten job, no transmission within the service period; a working device becomes free again though receipts may be lost |
| dispatch_any | a job is transmitted at most once, with a bad job, and a loss or a restart; neither side waits for the other for ever, and jobs leave the queue |
| out_any | `OutQueue` implements `LossyFifo`; bytes arrive whole and in order; nothing waits without being polled for; the pool has lent what waits, through closing, freeing and renewal |
| client_any | silent client connections are closed, closed ones renewed, those of a peer that answers within 5 s kept; a session is in one queue; frontsvr, monitor and bdsvr |
| box_any | whatever frames arrive, whichever peers are there, and whichever send fails: table and queue agree, no box is declared before its time or twice, database and monitor agree with the table, a silent box is declared |
| frames_any | wherever reads cut the stream, and with a connection lost within a frame: frames are lost for the five reasons of `OnlyHurtLost` only, no line is handled twice, the program comes back from every read |
| sentence_any | one device of either protocol, any cuts, one damaged byte: no sentence is lost but those the damage reaches, and the buffers are not overrun |
| sentence_two | violation, see 6 |

Environment constants make the assumptions of a run explicit: `OneAuth` (a peer
identifies itself once), `Pipelined` (it sends before it has the answer), `SendFails` (a
send may fail inside a handler), `UnsubLast` (a client unsubscribes only its last task),
`WriteZero` (a serial write may fail), `BadJob` (jobs bdjob cannot read), `MaxFaults`
(losses of the connection and restarts of bdsvr, together), `MaxLoss`, `MaxDamage`, and `Alone`
(no two devices have one protocol). Where a property
does not hold with the wider environment, the README says so in 6, or the hazard in
PROJECT.json does.

## 4. Bounds and fairness

Two sessions on two descriptors suffice for reuse of an address and of a number in both
orders, and for a registered session with a newcomer under its name; three sessions
(front_polite, sub_*) add a bystander in the same bucket or the same queue. Names are
chosen by class: "short" and "long" names that share no text, and "mixed", the text the
four-byte overwrite of a rename leaves, in the bucket of "short" (front_polite has these two). Two tasks and two names distinguish "this" from "another".
Two devices and two jobs let an assignment race with another device's round; `Freq`
of 3 seconds gives a period in which the device may not send. dispatch_any has one device and
three jobs, the last unreadable; `MaxLink` and `MaxFaults` bound the link. In `OutQueue` five packets of up to two bytes exceed `MaxQueue` = 1 by
enough for a backlog to be thrown away while a packet is partly sent, and to fill again;
`MaxWant` bounds want_write, which every partial send increments. `FrameSearch` has a window of 3
bytes for 10, a frame as short as its window allows (4 bytes, as a ping is short beside other
frames) and one longer than two windows (9), which reaches the limit of bdsvr and
bdjob and not that of frontsvr: so that a read can cut a head, hold several frames, or
begin with the tail of one. Three frames give a lost one a neighbour on each side;
the middle one may take the connection with it. `$initsess` opens an accepted connection; behind it
two frames may stand in its read, or in the next. bdjob accepts no connection. `SentenceSearch` has titles of 3 and 2 bytes for 6 and
5, one kind for each way to end, and `Claims` of a length shorter than a sentence, longer than
one, and beyond the buffer; four sentences let the damaged one swallow two and the
search still get into step again. `P2pClient` has the
code's own waits (7, 2, 2 s; silence 20, 10, 7 s), one session, and two socket numbers, so
that a new socket has the number of a closed one or not. `BoxStatus` has two boxes, so that
a check of the queue meets one that is over and one that is not; a check every `Sec` = 2
seconds and a time of 2 seconds, so that a life lasts two checks, the first of which may come at once
or late; and the time -2, since the handler of the operator's configuration and
the database accept a negative number and refuse only 0. Two checks show every
case of the comparison `life < 0` (left over, exactly 0, below).

`CHECK_DEADLOCK FALSE` is used where a run may stop legitimately: all jobs sent and bounds
used up, freed memory read (`ub`), or the loop stopped in `select()` on a closed
descriptor (`PollSetOpen` states when that cannot happen).
front_polite, client_any and box_any are checked for deadlock.

Fairness is assumed of the program only. The loop of `main()` runs for ever, so its steps
are weakly fair; the sweeps come due again and again by their timers, so that they are
strongly fair although each turn may skip them; `mio_run()` handles a finite set of
events and returns. Time passes, so that a device set aside has waited 3 seconds in the end (`Waited` in
`JobDispatch`, weakly fair), and bdjob asks again for what was dropped. bdjob's timer thread sleeps a second without the lock, so the main
thread's operations, enabled then, are strongly fair. In `P2pClient` time passes again and again
(strongly fair `Tick`: a turn of the loop need not take a second); a prompt peer answers,
which is what prompt means; that a server accepts at last is a premise of `Renewed`, not
of the specification. In `FrameSearch` only the search is fair: a thread that has bytes to look
at goes on; no read, frame or reconnection is. `BoxStatus`
needs weak fairness only, for the clock and for `check_inactive_client`, which every turn of the loop
calls and which acts once `Sec` seconds have passed. Peers, devices and the network
owe nothing: no report, answer, frame or loss is fair.

## 5. Proofs

Every theorem is about the specification TLC checks, for every value of the constants
that satisfies the module's named assumptions: any number of sessions, boxes, devices, jobs, packets
and frames, any sizes and limits. What else a theorem assumes is in its statement, as a hypothesis with a name.
A proof module states an inductive invariant as a conjunction of named parts, has one lemma
for each action that says the action preserves it, and ends with the theorems.

**`FrontSession_proofs`.** `TypeCorrect`, `OneHomeHolds`, `SlotOwnerHolds` and
`ReaderAllocatedHolds`: `Spec => []` the property of that name (`TypeOK`), whatever the environment does.
None is inductive alone. A session can be closed by the handler of another one, so that
`OneHome` needs to know that the slot mio calls belongs to an allocated session that is
in `session_que` or `zombie_que` and not yet in `dead_sess` (`SlotOwner`); freeing needs the
converse, that a session in `dead_sess` has no slot; and that no buffer is being parsed
while housekeeping runs (`ReaderAllocated`). `IInv` is their conjunction with `TypeOK`. The lemmas
about `Closed` and the pushes say once what closing does to these parts.
`RegisteredOpenHolds`, `ReachableHolds`, `PollSetOpenHolds` and `NoUseAfterFreeHolds` have the hypothesis
`Polite`: a peer sends one complete auth and waits for its answer, and no send fails inside a
handler. Without it the code breaks each of them (6, and TLC with the wider environment): a second auth or a short
one leaves an entry of the table behind its session. `RInv` adds to `IInv` that an entry of the table is
one of an open session under the name it has (`RegOK`), and that an acknowledged name is registered (`AnsweredOK`).

**`Subscription_proofs`.** `TypeCorrect`, `SubsMatchTableHolds`, `NoUseAfterFreeHolds`, and
`Refinement`: `Spec => PromiseKept`, every step is one of `PubSub` or a stutter. The hypothesis
`Tame` is the environment of sub_any (one auth, wait for answers, unsubscribe only from the
last task); sub_unsub is what happens without. `SubInv` says of `net` that the table's queues
hold registered sessions, each once (`TableOK`, `ListsOK`), that table and lists name the same pairs
(`Agree`), and of the publishing loop that what it has still to visit is a part of the queue it walks,
which closing one session shortens by that session only (`PublishingOK`).

**`JobDispatch_proofs`.** About `BdDevices` alone: `OneListHolds`, `NoOverwriteHolds` and `FrequencyKeptHolds`
(an action property: no transmission within `Freq` seconds of the last). `Period`, the heart of `DevInv`, relates the code's
countdown to the clock: `since + ticks` is at least the period, and one more between the
release of a device and its next transmission. `DevicesUnderDispatch`: `DispatchSpec => Spec`, so that these
theorems hold under dispatch too. About the dispatch: `TypeCorrect`, `AtMostOnceHolds`, with any losses, restarts and
unreadable jobs, and `SomeoneMovesHolds`. `DispatchInv` says that a job is in at most one place
(bdsvr's queue, the link, a device, the air; `Apart`), and what bdsvr knows of the session registered under "bdjob" (`Registered`).

**`OutQueue_proofs`.** `TypeCorrect`, `NoStallHolds`, `WholeInOrderHolds`, `LentHolds`, and `Refinement`:
`Spec => ImplementsFifo`. `Good(w, sz)` is the invariant of a value w of `io` between the steps of
a handler: the packets that wait were pushed, in increasing order (`Ordered`; without it giving a packet
back twice cannot be excluded), the pool has lent what waits and what nobody heard of, disjointly (`Pool`), and the
last byte on the wire is the one before the pending packet's rest (`AtEnd`).

**`P2pClient_proofs`**, for the programs that empty `zombie_que` (`Sweeping`; bdjob
bounds that loop by another queue's size): `TypeCorrect`, `OneHomeHolds`, and, with `InTime`
(`Delay + PingWait <= Silence`), `PromptKeptHolds`: a connection whose peer answers within `Delay` seconds is never closed for silence.
`IInv` adds where a closed session may be in each place of the loop (`Places`), that no ping is
late (`OnTime`), and that a connection silent for so long has a request the peer still owes an answer (`Heard`).

**`BoxStatus_proofs`**, for every set of boxes, every period `Sec` of checks from 1 to 5
seconds and every set of times that are multiples of it (the code has 5, and multiples
of 60): `TypeCorrect`, `OneRecordHolds`, `RecordAgreesHolds`, `ViewAgreesHolds`: `Spec => []`
the property of that name; `NoFalseAlarmHolds`: `Spec => NoFalseAlarm`, an action property.
`IInv` adds to these what relates a record to the clock (`Entry`): its life is a whole number of
checks, and the time left by the clock is at most life + Sec - elapsed; so that a
life that the check makes negative was 0 before, when no time was left. It also says that nothing is
noted of a monitor that is not connected (`Unseen`), since a push that fails in a handler closes its session.
Handlers violate the agreements on the way: between a row, a message and the note of a box
the three differ. `Sound(w, D, V)` is therefore `IInv` of an intermediate value w but for the
rows of the boxes D and the view of those in V; the lemmas say what each helper does to
these sets, and each handler must end with both empty.

**`FrameSearch_proofs`.** `TypeCorrect`, `OncePerLineHolds` and `OnlyHurtLostHolds`, for frames of any lengths,
any cuts and any losses. The five reasons: the head of the frame was cut, or stands behind half a frame of a lost connection; its title
is longer than the window; it is too long; `opensess_exp` read a byte of it; it follows a lost frame in a read. What was read and what is on the wire are one run of successive bytes (`StreamOK`); the searcher
is at the start of a frame (`Starting`), within one and in step with it (`Aligned`), or in a frame
that may be lost (`Spoilt`); every frame passed was given or may be lost (`Accounted`); a frame that opens a
connection is its first, and what else `opensess_exp` reads is excused (`PhaseOK`). `Begin` goes back in the read
and may glue the title of one frame to the rest of another: `Joined` says that the glued frame cannot end before a
line end of its own, which is why no line is handled twice.

**`SentenceSearch_proofs`.** `TypeCorrect`, the bounds of the buffers, whatever the lines deliver and however threads
interleave. It needs that nothing but Noise and bytes of sentences sent is on the lines and in the buffers (`KnownOK`, `HeadsOK`), since
the length field is read from them. With the hypothesis `Alone` (no two devices have one protocol; `sentence_two`
is what happens otherwise), `OnlyDamagedLostHolds`, for any kinds and lengths of sentences, any limit, any number of sentences and of
damages: what is lost was damaged, or damage to another reaches it. Two more say it without lengths: `LostAfterDamageHolds`, nothing is
lost before the first damaged sentence of the line, and `LostInRunsHolds`, what is lost was damaged, or the one its device sent
before it was damaged or lost, so that losses are runs that start with damage.
The property is not inductive, as it speaks of lines read to the end. `LInv` is: it looks at a device's `Window`, the bytes
the search holds and behind them those it has not seen, from which a search step cuts bytes off the front and to which a
send adds at the end. `Laid` says how the bytes lie: in order; an undamaged sentence is whole to its last byte, and in one piece
(`GoesOn`, `GoesBack`); it begins where the one before ended, if that has no damage (`Joints`); and between the first bytes of two sentences at
most one byte is missing for each that is damaged (`Spaced`). The place behind the window counts as the first byte of the next sentence (`Beyond`), since
the search must also be ready for what is still to be sent. `FrameOK` says what the search holds within a frame: a title; then, if the
frame's sentence has no damage, precisely its first bytes, in a state those bytes make (`InStep`); and no end that a text frame has passed by (`InText`).
`Where` says of each undamaged sentence that it was given; or is ahead, its first byte unseen or where a title may begin;
or was missed, for damage that reaches it and to the one before it (`Excused`).
The step that matters is a frame open when the first byte of an undamaged sentence arrives (`Missed`): the frame began in a damaged
sentence; the bytes since are in a buffer shorter than `Limit`, so by `Spaced` the lengths of the sentences between sum up to
less than `Limit` and one for each damage, which is what `Reaches` allows. Without a length field to damage
the end of the next sentence ends the frame (`TextEnds`), and no more than one is reached.
TLC checked `LInv` before the proof, with two devices and with up to three damages.

Model-checked only:

* liveness (`SilentReaped`, `ComesBack`, `JobsLeave`, `SilentClosed`, `Renewed`, `SilenceNoted`, `ReadsEnd`):
  fairness and ENABLED are out of the prover's reach.

Every safety invariant and every action property the runs check is a theorem.

Two things were found by proving. `JobDispatch.SomeoneMoves` used to accept a state in which nothing could move;
it now says which side may act. The bounds of the buffers need the window, or a title, to be
shorter than the buffer (10 or 6 bytes against 2047); `FrameSearch` and `SentenceSearch` now assume it by name.
Where an argument is an induction over a sequence or a set of numbers, which the library's
induction theorems cannot give here, the proofs take the least counterexample (`Least`, from `WellFoundedInduction`). The sum of lengths in `Reaches` is a fold over a
set: that it may be taken in any order (`SumFacts`) is proved by a table of the sums of all subsets, which
exists since a smallest set without one has an element to take off (`TotalExists`).


## 6. Disagreements between code and comments

* `sub_unsub`: `del_subs_from_sess` pushes the wrong name back; the other task is lost from the session.
* `sentence_two`: two devices of one protocol collect their titles in one static array, and lose
  sentences from undamaged lines. The shipped bdjob.xml has one device.

Others are visible in the models, and no run is spent on them:

* frontsvr's `sess_rename` (called where the comment getrefsvr.c:25 announces the change of the name) writes
  over a key in place; the entry stays in the old bucket, and only `sizeof` a pointer of the name is copied
  (`FrontSession`, `Overlay`).
* bdsvr's CLOSE handler removes a session from the table by a key nobody sets (bdsvr/p2p.c:265); the comment
  main.c:138 says no record is kept. The freed session of a lost bdjob stays registered (`JobDispatch`, `jobber`).
* `$remoteunlock` has 13 characters, and the search compares the 10 of its window: it is never
  found (moniclient_expat.c:26, frontsvr/monitor_expat.c:25), though monitor_callback.c:375 has a handler for it (`TitlesAt`).
* A read that ends within the first ten bytes of a frame loses the frame, although the comment
  bdjobber_expat.c:138 speaks of keeping what is incomplete (`Exhausted`; `OnlyHurtLost` allows for it).
* When a title does not stand at the start of a read, the search goes back too far and puts bytes that stand
  before the title behind it (`Begin`). In a read with an overlong frame and a title behind it, this
  never ends: `ReadsEnd` excludes that case (`Mixed`). It takes a read longer than the limit (bdsvr: 2048 of 64 KB).
* monitor, bdsvr and bdjob keep half a frame across a reconnection, and end it with the first line of
  the new connection; frontsvr calls `exp_clear` (`Reconnect`).
* `p2pclient_write` does not give back a packet written to a closed connection (frontsvr/p2pclient.c:136; `unheard`).
* In bdsvr and bdjob a failed send leaves the closed descriptor among those given to `select()`
  (bdsvr/p2pclient.c:173); frontsvr and monitor reset `want_read` in time (monitor/p2pclient.c:294; `SendFailed`).
* A frame that stands behind `$initsess` in one read is dropped (`EndOfOpening`); the comment frontsvr/expat.c:39 says why
  the loop must end there, and not that the rest is lost. bdjob may send JOBME without waiting for the initack; it is dropped
  then, and asked again when the device set aside comes back after 3 s (`JobDispatch`, `RecvInit`).
* `AssignWork` is declared to be given a "free device" (BDDeviceArray.h:52), but `IsDeviceFree` does not ask
  `IsPending`: a device whose receipt is outstanding is given the next job, which `BDSend` then gives
  up untransmitted (`BdDevices`, `SendComm`).
* forward.c:121 says of the logs that they are passed to monitor and stored; when monitor is absent
  `forward_log_x_to_monitor` returns before it stores.
* `auth_hook` and `awake_hook` store the row of a logon first and return when monitor is absent, so that
  the row is there and the box is not watched: `RecordAgrees` speaks of reports only.
* monitor_callback.c passes `remoteunlock` and `rptctrl` on twice (`command`).
* A comment in warnsvr_callback.c says that warnings reach boxes over 4G only; the code passes them to
  bdsvr as well, which ignores them.
* What the operator or warnsvr sends to a box, and an awakening with a wrong password, count
  as activity of the box (`command`, `dyncode`, `awake_hook`).

Others show when a constant of a passing run is changed, and are why it is what it is there:

* `OneAuth = FALSE` in front_polite: "disconnect the old connection" in the auth hooks cuts the
  very connection that identifies itself a second time, and the table keeps the closed session.
* `SendFails = TRUE` in front_polite: the hook registers the session that a failing push has closed
  (`RegisteredOpen`, `NoUseAfterFree`), and mio is asked to poll the closed descriptor (`PollSetOpen`; `Pipelined = TRUE` does so too).
* Without `Calm`, `SomeoneMoves` fails in dispatch_any: after a bad job, or a restart of bdsvr, both sides may wait.
* `Pipelined = TRUE` in sub_any: a subscription parsed after its connection was closed is entered for
  the dead session, after the CLOSE handler has cleaned up.
* `Programs = {"bdjob"}` in client_any: bdjob's `clear_zombies` takes the number of its rounds from
  `session_que`, which is empty once its only connection has been swept: the connection is never
  closed (`SilentClosed`), and the entry left behind closes the next one (`OneHome`, `PromptKept`).
* `Delay = 6` in client_any: `PromptKept` fails; pings every 2 s and a limit of 7 s leave 5 s for the answer.
* In `OutQueue`, "with nothing to write want_write is 0" does not hold: a partial send increments it and
  nothing takes that back, so that `select()` returns at once until the next push. Packets are not affected.

Seen beside the models, in parts that are not modelled:

* bdsvr's `taskpau2frontsvr` passes "bd" and the sequence number in the other order than its format has them
  (bdjobber_callback.cpp:330).
* `parse_bdjob_content` fills the text of a job for dyncode only; the jobs of taskpau and taskcon are
  encoded from uninitialised text (bdsvr/frontsvr_callback.cpp:130-178, 206).
* `response_pkt_clone` locks a mutex it holds; only `client_push_pkt` calls it, which has no caller.

## 7. Not modelled

Left out of handlers that are modelled: the text of jobs (a taskpau or taskcon is an ordinary job of `JobDispatch`, though it goes
out with what an array on the stack held); the log that `auth_hook` and `awake_hook` push to monitor at their end and the warning of
`check_inactive_client`, which are each a `Forward` of its own in `FrontSession`: what they can do, close the
addressee or ask to poll it, follows in a step of its own.

The database, configuration, JSON and XML, checksums and field layout of BeiDou sentences
(`DataExplain`, `FormatData`: which byte of a sentence is which field; what the fields do to a
device is in `BdDevices`), the composing of frames (`protobuffer.c`), searcher plugins (nobody adds
one), the ping traffic as such, everything under the vendored directories except the hash
table and descriptor table, `buffer.c` and `membuff.c` (no callers) and the files that no .vcxproj
lists. bdsvr's way back, from bdjob's sentences to frontsvr, keeps no state: each is looked up in
the database, reworded and written. Threads that push packets while the main thread
writes (bdjob) are listed as a hazard and not modelled: nothing is promised of a queue that two
threads corrupt. Most of the repository's lines are vendored code, its copies, and tables of
fields. The order inside session queues is abstracted.

## 8. Plan

In this order; each module with its runs, mutants and map entries.

1. `FrontSession` and proofs - done.
2. `PubSub`, `Subscription` and proofs - done.
3. `BdDevices`, `JobDispatch` and proofs - done.
4. `LossyFifo`, `OutQueue` and proofs - done.
5. `P2pClient` and proofs - done.
6. `BoxStatus` and proofs - done.
7. `FrameSearch`, `SentenceSearch` and proofs - done, with how far damage reaches.
8. monitor's acknowledgements to frontsvr and bdsvr's way back, if they come to keep a state worth relating
   to another.

Composition: the peers of `BoxStatus` are the registered sessions of `FrontSession`; `P2pClient` details
the reconnection in `JobDispatch` and in `BoxStatus`. No module has a recursive operator.
