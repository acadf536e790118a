------------------------------ MODULE BdDevices ------------------------------
(***************************************************************************)
(* The BeiDou devices of bdjob.  Three lists hold them: idles (free),      *)
(* determinings (set aside for a job that has been asked for) and workings *)
(* (transmitting, or waiting for their service period to pass).  Three     *)
(* kinds of threads change their state: the timer thread, which holds the  *)
(* array's lock through a whole round, once a second; the main thread,     *)
(* which takes it for one operation; and the devices' reader threads,      *)
(* which set m_bInit, m_bPending and m_bNormal without any lock, so in the *)
(* middle of a round too.                                                  *)
(*                                                                         *)
(* A list counts how often a device is in it; the order is abstracted.     *)
(***************************************************************************)
EXTENDS Integers

CONSTANTS
    Device, NoDevice,
    Job, NoJob,
    Freq,       \* service period of a device in seconds (nServiceFreq)
    Normal,     \* devices that never report trouble (ZTI)
    WriteZero   \* a serial write may fail with 0 bytes written

ASSUME FreqAssumption == Freq \in Nat
ASSUME NoneAssumption == NoDevice \notin Device /\ NoJob \notin Job
ASSUME TroubleAssumption == Normal \subseteq Device /\ WriteZero \in BOOLEAN

VARIABLES
    idles, determinings, workings,
    ticks,      \* m_mapDevTime: seconds till the device may be used again
    data,       \* m_mapDevWork: the job to transmit
    pending,    \* m_bPending: transmitted, its receipt (FKI) not yet seen
    init,       \* m_bInit: the device has reported its card (ICI)
    normal,     \* m_bNormal
    late,       \* devices set aside more than 3 seconds ago
    awaited,    \* devices that have not answered their last transmission
    closed,     \* devices whose serial port has failed
    timer,      \* where the timer thread is; "sleep": the lock is free
    sending,    \* the device whose command() has just returned
    hand,       \* device and job the main thread is about to join
    since,      \* seconds since the last transmission, at most Freq
    crashed

devVars == <<idles, determinings, workings, ticks, data, pending, init, normal,
             late, awaited, closed, timer, sending, hand, since, crashed>>

NoHand == [dev |-> NoDevice, job |-> NoJob]

TypeOK ==
    /\ {idles, determinings, workings} \subseteq [Device -> Nat]
    /\ ticks \in [Device -> Int]
    /\ data \in [Device -> Job \cup {NoJob}]
    /\ {pending, init, normal} \subseteq [Device -> BOOLEAN]
    /\ late \in SUBSET Device /\ awaited \in SUBSET Device /\ closed \in SUBSET Device
    /\ timer \in {"sleep", "free", "work", "sent"}
    /\ sending \in Device \cup {NoDevice}
    /\ hand \in [dev : Device \cup {NoDevice}, job : Job \cup {NoJob}]
    /\ since \in [Device -> 0 .. Freq]
    /\ crashed \in BOOLEAN

(* main(): every device that could be opened starts in workings. *)
Init ==
    /\ idles = [d \in Device |-> 0] /\ determinings = [d \in Device |-> 0]
    /\ workings = [d \in Device |-> 1]
    /\ ticks = [d \in Device |-> 0]
    /\ data = [d \in Device |-> NoJob]
    /\ pending = [d \in Device |-> FALSE]
    /\ init = [d \in Device |-> FALSE]
    /\ normal = [d \in Device |-> TRUE]
    /\ late = {} /\ awaited = {} /\ closed = {}
    /\ timer = "sleep" /\ sending = NoDevice
    /\ hand = NoHand
    /\ since = [d \in Device |-> Freq]
    /\ crashed = FALSE

-----------------------------------------------------------------------------
(* The timer thread.                                                       *)

(* Mutant: a device set aside too long is put back and kept set aside.     *)
ChechDeviceState_Keeps ==
    LET back(d) == IF d \in late THEN determinings[d] ELSE 0
    IN  /\ timer = "sleep" /\ ~crashed
        /\ timer' = "free"
        /\ workings' = [d \in Device |-> IF normal[d] THEN workings[d] ELSE 0]
        /\ idles' = [d \in Device |-> idles[d] + back(d)]
        /\ late' = {}
        /\ since' = [d \in Device |-> IF since[d] < Freq THEN since[d] + 1 ELSE Freq]
        /\ UNCHANGED <<determinings, ticks, data, pending, init, normal, awaited,
                       sending, hand, closed, crashed>>

(* A second has passed.  ChechDeviceState: a device of workings in trouble *)
(* is erased.  CheckDetermineList: a device set aside too long is idle     *)
(* again.  (A silent device is asked for its card again, see ICI.)         *)
ChechDeviceState ==
    LET back(d) == IF d \in late THEN determinings[d] ELSE 0
    IN  /\ timer = "sleep" /\ ~crashed
        /\ timer' = "free"
        /\ workings' = [d \in Device |-> IF normal[d] THEN workings[d] ELSE 0]
        /\ idles' = [d \in Device |-> idles[d] + back(d)]
        /\ determinings' = [d \in Device |-> determinings[d] - back(d)]
        /\ late' = {}
        /\ since' = [d \in Device |-> IF since[d] < Freq THEN since[d] + 1 ELSE Freq]
        /\ UNCHANGED <<ticks, data, pending, init, normal, awaited, sending, hand, closed, crashed>>

(* Mutant: a device with a job to transmit counts as free.                 *)
IsDeviceFree_AnyData(d, t) == t <= 0

IsDeviceFree(d, t) == t <= 0 /\ data[d] = NoJob

(* Mutant: a receipt that has not come is waited for again and again.      *)
CheckFreeList_Waits ==
    LET On == {d \in Device : workings[d] > 0 /\ init[d]}
        left == [d \in Device |-> IF d \in On THEN ticks[d] - 1 ELSE ticks[d]]
        Free == {d \in On : IsDeviceFree(d, left[d])}
        Overdue == {d \in On \ Free : pending[d] /\ left[d] < 0}
    IN  /\ timer = "free" /\ ~crashed
        /\ timer' = "work"
        /\ idles' = [d \in Device |-> idles[d] + IF d \in Free THEN workings[d] ELSE 0]
        /\ workings' = [d \in Device |-> IF d \in Free THEN 0 ELSE workings[d]]
        /\ UNCHANGED pending
        /\ UNCHANGED data
        /\ ticks' = [d \in Device |-> IF d \in Overdue THEN 0 ELSE left[d]]
        /\ UNCHANGED <<determinings, init, normal, late, awaited, sending, hand, since,
                       closed, crashed>>

(* One second less for every initialised device of workings; a free one    *)
(* becomes idle; one whose receipt has not come in time gives up its job.  *)
CheckFreeList ==
    LET On == {d \in Device : workings[d] > 0 /\ init[d]}
        left == [d \in Device |-> IF d \in On THEN ticks[d] - 1 ELSE ticks[d]]
        Free == {d \in On : IsDeviceFree(d, left[d])}
        Overdue == {d \in On \ Free : pending[d] /\ left[d] < 0}
    IN  /\ timer = "free" /\ ~crashed
        /\ timer' = "work"
        /\ idles' = [d \in Device |-> idles[d] + IF d \in Free THEN workings[d] ELSE 0]
        /\ workings' = [d \in Device |-> IF d \in Free THEN 0 ELSE workings[d]]
        /\ pending' = [d \in Device |-> pending[d] /\ d \notin Overdue]
        /\ data' = [d \in Device |-> IF d \in Overdue THEN NoJob ELSE data[d]]
        /\ ticks' = [d \in Device |-> IF d \in Overdue THEN 0 ELSE left[d]]
        /\ UNCHANGED <<determinings, init, normal, late, awaited, sending, hand, since,
                       closed, crashed>>

MaySend(d) ==
    workings[d] > 0 /\ init[d] /\ ticks[d] <= 0 /\ data[d] # NoJob /\ ~pending[d]

(* DoWork and SendComm: the command has been written to the device.        *)
SendComm(d) ==
    /\ timer = "work" /\ ~crashed
    /\ MaySend(d)
    /\ timer' = "sent"
    /\ sending' = d
    /\ awaited' = awaited \cup {d}
    /\ since' = [since EXCEPT ![d] = 0]
    /\ UNCHANGED <<idles, determinings, workings, ticks, data, pending, init, normal, late,
                   hand, closed, crashed>>

(* Mutant: the service period is not started.                              *)
SendCommReturns_KeepsTicks ==
    /\ timer = "sent" /\ ~crashed
    /\ timer' = "work"
    /\ sending' = NoDevice
    /\ pending' = [pending EXCEPT ![sending] = TRUE]
    /\ data' = [data EXCEPT ![sending] = NoJob]
    /\ UNCHANGED <<idles, determinings, workings, ticks, init, normal, late, awaited, hand, since,
                   closed, crashed>>

(* Back in SendComm and DoWork: only now is the device marked pending.     *)
SendCommReturns ==
    /\ timer = "sent" /\ ~crashed
    /\ timer' = "work"
    /\ sending' = NoDevice
    /\ pending' = [pending EXCEPT ![sending] = TRUE]
    /\ data' = [data EXCEPT ![sending] = NoJob]
    /\ ticks' = [ticks EXCEPT ![sending] = Freq]
    /\ UNCHANGED <<idles, determinings, workings, init, normal, late, awaited, hand, since,
                   closed, crashed>>

(* A short write, or a card whose messages are too short: the job is given *)
(* up.  With nothing written the device is closed, its card data freed,    *)
(* and GetInStationFreq() reads the service period of no card.             *)
SendFails(d) ==
    /\ timer = "work" /\ ~crashed
    /\ MaySend(d)
    /\ data' = [data EXCEPT ![d] = NoJob]
    /\ ticks' = [ticks EXCEPT ![d] = Freq]
    /\ crashed' \in {FALSE, WriteZero}
    /\ UNCHANGED <<idles, determinings, workings, pending, init, normal, late, awaited,
                   timer, sending, hand, since, closed>>

(* InitDevice(), for a device that is not initialised or has been silent   *)
(* for 30 seconds, writes nothing: the device is closed and reset, and     *)
(* stays in its list.                                                      *)
InitDeviceFails(d) ==
    /\ timer \in {"free", "work"} /\ ~crashed
    /\ WriteZero
    /\ workings[d] > 0 \/ determinings[d] > 0
    /\ d \notin closed
    /\ closed' = closed \cup {d}
    /\ init' = [init EXCEPT ![d] = FALSE]
    /\ pending' = [pending EXCEPT ![d] = FALSE]
    /\ normal' = [normal EXCEPT ![d] = TRUE]
    /\ UNCHANGED <<idles, determinings, workings, ticks, data, late, awaited, timer,
                   sending, hand, since, crashed>>

DoWorkEnds ==
    /\ timer = "work" /\ ~crashed
    /\ \A d \in Device : ~MaySend(d)
    /\ timer' = "sleep"
    /\ UNCHANGED <<idles, determinings, workings, ticks, data, pending, init, normal, late,
                   awaited, sending, hand, since, closed, crashed>>

-----------------------------------------------------------------------------
(* The main thread: each operation takes the lock.                         *)

(* A free device is set aside, whether or not there may be a job for it.   *)
HasFreeDevice(d) ==
    /\ timer = "sleep" /\ ~crashed
    /\ hand = NoHand
    /\ idles[d] > 0
    /\ idles' = [idles EXCEPT ![d] = @ - 1]
    /\ determinings' = [determinings EXCEPT ![d] = @ + 1]
    /\ late' = late \ {d}
    /\ UNCHANGED <<workings, ticks, data, pending, init, normal, awaited, timer, sending,
                   hand, since, closed, crashed>>

NoneIn(list) == \A d \in Device : list[d] = 0

(* A job has arrived (CCTXA): a device that was set aside, else an idle    *)
(* one, is taken for it; without either the job is forgotten.              *)
GetFreeDevice(j) ==
    /\ timer = "sleep" /\ ~crashed
    /\ hand = NoHand
    /\ \/ \E d \in Device :
             /\ determinings[d] > 0
             /\ determinings' = [determinings EXCEPT ![d] = @ - 1]
             /\ hand' = [dev |-> d, job |-> j]
             /\ UNCHANGED idles
       \/ /\ NoneIn(determinings)
          /\ \E d \in Device :
                /\ idles[d] > 0
                /\ idles' = [idles EXCEPT ![d] = @ - 1]
                /\ hand' = [dev |-> d, job |-> j]
          /\ UNCHANGED determinings
       \/ NoneIn(determinings) /\ NoneIn(idles) /\ UNCHANGED <<idles, determinings, hand>>
    /\ UNCHANGED <<workings, ticks, data, pending, init, normal, late, awaited, timer,
                   sending, since, closed, crashed>>

AssignWork ==
    /\ timer = "sleep" /\ ~crashed
    /\ hand # NoHand
    /\ data' = [data EXCEPT ![hand.dev] = hand.job]
    /\ workings' = [workings EXCEPT ![hand.dev] = @ + 1]
    /\ hand' = NoHand
    /\ UNCHANGED <<idles, determinings, ticks, pending, init, normal, late, awaited, timer,
                   sending, since, closed, crashed>>

-----------------------------------------------------------------------------
(* The devices: what they report is handled by their reader threads, with  *)
(* no lock, at any time.  They need not answer.                            *)

ICI(d) ==
    /\ ~init[d] /\ d \notin closed /\ ~crashed
    /\ init' = [init EXCEPT ![d] = TRUE]
    /\ UNCHANGED <<idles, determinings, workings, ticks, data, pending, normal, late,
                   awaited, timer, sending, hand, since, closed, crashed>>

FKI(d) ==
    /\ d \in awaited \ closed /\ ~crashed
    /\ awaited' = awaited \ {d}
    /\ pending' = [pending EXCEPT ![d] = FALSE]
    /\ UNCHANGED <<idles, determinings, workings, ticks, data, init, normal, late,
                   timer, sending, hand, since, closed, crashed>>

ZTI(d) ==
    /\ d \notin Normal \cup closed /\ ~crashed
    /\ normal' = [normal EXCEPT ![d] = ~@]
    /\ UNCHANGED <<idles, determinings, workings, ticks, data, pending, init, late,
                   awaited, timer, sending, hand, since, closed, crashed>>

(* More than 3 seconds since the device was set aside. *)
Waited(d) ==
    /\ determinings[d] > 0 /\ d \notin late /\ ~crashed
    /\ late' = late \cup {d}
    /\ UNCHANGED <<idles, determinings, workings, ticks, data, pending, init, normal,
                   awaited, timer, sending, hand, since, closed, crashed>>

-----------------------------------------------------------------------------
Timer ==
    \/ ChechDeviceState
    \/ CheckFreeList
    \/ \E d \in Device : SendComm(d) \/ SendFails(d) \/ InitDeviceFails(d)
    \/ SendCommReturns
    \/ DoWorkEnds

Reports == \E d \in Device : ICI(d) \/ FKI(d) \/ ZTI(d) \/ Waited(d)

Next ==
    \/ Timer
    \/ Reports
    \/ \E d \in Device : HasFreeDevice(d)
    \/ \E j \in Job : GetFreeDevice(j)
    \/ AssignWork

Spec == Init /\ [][Next]_devVars

(* The timer thread runs; devices, and jobs from bdsvr, may never come.    *)
FairSpec == Spec /\ WF_devVars(Timer) /\ WF_devVars(AssignWork)

-----------------------------------------------------------------------------
Places(d) ==
    idles[d] + determinings[d] + workings[d] + IF hand.dev = d THEN 1 ELSE 0

(* A device is in one list, once, or in the main thread's hand between the *)
(* two locked operations of a job; only one in trouble may be in none.  In *)
(* two lists it would be given a second job while busy with the first.     *)
OneList ==
    \A d \in Device : Places(d) <= 1 /\ (d \in Normal => Places(d) = 1)

(* A device that is free to take, or being taken, carries no job that has  *)
(* not been transmitted: AssignWork never overwrites one.                  *)
NoOverwrite ==
    \A d \in Device : data[d] # NoJob =>
        idles[d] = 0 /\ determinings[d] = 0 /\ hand.dev # d

(* BeiDou cards are granted one transmission per service period: a device  *)
(* never transmits sooner after its last transmission, through whatever    *)
(* lists, receipts and jobs given up it went in between.                   *)
FrequencyKept ==
    [][\A d \in Device : timer # "sent" /\ timer' = "sent" /\ sending' = d
                         => since[d] = Freq]_devVars

(* A device at work, once initialised, is free again in the end, although  *)
(* its receipts may all be lost, unless it is in trouble or its port fails.*)
ComesBack ==
    \A d \in Device : (workings[d] > 0 /\ init[d]) ~>
                         (idles[d] > 0 \/ Places(d) = 0 \/ d \in closed \/ crashed)
=============================================================================
