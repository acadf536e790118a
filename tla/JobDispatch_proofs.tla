------------------------- MODULE JobDispatch_proofs -------------------------
(***************************************************************************)
(* Proofs about bdjob's devices and the dispatch of jobs.  What holds of   *)
(* the devices with jobs coming and going at any time (Spec) holds of them *)
(* under bdsvr's dispatch (DispatchSpec), which only orders the calls.     *)
(***************************************************************************)
EXTENDS JobDispatch, FiniteSetTheorems, SequenceTheorems, TLAPS

-----------------------------------------------------------------------------
(* The devices.                                                            *)

(* The three lists hold a device a natural number of times; a device that  *)
(* never reports trouble is not in any.                                    *)
ListsOK ==
    /\ idles \in [Device -> Nat] /\ determinings \in [Device -> Nat] /\ workings \in [Device -> Nat]
    /\ normal \in [Device -> BOOLEAN]
    /\ \A d \in Normal : normal[d]

(* The hand holds a device with a job, or nothing; a device is told to     *)
(* transmit in one state of the timer thread.                              *)
HandOK ==
    /\ hand = NoHand \/ (hand.dev \in Device /\ hand.job \in Job)
    /\ hand \in [dev : Device \cup {NoDevice}, job : Job \cup {NoJob}]
    /\ timer \in {"sleep", "free", "work", "sent"}
    /\ timer = "sent" => sending \in Device
    /\ timer # "sent" => sending = NoDevice

ClocksOK ==
    /\ ticks \in [Device -> Int]
    /\ since \in [Device -> 0 .. Freq]
    /\ data \in [Device -> Job \cup {NoJob}]

RestOK ==
    /\ pending \in [Device -> BOOLEAN] /\ init \in [Device -> BOOLEAN]
    /\ late \in SUBSET Device /\ awaited \in SUBSET Device /\ closed \in SUBSET Device
    /\ crashed \in BOOLEAN

(* A device may transmit again when its service period has passed: what is *)
(* left of it is counted down after the seconds since are counted up.      *)
Rested(d) ==
    \/ since[d] = Freq
    \/ since[d] + ticks[d] >= Freq + (IF timer = "free" THEN 1 ELSE 0)

Period == \A d \in Device : sending # d => Rested(d)

DevInv == ListsOK /\ HandOK /\ ClocksOK /\ RestOK /\ OneList /\ NoOverwrite /\ Period

LEMMA NoDevices == \A d \in Device : d # NoDevice
  BY NoneAssumption

LEMMA DevInits == Init => DevInv
<1> SUFFICES ASSUME Init PROVE DevInv
  OBVIOUS
<1>1. ListsOK /\ HandOK /\ RestOK
  BY NoneAssumption, TroubleAssumption DEF Init, ListsOK, HandOK, RestOK, NoHand
<1>2. ClocksOK /\ Period
  BY FreqAssumption DEF Init, ClocksOK, Period, Rested
<1>3. OneList /\ NoOverwrite
  BY NoDevices, TroubleAssumption DEF Init, OneList, NoOverwrite, Places, NoHand
<1> QED
  BY <1>1, <1>2, <1>3 DEF DevInv

(* A step that leaves each device where it is keeps OneList; one that lets *)
(* it go because of trouble, too.                                          *)
LEMMA PlacesKept ==
    ASSUME DevInv, ListsOK', HandOK',
           \A d \in Device : Places(d)' = Places(d) \/ (Places(d)' = 0 /\ ~normal[d])
    PROVE  OneList'
  BY DEF DevInv, ListsOK, OneList

LEMMA CheckStateStep ==
    ASSUME DevInv, ChechDeviceState
    PROVE  DevInv'
<1>a. /\ ListsOK /\ HandOK /\ ClocksOK /\ RestOK /\ OneList /\ NoOverwrite /\ Period
      /\ idles \in [Device -> Nat] /\ determinings \in [Device -> Nat] /\ workings \in [Device -> Nat]
      /\ timer = "sleep" /\ Freq \in Nat
  BY FreqAssumption DEF DevInv, ListsOK, ChechDeviceState
<1> DEFINE back(d) == IF d \in late THEN determinings[d] ELSE 0
<1>b. \A d \in Device : back(d) \in Nat /\ back(d) <= determinings[d]
                        /\ idles[d] + back(d) \in Nat /\ determinings[d] - back(d) \in Nat
  BY <1>a
<1>1. /\ timer' = "free"
      /\ workings' = [d \in Device |-> IF normal[d] THEN workings[d] ELSE 0]
      /\ idles' = [d \in Device |-> idles[d] + back(d)]
      /\ determinings' = [d \in Device |-> determinings[d] - back(d)]
      /\ late' = {}
      /\ since' = [d \in Device |-> IF since[d] < Freq THEN since[d] + 1 ELSE Freq]
      /\ UNCHANGED <<ticks, data, pending, init, normal, awaited, sending, hand, closed, crashed>>
  BY DEF ChechDeviceState
<1> HIDE DEF back
<1>2. ListsOK' /\ RestOK'
  BY <1>a, <1>b, <1>1 DEF ListsOK, RestOK
<1>3. HandOK'
  BY <1>a, <1>1 DEF HandOK, NoHand
<1>4. ClocksOK'
  <2>1. \A d \in Device : since[d] \in 0 .. Freq
    BY <1>a DEF ClocksOK
  <2>2. ASSUME NEW d \in Device
        PROVE  (IF since[d] < Freq THEN since[d] + 1 ELSE Freq) \in 0 .. Freq
    <3>1. PICK n \in 0 .. Freq : n = since[d]
      BY <2>1
    <3> QED
      BY <3>1, <1>a
  <2> QED
    BY <2>2, <1>a, <1>1 DEF ClocksOK
<1>5. OneList'
  <2>1. ASSUME NEW d \in Device
        PROVE  Places(d)' = Places(d) \/ (Places(d)' = 0 /\ ~normal[d])
    <3>1. /\ idles'[d] = idles[d] + back(d) /\ determinings'[d] = determinings[d] - back(d)
          /\ workings'[d] = IF normal[d] THEN workings[d] ELSE 0
          /\ back(d) \in Nat /\ idles[d] \in Nat /\ determinings[d] \in Nat /\ workings[d] \in Nat
          /\ hand' = hand /\ Places(d) <= 1
      BY <1>a, <1>b, <1>1 DEF OneList
    <3> QED
      BY <3>1 DEF Places
  <2> QED
    BY <2>1, <1>2, <1>3, PlacesKept
<1>6. NoOverwrite'
  BY <1>a, <1>1 DEF NoOverwrite, back
<1>7. Period'
  <2>1. ASSUME NEW d \in Device, sending # d
        PROVE  \/ since'[d] = Freq
               \/ since'[d] + ticks[d] >= Freq + 1
    <3>1. since[d] \in 0 .. Freq /\ ticks[d] \in Int
      BY <1>a DEF ClocksOK
    <3>2. since[d] = Freq \/ since[d] + ticks[d] >= Freq
      BY <2>1, <1>a DEF Period, Rested
    <3>3. since'[d] = IF since[d] < Freq THEN since[d] + 1 ELSE Freq
      BY <1>1
    <3> QED
      BY <3>1, <3>2, <3>3, <1>a
  <2> QED
    BY <2>1, <1>1, <1>4, <1>a DEF Period, Rested, ClocksOK
<1> QED
  BY <1>2, <1>3, <1>4, <1>5, <1>6, <1>7 DEF DevInv

LEMMA CheckFreeStep ==
    ASSUME DevInv, CheckFreeList
    PROVE  DevInv'
<1>a. /\ ListsOK /\ HandOK /\ ClocksOK /\ RestOK /\ OneList /\ NoOverwrite /\ Period
      /\ idles \in [Device -> Nat] /\ determinings \in [Device -> Nat] /\ workings \in [Device -> Nat]
      /\ ticks \in [Device -> Int] /\ data \in [Device -> Job \cup {NoJob}]
      /\ pending \in [Device -> BOOLEAN] /\ since \in [Device -> 0 .. Freq]
      /\ timer = "free" /\ sending = NoDevice /\ Freq \in Nat
  BY FreqAssumption DEF DevInv, ListsOK, HandOK, ClocksOK, RestOK, CheckFreeList
<1> DEFINE On == {d \in Device : workings[d] > 0 /\ init[d]}
           left == [d \in Device |-> IF d \in On THEN ticks[d] - 1 ELSE ticks[d]]
           Free == {d \in On : IsDeviceFree(d, left[d])}
           Overdue == {d \in On \ Free : pending[d] /\ left[d] < 0}
<1>1. /\ timer' = "work"
      /\ idles' = [d \in Device |-> idles[d] + IF d \in Free THEN workings[d] ELSE 0]
      /\ workings' = [d \in Device |-> IF d \in Free THEN 0 ELSE workings[d]]
      /\ pending' = [d \in Device |-> pending[d] /\ d \notin Overdue]
      /\ data' = [d \in Device |-> IF d \in Overdue THEN NoJob ELSE data[d]]
      /\ ticks' = [d \in Device |-> IF d \in Overdue THEN 0 ELSE left[d]]
      /\ UNCHANGED <<determinings, init, normal, late, awaited, sending, hand, since,
                     closed, crashed>>
  BY DEF CheckFreeList
<1>o. /\ \A d \in Device : left[d] \in Int /\ (left[d] = ticks[d] \/ left[d] = ticks[d] - 1)
      /\ \A d \in Free : data[d] = NoJob
      /\ \A d \in Overdue : left[d] < 0
  BY <1>a DEF IsDeviceFree
<1> HIDE DEF Free, Overdue, left
<1>2. ListsOK'
  <2>1. \A d \in Device : idles[d] + (IF d \in Free THEN workings[d] ELSE 0) \in Nat
    BY <1>a
  <2> QED
    BY <2>1, <1>a, <1>1 DEF ListsOK
<1>3. HandOK' /\ RestOK'
  BY <1>a, <1>1 DEF HandOK, RestOK, NoHand
<1>4. ClocksOK'
  BY <1>a, <1>1, <1>o DEF ClocksOK
<1>5. OneList'
  <2>1. ASSUME NEW d \in Device PROVE Places(d)' = Places(d)
    <3>1. /\ idles'[d] = idles[d] + (IF d \in Free THEN workings[d] ELSE 0)
          /\ determinings'[d] = determinings[d]
          /\ workings'[d] = IF d \in Free THEN 0 ELSE workings[d]
          /\ idles[d] \in Nat /\ determinings[d] \in Nat /\ workings[d] \in Nat /\ hand' = hand
      BY <1>a, <1>1
    <3> QED
      BY <3>1 DEF Places
  <2> QED
    BY <2>1, <1>2, <1>3, PlacesKept
<1>6. NoOverwrite'
  BY <1>a, <1>1, <1>o DEF NoOverwrite
<1>7. Period'
  <2>1. ASSUME NEW d \in Device PROVE since[d] = Freq \/ since[d] + ticks'[d] >= Freq
    <3>1. since[d] = Freq \/ since[d] + ticks[d] >= Freq + 1
      BY <1>a, NoDevices DEF Period, Rested
    <3>2. since[d] \in 0 .. Freq /\ ticks[d] \in Int
      BY <1>a
    <3>3. CASE d \in Overdue
      BY <3>1, <3>2, <3>3, <1>o, <1>a
    <3>4. CASE d \notin Overdue
      BY <3>1, <3>2, <3>4, <1>o, <1>1, <1>a
    <3> QED
      BY <3>3, <3>4
  <2> QED
    BY <2>1, <1>1, <1>4, <1>a DEF Period, Rested, ClocksOK
<1> QED
  BY <1>2, <1>3, <1>4, <1>5, <1>6, <1>7 DEF DevInv

(* A step that touches neither the lists nor the hand, and gives no device *)
(* a job.                                                                  *)
LEMMA StillPlaced ==
    ASSUME DevInv, UNCHANGED <<idles, determinings, workings, hand>>,
           \A d \in Device : normal'[d] = normal[d] \/ d \notin Normal \/ normal'[d],
           normal' \in [Device -> BOOLEAN],
           \A d \in Device : data'[d] = data[d] \/ data'[d] = NoJob
    PROVE  ListsOK' /\ OneList' /\ NoOverwrite'
  BY TroubleAssumption DEF DevInv, ListsOK, OneList, NoOverwrite, Places

LEMMA SendStep ==
    ASSUME DevInv, NEW d \in Device, SendComm(d)
    PROVE  DevInv'
<1>a. ListsOK /\ HandOK /\ ClocksOK /\ RestOK /\ Period /\ Freq \in Nat
  BY FreqAssumption DEF DevInv
<1>1. /\ timer = "work" /\ timer' = "sent" /\ sending' = d /\ sending = NoDevice
      /\ awaited' = awaited \cup {d} /\ since' = [since EXCEPT ![d] = 0]
      /\ UNCHANGED <<idles, determinings, workings, ticks, data, pending, init, normal, late,
                     hand, closed, crashed>>
  BY <1>a DEF SendComm, HandOK
<1>2. ListsOK' /\ OneList' /\ NoOverwrite'
  BY <1>a, <1>1, StillPlaced DEF ListsOK
<1>3. HandOK' /\ RestOK' /\ ClocksOK'
  BY <1>a, <1>1 DEF HandOK, RestOK, ClocksOK, NoHand
<1>4. Period'
  BY <1>a, <1>1, <1>3, NoDevices DEF Period, Rested, ClocksOK
<1> QED
  BY <1>2, <1>3, <1>4 DEF DevInv

LEMMA SendReturnsStep ==
    ASSUME DevInv, SendCommReturns
    PROVE  DevInv'
<1>a. ListsOK /\ HandOK /\ ClocksOK /\ RestOK /\ Period /\ Freq \in Nat
  BY FreqAssumption DEF DevInv
<1>1. /\ timer = "sent" /\ timer' = "work" /\ sending' = NoDevice /\ sending \in Device
      /\ pending' = [pending EXCEPT ![sending] = TRUE]
      /\ data' = [data EXCEPT ![sending] = NoJob]
      /\ ticks' = [ticks EXCEPT ![sending] = Freq]
      /\ UNCHANGED <<idles, determinings, workings, init, normal, late, awaited, hand, since,
                     closed, crashed>>
  BY <1>a DEF SendCommReturns, HandOK
<1>2. ListsOK' /\ OneList' /\ NoOverwrite'
  BY <1>a, <1>1, StillPlaced DEF ListsOK, ClocksOK
<1>3. HandOK' /\ RestOK' /\ ClocksOK'
  BY <1>a, <1>1 DEF HandOK, RestOK, ClocksOK, NoHand
<1>4. ASSUME NEW d \in Device PROVE since[d] = Freq \/ since[d] + ticks'[d] >= Freq
  <2>1. since[d] \in 0 .. Freq /\ ticks[d] \in Int
    BY <1>a DEF ClocksOK
  <2>2. CASE d = sending
    BY <1>a, <1>1, <2>1, <2>2 DEF ClocksOK
  <2>3. CASE d # sending
    BY <1>a, <1>1, <2>1, <2>3 DEF ClocksOK, Period, Rested
  <2> QED
    BY <2>2, <2>3
<1>5. Period'
  BY <1>a, <1>1, <1>3, <1>4 DEF Period, Rested, ClocksOK
<1> QED
  BY <1>2, <1>3, <1>5 DEF DevInv

LEMMA SendFailsStep ==
    ASSUME DevInv, NEW d \in Device, SendFails(d)
    PROVE  DevInv'
<1>a. ListsOK /\ HandOK /\ ClocksOK /\ RestOK /\ Period /\ Freq \in Nat
  BY FreqAssumption DEF DevInv
<1>1. /\ timer = "work"
      /\ data' = [data EXCEPT ![d] = NoJob]
      /\ ticks' = [ticks EXCEPT ![d] = Freq]
      /\ crashed' \in BOOLEAN
      /\ UNCHANGED <<idles, determinings, workings, pending, init, normal, late, awaited,
                     timer, sending, hand, since, closed>>
  BY TroubleAssumption DEF SendFails
<1>2. ListsOK' /\ OneList' /\ NoOverwrite'
  BY <1>a, <1>1, StillPlaced DEF ListsOK, ClocksOK
<1>3. HandOK' /\ RestOK' /\ ClocksOK'
  BY <1>a, <1>1 DEF HandOK, RestOK, ClocksOK, NoHand
<1>4. ASSUME NEW e \in Device, sending # e PROVE since[e] = Freq \/ since[e] + ticks'[e] >= Freq
  <2>1. since[e] \in 0 .. Freq /\ ticks[e] \in Int
    BY <1>a DEF ClocksOK
  <2>2. CASE e = d
    BY <1>a, <1>1, <2>1, <2>2 DEF ClocksOK
  <2>3. CASE e # d
    BY <1>a, <1>1, <1>4, <2>1, <2>3 DEF ClocksOK, Period, Rested
  <2> QED
    BY <2>2, <2>3
<1>5. Period'
  BY <1>a, <1>1, <1>3, <1>4 DEF Period, Rested, ClocksOK
<1> QED
  BY <1>2, <1>3, <1>5 DEF DevInv

(* A report of a device, or the loss of its port, moves nothing.           *)
LEMMA ReportStep ==
    ASSUME DevInv, RestOK', normal' \in [Device -> BOOLEAN],
           \A d \in Device : normal'[d] = normal[d] \/ d \notin Normal \/ normal'[d],
           UNCHANGED <<idles, determinings, workings, ticks, data, timer, sending, hand, since>>
    PROVE  DevInv'
<1>1. ListsOK' /\ OneList' /\ NoOverwrite'
  BY StillPlaced
<1>2. HandOK' /\ ClocksOK' /\ Period'
  BY DEF DevInv, HandOK, NoHand, ClocksOK, Period, Rested
<1> QED
  BY <1>1, <1>2 DEF DevInv

LEMMA ReportsSteps ==
    ASSUME DevInv, NEW d \in Device,
           ICI(d) \/ FKI(d) \/ ZTI(d) \/ Waited(d) \/ InitDeviceFails(d)
    PROVE  DevInv'
<1>a. RestOK /\ ListsOK
  BY DEF DevInv
<1>1. CASE ICI(d)
  <2>1. RestOK' /\ normal' = normal
    BY <1>a, <1>1 DEF RestOK, ICI
  <2> QED
    BY <1>a, <1>1, <2>1, ReportStep DEF ListsOK, ICI
<1>2. CASE FKI(d)
  <2>1. RestOK' /\ normal' = normal
    BY <1>a, <1>2 DEF RestOK, FKI
  <2> QED
    BY <1>a, <1>2, <2>1, ReportStep DEF ListsOK, FKI
<1>3. CASE ZTI(d)
  <2>1. RestOK' /\ normal' = [normal EXCEPT ![d] = ~normal[d]] /\ d \notin Normal
    BY <1>a, <1>3 DEF RestOK, ZTI
  <2>2. /\ normal' \in [Device -> BOOLEAN]
        /\ \A e \in Device : normal'[e] = normal[e] \/ e \notin Normal
    BY <1>a, <2>1 DEF ListsOK
  <2> QED
    BY <1>3, <2>1, <2>2, ReportStep DEF ZTI
<1>4. CASE Waited(d)
  <2>1. RestOK' /\ normal' = normal
    BY <1>a, <1>4 DEF RestOK, Waited
  <2> QED
    BY <1>a, <1>4, <2>1, ReportStep DEF ListsOK, Waited
<1>5. CASE InitDeviceFails(d)
  <2>1. RestOK' /\ normal' = [normal EXCEPT ![d] = TRUE]
    BY <1>a, <1>5 DEF RestOK, InitDeviceFails
  <2>2. /\ normal' \in [Device -> BOOLEAN]
        /\ \A e \in Device : normal'[e] = normal[e] \/ normal'[e]
    BY <1>a, <2>1 DEF ListsOK
  <2> QED
    BY <1>5, <2>1, <2>2, ReportStep DEF InitDeviceFails
<1> QED
  BY <1>1, <1>2, <1>3, <1>4, <1>5

LEMMA EndStep ==
    ASSUME DevInv, DoWorkEnds
    PROVE  DevInv'
<1>a. ListsOK /\ HandOK /\ ClocksOK /\ RestOK /\ Period
  BY DEF DevInv
<1>1. /\ timer = "work" /\ timer' = "sleep"
      /\ UNCHANGED <<idles, determinings, workings, ticks, data, pending, init, normal, late,
                     awaited, sending, hand, since, closed, crashed>>
  BY DEF DoWorkEnds
<1>2. ListsOK' /\ OneList' /\ NoOverwrite'
  BY <1>a, <1>1, StillPlaced DEF ListsOK
<1>3. HandOK' /\ RestOK' /\ ClocksOK'
  BY <1>a, <1>1 DEF HandOK, RestOK, ClocksOK, NoHand
<1>4. Period'
  BY <1>a, <1>1 DEF Period, Rested
<1> QED
  BY <1>2, <1>3, <1>4 DEF DevInv

(* The main thread's operations leave the clocks and the timer alone.      *)
LEMMA MainStep ==
    ASSUME DevInv, ListsOK', HandOK', late' \in SUBSET Device, OneList', NoOverwrite',
           data' \in [Device -> Job \cup {NoJob}],
           UNCHANGED <<ticks, pending, init, awaited, timer, sending, since, closed, crashed>>
    PROVE  DevInv'
<1>1. ClocksOK' /\ RestOK'
  BY DEF DevInv, ClocksOK, RestOK
<1>2. Period'
  BY DEF DevInv, Period, Rested
<1> QED
  BY <1>1, <1>2 DEF DevInv

LEMMA HasFreeStep ==
    ASSUME DevInv, NEW d \in Device, HasFreeDevice(d)
    PROVE  DevInv'
<1>a. ListsOK /\ HandOK /\ ClocksOK /\ RestOK /\ OneList /\ NoOverwrite
  BY DEF DevInv
<1>1. /\ hand = NoHand /\ idles[d] > 0
      /\ idles' = [idles EXCEPT ![d] = idles[d] - 1]
      /\ determinings' = [determinings EXCEPT ![d] = determinings[d] + 1]
      /\ late' = late \ {d}
      /\ UNCHANGED <<workings, ticks, data, pending, init, normal, awaited, timer, sending,
                     hand, since, closed, crashed>>
  BY DEF HasFreeDevice
<1>2. ListsOK'
  <2>1. idles[d] - 1 \in Nat /\ determinings[d] + 1 \in Nat
    BY <1>a, <1>1 DEF ListsOK
  <2> QED
    BY <2>1, <1>a, <1>1 DEF ListsOK
<1>3. HandOK'
  BY <1>a, <1>1 DEF HandOK, NoHand
<1>4. OneList'
  <2>1. ASSUME NEW e \in Device PROVE Places(e)' = Places(e)
    BY <1>a, <1>1 DEF ListsOK, Places
  <2> QED
    BY <2>1, <1>2, <1>3, PlacesKept
<1>5. NoOverwrite'
  <2>1. data[d] = NoJob
    BY <1>a, <1>1 DEF NoOverwrite
  <2> QED
    BY <2>1, <1>a, <1>1 DEF NoOverwrite, ListsOK
<1>6. late' \in SUBSET Device /\ data' \in [Device -> Job \cup {NoJob}]
  BY <1>a, <1>1 DEF RestOK, ClocksOK
<1> QED
  BY <1>1, <1>2, <1>3, <1>4, <1>5, <1>6, MainStep

LEMMA GetFreeStep ==
    ASSUME DevInv, NEW j \in Job, GetFreeDevice(j)
    PROVE  DevInv'
<1>a. ListsOK /\ HandOK /\ ClocksOK /\ RestOK /\ OneList /\ NoOverwrite
  BY DEF DevInv
<1>1. /\ hand = NoHand
      /\ UNCHANGED <<workings, ticks, data, pending, init, normal, late, awaited, timer,
                     sending, since, closed, crashed>>
  BY DEF GetFreeDevice
<1>2. late' \in SUBSET Device /\ data' \in [Device -> Job \cup {NoJob}]
  BY <1>a, <1>1 DEF RestOK, ClocksOK
<1>3. ASSUME NEW d \in Device, hand' = [dev |-> d, job |-> j],
             \/ /\ determinings[d] > 0
                /\ determinings' = [determinings EXCEPT ![d] = determinings[d] - 1]
                /\ idles' = idles
             \/ /\ idles[d] > 0
                /\ idles' = [idles EXCEPT ![d] = idles[d] - 1]
                /\ determinings' = determinings
      PROVE  DevInv'
  <2>1. /\ idles' \in [Device -> Nat] /\ determinings' \in [Device -> Nat]
        /\ \A e \in Device : idles'[e] + determinings'[e] + (IF e = d THEN 1 ELSE 0)
                             = idles[e] + determinings[e]
        /\ \A e \in Device : idles'[e] <= idles[e] /\ determinings'[e] <= determinings[e]
    BY <1>a, <1>3 DEF ListsOK
  <2>2. ListsOK'
    BY <2>1, <1>a, <1>1 DEF ListsOK
  <2>3. HandOK'
    BY <1>a, <1>1, <1>3 DEF HandOK, NoHand
  <2>4. OneList'
    <3>1. ASSUME NEW e \in Device PROVE Places(e)' = Places(e)
      <4>1. /\ hand'.dev = d /\ hand.dev # e /\ workings'[e] = workings[e]
            /\ idles[e] \in Nat /\ determinings[e] \in Nat /\ workings[e] \in Nat
            /\ idles'[e] \in Nat /\ determinings'[e] \in Nat
        BY <1>a, <1>1, <1>3, <2>1, NoDevices DEF ListsOK, NoHand
      <4> QED
        BY <4>1, <2>1 DEF Places
    <3> QED
      BY <3>1, <2>2, <2>3, PlacesKept
  <2>5. NoOverwrite'
    <3>1. data[d] = NoJob /\ hand'.dev = d
      BY <1>a, <1>3 DEF NoOverwrite, ListsOK
    <3>2. \A e \in Device : idles[e] \in Nat /\ determinings[e] \in Nat
                            /\ idles'[e] \in Nat /\ determinings'[e] \in Nat
      BY <1>a, <2>1 DEF ListsOK
    <3> QED
      BY <3>1, <3>2, <2>1, <1>a, <1>1 DEF NoOverwrite
  <2> QED
    BY <1>1, <1>2, <2>2, <2>3, <2>4, <2>5, MainStep
<1>4. CASE UNCHANGED <<idles, determinings, hand>>
  <2>1. ListsOK' /\ OneList' /\ NoOverwrite'
    BY <1>a, <1>1, <1>4, StillPlaced DEF ListsOK
  <2>2. HandOK'
    BY <1>a, <1>1, <1>4 DEF HandOK, NoHand
  <2> QED
    BY <1>1, <1>2, <2>1, <2>2, MainStep
<1> QED
  BY <1>3, <1>4 DEF GetFreeDevice

LEMMA AssignStep ==
    ASSUME DevInv, AssignWork
    PROVE  DevInv'
<1>a. ListsOK /\ HandOK /\ ClocksOK /\ RestOK /\ OneList /\ NoOverwrite
  BY DEF DevInv
<1> DEFINE d == hand.dev
<1>1. /\ d \in Device /\ hand.job \in Job
      /\ data' = [data EXCEPT ![d] = hand.job]
      /\ workings' = [workings EXCEPT ![d] = workings[d] + 1]
      /\ hand' = NoHand
      /\ UNCHANGED <<idles, determinings, ticks, pending, init, normal, late, awaited, timer,
                     sending, since, closed, crashed>>
  BY <1>a DEF AssignWork, HandOK
<1> HIDE DEF d
<1>2. late' \in SUBSET Device /\ data' \in [Device -> Job \cup {NoJob}]
  BY <1>a, <1>1 DEF RestOK, ClocksOK
<1>3. ListsOK'
  <2>1. workings[d] + 1 \in Nat
    BY <1>a, <1>1 DEF ListsOK
  <2> QED
    BY <2>1, <1>a, <1>1 DEF ListsOK
<1>4. HandOK'
  BY <1>a, <1>1 DEF HandOK, NoHand
<1>5. hand'.dev = NoDevice
  BY <1>1 DEF NoHand
<1>6. OneList'
  <2>1. ASSUME NEW e \in Device PROVE Places(e)' = Places(e)
    <3>1. /\ idles'[e] = idles[e] /\ determinings'[e] = determinings[e]
          /\ idles[e] \in Nat /\ determinings[e] \in Nat /\ workings[e] \in Nat
          /\ workings'[e] = workings[e] + (IF e = d THEN 1 ELSE 0)
      BY <1>a, <1>1 DEF ListsOK
    <3> QED
      BY <3>1, <1>5, NoDevices DEF Places, d
  <2> QED
    BY <2>1, <1>3, <1>4, PlacesKept
<1>7. NoOverwrite'
  <2>1. idles[d] = 0 /\ determinings[d] = 0
    <3>1. /\ Places(d) <= 1 /\ idles[d] \in Nat /\ determinings[d] \in Nat /\ workings[d] \in Nat
          /\ hand.dev = d
      BY <1>a, <1>1 DEF OneList, ListsOK, d
    <3> QED
      BY <3>1 DEF Places
  <2>2. \A e \in Device : e # d => data'[e] = data[e]
    BY <1>a, <1>1 DEF ClocksOK
  <2> QED
    BY <2>1, <2>2, <1>a, <1>1, <1>5, NoDevices DEF NoOverwrite
<1> QED
  BY <1>1, <1>2, <1>3, <1>4, <1>6, <1>7, MainStep

LEMMA DevSteps ==
    ASSUME DevInv, [Next]_devVars
    PROVE  DevInv'
<1>1. CASE UNCHANGED devVars
  BY <1>1 DEF devVars, DevInv, ListsOK, HandOK, NoHand, ClocksOK, RestOK, OneList, Places,
              NoOverwrite, Period, Rested
<1>2. CASE Timer
  BY <1>2, CheckStateStep, CheckFreeStep, SendStep, SendFailsStep, ReportsSteps,
     SendReturnsStep, EndStep DEF Timer
<1>3. CASE Reports
  BY <1>3, ReportsSteps DEF Reports
<1>4. CASE \E d \in Device : HasFreeDevice(d)
  BY <1>4, HasFreeStep
<1>5. CASE \E j \in Job : GetFreeDevice(j)
  BY <1>5, GetFreeStep
<1>6. CASE AssignWork
  BY <1>6, AssignStep
<1> QED
  BY <1>1, <1>2, <1>3, <1>4, <1>5, <1>6 DEF Next

(* The devices' invariant, whatever jobs come and whenever.                *)
THEOREM DevicesInv == Spec => []DevInv
<1> QED
  BY DevInits, DevSteps, PTL DEF Spec

(* A device of bdjob is in one list, once, or in the main thread's hand    *)
(* between GetFreeDevice and AssignWork; only one in trouble may be lost.  *)
THEOREM OneListHolds == Spec => []OneList
<1>1. DevInv => OneList
  BY DEF DevInv
<1> QED
  BY <1>1, DevicesInv, PTL

(* AssignWork never overwrites a job that has not been transmitted.        *)
THEOREM NoOverwriteHolds == Spec => []NoOverwrite
<1>1. DevInv => NoOverwrite
  BY DEF DevInv
<1> QED
  BY <1>1, DevicesInv, PTL

(* No device transmits sooner than one service period after its last       *)
(* transmission: what is left of the period in m_mapDevTime never falls    *)
(* behind the seconds that have passed.                                    *)
THEOREM FrequencyKeptHolds == Spec => FrequencyKept
<1> DEFINE Keeps == \A d \in Device : timer # "sent" /\ timer' = "sent" /\ sending' = d
                                      => since[d] = Freq
<1>1. ASSUME DevInv, [Next]_devVars PROVE [Keeps]_devVars
  <2>1. ASSUME NEW d \in Device, timer # "sent", timer' = "sent", sending' = d
        PROVE  since[d] = Freq
    <3>1. PICK e \in Device : SendComm(e)
      BY <1>1, <2>1 DEF Next, Timer, Reports, devVars, ChechDeviceState, CheckFreeList, SendFails,
         InitDeviceFails, SendCommReturns, DoWorkEnds, ICI, FKI, ZTI, Waited, HasFreeDevice,
         GetFreeDevice, AssignWork
    <3>2. e = d /\ timer = "work" /\ ticks[d] <= 0
      BY <3>1, <2>1 DEF SendComm, MaySend
    <3>3. sending = NoDevice /\ since[d] \in 0 .. Freq /\ ticks[d] \in Int /\ Freq \in Nat
      BY <3>2, <1>1, FreqAssumption DEF DevInv, HandOK, ClocksOK
    <3>4. since[d] = Freq \/ since[d] + ticks[d] >= Freq
      BY <3>2, <3>3, <1>1, NoDevices DEF DevInv, Period, Rested
    <3> QED
      BY <3>2, <3>3, <3>4
  <2> QED
    BY <2>1
<1>2. Spec => [][Keeps]_devVars
  BY <1>1, DevicesInv, PTL DEF Spec
<1> QED
  BY <1>2 DEF FrequencyKept

-----------------------------------------------------------------------------
(* Sequences of jobs.                                                      *)

(* No job is in q twice. *)
Distinct(q) == \A i, k \in DOMAIN q : q[i] = q[k] /\ q[i] \in Job => i = k

LEMMA TailOf ==
    ASSUME NEW S, NEW q \in Seq(S), q # <<>>
    PROVE  /\ Tail(q) \in Seq(S) /\ Head(q) \in S
           /\ Range(Tail(q)) \subseteq Range(q) /\ Head(q) \in Range(q)
           /\ Distinct(q) => Distinct(Tail(q))
           /\ Distinct(q) /\ Head(q) \in Job => Head(q) \notin Range(Tail(q))
<1>1. PICK n \in Nat : n = Len(q)
  OBVIOUS
<1>2. n > 0 /\ DOMAIN q = 1 .. n /\ Head(q) = q[1]
  BY <1>1
<1>3. /\ Tail(q) \in Seq(S) /\ DOMAIN Tail(q) = 1 .. n - 1
      /\ \A i \in 1 .. n - 1 : Tail(q)[i] = q[i + 1] /\ i + 1 \in 1 .. n
  BY <1>1, <1>2
<1>4. Range(Tail(q)) \subseteq Range(q) /\ Head(q) \in Range(q) /\ Head(q) \in S
  BY <1>2, <1>3 DEF Range
<1>5. ASSUME Distinct(q) PROVE Distinct(Tail(q))
  BY <1>2, <1>3, <1>5 DEF Distinct
<1>6. ASSUME Distinct(q), Head(q) \in Job PROVE Head(q) \notin Range(Tail(q))
  <2>1. SUFFICES ASSUME NEW i \in 1 .. n - 1, q[i + 1] = q[1] PROVE FALSE
    BY <1>2, <1>3 DEF Range
  <2>2. i + 1 = 1
    BY <1>2, <1>3, <1>6, <2>1 DEF Distinct
  <2> QED
    BY <2>2
<1> QED
  BY <1>3, <1>4, <1>5, <1>6

LEMMA AppendTo ==
    ASSUME NEW S, NEW q \in Seq(S), NEW e \in S
    PROVE  /\ Append(q, e) \in Seq(S) /\ Append(q, e) # <<>>
           /\ Range(Append(q, e)) = Range(q) \cup {e}
           /\ Distinct(q) /\ (e \in Job => e \notin Range(q)) => Distinct(Append(q, e))
           /\ q # <<>> => Head(Append(q, e)) = Head(q)
<1>1. PICK n \in Nat : n = Len(q)
  OBVIOUS
<1>2. PICK m \in Nat : m = n + 1
  OBVIOUS
<1>3. DOMAIN q = 1 .. n /\ (q # <<>> => n > 0)
  BY <1>1
<1>4. /\ Append(q, e) \in Seq(S) /\ DOMAIN Append(q, e) = 1 .. m /\ Append(q, e)[m] = e
      /\ \A i \in 1 .. n : Append(q, e)[i] = q[i]
      /\ Append(q, e) # <<>>
  BY <1>1, <1>2
<1>5. Range(Append(q, e)) = Range(q) \cup {e}
  BY <1>2, <1>3, <1>4 DEF Range
<1>6. ASSUME Distinct(q), e \in Job => e \notin Range(q) PROVE Distinct(Append(q, e))
  BY <1>2, <1>3, <1>4, <1>6 DEF Distinct, Range
<1>7. q # <<>> => Head(Append(q, e)) = Head(q)
  BY <1>3, <1>4
<1> QED
  BY <1>4, <1>5, <1>6, <1>7

LEMMA Emptied ==
    ASSUME NEW S
    PROVE  <<>> \in Seq(S) /\ Range(<<>>) = {} /\ Distinct(<<>>)
  BY DEF Range, Distinct

-----------------------------------------------------------------------------
(* The dispatch: what the two programs and their link hold.                *)

QueuesOK ==
    /\ jobqueue \in Seq(Job)
    /\ link \in [up : BOOLEAN, toSvr : Seq(ToSvr), toJob : Seq(Job \cup {NoJob})]
    /\ fresh \in SUBSET Job /\ aired \in SUBSET Job

FlagsOK ==
    /\ jobber_free \in BOOLEAN /\ jobber \in Jobber
    /\ remote \in {"hasjob", "nojob"} /\ lost \in BOOLEAN
    /\ faults \in 0 .. MaxFaults /\ ub \in BOOLEAN

Place == {"fresh", "queue", "link", "hand", "device", "aired"}

(* The jobs that are at place p.  What a device is being told to transmit  *)
(* is aired already.                                                       *)
At(p) ==
    CASE p = "fresh" -> fresh
      [] p = "queue" -> Range(jobqueue)
      [] p = "link" -> Range(link.toJob) \ {NoJob}
      [] p = "hand" -> {hand.job} \ {NoJob}
      [] p = "device" -> {data[d] : d \in {e \in Device : sending # e}} \ {NoJob}
      [] p = "aired" -> aired

Apart == \A p, q \in Place : p # q => At(p) \cap At(q) = {}

OneDevice ==
    \A d, e \in Device : d # e /\ sending # d /\ sending # e /\ data[d] # NoJob => data[d] # data[e]

(* Until the first fault bdsvr knows bdjob once it has read its first      *)
(* message.                                                                *)
Registered ==
    faults = 0 =>
        /\ link.up /\ ~lost /\ jobber \in {"none", "current"}
        /\ jobber = "none" => /\ ~jobber_free
                              /\ link.toSvr # <<>> /\ Head(link.toSvr) = "initsession"

DispatchInv ==
    /\ DevInv /\ QueuesOK /\ FlagsOK
    /\ Apart /\ Distinct(jobqueue) /\ Distinct(link.toJob) /\ OneDevice
    /\ Registered /\ SomeoneMoves

LEMMA AtIs ==
    /\ At("fresh") = fresh /\ At("queue") = Range(jobqueue)
    /\ At("link") = Range(link.toJob) \ {NoJob} /\ At("hand") = {hand.job} \ {NoJob}
    /\ At("device") = {data[d] : d \in {e \in Device : sending # e}} \ {NoJob}
    /\ At("aired") = aired
  BY DEF At

LEMMA AtIsNext ==
    /\ At("fresh")' = fresh' /\ At("queue")' = Range(jobqueue')
    /\ At("link")' = Range(link'.toJob) \ {NoJob} /\ At("hand")' = {hand'.job} \ {NoJob}
    /\ At("device")' = {data'[d] : d \in {e \in Device : sending' # e}} \ {NoJob}
    /\ At("aired")' = aired'
  BY DEF At

LEMMA Moved ==
    ASSUME Apart, NEW j, NEW q \in Place,
           At(q)' \subseteq At(q) \cup {j},
           \A p \in Place \ {q} : At(p)' \subseteq At(p) \ {j}
    PROVE  Apart'
  BY DEF Apart

(* What a job at one place gives of the others. *)
LEMMA Elsewhere ==
    ASSUME Apart, NEW p \in Place, NEW j \in At(p)
    PROVE  \A q \in Place \ {p} : j \notin At(q)
  BY DEF Apart

(* A step that lets jobs go, and moves none. *)
LEMMA Shrunk ==
    ASSUME Apart, \A p \in Place : At(p)' \subseteq At(p)
    PROVE  Apart'
  BY DEF Apart

(* A step of bdsvr or of the link leaves the devices alone.                *)
LEMMA DevicesLeft ==
    ASSUME DispatchInv, UNCHANGED devVars
    PROVE  /\ DevInv' /\ OneDevice'
           /\ At("hand")' = At("hand") /\ At("device")' = At("device")
<1>1. DevInv'
  BY DevSteps DEF DispatchInv
<1>2. OneDevice' /\ At("hand")' = At("hand") /\ At("device")' = At("device")
  BY AtIs, AtIsNext DEF DispatchInv, OneDevice, devVars
<1> QED
  BY <1>1, <1>2

LEMMA QueueStep ==
    ASSUME DispatchInv, NEW j \in Job, Queue(j)
    PROVE  DispatchInv'
<1>a. /\ QueuesOK /\ FlagsOK /\ Apart /\ Distinct(jobqueue) /\ Distinct(link.toJob)
      /\ Registered /\ SomeoneMoves
  BY DEF DispatchInv
<1>1. /\ j \in fresh /\ fresh' = fresh \ {j} /\ jobqueue' = Append(jobqueue, j)
      /\ UNCHANGED <<devVars, jobber_free, jobber, remote, lost, link, aired, faults, ub>>
  BY DEF Queue
<1>2. j \notin Range(jobqueue) /\ \A q \in Place \ {"fresh"} : j \notin At(q)
  BY <1>a, <1>1, AtIs, Elsewhere DEF Place
<1>3. /\ jobqueue' \in Seq(Job) /\ Range(jobqueue') = Range(jobqueue) \cup {j}
      /\ Distinct(jobqueue')
  BY <1>a, <1>1, <1>2, AppendTo DEF QueuesOK
<1>4. DevInv' /\ OneDevice' /\ At("hand")' = At("hand") /\ At("device")' = At("device")
  BY <1>1, DevicesLeft
<1>5. QueuesOK' /\ FlagsOK' /\ Distinct(link.toJob)' /\ Registered'
  BY <1>a, <1>1, <1>3 DEF QueuesOK, FlagsOK, Registered, Distinct
<1>6. Apart'
  <2>1. /\ At("fresh")' = At("fresh") \ {j} /\ At("queue")' = At("queue") \cup {j}
        /\ At("link")' = At("link") /\ At("aired")' = At("aired")
    BY <1>1, <1>3, AtIs, AtIsNext
  <2>2. \A p \in Place \ {"queue"} : At(p)' \subseteq At(p) \ {j}
    BY <2>1, <1>2, <1>4 DEF Place
  <2> QED
    BY <1>a, <2>1, <2>2, Moved DEF Place
<1>7. SomeoneMoves'
  BY <1>a, <1>1 DEF SomeoneMoves, Calm
<1> QED
  BY <1>3, <1>4, <1>5, <1>6, <1>7 DEF DispatchInv

LEMMA RecvInitStep ==
    ASSUME DispatchInv, RecvInit
    PROVE  DispatchInv'
<1>a. /\ QueuesOK /\ FlagsOK /\ Apart /\ Distinct(jobqueue) /\ Distinct(link.toJob)
      /\ Registered /\ SomeoneMoves
  BY DEF DispatchInv
<1>0. PICK n \in DOMAIN link.toSvr :
         link' = [link EXCEPT !.toSvr = SubSeq(link.toSvr, n + 1, Len(link.toSvr))]
  BY DEF RecvInit
<1>1. /\ link' = [link EXCEPT !.toSvr = SubSeq(link.toSvr, n + 1, Len(link.toSvr))]
      /\ jobber' = "current" /\ ub' \in BOOLEAN
      /\ UNCHANGED <<devVars, jobqueue, jobber_free, remote, lost, fresh, aired, faults>>
  BY <1>0 DEF RecvInit
<1>2. SubSeq(link.toSvr, n + 1, Len(link.toSvr)) \in Seq(ToSvr)
  <2>1. link.toSvr \in Seq(ToSvr) /\ n \in 1 .. Len(link.toSvr)
    BY <1>a, <1>0 DEF QueuesOK
  <2>2. \A i \in (n + 1) .. Len(link.toSvr) : link.toSvr[i] \in ToSvr
    BY <2>1
  <2> QED
    BY <2>1, <2>2
<1>3. link'.up = link.up /\ link'.toJob = link.toJob
  BY <1>a, <1>1 DEF QueuesOK
<1>4. DevInv' /\ OneDevice' /\ At("hand")' = At("hand") /\ At("device")' = At("device")
  BY <1>1, DevicesLeft
<1>5. QueuesOK' /\ Distinct(jobqueue)' /\ Distinct(link.toJob)'
  BY <1>a, <1>1, <1>2, <1>3 DEF QueuesOK, Distinct
<1>6. FlagsOK' /\ Registered' /\ SomeoneMoves'
  BY <1>a, <1>1, <1>3 DEF FlagsOK, Jobber, Registered, SomeoneMoves, Calm
<1>7. Apart'
  <2>1. \A p \in Place : At(p)' \subseteq At(p)
    BY <1>1, <1>3, <1>4, AtIs, AtIsNext DEF Place
  <2> QED
    BY <1>a, <2>1, Shrunk
<1> QED
  BY <1>4, <1>5, <1>6, <1>7 DEF DispatchInv

LEMMA RecvJobmeStep ==
    ASSUME DispatchInv, RecvJobme
    PROVE  DispatchInv'
<1>a. /\ QueuesOK /\ FlagsOK /\ Apart /\ Distinct(jobqueue) /\ Distinct(link.toJob)
      /\ Registered /\ SomeoneMoves
  BY DEF DispatchInv
<1>1. /\ link.toSvr # <<>> /\ Head(link.toSvr) = "jobme" /\ jobber_free' = TRUE
      /\ link' = [link EXCEPT !.toSvr = Tail(link.toSvr),
                              !.toJob = IF jobqueue = <<>> THEN Append(link.toJob, NoJob)
                                        ELSE link.toJob]
      /\ UNCHANGED <<devVars, jobqueue, jobber, remote, lost, fresh, aired, faults, ub>>
  BY DEF RecvJobme
<1>2. Tail(link.toSvr) \in Seq(ToSvr)
  BY <1>a, <1>1, TailOf DEF QueuesOK
<1> DEFINE toJob == IF jobqueue = <<>> THEN Append(link.toJob, NoJob) ELSE link.toJob
<1>3. /\ toJob \in Seq(Job \cup {NoJob}) /\ Distinct(toJob)
      /\ Range(toJob) \subseteq Range(link.toJob) \cup {NoJob}
  <2>1. link.toJob \in Seq(Job \cup {NoJob}) /\ NoJob \in Job \cup {NoJob} /\ NoJob \notin Job
    BY <1>a, NoneAssumption DEF QueuesOK
  <2>2. /\ Append(link.toJob, NoJob) \in Seq(Job \cup {NoJob}) /\ Distinct(Append(link.toJob, NoJob))
        /\ Range(Append(link.toJob, NoJob)) = Range(link.toJob) \cup {NoJob}
    BY <1>a, <2>1, AppendTo
  <2> QED
    BY <1>a, <2>1, <2>2
<1>4. link'.up = link.up /\ link'.toJob = toJob /\ link'.toSvr = Tail(link.toSvr)
  BY <1>a, <1>1 DEF QueuesOK
<1>5. link' = [link EXCEPT !.toSvr = Tail(link.toSvr), !.toJob = toJob]
  BY <1>1
<1> HIDE DEF toJob
<1>6. DevInv' /\ OneDevice' /\ At("hand")' = At("hand") /\ At("device")' = At("device")
  BY <1>1, DevicesLeft
<1>7. QueuesOK' /\ Distinct(jobqueue)' /\ Distinct(link.toJob)'
  <2>1. QueuesOK'
    BY <1>a, <1>1, <1>2, <1>3, <1>5 DEF QueuesOK
  <2>2. Distinct(jobqueue)' /\ Distinct(link.toJob)'
    BY <1>a, <1>1, <1>3, <1>4
  <2> QED
    BY <2>1, <2>2
<1>8. FlagsOK' /\ SomeoneMoves'
  BY <1>a, <1>1 DEF FlagsOK, SomeoneMoves
<1>9. Registered'
  BY <1>a, <1>1, <1>4 DEF Registered
<1>10. Apart'
  <2>1. \A p \in Place : At(p)' \subseteq At(p)
    BY <1>1, <1>3, <1>4, <1>6, AtIs, AtIsNext DEF Place
  <2> QED
    BY <1>a, <2>1, Shrunk
<1> QED
  BY <1>6, <1>7, <1>8, <1>9, <1>10 DEF DispatchInv

LEMMA ParseStep ==
    ASSUME DispatchInv, ParseEncodeSend
    PROVE  DispatchInv'
<1>a. /\ QueuesOK /\ FlagsOK /\ Apart /\ Distinct(jobqueue) /\ Distinct(link.toJob)
      /\ Registered /\ SomeoneMoves
      /\ jobqueue \in Seq(Job) /\ link.toJob \in Seq(Job \cup {NoJob})
  BY DEF DispatchInv, QueuesOK
<1> DEFINE j == Head(jobqueue)
<1>1. /\ jobber_free /\ jobqueue # <<>>
      /\ UNCHANGED <<devVars, jobber, remote, lost, fresh, aired, faults>>
  BY DEF ParseEncodeSend
<1>2. DevInv' /\ OneDevice' /\ At("hand")' = At("hand") /\ At("device")' = At("device")
  BY <1>1, DevicesLeft
<1>3. /\ Tail(jobqueue) \in Seq(Job) /\ j \in Job /\ j \in Range(jobqueue)
      /\ Range(Tail(jobqueue)) \subseteq Range(jobqueue) \ {j} /\ Distinct(Tail(jobqueue))
  BY <1>a, <1>1, TailOf
<1>4. /\ j \notin Range(link.toJob) /\ j \notin fresh
      /\ \A q \in Place \ {"queue"} : j \notin At(q)
  <2>1. \A q \in Place \ {"queue"} : j \notin At(q)
    BY <1>a, <1>3, AtIs, Elsewhere DEF Place
  <2> QED
    BY <2>1, <1>3, AtIs, NoneAssumption DEF Place
<1> HIDE DEF j
<1>6. ASSUME jobqueue' = Tail(jobqueue), link' = link, jobber_free' \in BOOLEAN, ub' = ub,
             jobber # "none", jobber_free' \/ ~Calm'
      PROVE  DispatchInv'
  <2>1. QueuesOK' /\ FlagsOK' /\ Distinct(jobqueue)' /\ Distinct(link.toJob)'
    BY <1>a, <1>1, <1>3, <1>6 DEF QueuesOK, FlagsOK, Distinct
  <2>2. Registered' /\ SomeoneMoves'
    BY <1>a, <1>1, <1>6 DEF Registered, SomeoneMoves
  <2>3. \A p \in Place : At(p)' \subseteq At(p)
    BY <1>1, <1>2, <1>3, <1>6, AtIs, AtIsNext DEF Place
  <2> QED
    BY <1>a, <1>2, <2>1, <2>2, <2>3, Shrunk DEF DispatchInv
<1>7. ASSUME jobqueue' = Tail(jobqueue), jobber_free' = jobber_free, ub' = ub, jobber # "none",
             link' = [link EXCEPT !.toJob = Append(link.toJob, j)]
      PROVE  DispatchInv'
  <2>1. /\ Append(link.toJob, j) \in Seq(Job \cup {NoJob})
        /\ Range(Append(link.toJob, j)) = Range(link.toJob) \cup {j}
        /\ Distinct(Append(link.toJob, j))
    <3>1. j \in Job \cup {NoJob}
      BY <1>3
    <3> QED
      BY <1>a, <1>4, <3>1, AppendTo
  <2>2. link'.up = link.up /\ link'.toSvr = link.toSvr /\ link'.toJob = Append(link.toJob, j)
    BY <1>a, <1>7 DEF QueuesOK
  <2>3. QueuesOK' /\ FlagsOK' /\ Distinct(jobqueue)' /\ Distinct(link.toJob)'
    BY <1>a, <1>1, <1>3, <1>7, <2>1, <2>2 DEF QueuesOK, FlagsOK, Distinct
  <2>4. Registered' /\ SomeoneMoves'
    BY <1>a, <1>1, <1>7, <2>2 DEF Registered, SomeoneMoves
  <2>5. /\ At("fresh")' = At("fresh") /\ At("aired")' = At("aired")
        /\ At("queue")' \subseteq At("queue") \ {j} /\ At("link")' \subseteq At("link") \cup {j}
    BY <1>1, <1>3, <1>7, <2>1, <2>2, AtIs, AtIsNext
  <2>6. \A p \in Place \ {"link"} : At(p)' \subseteq At(p) \ {j}
    BY <1>2, <1>4, <2>5 DEF Place
  <2>7. Apart'
    BY <1>a, <2>5, <2>6, Moved DEF Place
  <2> QED
    BY <1>2, <2>3, <2>4, <2>7 DEF DispatchInv
<1>8. CASE jobber \in {"none", "freed"}
  <2>1. faults # 0
    BY <1>a, <1>1, <1>8 DEF Registered
  <2>2. /\ jobber_free' \in BOOLEAN /\ ub' \in BOOLEAN /\ UNCHANGED <<jobqueue, link>>
    BY <1>a, <1>8 DEF ParseEncodeSend, FlagsOK
  <2>3. QueuesOK' /\ FlagsOK' /\ Distinct(jobqueue)' /\ Distinct(link.toJob)'
    BY <1>a, <1>1, <2>2 DEF QueuesOK, FlagsOK, Distinct
  <2>4. Registered' /\ SomeoneMoves'
    BY <1>1, <2>1 DEF Registered, SomeoneMoves, Calm
  <2>5. \A p \in Place : At(p)' \subseteq At(p)
    BY <1>1, <1>2, <2>2, AtIs, AtIsNext DEF Place
  <2> QED
    BY <1>a, <1>2, <2>3, <2>4, <2>5, Shrunk DEF DispatchInv
<1>9. CASE jobber \notin {"none", "freed"} /\ j \in BadJob
  <2>1. /\ jobqueue' = Tail(jobqueue) /\ jobber_free' = FALSE /\ link' = link /\ ub' = ub
    BY <1>9 DEF ParseEncodeSend, j
  <2>2. ~Calm'
    BY <1>1, <1>4, <1>9 DEF Calm
  <2> QED
    BY <1>6, <1>9, <2>1, <2>2
<1>10. CASE jobber \notin {"none", "freed"} /\ j \notin BadJob
  <2>1. /\ jobqueue' = Tail(jobqueue) /\ jobber_free' = jobber_free /\ ub' = ub
        /\ link' = [link EXCEPT !.toJob = IF jobber = "current" THEN Append(link.toJob, j)
                                          ELSE link.toJob]
    BY <1>10 DEF ParseEncodeSend, j
  <2>2. jobber = "current" => link' = [link EXCEPT !.toJob = Append(link.toJob, j)]
    BY <2>1
  <2>3. jobber # "current" => link' = link
    BY <1>a, <2>1 DEF QueuesOK
  <2> QED
    BY <1>a, <1>1, <1>6, <1>7, <1>10, <2>1, <2>2, <2>3 DEF FlagsOK
<1> QED
  BY <1>8, <1>9, <1>10

(* After a fault nothing is left to show of Registered and SomeoneMoves.   *)
LEMMA FaultsStep ==
    ASSUME DispatchInv,
           SvrNoticesLoss \/ SvrSaveDead \/ LinkLost \/ SvrRestart \/ Reconnect \/ ConnectFails
    PROVE  DispatchInv'
<1>a. /\ QueuesOK /\ FlagsOK /\ Apart /\ Distinct(jobqueue) /\ Distinct(link.toJob)
      /\ Registered /\ SomeoneMoves
  BY DEF DispatchInv
<1>1. UNCHANGED <<devVars, remote, fresh, aired>>
  BY DEF SvrNoticesLoss, SvrSaveDead, LinkLost, SvrRestart, Reconnect, ConnectFails
<1>2. faults' \in 0 .. MaxFaults /\ faults' # 0
  <2>1. faults \in 0 .. MaxFaults /\ MaxFaults \in Nat
    BY <1>a, DispatchAssumption DEF FlagsOK
  <2>2. CASE LinkLost \/ SvrRestart
    BY <2>1, <2>2 DEF LinkLost, SvrRestart
  <2>3. CASE SvrNoticesLoss \/ SvrSaveDead \/ Reconnect \/ ConnectFails
    BY <1>a, <2>1, <2>3 DEF SvrNoticesLoss, SvrSaveDead, Reconnect, ConnectFails, Registered
  <2> QED
    BY <2>2, <2>3
<1>3. /\ link' \in {link, Down, Connected} /\ jobqueue' \in {jobqueue, <<>>}
      /\ jobber_free' \in BOOLEAN /\ jobber' \in Jobber /\ lost' \in BOOLEAN /\ ub' \in BOOLEAN
  BY <1>a DEF SvrNoticesLoss, SvrSaveDead, LinkLost, SvrRestart, Reconnect, ConnectFails,
              svrVars, FlagsOK, Jobber
<1>4. /\ Down \in [up : BOOLEAN, toSvr : Seq(ToSvr), toJob : Seq(Job \cup {NoJob})]
      /\ Down.toJob = <<>>
      /\ Connected \in [up : BOOLEAN, toSvr : Seq(ToSvr), toJob : Seq(Job \cup {NoJob})]
      /\ Connected.toJob = <<>>
  <2>1. <<"initsession">> \in Seq(ToSvr)
    BY DEF ToSvr
  <2> QED
    BY <2>1 DEF Down, Connected
<1>5. link'.toJob \in {link.toJob, <<>>}
  BY <1>3, <1>4
<1>6. QueuesOK'
  BY <1>a, <1>1, <1>3, <1>4 DEF QueuesOK
<1>7. FlagsOK' /\ Registered' /\ SomeoneMoves'
  BY <1>a, <1>1, <1>2, <1>3 DEF FlagsOK, Registered, SomeoneMoves, Calm
<1>8. Distinct(jobqueue)'
  BY <1>a, <1>3, Emptied
<1>9. Distinct(link.toJob)'
  BY <1>a, <1>5, Emptied
<1>10. DevInv' /\ OneDevice' /\ At("hand")' = At("hand") /\ At("device")' = At("device")
  BY <1>1, DevicesLeft
<1>11. Apart'
  <2>1. Range(jobqueue') \subseteq Range(jobqueue) /\ Range(link'.toJob) \subseteq Range(link.toJob)
    BY <1>3, <1>5, Emptied
  <2>2. \A p \in Place : At(p)' \subseteq At(p)
    BY <1>1, <1>10, <2>1, AtIs, AtIsNext DEF Place
  <2> QED
    BY <1>a, <2>2, Shrunk
<1> QED
  BY <1>6, <1>7, <1>8, <1>9, <1>10, <1>11 DEF DispatchInv

-----------------------------------------------------------------------------
(* bdjob's steps: each is a step of its devices.                           *)

LEMMA AskStep ==
    ASSUME DispatchInv, NEW d \in Device, AskForWork(d)
    PROVE  Next /\ DispatchInv'
<1>a. /\ QueuesOK /\ FlagsOK /\ Apart /\ Distinct(jobqueue) /\ Distinct(link.toJob)
      /\ Registered /\ SomeoneMoves /\ OneDevice /\ DevInv
  BY DEF DispatchInv
<1>1. /\ HasFreeDevice(d) /\ UNCHANGED <<data, sending, hand>>
      /\ link' = [link EXCEPT !.toSvr = IF remote = "hasjob" /\ link.up
                                        THEN Append(link.toSvr, "jobme") ELSE link.toSvr]
      /\ UNCHANGED <<jobqueue, jobber_free, jobber, remote, lost, fresh, aired, faults, ub>>
  BY DEF AskForWork, svrVars, HasFreeDevice
<1>2. Next
  BY <1>1 DEF Next
<1>3. DevInv'
  BY <1>a, <1>2, DevSteps
<1> DEFINE toSvr == IF remote = "hasjob" /\ link.up THEN Append(link.toSvr, "jobme") ELSE link.toSvr
<1>4. /\ toSvr \in Seq(ToSvr)
      /\ link.toSvr # <<>> => toSvr # <<>> /\ Head(toSvr) = Head(link.toSvr)
  <2>1. "jobme" \in ToSvr /\ link.toSvr \in Seq(ToSvr)
    BY <1>a DEF ToSvr, QueuesOK
  <2>2. /\ Append(link.toSvr, "jobme") \in Seq(ToSvr) /\ Append(link.toSvr, "jobme") # <<>>
        /\ link.toSvr # <<>> => Head(Append(link.toSvr, "jobme")) = Head(link.toSvr)
    BY <2>1, AppendTo
  <2> QED
    BY <2>1, <2>2
<1>5. link' = [link EXCEPT !.toSvr = toSvr]
  BY <1>1
<1> HIDE DEF toSvr
<1>6. link'.up = link.up /\ link'.toSvr = toSvr /\ link'.toJob = link.toJob
  BY <1>a, <1>5 DEF QueuesOK
<1>7. QueuesOK' /\ FlagsOK' /\ Distinct(jobqueue)' /\ Distinct(link.toJob)'
  BY <1>a, <1>1, <1>4, <1>5, <1>6 DEF QueuesOK, FlagsOK, Distinct
<1>8. Registered' /\ SomeoneMoves'
  BY <1>a, <1>1, <1>4, <1>6 DEF Registered, SomeoneMoves, Calm
<1>9. OneDevice' /\ \A p \in Place : At(p)' \subseteq At(p)
  BY <1>a, <1>1, <1>6, AtIs, AtIsNext DEF Place, OneDevice
<1> QED
  BY <1>a, <1>2, <1>3, <1>7, <1>8, <1>9, Shrunk DEF DispatchInv

LEMMA RecvJobStep ==
    ASSUME DispatchInv, RecvJob
    PROVE  Next /\ DispatchInv'
<1>a. /\ QueuesOK /\ FlagsOK /\ Apart /\ Distinct(jobqueue) /\ Distinct(link.toJob)
      /\ Registered /\ SomeoneMoves /\ OneDevice /\ DevInv
      /\ link.toJob \in Seq(Job \cup {NoJob})
  BY DEF DispatchInv, QueuesOK
<1> DEFINE j == Head(link.toJob)
<1>1. /\ link.toJob # <<>> /\ j # NoJob /\ GetFreeDevice(j)
      /\ link' = [link EXCEPT !.toJob = Tail(link.toJob)]
      /\ remote' = "hasjob"
      /\ UNCHANGED <<jobqueue, jobber_free, jobber, lost, fresh, aired, faults, ub>>
  BY DEF RecvJob, svrVars
<1>2. /\ Tail(link.toJob) \in Seq(Job \cup {NoJob}) /\ j \in Job
      /\ Range(Tail(link.toJob)) \subseteq Range(link.toJob) \ {j} /\ Distinct(Tail(link.toJob))
      /\ j \in Range(link.toJob)
  <2>1. j \in Job \cup {NoJob}
    BY <1>a, <1>1, TailOf
  <2>2. j \in Job
    BY <1>1, <2>1
  <2> QED
    BY <1>a, <1>1, <2>2, TailOf
<1>3. \A q \in Place \ {"link"} : j \notin At(q)
  BY <1>a, <1>1, <1>2, AtIs, Elsewhere DEF Place
<1> HIDE DEF j
<1>4. Next
  BY <1>1, <1>2 DEF Next
<1>5. DevInv'
  BY <1>a, <1>4, DevSteps
<1>6. UNCHANGED <<data, sending>> /\ hand'.job \in {j, hand.job}
  BY <1>1 DEF GetFreeDevice
<1>7. link'.up = link.up /\ link'.toSvr = link.toSvr /\ link'.toJob = Tail(link.toJob)
  BY <1>a, <1>1 DEF QueuesOK
<1>8. QueuesOK' /\ FlagsOK' /\ Distinct(jobqueue)' /\ Distinct(link.toJob)'
  BY <1>a, <1>1, <1>2, <1>7 DEF QueuesOK, FlagsOK, Distinct
<1>9. Registered' /\ SomeoneMoves'
  BY <1>a, <1>1, <1>2, <1>7 DEF Registered, SomeoneMoves, Calm
<1>10. OneDevice'
  BY <1>a, <1>6 DEF OneDevice
<1>11. Apart'
  <2>1. /\ At("fresh")' = At("fresh") /\ At("queue")' = At("queue") /\ At("aired")' = At("aired")
        /\ At("link")' \subseteq At("link") \ {j}
    BY <1>1, <1>2, <1>7, AtIs, AtIsNext
  <2>2. At("device")' = At("device") /\ At("hand")' \subseteq At("hand") \cup {j}
    <3>1. At("device")' = At("device")
      BY <1>6, AtIs, AtIsNext
    <3>2. At("hand")' \subseteq At("hand") \cup {j}
      BY <1>6, AtIs, AtIsNext
    <3> QED
      BY <3>1, <3>2
  <2>3. \A p \in Place \ {"hand"} : At(p)' \subseteq At(p) \ {j}
    BY <1>3, <2>1, <2>2 DEF Place
  <2> QED
    BY <1>a, <2>2, <2>3, Moved DEF Place
<1> QED
  BY <1>4, <1>5, <1>8, <1>9, <1>10, <1>11 DEF DispatchInv

LEMMA RecvNojobStep ==
    ASSUME DispatchInv, RecvNojob
    PROVE  DispatchInv'
<1>a. /\ QueuesOK /\ FlagsOK /\ Apart /\ Distinct(jobqueue) /\ Distinct(link.toJob)
      /\ Registered /\ SomeoneMoves
      /\ link.toJob \in Seq(Job \cup {NoJob})
  BY DEF DispatchInv, QueuesOK
<1>1. /\ link.toJob # <<>> /\ Head(link.toJob) = NoJob
      /\ link' = [link EXCEPT !.toJob = Tail(link.toJob)]
      /\ remote' = "nojob"
      /\ UNCHANGED <<devVars, jobqueue, jobber_free, jobber, lost, fresh, aired, faults, ub>>
  BY DEF RecvNojob, svrVars
<1>2. /\ Tail(link.toJob) \in Seq(Job \cup {NoJob}) /\ NoJob \in Range(link.toJob)
      /\ Range(Tail(link.toJob)) \subseteq Range(link.toJob) /\ Distinct(Tail(link.toJob))
  BY <1>a, <1>1, TailOf
<1>3. DevInv' /\ OneDevice' /\ At("hand")' = At("hand") /\ At("device")' = At("device")
  BY <1>1, DevicesLeft
<1>4. link'.up = link.up /\ link'.toSvr = link.toSvr /\ link'.toJob = Tail(link.toJob)
  BY <1>a, <1>1 DEF QueuesOK
<1>5. QueuesOK' /\ FlagsOK' /\ Distinct(jobqueue)' /\ Distinct(link.toJob)'
  BY <1>a, <1>1, <1>2, <1>4 DEF QueuesOK, FlagsOK, Distinct
<1>6. Registered' /\ SomeoneMoves'
  BY <1>a, <1>1, <1>2, <1>4 DEF Registered, SomeoneMoves, Calm
<1>7. \A p \in Place : At(p)' \subseteq At(p)
  BY <1>1, <1>2, <1>3, <1>4, AtIs, AtIsNext DEF Place
<1> QED
  BY <1>a, <1>3, <1>5, <1>6, <1>7, Shrunk DEF DispatchInv

(* What the devices' own steps do to the jobs: one is given to a device,   *)
(* one is put on the air, or jobs are given up.                            *)
LEMMA JobsOfDevices ==
    ASSUME DevInv, OneDevice, Apart, Timer \/ Reports \/ AssignWork,
           aired' = aired \cup {data[d] : d \in {e \in Device : sending # e /\ sending' = e}},
           UNCHANGED <<fresh, jobqueue, link>>
    PROVE  Apart' /\ OneDevice' /\ aired' \subseteq aired \cup Job
<1>a. /\ HandOK /\ data \in [Device -> Job \cup {NoJob}] /\ NoJob \notin Job
      /\ \A d \in Device : data[d] = NoJob \/ data[d] \in Job
  BY NoneAssumption DEF DevInv, ClocksOK
<1>b. /\ At("fresh")' = At("fresh") /\ At("queue")' = At("queue") /\ At("link")' = At("link")
  BY AtIs, AtIsNext
<1>1. ASSUME sending' = sending, hand' = hand, data' \in [Device -> Job \cup {NoJob}],
             \A d \in Device : data'[d] = data[d] \/ data'[d] = NoJob
      PROVE  Apart' /\ OneDevice' /\ aired' = aired
  <2>1. aired' = aired
    BY <1>1
  <2>2. OneDevice'
    BY <1>1 DEF OneDevice
  <2>3. At("hand")' = At("hand") /\ At("device")' \subseteq At("device") /\ At("aired")' = At("aired")
    BY <1>1, <2>1, AtIs, AtIsNext
  <2>4. \A p \in Place : At(p)' \subseteq At(p)
    BY <1>b, <2>3 DEF Place
  <2> QED
    BY <2>1, <2>2, <2>4, Shrunk
<1>2. CASE ChechDeviceState \/ DoWorkEnds \/ Reports \/ \E d \in Device : InitDeviceFails(d)
  <2>1. UNCHANGED <<sending, hand, data>>
    BY <1>2 DEF ChechDeviceState, DoWorkEnds, Reports, ICI, FKI, ZTI, Waited, InitDeviceFails
  <2> QED
    BY <1>1, <1>a, <2>1
<1>3. CASE CheckFreeList
  <2>1. /\ UNCHANGED <<sending, hand>>
        /\ \A d \in Device : data'[d] = data[d] \/ data'[d] = NoJob
        /\ DOMAIN data' = Device /\ data' = [d \in Device |-> data'[d]]
    BY <1>3 DEF CheckFreeList
  <2>2. data' \in [Device -> Job \cup {NoJob}]
    BY <1>a, <2>1
  <2> QED
    BY <1>1, <2>1, <2>2
<1>4. ASSUME NEW d \in Device, SendFails(d) PROVE Apart' /\ OneDevice' /\ aired' = aired
  <2>1. UNCHANGED <<sending, hand>> /\ data' = [data EXCEPT ![d] = NoJob]
    BY <1>4 DEF SendFails
  <2> QED
    BY <1>1, <1>a, <2>1
<1>5. ASSUME NEW d \in Device, SendComm(d) PROVE Apart' /\ OneDevice' /\ aired' \subseteq aired \cup Job
  <2>1. /\ sending' = d /\ hand' = hand /\ data' = data /\ sending = NoDevice
        /\ data[d] \in Job
    BY <1>5, <1>a DEF SendComm, MaySend, HandOK
  <2>2. sending # d /\ \A e \in Device : sending # e
    BY <2>1, NoDevices
  <2>3. {e \in Device : sending # e /\ sending' = e} = {d}
    BY <2>1, <2>2
  <2>4. aired' = aired \cup {data[d]}
    BY <2>3
  <2>5. data[d] \in At("device")
    BY <2>1, <2>2, AtIs, <1>a
  <2>6. OneDevice'
    BY <2>1, <2>2 DEF OneDevice
  <2>7. At("device")' \subseteq At("device") \ {data[d]}
    <3>1. ASSUME NEW e \in Device, d # e PROVE data[e] # data[d]
      BY <2>1, <2>2, <3>1, <1>a DEF OneDevice
    <3> QED
      BY <3>1, <2>1, <2>2, AtIs, AtIsNext
  <2>8. At("hand")' = At("hand") /\ At("aired")' = At("aired") \cup {data[d]}
    BY <2>1, <2>4, AtIs, AtIsNext
  <2>9. \A p \in Place \ {"device"} : data[d] \notin At(p)
    BY <2>5, Elsewhere DEF Place
  <2>10. \A p \in Place \ {"aired"} : At(p)' \subseteq At(p) \ {data[d]}
    BY <1>b, <2>7, <2>8, <2>9 DEF Place
  <2>11. Apart'
    BY <2>8, <2>10, Moved DEF Place
  <2> QED
    BY <2>1, <2>4, <2>6, <2>11
<1>6. CASE SendCommReturns
  <2>1. /\ sending' = NoDevice /\ hand' = hand /\ sending \in Device
        /\ data' = [data EXCEPT ![sending] = NoJob]
    BY <1>6, <1>a DEF SendCommReturns, HandOK
  <2>2. {e \in Device : sending # e /\ sending' = e} = {}
    BY <2>1, NoDevices
  <2>3. aired' = aired
    BY <2>2
  <2>4. /\ data'[sending] = NoJob
        /\ \A e \in Device : e # sending => data'[e] = data[e]
    BY <1>a, <2>1
  <2>5. OneDevice'
    BY <2>1, <2>4 DEF OneDevice
  <2>6. At("device")' \subseteq At("device")
    BY <2>4, AtIs, AtIsNext
  <2>7. At("hand")' = At("hand") /\ At("aired")' = At("aired")
    BY <2>1, <2>3, AtIs, AtIsNext
  <2>8. \A p \in Place : At(p)' \subseteq At(p)
    BY <1>b, <2>6, <2>7 DEF Place
  <2> QED
    BY <2>3, <2>5, <2>8, Shrunk
<1>7. CASE AssignWork
  <2> DEFINE d == hand.dev
             j == hand.job
  <2>1. /\ sending' = sending /\ hand' = NoHand /\ d \in Device /\ j \in Job
        /\ data' = [data EXCEPT ![d] = j] /\ sending = NoDevice
    BY <1>7, <1>a DEF AssignWork, HandOK
  <2>2. j \in At("hand") /\ hand'.job = NoJob
    BY <2>1, <1>a, AtIs DEF NoHand
  <2> HIDE DEF d, j
  <2>3. /\ data'[d] = j /\ \A e \in Device : e # d => data'[e] = data[e]
        /\ \A e \in Device : sending # e /\ sending' # e
    BY <2>1, <1>a, NoDevices
  <2>4. aired' = aired
    BY <2>3
  <2>5. \A p \in Place \ {"hand"} : j \notin At(p)
    BY <2>2, Elsewhere DEF Place
  <2>6. \A e \in Device : data[e] # j
    BY <2>1, <2>3, <2>5, <1>a, AtIs DEF Place
  <2>7. OneDevice'
    BY <2>3, <2>6 DEF OneDevice
  <2>8. At("device")' \subseteq At("device") \cup {j}
    BY <2>3, AtIs, AtIsNext
  <2>9. At("hand")' \subseteq At("hand") \ {j} /\ At("aired")' = At("aired")
    BY <2>2, <2>4, AtIs, AtIsNext
  <2>10. \A p \in Place \ {"device"} : At(p)' \subseteq At(p) \ {j}
    BY <1>b, <2>5, <2>9 DEF Place
  <2>11. Apart'
    BY <2>8, <2>10, Moved DEF Place
  <2> QED
    BY <2>4, <2>7, <2>11
<1> QED
  BY <1>2, <1>3, <1>4, <1>5, <1>6, <1>7 DEF Timer

LEMMA DeviceStepStep ==
    ASSUME DispatchInv, DeviceStep
    PROVE  Next /\ DispatchInv'
<1>a. /\ QueuesOK /\ FlagsOK /\ Apart /\ Distinct(jobqueue) /\ Distinct(link.toJob)
      /\ Registered /\ SomeoneMoves /\ OneDevice /\ DevInv
  BY DEF DispatchInv
<1>1. /\ Timer \/ Reports \/ AssignWork
      /\ aired' = aired \cup {data[d] : d \in {e \in Device : sending # e /\ sending' = e}}
      /\ UNCHANGED <<jobqueue, jobber_free, jobber, remote, lost, link, fresh, faults, ub>>
  BY DEF DeviceStep, svrVars
<1>2. Next
  BY <1>1 DEF Next
<1>3. DevInv'
  BY <1>a, <1>2, DevSteps
<1>4. Apart' /\ OneDevice' /\ aired' \subseteq aired \cup Job
  BY <1>a, <1>1, JobsOfDevices
<1>5. QueuesOK' /\ FlagsOK' /\ Distinct(jobqueue)' /\ Distinct(link.toJob)'
  BY <1>a, <1>1, <1>4 DEF QueuesOK, FlagsOK, Distinct
<1>6. Registered' /\ SomeoneMoves'
  BY <1>a, <1>1 DEF Registered, SomeoneMoves, Calm
<1> QED
  BY <1>2, <1>3, <1>4, <1>5, <1>6 DEF DispatchInv

-----------------------------------------------------------------------------
(* The dispatch as a whole.                                                *)

LEMMA DispatchInits == DispatchInit => DispatchInv
<1> SUFFICES ASSUME DispatchInit PROVE DispatchInv
  OBVIOUS
<1>1. /\ Init /\ jobqueue = <<>> /\ jobber_free = FALSE /\ jobber = "none" /\ remote = "hasjob"
      /\ lost = FALSE /\ link = Connected /\ fresh = Job /\ aired = {} /\ faults = 0 /\ ub = FALSE
      /\ hand.job = NoJob /\ data = [d \in Device |-> NoJob] /\ MaxFaults \in Nat
  BY DispatchAssumption DEF DispatchInit, Init, NoHand
<1>2. /\ link.up = TRUE /\ link.toSvr = <<"initsession">> /\ link.toJob = <<>>
      /\ link \in [up : BOOLEAN, toSvr : Seq(ToSvr), toJob : Seq(Job \cup {NoJob})]
  <2>1. <<"initsession">> \in Seq(ToSvr)
    BY DEF ToSvr
  <2> QED
    BY <1>1, <2>1 DEF Connected
<1>3. DevInv
  BY <1>1, DevInits
<1>4. QueuesOK
  BY <1>1, <1>2, Emptied DEF QueuesOK
<1>f. FlagsOK
  <2>1. 0 \in 0 .. MaxFaults
    BY <1>1
  <2> QED
    BY <1>1, <2>1 DEF FlagsOK, Jobber
<1>5. Distinct(jobqueue) /\ Distinct(link.toJob) /\ Range(jobqueue) = {} /\ Range(link.toJob) = {}
  BY <1>1, <1>2, Emptied
<1>6. Apart /\ OneDevice
  <2>1. \A p \in Place : p # "fresh" => At(p) = {}
    BY <1>1, <1>5, AtIs DEF Place
  <2> QED
    BY <1>1, <2>1 DEF Apart, OneDevice
<1>7. Registered
  BY <1>1, <1>2 DEF Registered
<1>8. SomeoneMoves
  BY <1>1, <1>2, <1>5 DEF SomeoneMoves
<1> QED
  BY <1>3, <1>4, <1>f, <1>5, <1>6, <1>7, <1>8 DEF DispatchInv

LEMMA DispatchSteps ==
    ASSUME DispatchInv, [DispatchNext]_vars
    PROVE  DispatchInv' /\ [Next]_devVars
<1>1. CASE UNCHANGED vars
  <2>1. /\ UNCHANGED devVars
        /\ UNCHANGED <<jobqueue, jobber_free, jobber, remote, lost, link, fresh, aired, faults, ub>>
    BY <1>1 DEF vars, svrVars
  <2>2. DevInv' /\ OneDevice' /\ At("hand")' = At("hand") /\ At("device")' = At("device")
    BY <2>1, DevicesLeft
  <2>3. \A p \in Place : At(p)' \subseteq At(p)
    BY <2>1, <2>2, AtIs, AtIsNext DEF Place
  <2>4. QueuesOK' /\ FlagsOK' /\ Distinct(jobqueue)' /\ Distinct(link.toJob)'
    BY <2>1 DEF DispatchInv, QueuesOK, FlagsOK, Distinct
  <2>5. Registered' /\ SomeoneMoves'
    BY <2>1 DEF DispatchInv, Registered, SomeoneMoves, Calm
  <2> QED
    BY <2>1, <2>2, <2>3, <2>4, <2>5, Shrunk DEF DispatchInv
<1>2. CASE \E j \in Job : Queue(j)
  BY <1>2, QueueStep DEF Queue
<1>3. CASE RecvInit
  BY <1>3, RecvInitStep DEF RecvInit
<1>4. CASE RecvJobme
  BY <1>4, RecvJobmeStep DEF RecvJobme
<1>5. CASE ParseEncodeSend
  BY <1>5, ParseStep DEF ParseEncodeSend
<1>6. CASE SvrNoticesLoss \/ SvrSaveDead \/ LinkLost \/ SvrRestart \/ Reconnect \/ ConnectFails
  <2>1. UNCHANGED devVars
    BY <1>6 DEF SvrNoticesLoss, SvrSaveDead, LinkLost, SvrRestart, Reconnect, ConnectFails
  <2> QED
    BY <1>6, <2>1, FaultsStep
<1>7. CASE \E d \in Device : AskForWork(d)
  BY <1>7, AskStep
<1>8. CASE RecvJob
  BY <1>8, RecvJobStep
<1>9. CASE RecvNojob
  BY <1>9, RecvNojobStep DEF RecvNojob
<1>10. CASE DeviceStep
  BY <1>10, DeviceStepStep
<1> QED
  BY <1>1, <1>2, <1>3, <1>4, <1>5, <1>6, <1>7, <1>8, <1>9, <1>10 DEF DispatchNext

LEMMA DispatchInvHolds == DispatchSpec => []DispatchInv
  BY DispatchInits, DispatchSteps, PTL DEF DispatchSpec

(* Under bdsvr's dispatch, through lost connections and restarts, the      *)
(* devices go through steps they have with jobs coming at any time: what   *)
(* is proved of them holds in the composition.                             *)
THEOREM DevicesUnderDispatch == DispatchSpec => Spec
<1>1. DispatchInit => Init
  BY DEF DispatchInit
<1> QED
  BY <1>1, DispatchSteps, DispatchInvHolds, PTL DEF DispatchSpec, Spec

(* The types of both programs' state: every job that bdjob takes from the  *)
(* link is one, whatever was lost on the way.                              *)
THEOREM TypeCorrect == DispatchSpec => []DispatchTypeOK
<1>1. ASSUME DispatchInv PROVE DispatchTypeOK
  <2>1. DevInv /\ QueuesOK /\ FlagsOK
    BY <1>1 DEF DispatchInv
  <2>2. TypeOK
    <3>1. /\ {idles, determinings, workings} \subseteq [Device -> Nat]
          /\ {pending, init, normal} \subseteq [Device -> BOOLEAN]
      BY <2>1 DEF DevInv, ListsOK, RestOK
    <3>2. sending \in Device \cup {NoDevice}
      BY <2>1 DEF DevInv, HandOK
    <3> QED
      BY <2>1, <3>1, <3>2 DEF DevInv, HandOK, ClocksOK, RestOK, TypeOK
  <2>3. /\ Range(jobqueue) \subseteq Job /\ Range(link.toSvr) \subseteq ToSvr
        /\ Range(link.toJob) \subseteq Job \cup {NoJob} /\ link.up \in BOOLEAN
    <3>1. ASSUME NEW S, NEW q \in Seq(S) PROVE Range(q) \subseteq S
      BY <3>1 DEF Range
    <3>2. /\ jobqueue \in Seq(Job) /\ link.toSvr \in Seq(ToSvr) /\ link.up \in BOOLEAN
          /\ link.toJob \in Seq(Job \cup {NoJob})
      BY <2>1 DEF QueuesOK
    <3> QED
      BY <3>1, <3>2
  <2> QED
    BY <2>1, <2>2, <2>3 DEF DispatchTypeOK, QueuesOK, FlagsOK
<1> QED
  BY <1>1, DispatchInvHolds, PTL

(* A set that holds at most one element counts as at most one. *)
LEMMA FewCount ==
    ASSUME NEW T, \A x, y \in T : x = y
    PROVE  /\ Cardinality(T) \in {0, 1}
           /\ T = {} => Cardinality(T) = 0
<1>1. CASE T = {}
  BY <1>1, FS_EmptySet
<1>2. CASE T # {}
  <2>1. PICK x \in T : TRUE
    BY <1>2
  <2>2. T = {x}
    BY <2>1
  <2>3. Cardinality({x}) = 1
    BY FS_Singleton
  <2> QED
    BY <2>2, <2>3
<1> QED
  BY <1>1, <1>2

LEMMA CountOf ==
    ASSUME NEW q, Distinct(q), NEW j \in Job
    PROVE  /\ Count(q, j) \in {0, 1}
           /\ j \notin Range(q) => Count(q, j) = 0
<1> DEFINE T == {i \in DOMAIN q : q[i] = j}
<1>1. \A x, y \in T : x = y
  BY DEF Distinct
<1>2. j \notin Range(q) => T = {}
  BY DEF Range
<1> HIDE DEF T
<1>3. Cardinality(T) \in {0, 1} /\ (T = {} => Cardinality(T) = 0)
  BY <1>1, FewCount
<1>4. Count(q, j) = Cardinality(T)
  BY DEF Count, T
<1> QED
  BY <1>2, <1>3, <1>4

(* A job is in one place at a time, from frontsvr to the air, and goes on  *)
(* the air at most once, whatever is lost, refused or restarted.           *)
THEOREM AtMostOnceHolds == DispatchSpec => []AtMostOnce
<1>1. ASSUME DispatchInv PROVE AtMostOnce
  <2>a. Apart /\ Distinct(jobqueue) /\ Distinct(link.toJob) /\ OneDevice
    BY <1>1 DEF DispatchInv
  <2>1. SUFFICES ASSUME NEW j \in Job
        PROVE  Count(jobqueue, j) + Count(link.toJob, j)
               + (IF hand.job = j THEN 1 ELSE 0)
               + Cardinality({d \in Device : data[d] = j /\ sending # d})
               + (IF j \in fresh THEN 1 ELSE 0) + (IF j \in aired THEN 1 ELSE 0) <= 1
    BY DEF AtMostOnce
  <2> DEFINE D == {d \in Device : data[d] = j /\ sending # d}
             q == Count(jobqueue, j)
             l == Count(link.toJob, j)
             c == Cardinality(D)
  <2>2. j # NoJob
    BY NoneAssumption
  <2>3. q \in {0, 1} /\ (j \notin At("queue") => q = 0)
    BY <2>a, CountOf, AtIs
  <2>4. l \in {0, 1} /\ (j \notin At("link") => l = 0)
    BY <2>a, <2>2, CountOf, AtIs
  <2>5. c \in {0, 1} /\ (j \notin At("device") => c = 0)
    <3>1. \A x, y \in D : x = y
      BY <2>a, <2>2 DEF OneDevice
    <3>2. j \notin At("device") => D = {}
      BY <2>2, AtIs
    <3> HIDE DEF D
    <3> QED
      BY <3>1, <3>2, FewCount
  <2>6. /\ (hand.job = j) = (j \in At("hand"))
        /\ (j \in fresh) = (j \in At("fresh")) /\ (j \in aired) = (j \in At("aired"))
    BY <2>2, AtIs
  <2>7. \A p, r \in Place : p # r => ~(j \in At(p) /\ j \in At(r))
    BY <2>a DEF Apart
  <2> HIDE DEF D, q, l, c
  <2>8. q + l + (IF hand.job = j THEN 1 ELSE 0) + c
        + (IF j \in fresh THEN 1 ELSE 0) + (IF j \in aired THEN 1 ELSE 0) <= 1
    BY <2>3, <2>4, <2>5, <2>6, <2>7 DEF Place
  <2> QED
    BY <2>8 DEF D, q, l, c
<1> QED
  BY <1>1, DispatchInvHolds, PTL

(* Until a connection is lost, bdsvr is restarted or a job does not parse, *)
(* the two programs never wait for each other: jobber_free is set, or      *)
(* bdjob does not believe there is no job, nor is about to.                *)
THEOREM SomeoneMovesHolds == DispatchSpec => []SomeoneMoves
<1>1. DispatchInv => SomeoneMoves
  BY DEF DispatchInv
<1> QED
  BY <1>1, DispatchInvHolds, PTL
=============================================================================
