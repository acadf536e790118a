----------------------------- MODULE JobDispatch -----------------------------
(***************************************************************************)
(* Jobs on their way from frontsvr to a BeiDou device: bdsvr queues them   *)
(* and sends them to bdjob over one connection; bdjob asks for work (JOBME)*)
(* when it has set a device aside, unless it was told NOJOB and has had no *)
(* job since.  bdsvr sends while jobber_free is set.                       *)
(*                                                                         *)
(* Composes BdDevices (bdjob's devices) with both programs' loops and the  *)
(* link: a FIFO each way, emptied when the connection is lost.             *)
(***************************************************************************)
EXTENDS BdDevices, Sequences, SequencesExt

CONSTANTS
    BadJob,     \* jobs that parse_bdjob_content() refuses
    MaxLink,    \* bound: messages under way in one direction
    MaxFaults   \* bound: lost connections and restarts of bdsvr

ASSUME DispatchAssumption ==
    /\ BadJob \subseteq Job
    /\ {MaxLink, MaxFaults} \subseteq Nat

VARIABLES
    jobqueue, jobber_free,
    jobber,     \* the session bdsvr has under the name "bdjob"
    remote,     \* bdjob's m_nRemoteStatus
    lost,       \* bdjob could not reconnect
    link,       \* connected or not, messages to bdsvr, messages to bdjob
    fresh,      \* jobs frontsvr has not sent yet
    aired,      \* jobs a device has been told to transmit
    faults,     \* lost connections and restarts so far
    ub          \* bdsvr has read a freed session

svrVars == <<jobqueue, jobber_free, jobber>>
vars == <<devVars, svrVars, remote, lost, link, fresh, aired, faults, ub>>

(* "current": of the connection that is up; "stale": bdsvr has not noticed *)
(* that its connection is gone; "closed": it waits to be freed.            *)
Jobber == {"none", "current", "stale", "closed", "freed"}

ToSvr == {"initsession", "jobme"}

DispatchTypeOK ==
    /\ TypeOK
    /\ Range(jobqueue) \subseteq Job /\ jobber_free \in BOOLEAN /\ jobber \in Jobber
    /\ remote \in {"hasjob", "nojob"} /\ lost \in BOOLEAN
    /\ link.up \in BOOLEAN
    /\ Range(link.toSvr) \subseteq ToSvr /\ Range(link.toJob) \subseteq Job \cup {NoJob}
    /\ fresh \subseteq Job /\ aired \subseteq Job
    /\ faults \in 0 .. MaxFaults /\ ub \in BOOLEAN

Connected == [up |-> TRUE, toSvr |-> <<"initsession">>, toJob |-> <<>>]

DispatchInit ==
    /\ Init
    /\ jobqueue = <<>> /\ jobber_free = FALSE /\ jobber = "none"
    /\ remote = "hasjob" /\ lost = FALSE
    /\ link = Connected
    /\ fresh = Job /\ aired = {}
    /\ faults = 0 /\ ub = FALSE

-----------------------------------------------------------------------------
(* bdsvr.                                                                  *)

(* frontsvr sends a dyncode, taskpau or taskcon. *)
Queue(j) ==
    /\ ~ub
    /\ j \in fresh
    /\ fresh' = fresh \ {j}
    /\ jobqueue' = Append(jobqueue, j)
    /\ UNCHANGED <<devVars, jobber_free, jobber, remote, lost, link, aired, faults, ub>>

(* The session is registered; the search for the name reads every key.     *)
(* What the read holds behind $initsess is dropped: bdjob does not wait    *)
(* for the answer before it asks for work.                                 *)
RecvInit ==
    /\ ~ub
    /\ link.toSvr # <<>> /\ Head(link.toSvr) = "initsession"
    /\ \E n \in DOMAIN link.toSvr :
          link' = [link EXCEPT !.toSvr = SubSeq(link.toSvr, n + 1, Len(link.toSvr))]
    /\ jobber' = "current"
    /\ ub' = (jobber = "freed")
    /\ UNCHANGED <<devVars, jobqueue, jobber_free, remote, lost, fresh, aired, faults>>

(* Mutant: with nothing to do bdjob is told so and no more.                *)
RecvJobme_IdleNotFree ==
    /\ ~ub
    /\ link.toSvr # <<>> /\ Head(link.toSvr) = "jobme"
    /\ Len(link.toJob) < MaxLink
    /\ jobber_free' = (jobber_free \/ jobqueue # <<>>)
    /\ link' = [link EXCEPT !.toSvr = Tail(@),
                            !.toJob = IF jobqueue = <<>> THEN Append(@, NoJob) ELSE @]
    /\ UNCHANGED <<devVars, jobqueue, jobber, remote, lost, fresh, aired, faults, ub>>

RecvJobme ==
    /\ ~ub
    /\ link.toSvr # <<>> /\ Head(link.toSvr) = "jobme"
    /\ Len(link.toJob) < MaxLink
    /\ jobber_free' = TRUE
    /\ link' = [link EXCEPT !.toSvr = Tail(@),
                            !.toJob = IF jobqueue = <<>> THEN Append(@, NoJob) ELSE @]
    /\ UNCHANGED <<devVars, jobqueue, jobber, remote, lost, fresh, aired, faults, ub>>

(* Mutant: the job sent stays at the head of the queue.                    *)
ParseEncodeSend_Peeks ==
    /\ jobber_free /\ jobqueue # <<>> /\ ~ub
    /\ jobber # "none"
    /\ Len(link.toJob) < MaxLink
    /\ link' = [link EXCEPT !.toJob = IF jobber = "current" THEN Append(@, Head(jobqueue))
                                      ELSE @]
    /\ UNCHANGED <<devVars, svrVars, remote, lost, fresh, aired, faults, ub>>

(* Mutant: off by one in the test of the queue's size.                     *)
ParseEncodeSend_LeavesLast ==
    /\ jobber_free /\ Len(jobqueue) > 1 /\ ~ub
    /\ jobber = "current"
    /\ Len(link.toJob) < MaxLink
    /\ jobqueue' = Tail(jobqueue)
    /\ link' = [link EXCEPT !.toJob = Append(@, Head(jobqueue))]
    /\ UNCHANGED <<devVars, jobber_free, jobber, remote, lost, fresh, aired, faults, ub>>

(* One turn of bdsvr's loop.  Without a registered session the job stays   *)
(* and jobber_free is cleared; a job that cannot be parsed is dropped and  *)
(* jobber_free cleared; a job pushed to a session without connection is    *)
(* dropped.  jobber_free is not cleared by sending.  (A taskpau or taskcon *)
(* goes out with whatever chcontent held: what a job says is left out.)    *)
ParseEncodeSend ==
    /\ jobber_free /\ jobqueue # <<>> /\ ~ub
    /\ \/ /\ jobber = "none"
          /\ jobber_free' = FALSE
          /\ UNCHANGED <<jobqueue, link, ub>>
       \/ /\ jobber = "freed"
          /\ ub' = TRUE
          /\ UNCHANGED <<jobqueue, jobber_free, link>>
       \/ /\ jobber \notin {"none", "freed"}
          /\ Head(jobqueue) \in BadJob
          /\ jobqueue' = Tail(jobqueue)
          /\ jobber_free' = FALSE
          /\ UNCHANGED <<link, ub>>
       \/ /\ jobber \notin {"none", "freed"}
          /\ Head(jobqueue) \notin BadJob
          /\ Len(link.toJob) < MaxLink
          /\ jobqueue' = Tail(jobqueue)
          /\ link' = [link EXCEPT !.toJob = IF jobber = "current"
                                            THEN Append(@, Head(jobqueue)) ELSE @]
          /\ UNCHANGED <<jobber_free, ub>>
    /\ UNCHANGED <<devVars, jobber, remote, lost, fresh, aired, faults>>

(* bdsvr's CLOSE handler takes the session out of the table by its skey,   *)
(* which was never set, so "bdjob" stays registered.                       *)
SvrNoticesLoss ==
    /\ ~ub
    /\ jobber = "stale"
    /\ jobber' = "closed"
    /\ UNCHANGED <<devVars, jobqueue, jobber_free, remote, lost, link, fresh, aired, faults, ub>>

SvrSaveDead ==
    /\ ~ub
    /\ jobber = "closed"
    /\ jobber' = "freed"
    /\ UNCHANGED <<devVars, jobqueue, jobber_free, remote, lost, link, fresh, aired, faults, ub>>

-----------------------------------------------------------------------------
(* The connection.                                                         *)

Down == [up |-> FALSE, toSvr |-> <<>>, toJob |-> <<>>]

LinkLost ==
    /\ ~ub
    /\ link.up /\ faults < MaxFaults
    /\ faults' = faults + 1
    /\ link' = Down
    /\ jobber' = IF jobber = "current" THEN "stale" ELSE jobber
    /\ UNCHANGED <<devVars, jobqueue, jobber_free, remote, lost, fresh, aired, ub>>

SvrRestart ==
    /\ ~ub
    /\ faults < MaxFaults
    /\ faults' = faults + 1
    /\ jobqueue' = <<>> /\ jobber_free' = FALSE /\ jobber' = "none"
    /\ link' = Down
    /\ UNCHANGED <<devVars, remote, lost, fresh, aired, ub>>

(* bdjob's _save_deadsession connects again, or fails and tries later.     *)
Reconnect ==
    /\ ~ub
    /\ ~link.up
    /\ link' = Connected
    /\ lost' = FALSE
    /\ UNCHANGED <<devVars, svrVars, remote, fresh, aired, faults, ub>>

ConnectFails ==
    /\ ~ub
    /\ ~link.up
    /\ lost' = TRUE
    /\ UNCHANGED <<devVars, svrVars, remote, link, fresh, aired, faults, ub>>

-----------------------------------------------------------------------------
(* bdjob.                                                                  *)

(* One turn of its loop with an idle device: the device is set aside, and  *)
(* a job is asked for unless there is none.                                *)
AskForWork(d) ==
    /\ ~ub
    /\ ~lost
    /\ HasFreeDevice(d)
    /\ remote = "hasjob" => Len(link.toSvr) < MaxLink
    /\ link' = [link EXCEPT !.toSvr = IF remote = "hasjob" /\ link.up THEN Append(@, "jobme")
                                      ELSE @]
    /\ UNCHANGED <<svrVars, remote, lost, fresh, aired, faults, ub>>

(* CCTXA *)
RecvJob ==
    /\ ~ub
    /\ link.toJob # <<>> /\ Head(link.toJob) # NoJob
    /\ GetFreeDevice(Head(link.toJob))
    /\ link' = [link EXCEPT !.toJob = Tail(@)]
    /\ remote' = "hasjob"
    /\ UNCHANGED <<svrVars, lost, fresh, aired, faults, ub>>

RecvNojob ==
    /\ ~ub
    /\ hand = NoHand
    /\ link.toJob # <<>> /\ Head(link.toJob) = NoJob
    /\ link' = [link EXCEPT !.toJob = Tail(@)]
    /\ remote' = "nojob"
    /\ UNCHANGED <<devVars, svrVars, lost, fresh, aired, faults, ub>>

DeviceStep ==
    /\ ~ub
    /\ Timer \/ Reports \/ AssignWork
    /\ aired' = aired \cup {data[d] : d \in {e \in Device : sending # e /\ sending' = e}}
    /\ UNCHANGED <<svrVars, remote, lost, link, fresh, faults, ub>>

-----------------------------------------------------------------------------
DispatchNext ==
    \/ \E j \in Job : Queue(j)
    \/ RecvInit
    \/ RecvJobme
    \/ ParseEncodeSend
    \/ SvrNoticesLoss
    \/ SvrSaveDead
    \/ LinkLost
    \/ SvrRestart
    \/ Reconnect
    \/ ConnectFails
    \/ \E d \in Device : AskForWork(d)
    \/ RecvJob
    \/ RecvNojob
    \/ DeviceStep

DispatchSpec == DispatchInit /\ [][DispatchNext]_vars

(* Both loops and the timer thread run; bdjob's main thread, which needs   *)
(* the lock the timer thread leaves free for a second each time, gets it   *)
(* again and again.  Time passes: a device set aside has waited 3 seconds  *)
(* in the end.  Devices need not report, jobs need not come.               *)
Fairness ==
    /\ WF_vars(RecvInit \/ RecvJobme)
    /\ WF_vars(ParseEncodeSend)
    /\ SF_vars(\E d \in Device : AskForWork(d))
    /\ SF_vars(RecvJob \/ RecvNojob \/ (AssignWork /\ DeviceStep))
    /\ WF_vars(Timer /\ DeviceStep)
    /\ \A d \in Device : WF_vars(Waited(d) /\ DeviceStep)

DispatchFairSpec == DispatchSpec /\ Fairness

-----------------------------------------------------------------------------
Count(q, j) == Cardinality({i \in DOMAIN q : q[i] = j})

(* A job is in one place at a time, from the queue to the device, and is   *)
(* transmitted at most once, whatever is lost, refused or restarted.       *)
AtMostOnce ==
    \A j \in Job :
        Count(jobqueue, j) + Count(link.toJob, j)
        + (IF hand.job = j THEN 1 ELSE 0)
        + Cardinality({d \in Device : data[d] = j /\ sending # d})
        + (IF j \in fresh THEN 1 ELSE 0) + (IF j \in aired THEN 1 ELSE 0) <= 1

(* So far no connection was lost, bdsvr not restarted, and every job sent  *)
(* by frontsvr well-formed.                                                *)
Calm == faults = 0 /\ BadJob \subseteq fresh

(* While it is calm the two programs never wait for each other: bdsvr may  *)
(* send, or bdjob will ask as soon as it has a device, since it has not    *)
(* been told, nor is about to be, that there is no job.                    *)
SomeoneMoves ==
    Calm => \/ jobber_free
            \/ remote = "hasjob" /\ ~lost /\ NoJob \notin Range(link.toJob)

(* A queued job leaves bdsvr in the end, if bdjob's devices have reported  *)
(* in and it stays calm: the requests, their answers and the jobs may      *)
(* cross.                                                                  *)
JobsLeave ==
    \A j \in Job : (Calm /\ j \in Range(jobqueue) /\ \A d \in Device : init[d])
                      ~> (j \notin Range(jobqueue) \/ ~Calm)
=============================================================================
