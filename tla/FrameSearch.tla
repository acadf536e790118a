---------------------------- MODULE FrameSearch ----------------------------
(***************************************************************************)
(* How the programs find frames in what they receive: exp_process_data()   *)
(* of expat.c and the search_frame() that each kind of connection has a    *)
(* copy of.  TCP cuts the stream of frames anywhere; a read is searched    *)
(* byte by byte, for a title first, then for the end of the frame, and the *)
(* status of the search outlives the read.                                 *)
(*                                                                         *)
(* A byte is <<f, i>>, the i-th of the f-th frame sent: what a byte is     *)
(* compared with ('$', the letters of a title, CR, LF, NUL) follows from   *)
(* where it stands in its frame, and no frame contains '$' elsewhere.      *)
(*                                                                         *)
(* An accepted connection begins with the searcher opensess_exp, which     *)
(* knows the title $initsess only.  Its explain() puts the searcher of the *)
(* peer's kind in its place, frees it and returns -1, which ends the work  *)
(* on the read.  A connection to a server has one searcher.                *)
(***************************************************************************)
EXTENDS Naturals, Sequences, FiniteSets, FiniteSetsExt

CONSTANTS
    Programs,   \* the programs considered
    Kinds,      \* kinds of frames
    Opening,    \* SUBSET Kinds, $initsess
    Window,     \* iHeadLen: so many bytes are compared with the titles
    Title,      \* [Kinds -> Nat], the length of the title
    Length,     \* [Kinds -> Nat], the length of the frame, CR and LF included
    Nul,        \* SUBSET Kinds, those sent with the NUL that ends the string
    Limit,      \* [Programs -> Nat], UNPACKBUFFSIZE - 1
    MaxSent,    \* bound: frames sent
    MaxLoss     \* bound: connections lost

ASSUME ProgramsAssumption == Programs \subseteq {"frontsvr", "monitor", "bdsvr", "bdjob"}
ASSUME KindsAssumption ==
    /\ Window \in Nat \ {0}
    /\ Title \in [Kinds -> Nat \ {0}] /\ Length \in [Kinds -> Nat] /\ Nul \subseteq Kinds
    /\ Opening \subseteq Kinds
    /\ \A k \in Kinds : Length[k] > Window /\ Length[k] > Title[k] + 1
ASSUME BoundAssumption ==
    /\ Limit \in [Programs -> Nat] /\ MaxSent \in Nat /\ MaxLoss \in Nat
    /\ \A p \in Programs : Window < Limit[p]   \* 10 < 2047

VARIABLES
    program,
    sent,       \* the kinds of the frames sent
    wire,       \* bytes sent and not read
    exp,        \* the searcher, see ExpType
    call,       \* exp_process_data() at work, see CallType
    given,      \* the frames handed to explain()
    hurt,       \* frames whose head was cut, or preceded by half a frame of a lost connection
    fresh,      \* frames that began a read, no other being searched for its end
    gone,       \* frames a lost connection took with it, or took a part of
    phase,      \* whose connection it is, and how far an accepted one has come
    early       \* frames of which opensess_exp read a byte, $initsess itself excepted

vars == <<program, sent, wire, exp, call, given, hurt, fresh, gone, phase, early>>

Frames == 1 .. MaxSent

Byte == Frames \X Nat

(* Accepted, with opensess_exp for its searcher.                           *)
Unopened == phase \in {"connected", "opening"}

ExpType == [searchstatus : {"null", "identifier"},
            frame        : Seq(Byte)]   \* the frame so far, as far as framePtr

NoFrame == [searchstatus |-> "null", frame |-> <<>>]

CallType == [busy     : {"no", "next", "search"},
             str      : Seq(Byte),   \* the rest of the read
             dwCurrPt : Nat,         \* the byte of str looked at, from 1
             Head     : Seq(Byte),   \* the window so far, as far as HeadPtr
             iHeadLen : Nat]

Idle == [busy |-> "no", str |-> <<>>, dwCurrPt |-> 1, Head |-> <<>>, iHeadLen |-> Window]

TypeOK ==
    /\ program \in Programs
    /\ sent \in Seq(Kinds) /\ Len(sent) <= MaxSent
    /\ wire \in Seq(Byte)
    /\ exp \in ExpType
    /\ call \in CallType
    /\ Len(call.Head) < call.iHeadLen /\ call.iHeadLen <= Window
    /\ Len(exp.frame) < Limit[program]
    /\ given \in Seq(Seq(Byte)) /\ \A n \in DOMAIN given : Len(given[n]) < Limit[program]
    /\ hurt \subseteq 1 .. MaxSent + 1
    /\ fresh \subseteq Frames
    /\ gone \subseteq Frames
    /\ phase \in {"client", "connected", "opening", "open"}
    /\ early \subseteq Frames

Init ==
    /\ program \in Programs
    /\ sent = <<>>
    /\ wire = <<>>
    /\ exp = NoFrame
    /\ call = Idle
    /\ given = <<>>
    /\ hurt = {}
    /\ fresh = {}
    /\ gone = {}
    /\ phase \in {"client"} \cup (IF program = "bdjob" THEN {} ELSE {"connected"})
    /\ early = {}

-----------------------------------------------------------------------------
Dollar(b) == b[2] = 1
CR(b) == b[2] = Length[sent[b[1]]] - 1
LF(b) == b[2] = Length[sent[b[1]]]
IsNul(b) == b[2] > Length[sent[b[1]]]

(* The frame sent as number f.                                             *)
Whole(f) == [i \in 1 .. Length[sent[f]] |-> <<f, i>>]

(* The searcher knows the title of the frame.                              *)
Sought(f) == Unopened <=> sent[f] \in Opening

(* The titles that begin the window.  A longer one does not: memcmp() then *)
(* compares what is behind the window with the rest of the title.          *)
TitlesAt(head) ==
    {f \in DOMAIN sent : /\ Sought(f) /\ Title[sent[f]] <= Len(head)
                         /\ \A i \in 1 .. Title[sent[f]] : head[i] = <<f, i>>}

-----------------------------------------------------------------------------
(* The peer sends a frame, $initsess first if it is the one that connected.*)
(* Some senders count the NUL of the string.                               *)
Send(k) ==
    /\ call.busy = "no"
    /\ Len(sent) < MaxSent
    /\ k \in Opening <=> phase = "connected"
    /\ phase' = IF phase = "connected" THEN "opening" ELSE phase
    /\ LET f == Len(sent) + 1
           n == Length[k] + (IF k \in Nul /\ program # "bdjob" THEN 1 ELSE 0)
       IN  wire' = wire \o [i \in 1 .. n |-> <<f, i>>]
    /\ sent' = Append(sent, k)
    /\ UNCHANGED <<program, exp, call, given, hurt, fresh, gone, early>>

FirstOf(str) == IF Len(str) > 1 /\ IsNul(str[1]) THEN str[2] ELSE str[1]

(* recv() returns any number of bytes.                                     *)
Read(n) ==
    /\ call.busy = "no"
    /\ n \in DOMAIN wire
    /\ call' = [Idle EXCEPT !.busy = "next", !.str = SubSeq(wire, 1, n)]
    /\ wire' = SubSeq(wire, n + 1, Len(wire))
    /\ hurt' = IF wire[n][2] < Window THEN hurt \cup {wire[n][1]} ELSE hurt
    /\ fresh' = IF exp.searchstatus # "null" THEN fresh
                ELSE fresh \cup {f \in DOMAIN sent : FirstOf(SubSeq(wire, 1, n)) = <<f, 1>>}
    /\ early' = IF Unopened
                THEN early \cup {f \in DOMAIN sent : sent[f] \notin Opening
                                                    /\ \E i \in 1 .. n : wire[i][1] = f}
                ELSE early
    /\ UNCHANGED <<program, sent, exp, given, gone, phase>>

(* Mutant: the NUL is looked at again. *)
SkipNul_Stays ==
    /\ call.busy = "next"
    /\ call.str # <<>> /\ IsNul(Head(call.str)) /\ program # "bdjob"
    /\ UNCHANGED vars

(* A byte NUL before a frame is passed over, by all but bdjob.             *)
SkipNul ==
    /\ call.busy = "next"
    /\ call.str # <<>> /\ IsNul(Head(call.str)) /\ program # "bdjob"
    /\ call' = [call EXCEPT !.str = Tail(call.str)]
    /\ UNCHANGED <<program, sent, wire, exp, given, hurt, fresh, gone, phase, early>>

(* search_frame() is called for the rest of the read.                      *)
Search ==
    /\ call.busy = "next"
    /\ call.str # <<>> /\ ~ (IsNul(Head(call.str)) /\ program # "bdjob")
    /\ call' = [Idle EXCEPT !.busy = "search", !.str = call.str]
    /\ UNCHANGED <<program, sent, wire, exp, given, hurt, fresh, gone, phase, early>>

(* Nothing remains of the read.                                            *)
Done ==
    /\ call.busy = "next"
    /\ call.str = <<>>
    /\ call' = Idle
    /\ UNCHANGED <<program, sent, wire, exp, given, hurt, fresh, gone, phase, early>>

At == call.str[call.dwCurrPt]

Within(status) ==
    /\ call.busy = "search"
    /\ call.dwCurrPt <= Len(call.str)
    /\ exp.searchstatus = status

Filled == Append(call.Head, At)

(* A byte for the window, which is not full with it.                       *)
Collect ==
    /\ Within("null")
    /\ Len(Filled) < call.iHeadLen
    /\ call' = [call EXCEPT !.Head = Filled, !.dwCurrPt = call.dwCurrPt + 1]
    /\ UNCHANGED <<program, sent, wire, exp, given, hurt, fresh, gone, phase, early>>

(* The window is full and begins with a title: the frame begins, and goes  *)
(* on with the byte of the read that has the title's length for its index. *)
Begin ==
    /\ Within("null")
    /\ Len(Filled) = call.iHeadLen
    /\ \E f \in TitlesAt(Filled) :
           LET t == Title[sent[f]]
           IN  /\ exp' = [searchstatus |-> "identifier", frame |-> SubSeq(Whole(f), 1, t)]
               /\ call' = [call EXCEPT !.Head = <<>>, !.iHeadLen = t, !.dwCurrPt = t + 1]
    /\ UNCHANGED <<program, sent, wire, given, hurt, fresh, gone, phase, early>>

(* It does not: the window moves on to the next '$' in it, or is emptied.  *)
Slide ==
    /\ Within("null")
    /\ Len(Filled) = call.iHeadLen
    /\ TitlesAt(Filled) = {}
    /\ LET next == {i \in 2 .. call.iHeadLen : Dollar(Filled[i])}
       IN  call' = [call EXCEPT !.dwCurrPt = call.dwCurrPt + 1,
                                !.Head = IF next = {} THEN <<>>
                                         ELSE SubSeq(Filled, Min(next), call.iHeadLen)]
    /\ UNCHANGED <<program, sent, wire, exp, given, hurt, fresh, gone, phase, early>>

Longer == Append(exp.frame, At)

(* Mutant: the limit is that of the buffer, not of its last byte. *)
Overruns_Late == Len(Longer) > Limit[program]

Overruns == Len(Longer) >= Limit[program]

Ends == LF(At) /\ CR(exp.frame[Len(exp.frame)])

(* A byte of the frame.                                                    *)
Add ==
    /\ Within("identifier")
    /\ ~ Overruns /\ ~ Ends
    /\ exp' = [exp EXCEPT !.frame = Longer]
    /\ call' = [call EXCEPT !.dwCurrPt = call.dwCurrPt + 1]
    /\ UNCHANGED <<program, sent, wire, given, hurt, fresh, gone, phase, early>>

(* The frame is too long: a title is searched for from here on.            *)
Overrun ==
    /\ Within("identifier")
    /\ Overruns
    /\ exp' = NoFrame
    /\ call' = [call EXCEPT !.dwCurrPt = call.dwCurrPt + 1]
    /\ UNCHANGED <<program, sent, wire, given, hurt, fresh, gone, phase, early>>

(* Mutant: what has been searched is searched again. *)
End_Again ==
    /\ ~ Unopened
    /\ Within("identifier")
    /\ ~ Overruns /\ Ends
    /\ exp' = NoFrame
    /\ given' = Append(given, Longer)
    /\ call' = [Idle EXCEPT !.busy = "next", !.str = call.str]
    /\ UNCHANGED <<program, sent, wire, hurt, fresh, gone, phase, early>>

(* The end of the frame, which explain() is given; the search goes on      *)
(* behind it.                                                              *)
End ==
    /\ ~ Unopened
    /\ Within("identifier")
    /\ ~ Overruns /\ Ends
    /\ exp' = NoFrame
    /\ given' = Append(given, Longer)
    /\ call' = [Idle EXCEPT !.busy = "next",
                            !.str = SubSeq(call.str, call.dwCurrPt + 1, Len(call.str))]
    /\ UNCHANGED <<program, sent, wire, hurt, fresh, gone, phase, early>>

(* The end of $initsess: from the next read on, another searcher searches; *)
(* the rest of this one is dropped.                                        *)
EndOfOpening ==
    /\ Unopened
    /\ Within("identifier")
    /\ ~ Overruns /\ Ends
    /\ exp' = NoFrame
    /\ given' = Append(given, Longer)
    /\ call' = Idle
    /\ phase' = "open"
    /\ UNCHANGED <<program, sent, wire, hurt, fresh, gone, early>>

(* Mutant: a frame the read does not end is forgotten. *)
Exhausted_Forgets ==
    /\ call.busy = "search"
    /\ call.dwCurrPt > Len(call.str)
    /\ call' = Idle
    /\ exp' = NoFrame
    /\ UNCHANGED <<program, sent, wire, given, hurt, fresh, gone, phase, early>>

(* The read ends within a frame or outside any; HeadPtr is forgotten.      *)
Exhausted ==
    /\ call.busy = "search"
    /\ call.dwCurrPt > Len(call.str)
    /\ call' = Idle
    /\ UNCHANGED <<program, sent, wire, exp, given, hurt, fresh, gone, phase, early>>

-----------------------------------------------------------------------------
Pending == {wire[n][1] : n \in DOMAIN wire}

exp_clear == IF program = "frontsvr" \/ phase # "client" THEN NoFrame ELSE exp

(* The connection is lost and renewed.  The searcher of a client lives on, *)
(* in frontsvr cleared; an accepted connection is a new one.               *)
Reconnect ==
    /\ call.busy = "no"
    /\ Cardinality(gone) < MaxLoss
    /\ gone' = gone \cup {f \in Pending : ~ IsNul(wire[1]) \/ wire[1][1] # f}
    /\ wire' = <<>>
    /\ exp' = exp_clear
    /\ hurt' = IF exp'.searchstatus = "identifier" THEN hurt \cup {Len(sent) + 1} ELSE hurt
    /\ phase' = IF phase = "client" THEN phase ELSE "connected"
    /\ UNCHANGED <<program, sent, call, given, fresh, early>>

Step ==
    \/ SkipNul \/ Search \/ Done
    \/ Collect \/ Begin \/ Slide
    \/ Add \/ Overrun \/ End \/ EndOfOpening \/ Exhausted

Next ==
    \/ \E k \in Kinds : Send(k)
    \/ \E n \in DOMAIN wire : Read(n)
    \/ Step
    \/ Reconnect

Spec == Init /\ [][Next]_vars

FairSpec == Spec /\ WF_vars(Step)

-----------------------------------------------------------------------------
Unknown(f) == Title[sent[f]] > Window
TooLong(f) == Length[sent[f]] >= Limit[program]

Lost == {f \in DOMAIN sent \ gone : f \notin Pending /\ \A n \in DOMAIN given : given[n] # Whole(f)}

(* Wherever reads cut the stream, explain() is given every frame whole,    *)
(* but for those that are too long or have a title the window cannot hold, *)
(* those whose first bytes were cut (the window does not outlive a call,   *)
(* though the status of the search does), those of which a byte was read   *)
(* before the connection was opened, be it behind $initsess in one read,   *)
(* and those that follow a lost frame in a read that does not begin with   *)
(* them.                                                                   *)
OnlyHurtLost ==
    call.busy = "no" =>
        \A f \in Lost : \/ f \in hurt \/ Unknown(f) \/ TooLong(f) \/ f \in early
                       \/ (f \notin fresh /\ f - 1 \in Lost)

(* Whatever explain() is given was ended by a line end of its own, and in  *)
(* the order of the stream: although Begin() goes back in the read and can *)
(* glue a title to what stands before it, no line is handled twice.        *)
OncePerLine ==
    \A n \in 2 .. Len(given) : given[n - 1][Len(given[n - 1])][1] < given[n][Len(given[n])][1]

(* A frame that is too long, and the title of another, in one read.        *)
Mixed == \E i, j \in DOMAIN call.str : i < j /\ TooLong(call.str[i][1]) /\ Dollar(call.str[j])

(* The one thread of the program comes back from every read, going back in *)
(* it notwithstanding; but when Overrun() meets the title again that       *)
(* Begin() went back from, it does not (Mixed).                            *)
ReadsEnd == call.busy # "no" /\ ~ Mixed ~> call.busy = "no"
=============================================================================
