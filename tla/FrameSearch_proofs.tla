------------------------- MODULE FrameSearch_proofs -------------------------
(* Proofs about the search for frames: wherever reads cut the stream and   *)
(* whenever connections are lost, a frame is lost for five reasons only.   *)
EXTENDS FrameSearch, SequenceTheorems, WellFoundedInduction, TLAPS

-----------------------------------------------------------------------------
(* The stream.                                                             *)

(* A frame is followed by its NUL, where its sender counts it.             *)
Total(f) == Length[sent[f]] + (IF sent[f] \in Nul /\ program # "bdjob" THEN 1 ELSE 0)

Real(b) == b \in (DOMAIN sent) \X Nat /\ 1 <= b[2] /\ b[2] <= Total(b[1])

Succ(b) == IF b[2] < Total(b[1]) THEN <<b[1], b[2] + 1>> ELSE <<b[1] + 1, 1>>

Before(b, c) == b[1] < c[1] \/ (b[1] = c[1] /\ b[2] < c[2])

NextSent == <<Len(sent) + 1, 1>>

(* The i-th byte of s, or what follows s. *)
Pos(s, e, i) == IF i <= Len(s) THEN s[i] ELSE e

(* s is a piece of the stream, e follows it.                               *)
Run(s, e) == \A i \in 1 .. Len(s) : Real(s[i]) /\ Pos(s, e, i + 1) = Succ(s[i])

OnWire == Pos(wire, NextSent, 1)
First  == Pos(call.str, OnWire, 1)
Now    == Pos(call.str, OnWire, call.dwCurrPt)

LastOf(s) == s[Len(s)]

StreamOK == Run(wire, NextSent) /\ Run(call.str, OnWire)

Given(f) == \E n \in DOMAIN given : given[n] = Whole(f)

Excused(f) == f \notin fresh /\ f - 1 \in (DOMAIN sent) \ gone /\ ~ Given(f - 1)

Bad(f) ==
    f \in hurt \/ f \in early \/ (f \in DOMAIN sent /\ (Unknown(f) \/ TooLong(f) \/ Excused(f)))

Passed(f) == Before(<<f, Length[sent[f]]>>, First)

Accounted == \A f \in (DOMAIN sent) \ gone : Passed(f) => Given(f) \/ Bad(f)

LineEnd(b) == b[1] \in DOMAIN sent /\ LF(b)

LinesOK == \A n \in DOMAIN given :
    given[n] # <<>> /\ LineEnd(LastOf(given[n])) /\ Before(LastOf(given[n]), First)

NulFirst == First[1] \in DOMAIN sent /\ IsNul(First)

GoneOK == \A f \in gone : f < First[1]

FreshOK == \A f \in fresh :
    f <= First[1] \/ (call.busy = "next" /\ call.str # <<>> /\ NulFirst /\ f = First[1] + 1)

(* An accepted connection begins with a frame that opens it; whatever else *)
(* of a read the searcher of that frame gets is excused.                   *)
PhaseOK ==
    /\ \A f \in DOMAIN sent : sent[f] \in Opening => f <= First[1]
    /\ First[1] \in DOMAIN sent /\ First[2] = 1 /\ sent[First[1]] \in Opening => phase = "opening"
    /\ Unopened => \A i \in DOMAIN call.str :
                       sent[call.str[i][1]] \in Opening \/ call.str[i][1] \in early
    /\ phase = "connected" => wire = <<>> /\ call.str = <<>>

CallOK ==
    /\ call.busy = "no" => call = Idle
    /\ call.busy = "next" => call = [Idle EXCEPT !.busy = "next", !.str = call.str]
    /\ call.busy = "search" => call.str # <<>> /\ ~ IsNul(call.str[1])
    /\ call.dwCurrPt \in 1 .. Len(call.str) + 1
    /\ exp.searchstatus = "identifier" => call.Head = <<>>
    /\ Len(call.Head) < call.dwCurrPt
    /\ \A i \in 1 .. Len(call.Head) :
          call.Head[i] = call.str[call.dwCurrPt - 1 - Len(call.Head) + i]
    /\ call.str # <<>> /\ LastOf(call.str)[2] < Window => LastOf(call.str)[1] \in hurt

Starting ==
    /\ exp.searchstatus = "null"
    /\ First[2] = 1 \/ NulFirst
    /\ call.busy = "search" =>
          /\ call.iHeadLen = Window
          /\ call.dwCurrPt <= Window
          /\ Len(call.Head) = call.dwCurrPt - 1
          /\ \A i \in 1 .. call.dwCurrPt : Pos(call.str, OnWire, i) = <<First[1], i>>

Aligned ==
    /\ exp.searchstatus = "identifier"
    /\ First[1] \in DOMAIN sent
    /\ Len(exp.frame) < Length[sent[First[1]]]
    /\ \A i \in 1 .. Len(exp.frame) : exp.frame[i] = <<First[1], i>>
    /\ Now = <<First[1], Len(exp.frame) + 1>>

Spoilt == Bad(First[1]) /\ ~ NulFirst

Mode == Starting \/ Aligned \/ Spoilt

Joined ==
    exp.searchstatus = "identifier" =>
        /\ exp.frame # <<>>
        /\ \/ /\ Now[1] \in DOMAIN sent
              /\ 2 <= Now[2] /\ Now[2] <= Length[sent[Now[1]]]
              /\ LF(Now) => LastOf(exp.frame) = <<Now[1], Now[2] - 1>>
           \/ Now[2] = 1 /\ Now[1] \in hurt
           \/ /\ call.busy = "search"
              /\ \E p \in DOMAIN call.str : call.dwCurrPt <= p /\ Dollar(call.str[p])

FInv ==
    /\ TypeOK
    /\ StreamOK
    /\ PhaseOK
    /\ CallOK
    /\ LinesOK
    /\ OncePerLine
    /\ GoneOK
    /\ FreshOK
    /\ Joined
    /\ Mode
    /\ Accounted

-----------------------------------------------------------------------------
(* Lemmas.                                                                 *)

(* A set of natural numbers has a least element.                           *)
LEMMA Least ==
    ASSUME NEW T \in SUBSET Nat, T # {}
    PROVE  \E x \in T : \A y \in T : x <= y
<1> DEFINE R == OpToRel(<, Nat)
<1>1. IsWellFoundedOn(R, Nat)
  BY NatLessThanWellFounded
<1>2. \A m, n \in Nat : m < n => <<m, n>> \in R
  BY DEF OpToRel
<1> HIDE DEF R
<1>3. PICK x \in T : \A y \in T : ~ (<<y, x>> \in R)
  BY <1>1, WFMin
<1>4. ASSUME NEW y \in T PROVE x <= y
  <2>1. x \in Nat /\ y \in Nat /\ ~ (<<y, x>> \in R)
    BY <1>3
  <2>2. ~ (y < x)
    BY <1>2, <2>1
  <2> QED
    BY <2>1, <2>2
<1> QED
  BY <1>4

LEMMA MinIn ==
    ASSUME NEW T \in SUBSET Nat, T # {}
    PROVE  Min(T) \in T
<1>1. \E x \in T : \A y \in T : x <= y
  BY Least
<1>2. Min(T) = CHOOSE x \in T : \A y \in T : x <= y
  BY DEF Min
<1> QED
  BY <1>1, <1>2

(* What a frame that has been sent is like.                                *)
LEMMA FrameFacts ==
    ASSUME TypeOK, NEW f \in DOMAIN sent
    PROVE  /\ f \in Nat /\ 1 <= f /\ f <= Len(sent) /\ f \in Frames
           /\ Len(sent) \in Nat /\ Window \in Nat /\ 1 <= Window
           /\ Length[sent[f]] \in Nat /\ Title[sent[f]] \in Nat
           /\ 1 <= Title[sent[f]] /\ Title[sent[f]] + 1 < Length[sent[f]]
           /\ Window < Length[sent[f]]
           /\ Total(f) \in Nat /\ Length[sent[f]] <= Total(f)
           /\ Total(f) <= Length[sent[f]] + 1
           /\ program = "bdjob" => Total(f) = Length[sent[f]]
<1>1. sent \in Seq(Kinds) /\ Len(sent) <= MaxSent /\ MaxSent \in Nat
  BY BoundAssumption DEF TypeOK
<1>2. f \in 1 .. Len(sent) /\ Len(sent) \in Nat /\ sent[f] \in Kinds
  BY <1>1
<1>3. Length[sent[f]] \in Nat /\ Title[sent[f]] \in Nat \ {0}
      /\ Window \in Nat \ {0}
      /\ Length[sent[f]] > Window /\ Length[sent[f]] > Title[sent[f]] + 1
  BY <1>2, KindsAssumption
<1> QED
  BY <1>1, <1>2, <1>3 DEF Total, Frames

LEMMA BeforeTransitive ==
    ASSUME NEW b, NEW c, NEW d, b[1] \in Nat, b[2] \in Nat, c[1] \in Nat, c[2] \in Nat,
           d[1] \in Nat, d[2] \in Nat, Before(b, c), Before(c, d)
    PROVE  Before(b, d)
  BY DEF Before

(* The successor of a byte comes behind it, in this frame or the next.     *)
LEMMA SuccFacts ==
    ASSUME TypeOK, NEW b, Real(b)
    PROVE  /\ b[1] \in DOMAIN sent /\ b[2] \in Nat /\ 1 <= b[2] /\ b = <<b[1], b[2]>>
           /\ Succ(b)[1] \in Nat /\ Succ(b)[2] \in Nat
           /\ Before(b, Succ(b))
           /\ \/ Succ(b) = <<b[1], b[2] + 1>> /\ b[2] < Total(b[1])
              \/ Succ(b) = <<b[1] + 1, 1>> /\ b[2] = Total(b[1])
<1>1. b[1] \in DOMAIN sent /\ b[2] \in Nat /\ 1 <= b[2] /\ b[2] <= Total(b[1])
      /\ b = <<b[1], b[2]>>
  BY DEF Real
<1>2. Total(b[1]) \in Nat /\ b[1] \in Nat
  BY <1>1, FrameFacts
<1> QED
  BY <1>1, <1>2 DEF Succ, Before

(* In a piece of the stream, later bytes come behind earlier ones.         *)
LEMMA Order ==
    ASSUME TypeOK, NEW s \in Seq(Byte), NEW e, Run(s, e),
           NEW i \in 1 .. Len(s) + 1, NEW j \in 1 .. Len(s) + 1, i < j
    PROVE  Before(Pos(s, e, i), Pos(s, e, j))
<1> DEFINE T == {k \in 1 .. Len(s) + 1 : i < k /\ ~ Before(Pos(s, e, i), Pos(s, e, k))}
<1>1. SUFFICES ASSUME T # {} PROVE FALSE
  OBVIOUS
<1>2. T \subseteq Nat /\ Len(s) \in Nat
  OBVIOUS
<1>3. PICK k \in T : \A l \in T : k <= l
  BY <1>1, <1>2, Least
<1>4. k \in 1 .. Len(s) + 1 /\ i < k /\ ~ Before(Pos(s, e, i), Pos(s, e, k))
  OBVIOUS
<1>5. k - 1 \notin T
  BY <1>3, <1>4
<1>6. k - 1 \in 1 .. Len(s) /\ Pos(s, e, k - 1) = s[k - 1]
  BY <1>2, <1>4 DEF Pos
<1>7. Real(s[k - 1]) /\ Pos(s, e, k) = Succ(s[k - 1])
  BY <1>6, <1>4 DEF Run
<1>8. Before(s[k - 1], Succ(s[k - 1])) /\ s[k - 1][1] \in DOMAIN sent /\ s[k - 1][2] \in Nat
      /\ Succ(s[k - 1])[1] \in Nat /\ Succ(s[k - 1])[2] \in Nat
  BY <1>7, SuccFacts
<1>9. s[k - 1][1] \in Nat
  BY <1>8, FrameFacts
<1>10. CASE k - 1 = i
  BY <1>4, <1>6, <1>7, <1>8, <1>10
<1>11. CASE k - 1 # i
  <2>1. i \in 1 .. Len(s) /\ Pos(s, e, i) = s[i] /\ i < k - 1
    BY <1>2, <1>4, <1>6, <1>11 DEF Pos
  <2>2. Real(s[i])
    BY <2>1 DEF Run
  <2>3. s[i][1] \in DOMAIN sent /\ s[i][2] \in Nat
    BY <2>2, SuccFacts
  <2>4. s[i][1] \in Nat
    BY <2>3, FrameFacts
  <2>5. Before(s[i], s[k - 1])
    BY <1>2, <1>5, <1>6, <2>1
  <2> QED
    BY <1>4, <1>7, <1>8, <1>9, <2>1, <2>3, <2>4, <2>5, BeforeTransitive
<1> QED
  BY <1>10, <1>11

(* A place in the stream: a byte sent, or where the next frame will begin. *)
Place(b) == Real(b) \/ b = NextSent

LEMMA PlaceFacts ==
    ASSUME TypeOK, NEW b, Place(b)
    PROVE  /\ b[1] \in Nat /\ b[2] \in Nat /\ 1 <= b[1] /\ 1 <= b[2] /\ b = <<b[1], b[2]>>
           /\ b[1] <= Len(sent) + 1
           /\ b[1] \in DOMAIN sent => Real(b)
           /\ b[1] \notin DOMAIN sent => b = NextSent
<1>1. sent \in Seq(Kinds) /\ Len(sent) \in Nat /\ DOMAIN sent = 1 .. Len(sent)
  BY DEF TypeOK
<1>2. CASE Real(b)
  BY <1>1, <1>2, SuccFacts
<1>3. CASE b = NextSent
  BY <1>1, <1>3 DEF NextSent
<1> QED
  BY <1>2, <1>3 DEF Place

LEMMA SeqTypes ==
    ASSUME TypeOK
    PROVE  /\ wire \in Seq(Byte) /\ Len(wire) \in Nat
           /\ call.str \in Seq(Byte) /\ Len(call.str) \in Nat
           /\ call.Head \in Seq(Byte) /\ Len(call.Head) \in Nat
           /\ exp.frame \in Seq(Byte) /\ Len(exp.frame) \in Nat
           /\ call.dwCurrPt \in Nat /\ call.iHeadLen \in Nat
           /\ sent \in Seq(Kinds) /\ Len(sent) \in Nat /\ DOMAIN sent = 1 .. Len(sent)
<1>1. wire \in Seq(Byte) /\ exp \in ExpType /\ call \in CallType /\ sent \in Seq(Kinds)
  BY DEF TypeOK
<1>2. exp.frame \in Seq(Byte)
  BY <1>1 DEF ExpType
<1>3. call.str \in Seq(Byte) /\ call.Head \in Seq(Byte) /\ call.dwCurrPt \in Nat
      /\ call.iHeadLen \in Nat
  BY <1>1 DEF CallType
<1> QED
  BY <1>1, <1>2, <1>3, LenProperties

LEMMA Places ==
    ASSUME TypeOK, StreamOK
    PROVE  /\ \A i \in 1 .. Len(wire) + 1 : Place(Pos(wire, NextSent, i))
           /\ \A i \in 1 .. Len(call.str) + 1 : Place(Pos(call.str, OnWire, i))
           /\ Place(OnWire) /\ Place(First)
<1>0. Len(wire) \in Nat /\ Len(call.str) \in Nat
  BY SeqTypes
<1>1. ASSUME NEW i \in 1 .. Len(wire) + 1 PROVE Place(Pos(wire, NextSent, i))
  <2>1. CASE i <= Len(wire)
    BY <1>0, <2>1 DEF StreamOK, Run, Pos, Place
  <2>2. CASE ~ (i <= Len(wire))
    BY <2>2 DEF Pos, Place
  <2> QED
    BY <2>1, <2>2
<1>2. Place(OnWire)
  BY <1>0, <1>1 DEF OnWire
<1>3. ASSUME NEW i \in 1 .. Len(call.str) + 1 PROVE Place(Pos(call.str, OnWire, i))
  <2>1. CASE i <= Len(call.str)
    BY <1>0, <2>1 DEF StreamOK, Run, Pos, Place
  <2>2. CASE ~ (i <= Len(call.str))
    BY <1>2, <2>2 DEF Pos
  <2> QED
    BY <2>1, <2>2
<1> QED
  BY <1>0, <1>1, <1>2, <1>3 DEF First

(* Where the search stands is not before where the stream begins.          *)
LEMMA Onward ==
    ASSUME TypeOK, StreamOK, NEW i \in 1 .. Len(call.str) + 1
    PROVE  /\ Pos(call.str, OnWire, i) = First \/ Before(First, Pos(call.str, OnWire, i))
           /\ First[1] <= Pos(call.str, OnWire, i)[1]
<1>0. Len(call.str) \in Nat /\ call.str \in Seq(Byte)
  BY SeqTypes
<1>1. Place(First) /\ Place(Pos(call.str, OnWire, i))
  BY Places
<1>2. CASE i = 1
  BY <1>1, <1>2, PlaceFacts DEF First
<1>3. CASE i # 1
  <2>1. Before(First, Pos(call.str, OnWire, i))
    BY <1>0, <1>3, Order DEF First, StreamOK
  <2> QED
    BY <1>1, <2>1, PlaceFacts DEF Before
<1> QED
  BY <1>2, <1>3

-----------------------------------------------------------------------------
(* The steps of a search that leave what is searched as it is.             *)

SameStream ==
    UNCHANGED <<program, sent, wire, given, hurt, fresh, gone, phase, early>> /\ call'.str = call.str

LEMMA Same ==
    ASSUME FInv, SameStream
    PROVE  /\ First' = First /\ OnWire' = OnWire
           /\ StreamOK' /\ PhaseOK' /\ LinesOK' /\ OncePerLine' /\ GoneOK' /\ Accounted'
           /\ \A f : Bad(f)' <=> Bad(f)
           /\ NulFirst' <=> NulFirst
<1> USE DEF SameStream
<1>1. First' = First /\ OnWire' = OnWire
  BY DEF First, OnWire, Pos, NextSent
<1>2. StreamOK'
  <2>1. StreamOK /\ NextSent' = NextSent /\ OnWire' = OnWire
    BY <1>1 DEF FInv, NextSent
  <2>2. \A b : (Real(b)' <=> Real(b)) /\ Succ(b)' = Succ(b)
    BY DEF Real, Succ, Total
  <2> QED
    BY <2>1, <2>2 DEF StreamOK, Run, Pos
<1>3. LinesOK'
  BY <1>1 DEF FInv, LinesOK, LineEnd, LF, LastOf, Before
<1>4. OncePerLine'
  BY DEF FInv, OncePerLine
<1>5. GoneOK'
  BY <1>1 DEF FInv, GoneOK
<1>6. \A f : Given(f)' <=> Given(f)
  BY DEF Given, Whole
<1>7. \A f : Bad(f)' <=> Bad(f)
  BY <1>6 DEF Bad, Excused, Unknown, TooLong
<1>8. Accounted'
  BY <1>1, <1>6, <1>7 DEF FInv, Accounted, Passed, Before
<1>9. NulFirst' <=> NulFirst
  BY <1>1 DEF NulFirst, IsNul
<1>10. PhaseOK'
  BY <1>1 DEF FInv, PhaseOK, Unopened
<1> QED
  BY <1>1, <1>2, <1>3, <1>4, <1>5, <1>7, <1>8, <1>9, <1>10

LEMMA SameStep ==
    ASSUME FInv, SameStream, call'.busy = call.busy \/ ~ NulFirst \/ call.str = <<>>,
           TypeOK', CallOK', Joined', Mode'
    PROVE  FInv'
<1>1. /\ First' = First
      /\ NulFirst' <=> NulFirst
      /\ StreamOK' /\ PhaseOK' /\ LinesOK' /\ OncePerLine' /\ GoneOK' /\ Accounted'
  BY Same
<1>2. FreshOK'
  BY <1>1 DEF FInv, FreshOK, SameStream
<1> QED
  BY <1>1, <1>2 DEF FInv

LEMMA SearchFacts ==
    ASSUME FInv, call.busy = "search"
    PROVE  /\ 1 <= Len(call.str) /\ First = call.str[1] /\ Real(First) /\ ~ NulFirst
           /\ First[1] \in DOMAIN sent
<1>0. call.str \in Seq(Byte) /\ Len(call.str) \in Nat /\ call.str # <<>> /\ ~ IsNul(call.str[1])
  BY SeqTypes DEF FInv, CallOK
<1>1. 1 <= Len(call.str)
  BY <1>0, EmptySeq
<1>2. First = call.str[1] /\ Real(First)
  BY <1>0, <1>1 DEF First, Pos, FInv, StreamOK, Run
<1> QED
  BY <1>0, <1>1, <1>2 DEF NulFirst, Real

LEMMA AtFacts ==
    ASSUME FInv, NEW status, Within(status)
    PROVE  /\ call.dwCurrPt \in 1 .. Len(call.str) /\ At \in Byte /\ Real(At) /\ Now = At
           /\ Pos(call.str, OnWire, call.dwCurrPt + 1) = Succ(At)
<1>0. call.str \in Seq(Byte) /\ Len(call.str) \in Nat /\ call.dwCurrPt \in Nat
      /\ call.dwCurrPt \in 1 .. Len(call.str) + 1 /\ call.dwCurrPt <= Len(call.str)
  BY SeqTypes DEF FInv, CallOK, Within
<1>1. call.dwCurrPt \in 1 .. Len(call.str)
  BY <1>0
<1>2. Run(call.str, OnWire)
  BY DEF FInv, StreamOK
<1> QED
  BY <1>0, <1>1, <1>2 DEF At, Now, Pos, Run

(* The window with the byte looked at is a piece of the read.              *)
LEMMA FilledFacts ==
    ASSUME FInv, Within("null")
    PROVE  /\ Filled \in Seq(Byte) /\ Len(Filled) = Len(call.Head) + 1
           /\ Len(Filled) <= call.dwCurrPt /\ Len(Filled) <= call.iHeadLen
           /\ \A i \in 1 .. Len(Filled) :
                  Filled[i] = call.str[call.dwCurrPt - Len(Filled) + i]
<1>0. /\ call.Head \in Seq(Byte) /\ Len(call.Head) \in Nat /\ call.dwCurrPt \in Nat
      /\ call.iHeadLen \in Nat /\ Len(call.Head) < call.iHeadLen
      /\ Len(call.Head) < call.dwCurrPt
      /\ \A i \in 1 .. Len(call.Head) :
            call.Head[i] = call.str[call.dwCurrPt - 1 - Len(call.Head) + i]
  BY SeqTypes DEF FInv, CallOK, TypeOK
<1>1. At \in Byte /\ At = call.str[call.dwCurrPt]
  BY AtFacts DEF At
<1>2. /\ Filled \in Seq(Byte) /\ Len(Filled) = Len(call.Head) + 1
      /\ \A i \in 1 .. Len(call.Head) : Filled[i] = call.Head[i]
      /\ Filled[Len(call.Head) + 1] = At
  BY <1>0, <1>1 DEF Filled
<1>3. ASSUME NEW i \in 1 .. Len(Filled)
      PROVE  Filled[i] = call.str[call.dwCurrPt - Len(Filled) + i]
  <2> DEFINE k == call.dwCurrPt - Len(Filled) + i
  <2>1. CASE i = Len(call.Head) + 1
    <3>0. Len(Filled) = i /\ call.dwCurrPt \in Nat /\ i \in Nat
      BY <1>0, <1>2, <2>1
    <3>1. k = call.dwCurrPt
      BY <3>0
    <3>2. Filled[i] = At
      BY <1>2, <2>1
    <3> HIDE DEF k
    <3>3. Filled[i] = call.str[k]
      BY <1>1, <3>1, <3>2
    <3> QED
      BY <3>3 DEF k
  <2>2. CASE i # Len(call.Head) + 1
    <3>0. Len(Filled) = Len(call.Head) + 1 /\ Len(call.Head) \in Nat /\ call.dwCurrPt \in Nat
      BY <1>0, <1>2
    <3>1. i \in 1 .. Len(call.Head)
          /\ call.dwCurrPt - Len(Filled) + i = call.dwCurrPt - 1 - Len(call.Head) + i
      BY <2>2, <3>0
    <3>2. k = call.dwCurrPt - 1 - Len(call.Head) + i
      BY <3>1
    <3> HIDE DEF k
    <3>3. Filled[i] = call.Head[i] /\ call.Head[i] = call.str[k]
      BY <1>0, <1>2, <3>1, <3>2
    <3>4. Filled[i] = call.str[k]
      BY <3>3
    <3> QED
      BY <3>4 DEF k
  <2> QED
    BY <2>1, <2>2
<1> QED
  BY <1>0, <1>2, <1>3

LEMMA CollectStep ==
    ASSUME FInv, Collect
    PROVE  FInv'
<1>d. PICK d : d = call.dwCurrPt
  OBVIOUS
<1>0. /\ Within("null") /\ call.busy = "search" /\ exp.searchstatus = "null"
      /\ Len(Filled) < call.iHeadLen
      /\ call' = [call EXCEPT !.Head = Filled, !.dwCurrPt = d + 1]
      /\ UNCHANGED <<program, sent, wire, exp, given, hurt, fresh, gone, phase, early>>
      /\ TypeOK /\ StreamOK /\ CallOK /\ Joined /\ Mode /\ call \in CallType
  BY <1>d DEF Collect, Within, FInv, TypeOK
<1>1. /\ call'.busy = call.busy /\ call'.str = call.str /\ call'.dwCurrPt = d + 1
      /\ call'.Head = Filled /\ call'.iHeadLen = call.iHeadLen
  BY <1>0 DEF CallType
<1>2. /\ Filled \in Seq(Byte) /\ Len(Filled) = Len(call.Head) + 1 /\ Len(Filled) <= d
      /\ \A i \in 1 .. Len(Filled) : Filled[i] = call.str[d - Len(Filled) + i]
      /\ Len(call.Head) \in Nat /\ Len(call.str) \in Nat /\ d \in Nat /\ d \in 1 .. Len(call.str)
      /\ Len(Filled) \in Nat
  BY <1>d, <1>0, FilledFacts, AtFacts, SeqTypes
<1>3. SameStream
  BY <1>0, <1>1 DEF SameStream
<1>4. TypeOK'
  <2>1. call' \in CallType
    <3>1. d + 1 \in Nat
      BY <1>2
    <3> QED
      BY <1>0, <1>2, <3>1 DEF CallType
  <2> QED
    BY <1>0, <1>1, <1>2, <2>1 DEF TypeOK
<1>5. CallOK'
  <2>1. ~ IsNul(call.str[1])'
    BY <1>0, <1>1 DEF CallOK, IsNul
  <2>2. ASSUME NEW i \in 1 .. Len(Filled)
        PROVE  Filled[i] = call.str[(d + 1) - 1 - Len(Filled) + i]
    <3>1. (d + 1) - 1 - Len(Filled) + i = d - Len(Filled) + i
      BY <1>2
    <3> QED
      BY <1>2, <3>1
  <2>3. call.str # <<>>
    BY <1>0 DEF CallOK
  <2>4. d + 1 \in 1 .. Len(call.str) + 1 /\ Len(Filled) < d + 1
    BY <1>2
  <2>5. call.str # <<>> /\ LastOf(call.str)[2] < Window => LastOf(call.str)[1] \in hurt'
    BY <1>0 DEF CallOK
  <2> QED
    BY <1>0, <1>1, <2>1, <2>2, <2>3, <2>4, <2>5 DEF CallOK, LastOf
<1>6. Joined'
  BY <1>0 DEF Joined
<1>7. Mode'
  <2>0. First' = First /\ OnWire' = OnWire
    BY <1>3, Same
  <2>1. CASE Starting
    <3>1. /\ call.iHeadLen = Window /\ d <= Window /\ Len(call.Head) = d - 1
          /\ \A i \in 1 .. d : Pos(call.str, OnWire, i) = <<First[1], i>>
      BY <1>d, <1>0, <2>1 DEF Starting
    <3>2. d < Window /\ Len(Filled) = d /\ Window \in Nat
      BY <1>0, <1>2, <3>1, KindsAssumption
    <3>3. At = <<First[1], d>> /\ Pos(call.str, OnWire, d + 1) = Succ(At) /\ Real(At)
      BY <1>d, <1>0, <1>2, <3>1, AtFacts DEF Now
    <3>4. Succ(At) = <<First[1], d + 1>>
      <4>1. First[1] \in DOMAIN sent
        BY <1>0, SearchFacts
      <4>2. d < Total(First[1])
        BY <1>0, <1>2, <3>2, <4>1, FrameFacts
      <4> QED
        BY <3>3, <4>2 DEF Succ
    <3>5. \A i \in 1 .. d + 1 : Pos(call.str, OnWire, i) = <<First[1], i>>
      <4>1. ASSUME NEW i \in 1 .. d + 1 PROVE Pos(call.str, OnWire, i) = <<First[1], i>>
        <5>1. CASE i = d + 1
          BY <1>2, <3>3, <3>4, <5>1
        <5>2. CASE i # d + 1
          BY <1>2, <3>1, <5>2
        <5> QED
          BY <5>1, <5>2
      <4> QED
        BY <4>1
    <3>6. First[2] = 1
      BY <1>0, <2>1, SearchFacts DEF Starting
    <3>7. d + 1 <= Window /\ Len(Filled) = (d + 1) - 1
      BY <1>2, <3>2
    <3>8. Starting'
      BY <1>0, <1>1, <2>0, <3>1, <3>5, <3>6, <3>7 DEF Starting, Pos
    <3> QED
      BY <3>8 DEF Mode
  <2>2. CASE Aligned
    BY <1>0, <2>2 DEF Aligned
  <2>3. CASE Spoilt
    BY <1>3, <2>3, <2>0, Same DEF Spoilt, Mode
  <2> QED
    BY <1>0, <2>1, <2>2, <2>3 DEF Mode
<1> QED
  BY <1>1, <1>3, <1>4, <1>5, <1>6, <1>7, SameStep

LEMMA SlideStep ==
    ASSUME FInv, Slide
    PROVE  FInv'
<1>d. PICK d : d = call.dwCurrPt
  OBVIOUS
<1> DEFINE next == {i \in 2 .. call.iHeadLen : Dollar(Filled[i])}
           m == Min(next)
           rest == IF next = {} THEN <<>> ELSE SubSeq(Filled, m, call.iHeadLen)
<1>0. /\ Within("null") /\ call.busy = "search" /\ exp.searchstatus = "null"
      /\ Len(Filled) = call.iHeadLen /\ TitlesAt(Filled) = {}
      /\ call' = [call EXCEPT !.dwCurrPt = d + 1, !.Head = rest]
      /\ UNCHANGED <<program, sent, wire, exp, given, hurt, fresh, gone, phase, early>>
      /\ TypeOK /\ StreamOK /\ CallOK /\ Joined /\ Mode /\ call \in CallType
  BY <1>d DEF Slide, Within, FInv, TypeOK
<1>2. /\ Filled \in Seq(Byte) /\ Len(Filled) = Len(call.Head) + 1 /\ Len(Filled) <= d
      /\ \A i \in 1 .. Len(Filled) : Filled[i] = call.str[d - Len(Filled) + i]
      /\ Len(call.Head) \in Nat /\ Len(call.str) \in Nat /\ d \in Nat /\ d \in 1 .. Len(call.str)
      /\ Len(Filled) \in Nat /\ call.iHeadLen \in Nat
  BY <1>d, <1>0, FilledFacts, AtFacts, SeqTypes
<1>1. /\ call'.busy = call.busy /\ call'.str = call.str /\ call'.dwCurrPt = d + 1
      /\ call'.Head = rest /\ call'.iHeadLen = call.iHeadLen
  BY <1>0 DEF CallType
<1>3. SameStream
  BY <1>0, <1>1 DEF SameStream
<1>4. /\ rest \in Seq(Byte) /\ Len(rest) \in Nat /\ Len(rest) < call.iHeadLen /\ Len(rest) < d + 1
      /\ \A i \in 1 .. Len(rest) : rest[i] = call.str[(d + 1) - 1 - Len(rest) + i]
  <2>1. CASE next = {}
    <3>1. rest = <<>> /\ Len(rest) = 0 /\ rest \in Seq(Byte)
      BY <2>1
    <3> HIDE DEF rest
    <3>2. Len(rest) < call.iHeadLen /\ Len(rest) < d + 1
      BY <1>0, <1>2, <3>1
    <3>3. \A i \in 1 .. Len(rest) : FALSE
      BY <3>1
    <3> QED
      BY <3>1, <3>2, <3>3
  <2>2. CASE next # {}
    <3>1. m \in next
      BY <2>2, MinIn
    <3>2. m \in Nat /\ 2 <= m /\ m <= Len(Filled)
      BY <1>0, <1>2, <3>1
    <3>3. rest = SubSeq(Filled, m, Len(Filled))
      BY <1>0, <2>2
    <3> HIDE DEF m, rest
    <3>4. /\ rest \in Seq(Byte) /\ Len(rest) = Len(Filled) - m + 1
          /\ \A i \in 1 .. Len(Filled) - m + 1 : rest[i] = Filled[m + i - 1]
      <4>1. \A i \in m .. Len(Filled) : Filled[i] \in Byte
        BY <1>2, <3>2
      <4>2. /\ rest \in Seq(Byte)
            /\ Len(rest) = IF m <= Len(Filled) THEN Len(Filled) - m + 1 ELSE 0
            /\ \A i \in 1 .. Len(Filled) - m + 1 : rest[i] = Filled[m + i - 1]
        BY <1>2, <3>2, <3>3, <4>1, SubSeqProperties
      <4> QED
        BY <3>2, <4>2
    <3>5. ASSUME NEW i \in 1 .. Len(rest)
          PROVE  rest[i] = call.str[(d + 1) - 1 - Len(rest) + i]
      <4>1. m + i - 1 \in 1 .. Len(Filled)
            /\ d - Len(Filled) + (m + i - 1) = (d + 1) - 1 - Len(rest) + i
        BY <1>2, <3>2, <3>4
      <4>2. rest[i] = Filled[m + i - 1]
        BY <3>4, <3>5
      <4> QED
        BY <1>2, <4>1, <4>2
    <3> QED
      BY <1>0, <1>2, <3>2, <3>4, <3>5
  <2> QED
    BY <2>1, <2>2
<1> HIDE DEF rest, m
<1>5. TypeOK'
  <2>1. call' \in CallType
    <3>1. d + 1 \in Nat
      BY <1>2
    <3> QED
      BY <1>0, <1>4, <3>1 DEF CallType
  <2> QED
    BY <1>0, <1>1, <1>4, <2>1 DEF TypeOK
<1>6. CallOK'
  <2>1. ~ IsNul(call.str[1])'
    BY <1>0, <1>1 DEF CallOK, IsNul
  <2>3. call.str # <<>>
    BY <1>0 DEF CallOK
  <2>4. d + 1 \in 1 .. Len(call.str) + 1
    BY <1>2
  <2>5. call.str # <<>> /\ LastOf(call.str)[2] < Window => LastOf(call.str)[1] \in hurt'
    BY <1>0 DEF CallOK
  <2> QED
    BY <1>0, <1>1, <1>4, <2>1, <2>3, <2>4, <2>5 DEF CallOK, LastOf
<1>7. Joined'
  BY <1>0 DEF Joined
<1>8. Mode'
  <2>0. First[1] \in DOMAIN sent /\ ~ NulFirst
    BY <1>0, SearchFacts
  <2>1. CASE Starting
    <3>1. /\ call.iHeadLen = Window /\ d <= Window /\ Len(call.Head) = d - 1
          /\ \A i \in 1 .. d : Pos(call.str, OnWire, i) = <<First[1], i>>
      BY <1>d, <1>0, <2>1 DEF Starting
    <3>2. d = Window /\ Len(Filled) = Window /\ Window \in Nat
      <4>1. Len(Filled) = Window
        BY <1>0, <3>1
      <4> QED
        BY <1>2, <3>1, <4>1
    <3>3. \A i \in 1 .. Window : Filled[i] = <<First[1], i>>
      <4>1. ASSUME NEW i \in 1 .. Window PROVE Filled[i] = <<First[1], i>>
        <5>0. i \in Nat /\ 1 <= i /\ i <= d /\ Len(Filled) = d /\ d \in Nat /\ d <= Len(call.str)
          BY <1>2, <3>2
        <5>1. d - Len(Filled) + i = i /\ i \in 1 .. Len(Filled) /\ i <= Len(call.str) /\ i \in 1 .. d
          BY <5>0
        <5>2. Filled[i] = call.str[i]
          BY <1>2, <5>1
        <5> QED
          BY <3>1, <5>1, <5>2 DEF Pos
      <4> QED
        BY <4>1
    <3>t. ASSUME Sought(First[1]) PROVE Unknown(First[1])
      <4>1. Title[sent[First[1]]] \in Nat
        BY <1>0, <2>0, FrameFacts
      <4>2. CASE Title[sent[First[1]]] <= Window
        <5>1. First[1] \in TitlesAt(Filled)
          <6>1. \A i \in 1 .. Title[sent[First[1]]] : Filled[i] = <<First[1], i>>
            BY <1>2, <3>2, <3>3, <4>1, <4>2
          <6> QED
            BY <2>0, <3>2, <3>t, <4>2, <6>1 DEF TitlesAt
        <5> QED
          BY <1>0, <5>1
      <4> QED
        BY <1>2, <3>2, <4>1, <4>2 DEF Unknown
    <3>u. ASSUME ~ Sought(First[1]) PROVE First[1] \in early
      <4>1. First[2] = 1 /\ First = call.str[1] /\ 1 \in DOMAIN call.str
        BY <1>0, <1>2, <2>0, <2>1, SearchFacts, SeqTypes DEF Starting
      <4>2. PhaseOK
        BY DEF FInv
      <4>3. CASE Unopened
        <5>1. sent[First[1]] \notin Opening
          BY <3>u, <4>3 DEF Sought
        <5> QED
          BY <4>1, <4>2, <4>3, <5>1 DEF PhaseOK
      <4>4. CASE ~ Unopened
        <5>1. sent[First[1]] \in Opening
          BY <3>u, <4>4 DEF Sought
        <5>2. phase = "opening"
          BY <2>0, <4>1, <4>2, <5>1 DEF PhaseOK
        <5> QED
          BY <4>4, <5>2 DEF Unopened
      <4> QED
        BY <4>3, <4>4
    <3>4. Unknown(First[1]) \/ First[1] \in early
      BY <3>t, <3>u
    <3>5. Spoilt
      BY <2>0, <3>4 DEF Spoilt, Bad
    <3> QED
      BY <1>3, <3>5, Same DEF Spoilt, Mode
  <2>2. CASE Aligned
    BY <1>0, <2>2 DEF Aligned
  <2>3. CASE Spoilt
    BY <1>3, <2>3, Same DEF Spoilt, Mode
  <2> QED
    BY <1>0, <2>1, <2>2, <2>3 DEF Mode
<1> QED
  BY <1>1, <1>3, <1>5, <1>6, <1>7, <1>8, SameStep

(* The beginning of a frame that has been sent.                            *)
LEMMA Beginning ==
    ASSUME TypeOK, NEW f \in DOMAIN sent, NEW n \in Nat, n <= Length[sent[f]],
           NEW q, q = SubSeq(Whole(f), 1, n)
    PROVE  q \in Seq(Byte) /\ Len(q) = n /\ \A i \in 1 .. n : q[i] = <<f, i>>
<1>1. Length[sent[f]] \in Nat /\ f \in Frames
  BY FrameFacts
<1>2. \A i \in 1 .. n : Whole(f)[i] = <<f, i>> /\ Whole(f)[i] \in Byte
  BY <1>1 DEF Whole, Byte
<1>3. /\ q \in Seq(Byte)
      /\ Len(q) = IF 1 <= n THEN n - 1 + 1 ELSE 0
      /\ \A i \in 1 .. n - 1 + 1 : q[i] = Whole(f)[1 + i - 1]
  BY <1>2, SubSeqProperties
<1> QED
  BY <1>2, <1>3

LEMMA BeginStep ==
    ASSUME FInv, Begin
    PROVE  FInv'
<1>d. PICK d : d = call.dwCurrPt
  OBVIOUS
<1>f. PICK f \in TitlesAt(Filled) :
          /\ exp' = [searchstatus |-> "identifier",
                     frame |-> SubSeq(Whole(f), 1, Title[sent[f]])]
          /\ call' = [call EXCEPT !.Head = <<>>, !.iHeadLen = Title[sent[f]],
                                  !.dwCurrPt = Title[sent[f]] + 1]
  BY DEF Begin
<1>t. PICK t : t = Title[sent[f]]
  OBVIOUS
<1>0. /\ Within("null") /\ call.busy = "search" /\ exp.searchstatus = "null"
      /\ Len(Filled) = call.iHeadLen
      /\ call' = [call EXCEPT !.Head = <<>>, !.iHeadLen = t, !.dwCurrPt = t + 1]
      /\ exp' = [searchstatus |-> "identifier", frame |-> SubSeq(Whole(f), 1, t)]
      /\ UNCHANGED <<program, sent, wire, given, hurt, fresh, gone, phase, early>>
      /\ TypeOK /\ StreamOK /\ CallOK /\ Joined /\ Mode /\ call \in CallType
  BY <1>f, <1>t DEF Begin, Within, FInv, TypeOK
<1>1. /\ call'.busy = call.busy /\ call'.str = call.str /\ call'.dwCurrPt = t + 1
      /\ call'.Head = <<>> /\ call'.iHeadLen = t
  BY <1>0 DEF CallType
<1>2. /\ Filled \in Seq(Byte) /\ Len(Filled) <= d
      /\ \A i \in 1 .. Len(Filled) : Filled[i] = call.str[d - Len(Filled) + i]
      /\ Len(call.str) \in Nat /\ d \in Nat /\ d \in 1 .. Len(call.str)
      /\ Len(Filled) \in Nat /\ call.iHeadLen \in Nat /\ call.iHeadLen <= Window
  BY <1>d, <1>0, FilledFacts, AtFacts, SeqTypes DEF TypeOK
<1>3. SameStream
  BY <1>0, <1>1 DEF SameStream
<1>4. /\ f \in DOMAIN sent /\ f \in Nat /\ t \in Nat /\ 1 <= t
      /\ t + 1 < Length[sent[f]] /\ Length[sent[f]] <= Total(f)
      /\ Length[sent[f]] \in Nat /\ Total(f) \in Nat
      /\ t <= Len(Filled)
      /\ \A i \in 1 .. t : Filled[i] = <<f, i>>
  BY <1>0, <1>t, FrameFacts DEF TitlesAt
<1>5. PICK frame : frame = SubSeq(Whole(f), 1, t)
  OBVIOUS
<1>6. frame \in Seq(Byte) /\ Len(frame) = t /\ \A i \in 1 .. t : frame[i] = <<f, i>>
  <2>1. f \in DOMAIN sent /\ t \in Nat /\ t <= Length[sent[f]]
    BY <1>4
  <2> QED
    BY <1>0, <1>5, <2>1, Beginning
<1>7. exp' = [searchstatus |-> "identifier", frame |-> frame]
      /\ exp'.searchstatus = "identifier" /\ exp'.frame = frame
  BY <1>0, <1>5
<1>8. TypeOK'
  <2>1. call' \in CallType
    <3>1. t + 1 \in Nat /\ <<>> \in Seq(Byte)
      BY <1>4
    <3> QED
      BY <1>0, <1>4, <3>1 DEF CallType
  <2>2. exp' \in ExpType
    BY <1>6, <1>7 DEF ExpType
  <2>3. Len(<<>>) < t /\ t <= Window
    BY <1>0, <1>2, <1>4, KindsAssumption
  <2>4. Len(frame) < Limit[program]
    BY <1>0, <1>6, <2>3, KindsAssumption, BoundAssumption DEF TypeOK
  <2> QED
    BY <1>0, <1>1, <1>7, <2>1, <2>2, <2>3, <2>4 DEF TypeOK
<1>9. CallOK'
  <2>1. ~ IsNul(call.str[1])'
    BY <1>0, <1>1 DEF CallOK, IsNul
  <2>2. t + 1 \in 1 .. Len(call.str) + 1 /\ Len(<<>>) < t + 1 /\ Len(<<>>) = 0
    BY <1>2, <1>4
  <2>3. call.str # <<>>
    BY <1>0 DEF CallOK
  <2>4. call.str # <<>> /\ LastOf(call.str)[2] < Window => LastOf(call.str)[1] \in hurt'
    BY <1>0 DEF CallOK
  <2> QED
    BY <1>0, <1>1, <2>1, <2>2, <2>3, <2>4 DEF CallOK, LastOf
<1>10. PICK o : o = d - Len(Filled)
  OBVIOUS
<1>11. o \in Nat /\ o + t <= d
  BY <1>2, <1>4, <1>10
<1>12. \A i \in 1 .. t : call.str[o + i] = <<f, i>>
  <2>1. ASSUME NEW i \in 1 .. t PROVE call.str[o + i] = <<f, i>>
    <3>1. i \in 1 .. Len(Filled)
      BY <1>2, <1>4
    <3>2. Filled[i] = call.str[o + i]
      BY <1>2, <1>10, <3>1
    <3> QED
      BY <1>4, <3>2
  <2> QED
    BY <2>1
<1>13. PICK c : c = Pos(call.str, OnWire, t + 1)
  OBVIOUS
<1>14. Now' = c
  BY <1>1, <1>3, <1>13, Same DEF Now, Pos
<1>15. o = 0 => c = <<f, t + 1>>
  <2>1. SUFFICES ASSUME o = 0 PROVE c = <<f, t + 1>>
    OBVIOUS
  <2>2. t \in 1 .. t /\ o + t = t /\ t \in 1 .. Len(call.str)
    BY <1>2, <1>4, <1>11, <2>1
  <2>3. call.str[t] = <<f, t>>
    BY <1>12, <2>2
  <2>4. c = Succ(<<f, t>>)
    BY <1>0, <1>13, <2>2, <2>3 DEF StreamOK, Run
  <2> QED
    BY <1>4, <2>4 DEF Succ
<1>16. Joined'
  <2>1. frame # <<>>
    BY <1>4, <1>6
  <2>2. CASE o = 0
    <3>1. c[1] = f /\ c[2] = t + 1
      BY <1>15, <2>2
    <3>2. 2 <= c[2] /\ c[2] <= Length[sent[f]] /\ c[2] # Length[sent[f]]
      BY <1>4, <3>1
    <3> QED
      BY <1>0, <1>4, <1>7, <1>14, <2>1, <3>1, <3>2 DEF Joined, LF
  <2>3. CASE o # 0 /\ t <= o
    <3>1. call.str[o + 1] = <<f, 1>> /\ o + 1 \in 1 .. Len(call.str) /\ t + 1 <= o + 1
      BY <1>2, <1>4, <1>11, <1>12, <2>3
    <3>2. o + 1 \in DOMAIN call.str
      BY <1>0, <3>1, SeqTypes
    <3>3. Dollar(call.str[o + 1])
      BY <3>1 DEF Dollar
    <3>4. \E p \in DOMAIN call.str : t + 1 <= p /\ Dollar(call.str[p])
      BY <3>1, <3>2, <3>3
    <3> QED
      BY <1>0, <1>1, <1>7, <2>1, <3>4 DEF Joined, Dollar
  <2>4. CASE o # 0 /\ ~ (t <= o)
    <3>0. PICK i : i = t + 1 - o
      OBVIOUS
    <3>1. i \in 1 .. t /\ 2 <= i /\ i <= t /\ t + 1 = o + i /\ t + 1 <= Len(call.str)
      BY <1>2, <1>4, <1>11, <2>4, <3>0
    <3>2. c = <<f, i>>
      BY <1>12, <1>13, <3>1 DEF Pos
    <3>3. c[1] = f /\ c[2] = i
      BY <3>2
    <3>4. 2 <= c[2] /\ c[2] <= Length[sent[f]] /\ c[2] # Length[sent[f]]
      BY <1>4, <3>1, <3>3
    <3> QED
      BY <1>0, <1>4, <1>7, <1>14, <2>1, <3>3, <3>4 DEF Joined, LF
  <2> QED
    BY <2>2, <2>3, <2>4
<1>17. Mode'
  <2>0. First[1] \in DOMAIN sent /\ First = call.str[1]
    BY <1>0, SearchFacts
  <2>1. CASE Starting
    <3>1. /\ call.iHeadLen = Window /\ d <= Window
          /\ \A i \in 1 .. d : Pos(call.str, OnWire, i) = <<First[1], i>>
      BY <1>d, <1>0, <2>1 DEF Starting
    <3>2. Len(Filled) = d
      BY <1>0, <1>2, <3>1
    <3>3. o = 0
      BY <1>2, <1>10, <3>2
    <3>4. call.str[1] = <<f, 1>>
      BY <1>4, <1>12, <3>3
    <3>5. First[1] = f
      BY <2>0, <3>4
    <3>6. First' = First
      BY <1>3, Same
    <3>7. Now' = <<f, t + 1>>
      BY <1>14, <1>15, <3>3
    <3>8. Aligned'
      BY <1>0, <1>4, <1>6, <1>7, <3>5, <3>6, <3>7 DEF Aligned
    <3> QED
      BY <3>8 DEF Mode
  <2>2. CASE Aligned
    BY <1>0, <2>2 DEF Aligned
  <2>3. CASE Spoilt
    BY <1>3, <2>3, Same DEF Spoilt, Mode
  <2> QED
    BY <1>0, <2>1, <2>2, <2>3 DEF Mode
<1> QED
  BY <1>1, <1>3, <1>8, <1>9, <1>16, <1>17, SameStep

(* The frame with the byte looked at.                                      *)
LEMMA LongerFacts ==
    ASSUME FInv, Within("identifier")
    PROVE  /\ exp.frame # <<>> /\ 1 <= Len(exp.frame)
           /\ Longer \in Seq(Byte) /\ Longer # <<>> /\ Len(Longer) = Len(exp.frame) + 1
           /\ \A i \in 1 .. Len(exp.frame) : Longer[i] = exp.frame[i]
           /\ Longer[Len(exp.frame) + 1] = At /\ LastOf(Longer) = At
           /\ call.Head = <<>> /\ Len(call.Head) = 0
<1>0. exp.searchstatus = "identifier" /\ TypeOK /\ Joined /\ CallOK
  BY DEF Within, FInv
<1>1. exp.frame \in Seq(Byte) /\ Len(exp.frame) \in Nat /\ exp.frame # <<>>
  BY <1>0, SeqTypes DEF Joined
<1>2. 1 <= Len(exp.frame)
  BY <1>1, EmptySeq
<1>3. At \in Byte
  BY AtFacts
<1>4. /\ Longer \in Seq(Byte) /\ Len(Longer) = Len(exp.frame) + 1
      /\ \A i \in 1 .. Len(exp.frame) : Longer[i] = exp.frame[i]
      /\ Longer[Len(exp.frame) + 1] = At
  BY <1>1, <1>3 DEF Longer
<1>5. Longer # <<>>
  BY <1>1, <1>4
<1> QED
  BY <1>0, <1>1, <1>2, <1>4, <1>5 DEF LastOf, CallOK

(* A line end that is looked at, and no end of a frame: the byte before it *)
(* is not its CR.                                                          *)
LEMMA AddStep ==
    ASSUME FInv, Add
    PROVE  FInv'
<1>d. PICK d : d = call.dwCurrPt
  OBVIOUS
<1>m. PICK m : m = Len(exp.frame)
  OBVIOUS
<1>c. PICK c : c = At
  OBVIOUS
<1>0. /\ Within("identifier") /\ call.busy = "search" /\ exp.searchstatus = "identifier"
      /\ ~ (Len(Longer) >= Limit[program]) /\ ~ Ends
      /\ exp' = [exp EXCEPT !.frame = Longer]
      /\ call' = [call EXCEPT !.dwCurrPt = d + 1]
      /\ UNCHANGED <<program, sent, wire, given, hurt, fresh, gone, phase, early>>
      /\ TypeOK /\ StreamOK /\ CallOK /\ Joined /\ Mode /\ call \in CallType /\ exp \in ExpType
  BY <1>d DEF Add, Within, Overruns, FInv, TypeOK
<1>1. /\ call'.busy = call.busy /\ call'.str = call.str /\ call'.dwCurrPt = d + 1
      /\ call'.Head = call.Head /\ call'.iHeadLen = call.iHeadLen
      /\ exp'.searchstatus = "identifier" /\ exp'.frame = Longer
  BY <1>0 DEF CallType, ExpType
<1>2. /\ m \in Nat /\ 1 <= m /\ Longer \in Seq(Byte) /\ Longer # <<>> /\ Len(Longer) = m + 1
      /\ \A i \in 1 .. m : Longer[i] = exp.frame[i]
      /\ Longer[m + 1] = c /\ LastOf(Longer) = c
      /\ call.Head = <<>> /\ Len(call.Head) = 0
  BY <1>0, <1>c, <1>m, LongerFacts, SeqTypes
<1>3. SameStream
  BY <1>0, <1>1 DEF SameStream
<1>4. /\ d \in Nat /\ d \in 1 .. Len(call.str) /\ Len(call.str) \in Nat /\ Real(c) /\ Now = c
      /\ Pos(call.str, OnWire, d + 1) = Succ(c)
      /\ c[1] \in DOMAIN sent /\ c[2] \in Nat /\ 1 <= c[2] /\ c = <<c[1], c[2]>>
  BY <1>0, <1>c, <1>d, AtFacts, SeqTypes, SuccFacts
<1>5. Now' = Succ(c) /\ First' = First
  BY <1>1, <1>3, <1>4, Same DEF Now, Pos
<1>6. LF(c) => ~ CR(exp.frame[m])
  BY <1>0, <1>c, <1>m DEF Ends
<1>7. TypeOK'
  <2>1. call' \in CallType
    <3>1. d + 1 \in Nat
      BY <1>4
    <3> QED
      BY <1>0, <3>1 DEF CallType
  <2>2. exp' \in ExpType
    BY <1>0, <1>2 DEF ExpType
  <2>3. Len(Longer) < Limit[program]
    BY <1>0, <1>2, BoundAssumption DEF TypeOK
  <2> QED
    BY <1>0, <1>1, <2>1, <2>2, <2>3 DEF TypeOK
<1>8. CallOK'
  <2>1. ~ IsNul(call.str[1])'
    BY <1>0, <1>1 DEF CallOK, IsNul
  <2>2. d + 1 \in 1 .. Len(call.str) + 1 /\ Len(call.Head) < d + 1
    BY <1>2, <1>4
  <2>3. call.str # <<>>
    BY <1>0 DEF CallOK
  <2>4. call.str # <<>> /\ LastOf(call.str)[2] < Window => LastOf(call.str)[1] \in hurt'
    BY <1>0 DEF CallOK
  <2> QED
    BY <1>0, <1>1, <1>2, <2>1, <2>2, <2>3, <2>4 DEF CallOK, LastOf
<1>9. Joined'
  <2>f. /\ Length[sent[c[1]]] \in Nat /\ Total(c[1]) \in Nat
        /\ Length[sent[c[1]]] <= Total(c[1]) /\ 2 < Length[sent[c[1]]]
    BY <1>0, <1>4, FrameFacts
  <2>1. CASE c[2] < Length[sent[c[1]]]
    <3>1. Succ(c) = <<c[1], c[2] + 1>>
      BY <1>4, <2>1, <2>f DEF Succ
    <3>2. PICK a : a = Succ(c)
      OBVIOUS
    <3>3. /\ a[1] = c[1] /\ a[2] = c[2] + 1 /\ 2 <= a[2] /\ a[2] <= Length[sent[a[1]]]
          /\ c = <<a[1], a[2] - 1>>
      BY <1>4, <2>1, <2>f, <3>1, <3>2
    <3> QED
      BY <1>0, <1>1, <1>2, <1>4, <1>5, <3>2, <3>3 DEF Joined
  <2>2. CASE ~ (c[2] < Length[sent[c[1]]])
    <3>1. c[2] # 1
      BY <2>2, <2>f
    <3>2. CASE /\ c[1] \in DOMAIN sent
               /\ 2 <= c[2] /\ c[2] <= Length[sent[c[1]]]
               /\ LF(c) => LastOf(exp.frame) = <<c[1], c[2] - 1>>
      <4>1. c[2] = Length[sent[c[1]]]
        BY <1>4, <2>2, <2>f, <3>2
      <4>2. LF(c) /\ exp.frame[m] = <<c[1], c[2] - 1>>
        BY <1>m, <3>2, <4>1 DEF LF, LastOf
      <4>3. CR(exp.frame[m])
        BY <4>1, <4>2 DEF CR
      <4> QED
        BY <1>6, <4>2, <4>3
    <3>3. CASE \E p \in DOMAIN call.str : call.dwCurrPt <= p /\ Dollar(call.str[p])
      <4>1. PICK p \in DOMAIN call.str : d <= p /\ Dollar(call.str[p])
        BY <1>d, <3>3
      <4>2. p # d
        BY <1>c, <1>d, <3>1, <4>1 DEF Dollar, At
      <4>3. p \in Nat
        BY <4>1, <1>0, SeqTypes
      <4>4. d + 1 <= p
        BY <1>4, <4>1, <4>2, <4>3
      <4> QED
        BY <1>0, <1>1, <1>2, <4>1, <4>4 DEF Joined, Dollar
    <3> QED
      BY <1>0, <1>4, <3>1, <3>2, <3>3 DEF Joined
  <2> QED
    BY <2>1, <2>2
<1>10. Mode'
  <2>0. First[1] \in DOMAIN sent
    BY <1>0, SearchFacts
  <2>1. CASE Starting
    BY <1>0, <2>1 DEF Starting
  <2>2. CASE Aligned
    <3>f. PICK f : f = First[1]
      OBVIOUS
    <3>1. /\ f \in DOMAIN sent /\ m < Length[sent[f]] /\ c = <<f, m + 1>>
          /\ \A i \in 1 .. m : exp.frame[i] = <<f, i>>
      BY <1>4, <1>m, <2>2, <3>f DEF Aligned
    <3>2. Length[sent[f]] \in Nat /\ Total(f) \in Nat /\ Length[sent[f]] <= Total(f)
      BY <1>0, <3>1, FrameFacts
    <3>3. c[1] = f /\ c[2] = m + 1
      BY <3>1
    <3>4. m + 1 # Length[sent[f]]
      <4>1. SUFFICES ASSUME m + 1 = Length[sent[f]] PROVE FALSE
        OBVIOUS
      <4>2. LF(c)
        BY <3>3, <4>1 DEF LF
      <4>3. m \in 1 .. m
        BY <1>2
      <4>4. exp.frame[m] = <<f, m>>
        BY <3>1, <4>3
      <4>5. CR(exp.frame[m])
        BY <1>2, <3>2, <4>1, <4>4 DEF CR
      <4> QED
        BY <1>6, <4>2, <4>5
    <3>5. m + 1 < Length[sent[f]] /\ Succ(c) = <<f, (m + 1) + 1>>
      BY <1>2, <3>1, <3>2, <3>3, <3>4 DEF Succ
    <3>6. \A i \in 1 .. m + 1 : Longer[i] = <<f, i>>
      <4>1. ASSUME NEW i \in 1 .. m + 1 PROVE Longer[i] = <<f, i>>
        <5>1. CASE i = m + 1
          BY <1>2, <3>1, <5>1
        <5>2. CASE i # m + 1
          <6>1. i \in 1 .. m
            BY <1>2, <5>2
          <6> QED
            BY <1>2, <3>1, <6>1
        <5> QED
          BY <5>1, <5>2
      <4> QED
        BY <4>1
    <3>7. Aligned'
      BY <1>0, <1>1, <1>2, <1>5, <3>1, <3>5, <3>6, <3>f DEF Aligned
    <3> QED
      BY <3>7 DEF Mode
  <2>3. CASE Spoilt
    BY <1>3, <2>3, Same DEF Spoilt, Mode
  <2> QED
    BY <1>0, <2>1, <2>2, <2>3 DEF Mode
<1> QED
  BY <1>1, <1>3, <1>7, <1>8, <1>9, <1>10, SameStep

LEMMA OverrunStep ==
    ASSUME FInv, Overrun
    PROVE  FInv'
<1>d. PICK d : d = call.dwCurrPt
  OBVIOUS
<1>0. /\ Within("identifier") /\ call.busy = "search" /\ exp.searchstatus = "identifier"
      /\ Len(Longer) >= Limit[program]
      /\ exp' = NoFrame
      /\ call' = [call EXCEPT !.dwCurrPt = d + 1]
      /\ UNCHANGED <<program, sent, wire, given, hurt, fresh, gone, phase, early>>
      /\ TypeOK /\ StreamOK /\ CallOK /\ Joined /\ Mode /\ call \in CallType
  BY <1>d DEF Overrun, Within, Overruns, FInv, TypeOK
<1>1. /\ call'.busy = call.busy /\ call'.str = call.str /\ call'.dwCurrPt = d + 1
      /\ call'.Head = call.Head /\ call'.iHeadLen = call.iHeadLen
      /\ exp'.searchstatus = "null" /\ exp'.frame = <<>>
  BY <1>0 DEF CallType, NoFrame
<1>2. /\ Len(exp.frame) \in Nat /\ Len(Longer) = Len(exp.frame) + 1
      /\ call.Head = <<>> /\ Len(call.Head) = 0
      /\ d \in Nat /\ d \in 1 .. Len(call.str) /\ Len(call.str) \in Nat
  BY <1>0, <1>d, LongerFacts, AtFacts, SeqTypes
<1>3. SameStream
  BY <1>0, <1>1 DEF SameStream
<1>4. Limit[program] \in Nat /\ 0 < Limit[program]
  BY <1>0, KindsAssumption, BoundAssumption DEF TypeOK
<1>5. TypeOK'
  <2>1. call' \in CallType
    <3>1. d + 1 \in Nat
      BY <1>2
    <3> QED
      BY <1>0, <3>1 DEF CallType
  <2>2. exp' \in ExpType /\ Len(<<>>) < Limit[program]
    BY <1>0, <1>4 DEF ExpType, NoFrame
  <2> QED
    BY <1>0, <1>1, <2>1, <2>2 DEF TypeOK
<1>6. CallOK'
  <2>1. ~ IsNul(call.str[1])'
    BY <1>0, <1>1 DEF CallOK, IsNul
  <2>2. d + 1 \in 1 .. Len(call.str) + 1 /\ Len(call.Head) < d + 1
    BY <1>2
  <2>3. call.str # <<>>
    BY <1>0 DEF CallOK
  <2>4. call.str # <<>> /\ LastOf(call.str)[2] < Window => LastOf(call.str)[1] \in hurt'
    BY <1>0 DEF CallOK
  <2> QED
    BY <1>0, <1>1, <1>2, <2>1, <2>2, <2>3, <2>4 DEF CallOK, LastOf
<1>7. Joined'
  BY <1>1 DEF Joined
<1>8. Mode'
  <2>0. First[1] \in DOMAIN sent /\ ~ NulFirst
    BY <1>0, SearchFacts
  <2>1. CASE Starting
    BY <1>0, <2>1 DEF Starting
  <2>2. CASE Aligned
    <3>1. Length[sent[First[1]]] \in Nat /\ Len(exp.frame) < Length[sent[First[1]]]
      BY <1>0, <2>0, <2>2, FrameFacts DEF Aligned
    <3>2. Length[sent[First[1]]] >= Limit[program]
      BY <1>0, <1>2, <1>4, <3>1
    <3>3. Spoilt
      BY <2>0, <3>2 DEF Spoilt, Bad, TooLong
    <3> QED
      BY <1>3, <3>3, Same DEF Spoilt, Mode
  <2>3. CASE Spoilt
    BY <1>3, <2>3, Same DEF Spoilt, Mode
  <2> QED
    BY <1>0, <2>1, <2>2, <2>3 DEF Mode
<1> QED
  BY <1>1, <1>3, <1>5, <1>6, <1>7, <1>8, SameStep

-----------------------------------------------------------------------------
(* The steps between two searches of a read.                               *)

LEMMA IdleType ==
    ASSUME NEW b, b \in {"no", "next", "search"}, NEW s, s \in Seq(Byte)
    PROVE  [Idle EXCEPT !.busy = b, !.str = s] \in CallType
<1>1. Idle \in CallType
  BY KindsAssumption DEF CallType, Idle
<1> QED
  BY <1>1 DEF CallType

(* A search begins at the first byte of what is left of the read.          *)
LEMMA SearchBegins ==
    ASSUME FInv, Search
    PROVE  FInv'
<1>0. /\ call.busy = "next" /\ call.str # <<>>
      /\ ~ (IsNul(Head(call.str)) /\ program # "bdjob")
      /\ call' = [Idle EXCEPT !.busy = "search", !.str = call.str]
      /\ UNCHANGED <<program, sent, wire, exp, given, hurt, fresh, gone, phase, early>>
      /\ TypeOK /\ StreamOK /\ CallOK /\ Joined /\ Mode
  BY DEF Search, FInv
<1>s. call.str \in Seq(Byte)
  BY <1>0, SeqTypes
<1>1. /\ call'.busy = "search" /\ call'.str = call.str /\ call'.dwCurrPt = 1
      /\ call'.Head = <<>> /\ call'.iHeadLen = Window /\ call' \in CallType
  <2>1. call' \in CallType
    BY <1>0, <1>s, IdleType
  <2> QED
    BY <1>0, <2>1 DEF Idle
<1>2. SameStream
  BY <1>0, <1>1 DEF SameStream
<1>3. call.str \in Seq(Byte) /\ Len(call.str) \in Nat /\ 1 <= Len(call.str)
      /\ Window \in Nat /\ 1 <= Window
  BY <1>0, SeqTypes, EmptySeq, KindsAssumption
<1>4. call.dwCurrPt = 1 /\ call.Head = <<>>
  <2>1. call = [Idle EXCEPT !.busy = "next", !.str = call.str]
    BY <1>0 DEF CallOK
  <2> QED
    BY <2>1 DEF Idle
<1>5. Real(call.str[1]) /\ First = call.str[1] /\ Now = First
  BY <1>0, <1>3, <1>4 DEF StreamOK, Run, First, Now, Pos
<1>6. ~ IsNul(call.str[1])
  <2>1. CASE program = "bdjob"
    <3>1. call.str[1][1] \in DOMAIN sent /\ call.str[1][2] \in Nat
          /\ call.str[1][2] <= Total(call.str[1][1])
      BY <1>5, <1>0, SuccFacts DEF Real
    <3>2. Total(call.str[1][1]) = Length[sent[call.str[1][1]]] /\ Total(call.str[1][1]) \in Nat
      BY <1>0, <2>1, <3>1, FrameFacts
    <3> QED
      BY <3>1, <3>2 DEF IsNul
  <2>2. CASE program # "bdjob"
    BY <1>0, <1>3, <2>2
  <2> QED
    BY <2>1, <2>2
<1>7. ~ NulFirst
  BY <1>5, <1>6 DEF NulFirst
<1>8. First' = First /\ OnWire' = OnWire
  BY <1>2, Same
<1>9. Now' = Now
  BY <1>1, <1>4, <1>8 DEF Now, Pos
<1>10. TypeOK'
  <2>1. Len(<<>>) < Window
    BY <1>3
  <2> QED
    BY <1>0, <1>1, <1>3, <2>1 DEF TypeOK
<1>11. CallOK'
  <2>1. ~ IsNul(call.str[1])'
    BY <1>0, <1>1, <1>6 DEF IsNul
  <2>2. 1 \in 1 .. Len(call.str) + 1 /\ Len(<<>>) = 0
    BY <1>3
  <2>3. call.str # <<>> /\ LastOf(call.str)[2] < Window => LastOf(call.str)[1] \in hurt'
    BY <1>0 DEF CallOK
  <2> QED
    BY <1>0, <1>1, <2>1, <2>2, <2>3 DEF CallOK, LastOf
<1>12. Joined'
  BY <1>0, <1>9 DEF Joined, LF, LastOf
<1>13. Mode'
  <2>1. CASE Starting
    <3>1. First = <<First[1], 1>> /\ First[2] = 1
      BY <1>0, <1>5, <1>7, <2>1, SuccFacts DEF Starting
    <3>2. \A i \in 1 .. 1 : Pos(call.str, OnWire, i) = <<First[1], i>>
      BY <1>3, <1>5, <3>1 DEF Pos
    <3>3. Starting'
      BY <1>0, <1>1, <1>3, <1>8, <2>1, <3>1, <3>2 DEF Starting, Pos
    <3> QED
      BY <3>3 DEF Mode
  <2>2. CASE Aligned
    <3>1. Aligned'
      BY <1>0, <1>8, <1>9, <2>2 DEF Aligned
    <3> QED
      BY <3>1 DEF Mode
  <2>3. CASE Spoilt
    BY <1>2, <2>3, Same DEF Spoilt, Mode
  <2> QED
    BY <1>0, <2>1, <2>2, <2>3 DEF Mode
<1> QED
  BY <1>2, <1>7, <1>10, <1>11, <1>12, <1>13, SameStep

LEMMA DoneStep ==
    ASSUME FInv, Done
    PROVE  FInv'
<1>0. /\ call.busy = "next" /\ call.str = <<>> /\ call' = Idle
      /\ UNCHANGED <<program, sent, wire, exp, given, hurt, fresh, gone, phase, early>>
      /\ TypeOK /\ StreamOK /\ CallOK /\ Joined /\ Mode
  BY DEF Done, FInv
<1>1. /\ call'.busy = "no" /\ call'.str = <<>> /\ call'.dwCurrPt = 1
      /\ call'.Head = <<>> /\ call'.iHeadLen = Window /\ call' \in CallType /\ Idle' = Idle
      /\ Window \in Nat /\ 1 <= Window
  BY <1>0, KindsAssumption DEF Idle, CallType
<1>2. SameStream
  BY <1>0, <1>1 DEF SameStream
<1>3. call.dwCurrPt = 1
  <2>1. call = [Idle EXCEPT !.busy = "next", !.str = call.str] /\ call.str \in Seq(Byte)
    BY <1>0, SeqTypes DEF CallOK
  <2> QED
    BY <2>1 DEF Idle
<1>4. First' = First /\ OnWire' = OnWire
  BY <1>2, Same
<1>5. Now' = Now
  BY <1>0, <1>1, <1>3, <1>4 DEF Now, Pos
<1>6. TypeOK'
  <2>1. Len(<<>>) < Window
    BY <1>1
  <2> QED
    BY <1>0, <1>1, <2>1 DEF TypeOK
<1>7. CallOK'
  <2>1. 1 \in 1 .. Len(<<>>) + 1 /\ Len(<<>>) = 0
    OBVIOUS
  <2> QED
    BY <1>0, <1>1, <2>1 DEF CallOK
<1>8. Joined'
  BY <1>0, <1>5 DEF Joined, LF, LastOf
<1>9. Mode'
  <2>1. CASE Starting
    <3>1. Starting'
      BY <1>0, <1>1, <1>2, <1>4, <2>1, Same DEF Starting
    <3> QED
      BY <3>1 DEF Mode
  <2>2. CASE Aligned
    <3>1. Aligned'
      BY <1>0, <1>4, <1>5, <2>2 DEF Aligned
    <3> QED
      BY <3>1 DEF Mode
  <2>3. CASE Spoilt
    BY <1>2, <2>3, Same DEF Spoilt, Mode
  <2> QED
    BY <1>0, <2>1, <2>2, <2>3 DEF Mode
<1> QED
  BY <1>0, <1>2, <1>6, <1>7, <1>8, <1>9, SameStep

(* t is s without its first k bytes; without what follows them.            *)
IsSuffix(s, e, k, t) ==
    /\ t \in Seq(Byte) /\ Len(t) = Len(s) - k /\ Len(t) \in Nat
    /\ \A i \in 1 .. Len(t) + 1 : Pos(t, e, i) = Pos(s, e, k + i)
    /\ \A i \in 1 .. Len(t) : t[i] = s[k + i]
    /\ Run(t, e)

IsPrefix(s, e, k, t) ==
    /\ t \in Seq(Byte) /\ Len(t) = k
    /\ \A i \in 1 .. k + 1 : Pos(t, Pos(s, e, k + 1), i) = Pos(s, e, i)
    /\ \A i \in 1 .. k : t[i] = s[i]
    /\ Run(t, Pos(s, e, k + 1))

(* What is left of a piece of the stream is one, and so is what is cut off *)
(* its end.                                                                *)
LEMMA Suffix ==
    ASSUME NEW s \in Seq(Byte), NEW e, NEW k \in Nat, k <= Len(s), Run(s, e),
           NEW t, t = SubSeq(s, k + 1, Len(s))
    PROVE  IsSuffix(s, e, k, t)
<1>0. Len(s) \in Nat /\ \A i \in 1 .. Len(s) : s[i] \in Byte
  OBVIOUS
<1>p. PICK p : p = k + 1
  OBVIOUS
<1>q. PICK q : q = Len(s)
  OBVIOUS
<1>n. p \in Nat /\ q \in Nat /\ 1 <= p /\ p <= q + 1 /\ t = SubSeq(s, p, q)
  BY <1>0, <1>p, <1>q
<1>1. /\ t \in Seq(Byte)
      /\ Len(t) = IF p <= q THEN q - p + 1 ELSE 0
      /\ \A i \in 1 .. q - p + 1 : t[i] = s[p + i - 1]
  <2>1. \A i \in p .. q : s[i] \in Byte
    BY <1>0, <1>n, <1>q
  <2> QED
    BY <1>n, <2>1, SubSeqProperties
<1>2. Len(t) = q - k /\ Len(t) \in Nat
  BY <1>0, <1>1, <1>n, <1>p, <1>q
<1>l. PICK l : l = Len(t)
  OBVIOUS
<1>m. l \in Nat /\ l = q - k /\ q - p + 1 = l
  BY <1>2, <1>l, <1>p, <1>n
<1>3. ASSUME NEW i \in 1 .. l PROVE t[i] = s[k + i] /\ k + i \in 1 .. q
  <2>1. p + i - 1 = k + i /\ i \in 1 .. q - p + 1
    BY <1>m, <1>p
  <2>2. k + i \in 1 .. q
    BY <1>m, <1>n
  <2> QED
    BY <1>1, <2>1, <2>2
<1>4. ASSUME NEW i \in 1 .. l + 1 PROVE Pos(t, e, i) = Pos(s, e, k + i)
  <2>1. CASE i <= l
    <3>1. i \in 1 .. l /\ k + i <= q
      BY <1>m, <1>n, <2>1
    <3> QED
      BY <1>3, <1>l, <1>q, <2>1, <3>1 DEF Pos
  <2>2. CASE ~ (i <= l)
    <3>1. ~ (k + i <= q)
      BY <1>m, <1>n, <2>2
    <3> QED
      BY <1>l, <1>q, <2>2, <3>1 DEF Pos
  <2> QED
    BY <2>1, <2>2
<1>5. Run(t, e)
  <2>1. ASSUME NEW i \in 1 .. l PROVE Real(t[i]) /\ Pos(t, e, i + 1) = Succ(t[i])
    <3>1. t[i] = s[k + i] /\ k + i \in 1 .. q
      BY <1>3
    <3>2. i + 1 \in 1 .. l + 1 /\ k + (i + 1) = (k + i) + 1
      BY <1>m
    <3>3. Pos(t, e, i + 1) = Pos(s, e, (k + i) + 1)
      BY <1>4, <3>2
    <3> QED
      BY <1>q, <3>1, <3>3 DEF Run
  <2> QED
    BY <1>l, <2>1 DEF Run
<1> QED
  BY <1>1, <1>2, <1>3, <1>4, <1>5, <1>l, <1>q DEF IsSuffix

LEMMA Prefix ==
    ASSUME NEW s \in Seq(Byte), NEW e, NEW k \in Nat, k <= Len(s), Run(s, e),
           NEW t, t = SubSeq(s, 1, k)
    PROVE  IsPrefix(s, e, k, t)
<1>g. PICK g : g = Pos(s, e, k + 1)
  OBVIOUS
<1>0. Len(s) \in Nat /\ \A i \in 1 .. Len(s) : s[i] \in Byte
  OBVIOUS
<1>1. t \in Seq(Byte) /\ Len(t) = k /\ \A i \in 1 .. k : t[i] = s[i]
  <2>1. \A i \in 1 .. k : s[i] \in Byte
    BY <1>0
  <2>2. /\ t \in Seq(Byte)
        /\ Len(t) = IF 1 <= k THEN k - 1 + 1 ELSE 0
        /\ \A i \in 1 .. k - 1 + 1 : t[i] = s[1 + i - 1]
    BY <2>1, SubSeqProperties
  <2> QED
    BY <2>2
<1>2. ASSUME NEW i \in 1 .. k + 1 PROVE Pos(t, g, i) = Pos(s, e, i)
  <2>1. CASE i <= k
    BY <1>0, <1>1, <2>1 DEF Pos
  <2>2. CASE ~ (i <= k)
    <3>1. i = k + 1
      BY <2>2
    <3> QED
      BY <1>1, <1>g, <2>2, <3>1 DEF Pos
  <2> QED
    BY <2>1, <2>2
<1>3. Run(t, g)
  <2>1. ASSUME NEW i \in 1 .. k PROVE Real(t[i]) /\ Pos(t, g, i + 1) = Succ(t[i])
    <3>1. t[i] = s[i] /\ i \in 1 .. Len(s) /\ i + 1 \in 1 .. k + 1
      BY <1>0, <1>1
    <3>2. Pos(t, g, i + 1) = Pos(s, e, i + 1)
      BY <1>2, <3>1
    <3> QED
      BY <3>1, <3>2 DEF Run
  <2> QED
    BY <1>1, <2>1 DEF Run
<1> QED
  BY <1>1, <1>2, <1>3, <1>g DEF IsPrefix

-----------------------------------------------------------------------------
(* The steps that take bytes from the read.                                *)

LEMMA Advance ==
    ASSUME FInv, UNCHANGED <<program, sent, wire, hurt, fresh, gone, early>>,
           phase' \in {phase, "open"}, NEW k \in 1 .. Len(call.str),
           call'.str = SubSeq(call.str, k + 1, Len(call.str))
    PROVE  /\ OnWire' = OnWire /\ First' = Pos(call.str, OnWire, k + 1) /\ Place(First')
           /\ First[1] \in Nat /\ First[2] \in Nat /\ First'[1] \in Nat /\ First'[2] \in Nat
           /\ First[1] <= First'[1] /\ Before(First, First')
           /\ NulFirst => First[1] < First'[1]
           /\ StreamOK' /\ PhaseOK' /\ GoneOK' /\ FreshOK'
           /\ call'.str # <<>> => LastOf(call'.str) = LastOf(call.str)
<1>0. /\ TypeOK /\ StreamOK /\ GoneOK /\ FreshOK /\ call.str \in Seq(Byte) /\ Len(call.str) \in Nat
      /\ k \in Nat /\ 1 <= k /\ k <= Len(call.str) /\ Run(call.str, OnWire)
      /\ k + 1 \in 1 .. Len(call.str) + 1
  BY SeqTypes DEF FInv, StreamOK
<1>e. PICK e : e = OnWire
  OBVIOUS
<1>t. PICK t : t = call'.str
  OBVIOUS
<1>1. /\ t \in Seq(Byte) /\ Len(t) = Len(call.str) - k /\ Len(t) \in Nat
      /\ \A i \in 1 .. Len(t) + 1 : Pos(t, e, i) = Pos(call.str, e, k + i)
      /\ \A i \in 1 .. Len(t) : t[i] = call.str[k + i]
      /\ Run(t, e)
  <2>1. PICK s : s = call.str
    OBVIOUS
  <2>2. s \in Seq(Byte) /\ k \in Nat /\ k <= Len(s) /\ Run(s, e) /\ t = SubSeq(s, k + 1, Len(s))
    BY <1>0, <1>e, <1>t, <2>1
  <2>3. IsSuffix(s, e, k, t)
    BY <2>2, Suffix
  <2> QED
    BY <2>1, <2>3 DEF IsSuffix
<1>2. OnWire' = OnWire
  BY DEF OnWire, Pos, NextSent
<1>3. First' = Pos(call.str, OnWire, k + 1)
  <2>1. 1 \in 1 .. Len(t) + 1
    BY <1>1
  <2>2. Pos(t, e, 1) = Pos(call.str, e, k + 1)
    BY <1>1, <2>1
  <2> QED
    BY <1>2, <1>e, <1>t, <2>2 DEF First, Pos
<1>4. Place(First) /\ Place(First')
  BY <1>0, <1>3, Places
<1>5. /\ First[1] \in Nat /\ First[2] \in Nat /\ First'[1] \in Nat /\ First'[2] \in Nat
      /\ First'[1] \in DOMAIN sent => Real(First')
  BY <1>0, <1>4, PlaceFacts
<1>6. Before(First, First')
  <2>1. 1 < k + 1 /\ 1 \in 1 .. Len(call.str) + 1
    BY <1>0
  <2> QED
    BY <1>0, <1>3, <2>1, Order DEF First
<1>7. First[1] <= First'[1]
  BY <1>5, <1>6 DEF Before
<1>8. ASSUME NulFirst PROVE First[1] < First'[1]
  <2>1. SUFFICES ASSUME First'[1] = First[1] PROVE FALSE
    BY <1>5, <1>7
  <2>2. First[2] < First'[2]
    BY <1>5, <1>6, <2>1 DEF Before
  <2>3. First[1] \in DOMAIN sent /\ First[2] > Length[sent[First[1]]]
    BY <1>8 DEF NulFirst, IsNul
  <2>4. First'[2] <= Total(First[1])
    BY <1>5, <2>1, <2>3 DEF Real
  <2>5. Total(First[1]) <= Length[sent[First[1]]] + 1 /\ Total(First[1]) \in Nat
        /\ Length[sent[First[1]]] \in Nat
    BY <1>0, <2>3, FrameFacts
  <2> QED
    BY <1>5, <2>2, <2>3, <2>4, <2>5
<1>9. StreamOK'
  <2>1. Run(wire, NextSent) /\ NextSent' = NextSent /\ Run(call'.str, OnWire')
    BY <1>0, <1>1, <1>2, <1>e, <1>t DEF StreamOK, NextSent
  <2>2. \A b : (Real(b)' <=> Real(b)) /\ Succ(b)' = Succ(b)
    BY DEF Real, Succ, Total
  <2> QED
    BY <2>1, <2>2 DEF StreamOK, Run, Pos
<1>10. GoneOK'
  <2>1. ASSUME NEW f \in gone PROVE f < First'[1]
    <3>1. f \in Nat /\ f < First[1]
      BY <1>0 DEF GoneOK, TypeOK, Frames
    <3> QED
      BY <1>5, <1>7, <3>1
  <2> QED
    BY <2>1 DEF GoneOK
<1>11. FreshOK'
  <2>1. ASSUME NEW f \in fresh PROVE f <= First'[1]
    <3>1. f \in Nat
      BY <1>0 DEF TypeOK, Frames
    <3>2. f <= First[1] \/ (NulFirst /\ f = First[1] + 1)
      BY <1>0 DEF FreshOK
    <3> QED
      BY <1>5, <1>7, <1>8, <3>1, <3>2
  <2> QED
    BY <2>1 DEF FreshOK
<1>12. ASSUME t # <<>> PROVE LastOf(t) = LastOf(call.str)
  <2>1. 1 <= Len(t)
    BY <1>1, <1>12, EmptySeq
  <2>2. PICK l : l = Len(t)
    OBVIOUS
  <2>3. l \in 1 .. Len(t) /\ k + l = Len(call.str)
    BY <1>0, <1>1, <2>1, <2>2
  <2> QED
    BY <1>1, <2>2, <2>3 DEF LastOf
<1>13. PhaseOK'
  <2>0. PhaseOK /\ 1 <= First[2]
    BY <1>0, <1>4, PlaceFacts DEF FInv
  <2>1. phase # "connected" /\ phase' # "connected"
    <3>1. call.str # <<>>
      BY <1>0
    <3> QED
      BY <2>0, <3>1 DEF PhaseOK
  <2>2. ASSUME NEW f \in DOMAIN sent, sent[f] \in Opening PROVE f <= First[1] /\ f <= First'[1]
    <3>1. f <= First[1] /\ f \in Nat
      BY <1>0, <2>0, <2>2, FrameFacts DEF PhaseOK
    <3> QED
      BY <1>5, <1>7, <3>1
  <2>3. ASSUME First'[1] \in DOMAIN sent, First'[2] = 1, sent[First'[1]] \in Opening PROVE FALSE
    <3>1. First'[1] <= First[1]
      BY <2>2, <2>3
    <3> QED
      BY <1>5, <1>6, <1>7, <2>0, <2>3, <3>1 DEF Before
  <2>4. ASSUME Unopened', NEW i \in DOMAIN t
        PROVE  sent[t[i][1]] \in Opening \/ t[i][1] \in early
    <3>1. phase' = phase /\ Unopened
      BY <2>4 DEF Unopened
    <3>2. i \in 1 .. Len(t)
      BY <1>1
    <3>3. t[i] = call.str[k + i]
      BY <1>1, <3>2
    <3>4. k + i \in 1 .. Len(call.str)
      BY <1>0, <1>1, <3>2
    <3>5. k + i \in DOMAIN call.str
      BY <1>0, <3>4
    <3> QED
      BY <2>0, <3>1, <3>3, <3>5 DEF PhaseOK
  <2> QED
    BY <1>t, <2>1, <2>2, <2>3, <2>4 DEF PhaseOK
<1> QED
  BY <1>2, <1>3, <1>4, <1>5, <1>6, <1>7, <1>8, <1>9, <1>10, <1>11, <1>12, <1>13, <1>t

(* What a line end that came before is, comes before what is behind.       *)
LEMMA LinesAdvance ==
    ASSUME TypeOK, StreamOK, LinesOK, UNCHANGED sent, Before(First, First'),
           First'[1] \in Nat, First'[2] \in Nat, NEW n \in DOMAIN given
    PROVE  /\ given[n] # <<>> /\ LineEnd(LastOf(given[n])) /\ Before(LastOf(given[n]), First')
           /\ LastOf(given[n])[1] \in Nat /\ LastOf(given[n])[2] \in Nat
           /\ LastOf(given[n])[1] \in DOMAIN sent
<1>1. /\ given[n] # <<>> /\ LineEnd(LastOf(given[n])) /\ Before(LastOf(given[n]), First)
  BY DEF LinesOK
<1>2. /\ LastOf(given[n])[1] \in DOMAIN sent
      /\ LastOf(given[n])[2] = Length[sent[LastOf(given[n])[1]]]
  BY <1>1 DEF LineEnd, LF
<1>3. LastOf(given[n])[1] \in Nat /\ LastOf(given[n])[2] \in Nat
  BY <1>2, FrameFacts
<1>4. First[1] \in Nat /\ First[2] \in Nat
  BY Places, PlaceFacts
<1> QED
  BY <1>1, <1>2, <1>3, <1>4, BeforeTransitive

LEMMA SkipNulStep ==
    ASSUME FInv, SkipNul
    PROVE  FInv'
<1>0. /\ call.busy = "next" /\ call.str # <<>> /\ IsNul(Head(call.str)) /\ program # "bdjob"
      /\ call' = [call EXCEPT !.str = Tail(call.str)]
      /\ UNCHANGED <<program, sent, wire, exp, given, hurt, fresh, gone, phase, early>>
      /\ TypeOK /\ StreamOK /\ CallOK /\ LinesOK /\ OncePerLine /\ Mode /\ Accounted
      /\ call \in CallType
  BY DEF SkipNul, FInv, TypeOK
<1>1. /\ call.str \in Seq(Byte) /\ Len(call.str) \in Nat /\ 1 <= Len(call.str)
      /\ Tail(call.str) = SubSeq(call.str, 2, Len(call.str)) /\ Tail(call.str) \in Seq(Byte)
  BY <1>0, SeqTypes, EmptySeq
<1>2. /\ call = [Idle EXCEPT !.busy = "next", !.str = call.str]
      /\ call' = [Idle EXCEPT !.busy = "next", !.str = Tail(call.str)]
      /\ call'.busy = "next" /\ call'.str = Tail(call.str) /\ call'.dwCurrPt = 1
      /\ call'.Head = <<>> /\ call'.iHeadLen = Window
      /\ call.dwCurrPt = 1
  BY <1>0 DEF CallOK, Idle
<1>3. /\ First = call.str[1] /\ Real(First) /\ IsNul(First) /\ Now = First
      /\ Pos(call.str, OnWire, 2) = Succ(First)
  BY <1>0, <1>1, <1>2 DEF First, Now, Pos, StreamOK, Run
<1>4. 1 \in 1 .. Len(call.str) /\ call'.str = SubSeq(call.str, 1 + 1, Len(call.str))
  BY <1>1, <1>2
<1>5. /\ OnWire' = OnWire /\ First' = Succ(First)
      /\ First[1] \in Nat /\ First[2] \in Nat /\ First'[1] \in Nat /\ First'[2] \in Nat
      /\ First[1] <= First'[1] /\ Before(First, First')
      /\ StreamOK' /\ PhaseOK' /\ GoneOK' /\ FreshOK'
      /\ call'.str # <<>> => LastOf(call'.str) = LastOf(call.str)
  <2>1. UNCHANGED <<program, sent, wire, hurt, fresh, gone, early>> /\ phase' \in {phase, "open"}
    BY <1>0
  <2> QED
    BY <1>3, <1>4, <2>1, Advance
<1>y. PICK y : y = First[1]
  OBVIOUS
<1>6. /\ y \in DOMAIN sent /\ y \in Nat /\ First[2] > Length[sent[y]]
      /\ Length[sent[y]] \in Nat /\ First' = <<y + 1, 1>>
  <2>1. y \in DOMAIN sent /\ First[2] <= Total(y) /\ First[2] > Length[sent[y]]
    BY <1>3, <1>y DEF Real, IsNul
  <2>2. Total(y) <= Length[sent[y]] + 1 /\ Total(y) \in Nat /\ Length[sent[y]] \in Nat
    BY <1>0, <2>1, FrameFacts
  <2>3. ~ (First[2] < Total(y))
    BY <1>5, <2>1, <2>2
  <2> QED
    BY <1>5, <1>y, <2>1, <2>2, <2>3 DEF Succ
<1>7. exp.searchstatus = "null"
  <2>1. CASE Starting
    BY <2>1 DEF Starting
  <2>2. CASE Aligned
    <3>1. First[2] = Len(exp.frame) + 1 /\ Len(exp.frame) < Length[sent[y]]
      BY <1>3, <1>y, <2>2 DEF Aligned
    <3>2. Len(exp.frame) \in Nat
      BY <1>0, SeqTypes
    <3> QED
      BY <1>5, <1>6, <3>1, <3>2
  <2>3. CASE Spoilt
    BY <1>3, <1>6, <1>y, <2>3 DEF Spoilt, NulFirst
  <2> QED
    BY <1>0, <2>1, <2>2, <2>3 DEF Mode
<1>8. TypeOK'
  <2>1. call' \in CallType
    BY <1>0, <1>1 DEF CallType
  <2>2. Len(<<>>) < Window /\ Window \in Nat
    BY KindsAssumption
  <2> QED
    BY <1>0, <1>2, <2>1, <2>2 DEF TypeOK
<1>9. CallOK'
  <2>1. Len(Tail(call.str)) \in Nat
    BY <1>1
  <2>2. 1 \in 1 .. Len(Tail(call.str)) + 1 /\ Len(<<>>) = 0
    BY <2>1
  <2>3. call'.str # <<>> /\ LastOf(call'.str)[2] < Window => LastOf(call'.str)[1] \in hurt'
    BY <1>0, <1>5 DEF CallOK
  <2>4. Idle' = Idle /\ call' = [Idle EXCEPT !.busy = "next", !.str = call'.str]
    BY <1>2 DEF Idle
  <2> QED
    BY <1>0, <1>2, <1>7, <2>2, <2>3, <2>4 DEF CallOK, LastOf
<1>10. LinesOK'
  <2>1. ASSUME NEW n \in DOMAIN given
        PROVE  given[n] # <<>> /\ LineEnd(LastOf(given[n])) /\ Before(LastOf(given[n]), First')
    BY <1>0, <1>5, LinesAdvance
  <2> QED
    BY <1>0, <2>1 DEF LinesOK, LineEnd, LF, LastOf, Before
<1>11. OncePerLine'
  BY <1>0 DEF OncePerLine
<1>12. Joined' /\ Mode'
  <2>1. Starting'
    BY <1>0, <1>2, <1>6, <1>7 DEF Starting
  <2> QED
    BY <1>0, <1>7, <2>1 DEF Joined, Mode
<1>13. Accounted'
  <2>1. ASSUME NEW f \in (DOMAIN sent) \ gone, Before(<<f, Length[sent[f]]>>, First')
        PROVE  Given(f) \/ Bad(f)
    <3>1. f \in Nat /\ Length[sent[f]] \in Nat /\ 1 < Length[sent[f]]
      BY <1>0, FrameFacts
    <3>2. f < y + 1
      BY <1>6, <2>1, <3>1 DEF Before
    <3>3. Before(<<f, Length[sent[f]]>>, First)
      BY <1>5, <1>6, <1>y, <3>1, <3>2 DEF Before
    <3> QED
      BY <1>0, <3>3 DEF Accounted, Passed
  <2>2. \A f : (Given(f)' <=> Given(f)) /\ (Bad(f)' <=> Bad(f))
    BY <1>0 DEF Given, Whole, Bad, Excused, Unknown, TooLong
  <2> QED
    BY <1>0, <2>1, <2>2 DEF Accounted, Passed, Before
<1> QED
  BY <1>5, <1>8, <1>9, <1>10, <1>11, <1>12, <1>13 DEF FInv

LEMMA WholeFacts ==
    ASSUME TypeOK, NEW f \in DOMAIN sent
    PROVE  /\ Len(Whole(f)) = Length[sent[f]] /\ LastOf(Whole(f)) = <<f, Length[sent[f]]>>
           /\ \A q : /\ q \in Seq(Byte) /\ Len(q) = Length[sent[f]]
                     /\ \A i \in 1 .. Length[sent[f]] : q[i] = <<f, i>>
                     => q = Whole(f)
<1>1. Length[sent[f]] \in Nat /\ 1 <= Length[sent[f]]
  BY FrameFacts
<1>n. PICK n : n = Length[sent[f]]
  OBVIOUS
<1>2. Whole(f) = [i \in 1 .. n |-> <<f, i>>]
  BY <1>n DEF Whole
<1>3. Len(Whole(f)) = n /\ Whole(f)[n] = <<f, n>>
  BY <1>1, <1>2, <1>n
<1>4. ASSUME NEW q, q \in Seq(Byte), Len(q) = n, \A i \in 1 .. n : q[i] = <<f, i>>
      PROVE  q = Whole(f)
  <2>1. q = [i \in 1 .. n |-> q[i]]
    BY <1>1, <1>n, <1>4
  <2> QED
    BY <1>2, <1>4, <2>1
<1> QED
  BY <1>3, <1>4, <1>n DEF LastOf

(* A frame that a search comes to from within an earlier one did not begin *)
(* its read, and follows one that explain() has not been given.            *)
LEMMA Passing ==
    ASSUME FInv, call.busy = "search", NEW f \in DOMAIN sent, First[1] < f
    PROVE  Excused(f)
<1>0. /\ TypeOK /\ StreamOK /\ FreshOK /\ GoneOK /\ LinesOK
      /\ First[1] \in DOMAIN sent /\ ~ NulFirst /\ Real(First)
  BY SearchFacts DEF FInv
<1>1. /\ f \in Nat /\ f <= Len(sent) /\ First[1] \in Nat /\ 1 <= First[1] /\ First[2] \in Nat
      /\ Len(sent) \in Nat /\ DOMAIN sent = 1 .. Len(sent)
  BY <1>0, FrameFacts, SuccFacts, SeqTypes
<1>2. f \notin fresh
  BY <1>0, <1>1 DEF FreshOK
<1>g. PICK g : g = f - 1
  OBVIOUS
<1>3. g \in DOMAIN sent /\ g \in Nat /\ First[1] <= g
  BY <1>1, <1>g
<1>4. g \notin gone
  BY <1>0, <1>1, <1>3 DEF GoneOK
<1>5. ASSUME NEW n \in DOMAIN given, given[n] = Whole(g) PROVE FALSE
  <2>1. LastOf(given[n]) = <<g, Length[sent[g]]>> /\ Length[sent[g]] \in Nat
    BY <1>0, <1>3, <1>5, WholeFacts, FrameFacts
  <2>2. Before(<<g, Length[sent[g]]>>, First)
    BY <1>0, <2>1 DEF LinesOK
  <2>3. First[1] = g /\ Length[sent[g]] < First[2]
    BY <1>1, <1>3, <2>1, <2>2 DEF Before
  <2> QED
    BY <1>0, <1>1, <2>1, <2>3 DEF NulFirst, IsNul
<1> QED
  BY <1>2, <1>3, <1>4, <1>5, <1>g DEF Excused, Given

LEMMA ExhaustedStep ==
    ASSUME FInv, Exhausted
    PROVE  FInv'
<1>y. PICK y : y = First[1]
  OBVIOUS
<1>z. PICK z : z = OnWire
  OBVIOUS
<1>l. PICK l : l = Len(call.str)
  OBVIOUS
<1>0. /\ call.busy = "search" /\ call.dwCurrPt > l /\ call' = Idle
      /\ UNCHANGED <<program, sent, wire, exp, given, hurt, fresh, gone, phase, early>>
      /\ TypeOK /\ StreamOK /\ CallOK /\ LinesOK /\ OncePerLine /\ Mode /\ Accounted /\ Joined
      /\ exp.searchstatus \in {"null", "identifier"}
  BY <1>l DEF Exhausted, FInv, TypeOK, ExpType
<1>1. /\ call'.busy = "no" /\ call'.str = <<>> /\ call'.dwCurrPt = 1
      /\ call'.Head = <<>> /\ call'.iHeadLen = Window /\ call' \in CallType /\ Idle' = Idle
      /\ Window \in Nat /\ 1 <= Window
  BY <1>0, KindsAssumption DEF Idle, CallType
<1>2. /\ l \in Nat /\ 1 <= l /\ call.dwCurrPt = l + 1 /\ call.str \in Seq(Byte)
      /\ call.str # <<>> /\ DOMAIN call.str = 1 .. l
  BY <1>0, <1>l, SearchFacts, SeqTypes DEF CallOK
<1>3. /\ y \in DOMAIN sent /\ ~ NulFirst /\ Real(First) /\ First = call.str[1]
      /\ y \in Nat /\ Length[sent[y]] \in Nat /\ Window < Length[sent[y]]
      /\ y = First[1]
  BY <1>0, <1>y, SearchFacts, FrameFacts
<1>4. l \in 1 .. Len(call.str) /\ call'.str = SubSeq(call.str, l + 1, Len(call.str))
  <2>1. SubSeq(call.str, l + 1, Len(call.str)) = <<>>
    BY <1>2, <1>l
  <2>2. l \in 1 .. Len(call.str)
    BY <1>2, <1>l
  <2>3. call'.str = <<>>
    BY <1>1
  <2> QED
    BY <2>1, <2>2, <2>3
<1>5. Pos(call.str, OnWire, l + 1) = z /\ Now = z
  BY <1>2, <1>l, <1>z DEF Pos, Now
<1>6. /\ First' = z /\ OnWire' = z /\ Place(First')
      /\ First[1] \in Nat /\ First[2] \in Nat /\ First'[1] \in Nat /\ First'[2] \in Nat
      /\ First[1] <= First'[1] /\ Before(First, First')
      /\ StreamOK' /\ PhaseOK' /\ GoneOK' /\ FreshOK'
  <2>1. UNCHANGED <<program, sent, wire, hurt, fresh, gone, early>> /\ phase' \in {phase, "open"}
    BY <1>0
  <2> QED
    BY <1>4, <1>5, <1>z, <2>1, Advance
<1>7. Place(z) /\ z[1] \in Nat /\ z[2] \in Nat /\ y <= z[1] /\ z = <<z[1], z[2]>>
      /\ Before(First, z)
  BY <1>0, <1>3, <1>6, <1>z, Places, PlaceFacts
<1>8. \A f \in DOMAIN sent : y < f => Bad(f)
  BY <1>0, <1>3, Passing DEF Bad
<1>9. Now' = z
  BY <1>1, <1>6 DEF Now, Pos
<1>10. TypeOK'
  <2>1. Len(<<>>) < Window
    BY <1>1
  <2> QED
    BY <1>0, <1>1, <2>1 DEF TypeOK
<1>11. CallOK'
  <2>1. 1 \in 1 .. Len(<<>>) + 1 /\ Len(<<>>) = 0
    OBVIOUS
  <2> QED
    BY <1>0, <1>1, <2>1 DEF CallOK
<1>12. LinesOK'
  <2>1. ASSUME NEW n \in DOMAIN given
        PROVE  given[n] # <<>> /\ LineEnd(LastOf(given[n])) /\ Before(LastOf(given[n]), First')
    BY <1>0, <1>6, LinesAdvance
  <2> QED
    BY <1>0, <2>1 DEF LinesOK, LineEnd, LF, LastOf, Before
<1>13. OncePerLine'
  BY <1>0 DEF OncePerLine
<1>j. exp.searchstatus = "identifier" =>
          \/ z[1] \in DOMAIN sent /\ 2 <= z[2] /\ z[2] <= Length[sent[z[1]]]
          \/ z[2] = 1 /\ z[1] \in hurt
  <2>1. ASSUME NEW p \in DOMAIN call.str, call.dwCurrPt <= p PROVE FALSE
    BY <1>2, <2>1
  <2> QED
    BY <1>0, <1>5, <2>1 DEF Joined
<1>14. Joined'
  <2>1. ASSUME NEW p \in DOMAIN call.str, call.dwCurrPt <= p PROVE FALSE
    BY <1>2, <2>1
  <2> QED
    BY <1>0, <1>5, <1>9, <2>1 DEF Joined, LF, LastOf
<1>b. \A f : (Given(f)' <=> Given(f)) /\ (Bad(f)' <=> Bad(f))
  BY <1>0 DEF Given, Whole, Bad, Excused, Unknown, TooLong
<1>n. NulFirst' <=> z[1] \in DOMAIN sent /\ z[2] > Length[sent[z[1]]]
  BY <1>0, <1>6 DEF NulFirst, IsNul
<1>15. Mode' /\ Accounted'
  <2>1. CASE Starting
    <3>1. /\ exp.searchstatus = "null" /\ First[2] = 1 /\ l + 1 <= Window
          /\ \A i \in 1 .. l + 1 : Pos(call.str, OnWire, i) = <<y, i>>
      BY <1>0, <1>2, <1>3, <2>1 DEF Starting
    <3>2. z = <<y, l + 1>>
      BY <1>2, <1>5, <3>1
    <3>3. LastOf(call.str) = <<y, l>>
      <4>1. l \in 1 .. l + 1
        BY <1>2
      <4>2. Pos(call.str, OnWire, l) = <<y, l>>
        BY <3>1, <4>1
      <4> QED
        BY <1>2, <1>l, <4>2 DEF LastOf, Pos
    <3>4. y \in hurt
      <4>1. LastOf(call.str)[2] < Window /\ LastOf(call.str)[1] = y
        BY <1>1, <1>2, <3>1, <3>3
      <4> QED
        BY <1>0, <1>2, <4>1 DEF CallOK
    <3>5. z[1] = y /\ z[2] <= Length[sent[y]]
      BY <1>1, <1>2, <1>3, <3>1, <3>2
    <3>6. ~ NulFirst'
      BY <1>3, <1>7, <1>n, <3>5
    <3>7. Mode'
      BY <1>0, <1>6, <3>4, <3>5, <3>6 DEF Mode, Spoilt, Bad
    <3>8. ASSUME NEW f \in (DOMAIN sent) \ gone, Before(<<f, Length[sent[f]]>>, z)
          PROVE  Given(f) \/ Bad(f)
      <4>1. f \in Nat /\ Length[sent[f]] \in Nat
        BY <1>0, FrameFacts
      <4>2. f < y
        BY <1>3, <1>7, <3>5, <3>8, <4>1 DEF Before
      <4>3. Passed(f)
        BY <1>3, <4>2 DEF Passed, Before
      <4> QED
        BY <1>0, <4>3 DEF Accounted
    <3>9. Accounted'
      BY <1>0, <1>6, <1>b, <3>8 DEF Accounted, Passed, Before
    <3> QED
      BY <3>7, <3>9
  <2>2. CASE Aligned
    <3>1. /\ z = <<y, Len(exp.frame) + 1>> /\ Len(exp.frame) < Length[sent[y]]
          /\ Len(exp.frame) \in Nat
      BY <1>0, <1>3, <1>5, <2>2, SeqTypes DEF Aligned
    <3>2. z[1] = y /\ z[2] <= Length[sent[y]]
      BY <1>3, <3>1
    <3>3. Aligned'
      BY <1>0, <1>3, <1>5, <1>6, <1>9, <2>2, <3>2 DEF Aligned
    <3>4. ASSUME NEW f \in (DOMAIN sent) \ gone, Before(<<f, Length[sent[f]]>>, z)
          PROVE  Given(f) \/ Bad(f)
      <4>1. f \in Nat /\ Length[sent[f]] \in Nat
        BY <1>0, FrameFacts
      <4>2. f < y
        BY <1>3, <1>7, <3>2, <3>4, <4>1 DEF Before
      <4>3. Passed(f)
        BY <1>3, <4>2 DEF Passed, Before
      <4> QED
        BY <1>0, <4>3 DEF Accounted
    <3>5. Accounted'
      BY <1>0, <1>6, <1>b, <3>4 DEF Accounted, Passed, Before
    <3> QED
      BY <3>3, <3>5 DEF Mode
  <2>3. CASE Spoilt
    <3>1. \A f \in DOMAIN sent : y <= f => Bad(f)
      <4>1. ASSUME NEW f \in DOMAIN sent, y <= f PROVE Bad(f)
        <5>1. f \in Nat
          BY <1>0, FrameFacts
        <5> QED
          BY <1>3, <1>8, <2>3, <4>1, <5>1 DEF Spoilt
      <4> QED
        BY <4>1
    <3>2. ASSUME NEW f \in (DOMAIN sent) \ gone
          PROVE  Passed(f) \/ Bad(f)
      <4>1. f \in Nat
        BY <1>0, FrameFacts
      <4>2. CASE f < y
        BY <1>3, <4>2 DEF Passed, Before
      <4> QED
        BY <1>3, <3>1, <4>1, <4>2
    <3>3. Accounted'
      BY <1>0, <1>b, <3>2 DEF Accounted, Passed
    <3>4. Mode'
      <4>1. CASE z[1] \in DOMAIN sent /\ z[2] > Length[sent[z[1]]]
        <5>1. exp.searchstatus = "null"
          <6>1. Length[sent[z[1]]] \in Nat /\ 1 < Length[sent[z[1]]]
            BY <1>0, <4>1, FrameFacts
          <6>2. ~ (z[2] <= Length[sent[z[1]]]) /\ z[2] # 1
            BY <1>7, <4>1, <6>1
          <6> QED
            BY <1>0, <1>j, <6>2
        <5>2. Starting'
          BY <1>0, <1>1, <1>n, <4>1, <5>1 DEF Starting
        <5> QED
          BY <5>2 DEF Mode
      <4>2. CASE z[1] \in DOMAIN sent /\ ~ (z[2] > Length[sent[z[1]]])
        <5>1. Bad(z[1]) /\ ~ NulFirst'
          BY <1>7, <1>n, <3>1, <4>2
        <5> QED
          BY <1>6, <1>b, <5>1 DEF Mode, Spoilt
      <4>3. CASE z[1] \notin DOMAIN sent
        <5>1. z = NextSent /\ z[2] = 1
          BY <1>0, <1>7, <4>3, PlaceFacts DEF NextSent
        <5>2. CASE exp.searchstatus = "null"
          <6>1. Starting'
            BY <1>0, <1>1, <1>6, <5>1, <5>2 DEF Starting
          <6> QED
            BY <6>1 DEF Mode
        <5>3. CASE exp.searchstatus = "identifier"
          <6>1. z[1] \in hurt
            BY <1>j, <4>3, <5>3
          <6> QED
            BY <1>0, <1>6, <1>n, <4>3, <6>1 DEF Mode, Spoilt, Bad
        <5> QED
          BY <1>0, <5>2, <5>3
      <4> QED
        BY <4>1, <4>2, <4>3
    <3> QED
      BY <3>3, <3>4
  <2> QED
    BY <1>0, <2>1, <2>2, <2>3 DEF Mode
<1> QED
  BY <1>6, <1>10, <1>11, <1>12, <1>13, <1>14, <1>15 DEF FInv

(* Every frame from the one that a piece of the stream begins with to the  *)
(* one that follows has a byte in it.                                      *)
LEMMA Covered ==
    ASSUME TypeOK, NEW s \in Seq(Byte), NEW e, Run(s, e), e[1] \in Nat,
           NEW f \in DOMAIN sent, Pos(s, e, 1)[1] \in Nat, Pos(s, e, 1)[1] <= f, f < e[1]
    PROVE  \E n \in DOMAIN s : s[n][1] = f
<1>0. Len(s) \in Nat /\ DOMAIN s = 1 .. Len(s) /\ f \in Nat
  BY FrameFacts
<1> DEFINE T == {i \in 1 .. Len(s) + 1 : f < Pos(s, e, i)[1]}
<1>1. Len(s) + 1 \in T
  <2>1. Pos(s, e, Len(s) + 1) = e
    BY <1>0 DEF Pos
  <2> QED
    BY <1>0, <2>1
<1>2. T \subseteq Nat /\ T # {}
  BY <1>0, <1>1
<1>3. PICK k \in T : \A i \in T : k <= i
  BY <1>2, Least
<1>4. k \in 1 .. Len(s) + 1 /\ f < Pos(s, e, k)[1]
  OBVIOUS
<1>5. k # 1
  BY <1>0, <1>4
<1>j. PICK j : j = k - 1
  OBVIOUS
<1>6. j \in 1 .. Len(s) /\ j + 1 = k /\ j < k /\ j \in 1 .. Len(s) + 1
  BY <1>0, <1>4, <1>5, <1>j
<1>7. ~ (f < Pos(s, e, j)[1]) /\ Pos(s, e, j) = s[j]
  <2>1. j \notin T
    BY <1>3, <1>4, <1>6
  <2>2. ~ (f < Pos(s, e, j)[1])
    BY <1>6, <2>1
  <2> QED
    BY <1>0, <1>6, <2>2 DEF Pos
<1>8. Real(s[j]) /\ Pos(s, e, k) = Succ(s[j])
  BY <1>6 DEF Run
<1>9. /\ s[j][1] \in DOMAIN sent /\ s[j][1] \in Nat
      /\ Succ(s[j])[1] <= s[j][1] + 1 /\ Succ(s[j])[1] \in Nat
  <2>1. s[j][1] \in DOMAIN sent
        /\ \/ Succ(s[j]) = <<s[j][1], s[j][2] + 1>>
           \/ Succ(s[j]) = <<s[j][1] + 1, 1>>
    BY <1>8, SuccFacts
  <2>2. s[j][1] \in Nat
    BY <2>1, FrameFacts
  <2> QED
    BY <2>1, <2>2
<1>10. s[j][1] = f
  BY <1>0, <1>4, <1>7, <1>8, <1>9
<1> QED
  BY <1>0, <1>6, <1>10

(* explain() is given a frame; the search goes on behind it, or the rest   *)
(* of the read is dropped.                                                 *)
Explain(k) ==
    /\ Within("identifier")
    /\ ~ Overruns /\ Ends
    /\ exp' = NoFrame
    /\ given' = Append(given, Longer)
    /\ \/ k = call.dwCurrPt /\ call'.busy = "next"
       \/ k = Len(call.str) /\ call'.busy = "no" /\ call'.str = <<>>
    /\ call' = [Idle EXCEPT !.busy = call'.busy, !.str = call'.str]
    /\ call'.str = SubSeq(call.str, k + 1, Len(call.str))
    /\ phase' \in {phase, "open"} /\ phase' \in {"client", "connected", "opening", "open"}
    /\ UNCHANGED <<program, sent, wire, hurt, fresh, gone, early>>

AccountedTo(x) == \A f \in (DOMAIN sent) \ gone : f <= x => Given(f) \/ Bad(f)

(* The end of a frame: a search in step has it whole; the frames passed    *)
(* over by one that is not are excused.                                    *)
LEMMA Explained ==
    ASSUME FInv, NEW k \in Nat, Explain(k), NEW x, x = At[1]
    PROVE  /\ TypeOK' /\ StreamOK' /\ PhaseOK' /\ CallOK' /\ LinesOK' /\ OncePerLine'
           /\ GoneOK' /\ FreshOK' /\ Joined' /\ AccountedTo(x)'
           /\ First' = Pos(call.str, OnWire, k + 1) /\ OnWire' = OnWire /\ Place(First')
           /\ First[1] \in Nat /\ First[1] <= x /\ call.dwCurrPt <= k /\ k \in DOMAIN call.str
           /\ x \in DOMAIN sent /\ x \in Nat /\ At = <<x, Length[sent[x]]>>
           /\ Before(At, First')
<1>d. PICK d : d = call.dwCurrPt
  OBVIOUS
<1>m. PICK m : m = Len(exp.frame)
  OBVIOUS
<1>y. PICK y : y = First[1]
  OBVIOUS
<1>c. PICK c : c = At
  OBVIOUS
<1>x. x = c[1]
  BY <1>c
<1>z. PICK z : z = Pos(call.str, OnWire, k + 1)
  OBVIOUS
<1>q. PICK q : q = Longer
  OBVIOUS
<1>0. /\ Within("identifier") /\ call.busy = "search" /\ exp.searchstatus = "identifier"
      /\ ~ (Len(q) >= Limit[program]) /\ LF(c)
      /\ exp' = NoFrame /\ given' = Append(given, q)
      /\ \/ k = d /\ call'.busy = "next"
         \/ k = Len(call.str) /\ call'.busy = "no" /\ call'.str = <<>>
      /\ call' = [Idle EXCEPT !.busy = call'.busy, !.str = call'.str]
      /\ call'.str = SubSeq(call.str, k + 1, Len(call.str))
      /\ UNCHANGED <<program, sent, wire, hurt, fresh, gone, early>>
      /\ phase' \in {phase, "open"} /\ phase' \in {"client", "connected", "opening", "open"}
      /\ TypeOK /\ StreamOK /\ CallOK /\ LinesOK /\ OncePerLine /\ Mode /\ Accounted
      /\ call \in CallType
  BY <1>c, <1>d, <1>q DEF Explain, Within, Overruns, Ends, FInv, TypeOK
<1>2. /\ m \in Nat /\ 1 <= m /\ q \in Seq(Byte) /\ q # <<>> /\ Len(q) = m + 1
      /\ \A i \in 1 .. m : q[i] = exp.frame[i]
      /\ q[m + 1] = c /\ LastOf(q) = c
  BY <1>0, <1>c, <1>m, <1>q, LongerFacts, SeqTypes
<1>4. /\ d \in Nat /\ d \in 1 .. Len(call.str) /\ Len(call.str) \in Nat /\ call.str \in Seq(Byte)
      /\ Real(c) /\ Now = c /\ k \in 1 .. Len(call.str) /\ d <= k
      /\ x \in DOMAIN sent /\ c[2] \in Nat /\ c = <<x, c[2]>>
  <2>1. /\ d \in Nat /\ d \in 1 .. Len(call.str) /\ Len(call.str) \in Nat /\ call.str \in Seq(Byte)
        /\ Real(c) /\ Now = c /\ x \in DOMAIN sent /\ c[2] \in Nat /\ c = <<x, c[2]>>
    BY <1>0, <1>c, <1>d, <1>x, AtFacts, SeqTypes, SuccFacts
  <2>2. k = d \/ k = Len(call.str)
    BY <1>0
  <2> QED
    BY <2>1, <2>2
<1>l. PICK l : l = Length[sent[x]]
  OBVIOUS
<1>5. /\ c[2] = l /\ c = <<x, l>> /\ x \in Nat /\ l \in Nat /\ 1 < l
      /\ Before(c, z)
  <2>1. c[2] = l
    BY <1>0, <1>l, <1>x DEF LF
  <2>2. x \in Nat /\ l \in Nat /\ 1 < l
    BY <1>0, <1>4, <1>l, FrameFacts
  <2>3. Before(c, z)
    <3>1. d \in 1 .. Len(call.str) + 1 /\ k + 1 \in 1 .. Len(call.str) + 1 /\ d < k + 1
      BY <1>4
    <3>2. Run(call.str, OnWire) /\ Pos(call.str, OnWire, d) = c
      BY <1>0, <1>4, <1>d DEF StreamOK, Now
    <3> QED
      BY <1>0, <1>4, <1>z, <3>1, <3>2, Order
  <2> QED
    BY <1>4, <2>1, <2>2, <2>3
<1>6. /\ call'.busy \in {"no", "next"}
      /\ call'.busy = "no" => call'.str = <<>>
      /\ call'.dwCurrPt = 1 /\ call'.Head = <<>> /\ call'.iHeadLen = Window
  BY <1>0 DEF Idle
<1>7. /\ First' = z /\ Place(First') /\ OnWire' = OnWire
      /\ First[1] \in Nat /\ First[2] \in Nat /\ First'[1] \in Nat /\ First'[2] \in Nat
      /\ First[1] <= First'[1] /\ Before(First, First')
      /\ StreamOK' /\ PhaseOK' /\ GoneOK' /\ FreshOK'
      /\ call'.str # <<>> => LastOf(call'.str) = LastOf(call.str)
  <2>1. /\ UNCHANGED <<program, sent, wire, hurt, fresh, gone, early>> /\ phase' \in {phase, "open"}
        /\ call'.str = SubSeq(call.str, k + 1, Len(call.str))
    BY <1>0
  <2> QED
    BY <1>4, <1>z, <2>1, Advance
<1>8. y \in DOMAIN sent /\ ~ NulFirst /\ y \in Nat /\ y <= x /\ (First = c \/ Before(First, c))
  <2>1. d \in 1 .. Len(call.str) + 1 /\ Pos(call.str, OnWire, d) = c
    BY <1>4, <1>d DEF Now
  <2> QED
    BY <1>0, <1>7, <1>x, <1>y, <2>1, SearchFacts, Onward
<1>s. /\ given \in Seq(Seq(Byte)) /\ Len(given) \in Nat
      /\ given' \in Seq(Seq(Byte)) /\ Len(given') = Len(given) + 1
      /\ DOMAIN given = 1 .. Len(given) /\ DOMAIN given' = 1 .. Len(given) + 1
      /\ \A n \in 1 .. Len(given) : given'[n] = given[n]
      /\ given'[Len(given) + 1] = q
  BY <1>0, <1>2 DEF TypeOK
<1>t. call'.str \in Seq(Byte)
  <2>1. k + 1 \in Nat /\ Len(call.str) \in Nat /\ \A i \in k + 1 .. Len(call.str) : call.str[i] \in Byte
    BY <1>4
  <2> QED
    BY <1>0, <2>1, SubSeqProperties
<1>9. TypeOK'
  <2>1. call' \in CallType
    <3>1. PICK b, s : b = call'.busy /\ s = call'.str
      OBVIOUS
    <3>2. b \in {"no", "next", "search"} /\ s \in Seq(Byte)
      BY <1>6, <1>t, <3>1
    <3>3. [Idle EXCEPT !.busy = b, !.str = s] \in CallType
      BY <3>2, IdleType
    <3> QED
      BY <1>0, <3>1, <3>3
  <2>2. Len(<<>>) < Window /\ Window \in Nat
    BY KindsAssumption
  <2>3. exp' \in ExpType /\ exp'.frame = <<>>
    BY <1>0 DEF ExpType, NoFrame
  <2>4. Limit[program] \in Nat /\ Len(<<>>) < Limit[program]
    BY <1>0, KindsAssumption, BoundAssumption DEF TypeOK
  <2>5. Len(q) < Limit[program]
    BY <1>0, <1>2, <2>4
  <2>6. ASSUME NEW n \in DOMAIN given' PROVE Len(given'[n]) < Limit[program]
    <3>1. CASE n = Len(given) + 1
      BY <1>s, <2>5, <3>1
    <3>2. CASE n # Len(given) + 1
      <4>1. n \in DOMAIN given /\ given'[n] = given[n]
        BY <1>s, <3>2
      <4> QED
        BY <1>0, <4>1 DEF TypeOK
    <3> QED
      BY <3>1, <3>2
  <2>7. Len(call'.Head) < call'.iHeadLen /\ call'.iHeadLen <= Window /\ Len(exp'.frame) < Limit[program]
    BY <1>6, <2>2, <2>3, <2>4
  <2> QED
    BY <1>0, <1>s, <2>1, <2>3, <2>6, <2>7 DEF TypeOK
<1>10. CallOK'
  <2>1. Len(call'.str) \in Nat
    BY <1>t
  <2>2. 1 \in 1 .. Len(call'.str) + 1 /\ Len(<<>>) = 0
    BY <2>1
  <2>3. call'.str # <<>> /\ LastOf(call'.str)[2] < Window => LastOf(call'.str)[1] \in hurt'
    <3>1. call.str # <<>>
      BY <1>0 DEF CallOK
    <3> QED
      BY <1>0, <1>7, <3>1 DEF CallOK
  <2>4. /\ Idle' = Idle
        /\ call'.busy = "no" => call' = Idle
        /\ call'.busy = "next" => call' = [Idle EXCEPT !.busy = "next", !.str = call'.str]
    BY <1>0, <1>6 DEF Idle
  <2>5. exp'.searchstatus = "null"
    BY <1>0 DEF NoFrame
  <2>6. /\ call'.busy \in {"no", "next"} /\ call'.dwCurrPt = 1 /\ call'.Head = <<>>
        /\ Len(call'.Head) < call'.dwCurrPt
        /\ \A i \in 1 .. Len(call'.Head) : FALSE
    BY <1>6
  <2> QED
    BY <2>2, <2>3, <2>4, <2>5, <2>6 DEF CallOK, LastOf
<1>11. ASSUME NEW n \in DOMAIN given
       PROVE  /\ given[n] # <<>> /\ LineEnd(LastOf(given[n])) /\ Before(LastOf(given[n]), z)
              /\ LastOf(given[n])[1] \in Nat /\ LastOf(given[n])[2] \in Nat
              /\ LastOf(given[n])[1] \in DOMAIN sent
  BY <1>0, <1>7, LinesAdvance
<1>12. LinesOK'
  <2>1. LineEnd(c)
    BY <1>0, <1>4, <1>x DEF LineEnd
  <2>2. ASSUME NEW n \in DOMAIN given'
        PROVE  given'[n] # <<>> /\ LineEnd(LastOf(given'[n])) /\ Before(LastOf(given'[n]), z)
    <3>1. CASE n = Len(given) + 1
      BY <1>2, <1>5, <1>s, <2>1, <3>1
    <3>2. CASE n # Len(given) + 1
      <4>1. n \in DOMAIN given /\ given'[n] = given[n]
        BY <1>s, <3>2
      <4> QED
        BY <1>11, <4>1
    <3> QED
      BY <3>1, <3>2
  <2> QED
    BY <1>0, <1>7, <2>2 DEF LinesOK, LineEnd, LF, LastOf, Before
<1>13. ASSUME NEW n \in DOMAIN given PROVE LastOf(given[n])[1] < x
  <2>b. PICK b : b = LastOf(given[n])
    OBVIOUS
  <2>1. LineEnd(b) /\ Before(b, First) /\ b[1] \in Nat /\ b[2] \in Nat
    BY <1>0, <1>11, <2>b DEF LinesOK
  <2>2. Before(b, c)
    <3>1. c[1] \in Nat /\ c[2] \in Nat
      BY <1>5
    <3> QED
      BY <1>7, <1>8, <2>1, <3>1, BeforeTransitive
  <2>3. b[1] = x => b[2] = l
    BY <1>l, <2>1 DEF LineEnd, LF
  <2>4. b[1] < x \/ (b[1] = x /\ b[2] < l)
    BY <1>5, <2>2 DEF Before
  <2> QED
    BY <1>5, <2>1, <2>3, <2>4, <2>b
<1>14. OncePerLine'
  <2>1. ASSUME NEW n \in 2 .. Len(given')
        PROVE  LastOf(given'[n - 1])[1] < LastOf(given'[n])[1]
    <3>j. PICK j : j = n - 1
      OBVIOUS
    <3>0. j \in 1 .. Len(given) /\ n \in 1 .. Len(given) + 1
      BY <1>s, <3>j
    <3>1. n - 1 \in DOMAIN given /\ given'[n - 1] = given[n - 1] /\ n \in 1 .. Len(given) + 1
      BY <1>s, <3>j, <3>0
    <3>2. CASE n = Len(given) + 1
      BY <1>2, <1>13, <1>s, <1>x, <3>1, <3>2
    <3>3. CASE n # Len(given) + 1
      <4>1. n \in 2 .. Len(given) /\ given'[n] = given[n]
        BY <1>s, <3>3
      <4> QED
        BY <1>0, <3>1, <4>1 DEF OncePerLine, LastOf
    <3> QED
      BY <3>2, <3>3
  <2> QED
    BY <2>1 DEF OncePerLine, LastOf
<1>15. Joined'
  BY <1>0 DEF Joined, NoFrame
<1>16. ASSUME NEW f \in DOMAIN sent, Given(f) PROVE Given(f)'
  <2>1. PICK n \in DOMAIN given : given[n] = Whole(f)
    BY <1>16 DEF Given
  <2>2. n \in DOMAIN given' /\ given'[n] = given[n] /\ Whole(f)' = Whole(f)
    BY <1>0, <1>s, <2>1 DEF Whole
  <2> QED
    BY <2>1, <2>2 DEF Given
<1>17. ASSUME NEW f \in DOMAIN sent, f <= x, Bad(f) PROVE Bad(f)'
  <2>1. CASE f \in hurt \/ f \in early \/ Unknown(f) \/ TooLong(f)
    BY <1>0, <1>17, <2>1 DEF Bad, Unknown, TooLong
  <2>2. CASE Excused(f)
    <3>g. PICK g : g = f - 1
      OBVIOUS
    <3>1. f \notin fresh /\ g \in (DOMAIN sent) \ gone /\ ~ Given(g)
      BY <2>2, <3>g DEF Excused
    <3>0. f \in Nat /\ g \in Nat
      BY <1>0, <1>17, <3>1, FrameFacts
    <3>2. f \in Nat /\ g \in Nat /\ g < x
      BY <1>5, <1>17, <3>0, <3>g
    <3>3. q # Whole(g)
      <4>1. LastOf(Whole(g)) = <<g, Length[sent[g]]>>
        BY <1>0, <3>1, WholeFacts
      <4> QED
        BY <1>2, <1>5, <3>2, <4>1
    <3>4. ~ Given(g)'
      <4>1. SUFFICES ASSUME NEW n \in DOMAIN given', given'[n] = Whole(g)' PROVE FALSE
        BY DEF Given
      <4>2. Whole(g)' = Whole(g)
        BY <1>0 DEF Whole
      <4>3. CASE n = Len(given) + 1
        BY <1>s, <3>3, <4>1, <4>2, <4>3
      <4>4. CASE n # Len(given) + 1
        <5>1. n \in DOMAIN given /\ given'[n] = given[n]
          BY <1>s, <4>4
        <5> QED
          BY <3>1, <4>1, <4>2, <5>1 DEF Given
      <4> QED
        BY <4>3, <4>4
    <3>5. Excused(f)'
      BY <1>0, <3>1, <3>4, <3>g DEF Excused
    <3> QED
      BY <1>0, <1>17, <3>5 DEF Bad
  <2>3. Excused(f) \/ f \in hurt \/ f \in early \/ Unknown(f) \/ TooLong(f)
    BY <1>17 DEF Bad
  <2> QED
    BY <2>1, <2>2, <2>3
<1>18. ASSUME NEW f \in (DOMAIN sent) \ gone, f <= x
       PROVE  Given(f)' \/ Bad(f)'
  <2>1. f \in Nat /\ Length[sent[f]] \in Nat /\ 1 < Length[sent[f]]
    BY <1>0, FrameFacts
  <2>2. f <= x
    BY <1>18
  <2>3. CASE Passed(f)
    <3>1. Given(f) \/ Bad(f)
      BY <1>0, <2>3 DEF Accounted
    <3> QED
      BY <1>16, <1>17, <2>2, <3>1
  <2>4. CASE ~ Passed(f)
    <3>1. y <= f
      BY <1>7, <1>8, <1>y, <2>1, <2>4 DEF Passed, Before
    <3>2. CASE Aligned
      <4>1. /\ c = <<y, m + 1>> /\ m < Length[sent[y]]
            /\ \A i \in 1 .. m : exp.frame[i] = <<y, i>>
        BY <1>4, <1>m, <1>y, <3>2 DEF Aligned
      <4>2. x = y /\ l = m + 1 /\ f = y
        BY <1>5, <1>8, <2>1, <2>2, <3>1, <4>1
      <4>3. \A i \in 1 .. m + 1 : q[i] = <<y, i>>
        <5>1. ASSUME NEW i \in 1 .. m + 1 PROVE q[i] = <<y, i>>
          <6>1. CASE i = m + 1
            BY <1>2, <4>1, <6>1
          <6>2. CASE i # m + 1
            <7>1. i \in 1 .. m
              BY <1>2, <6>2
            <7> QED
              BY <1>2, <4>1, <7>1
          <6> QED
            BY <6>1, <6>2
        <5> QED
          BY <5>1
      <4>4. q = Whole(f)
        <5>1. Length[sent[f]] = m + 1 /\ Len(q) = m + 1
          BY <1>2, <1>l, <4>2
        <5> QED
          BY <1>0, <1>2, <4>2, <4>3, <5>1, WholeFacts
      <4>5. Len(given) + 1 \in DOMAIN given' /\ Whole(f)' = Whole(f)
        BY <1>0, <1>s DEF Whole
      <4>6. Given(f)'
        BY <1>s, <4>4, <4>5 DEF Given
      <4> QED
        BY <4>6
    <3>3. CASE Spoilt
      <4>1. Bad(f)
        <5>1. CASE f = y
          BY <1>y, <3>3, <5>1 DEF Spoilt
        <5>2. CASE f # y
          <6>1. First[1] < f
            BY <1>8, <1>y, <2>1, <3>1, <5>2
          <6> QED
            BY <1>0, <6>1, Passing DEF Bad
        <5> QED
          BY <5>1, <5>2
      <4> QED
        BY <1>17, <2>2, <4>1
    <3>4. ~ Starting
      BY <1>0 DEF Starting
    <3> QED
      BY <1>0, <3>2, <3>3, <3>4 DEF Mode
  <2> QED
    BY <2>3, <2>4
<1>19. AccountedTo(x)'
  BY <1>0, <1>18 DEF AccountedTo
<1>20. k \in DOMAIN call.str /\ call.dwCurrPt <= k
  BY <1>4, <1>d
<1> QED
  BY <1>4, <1>5, <1>7, <1>8, <1>9, <1>10, <1>12, <1>14, <1>15, <1>19, <1>20, <1>c, <1>l, <1>y, <1>z

LEMMA EndStep ==
    ASSUME FInv, End
    PROVE  FInv'
<1>k. PICK k : k = call.dwCurrPt
  OBVIOUS
<1>c. PICK c : c = At
  OBVIOUS
<1>x. PICK x : x = c[1]
  OBVIOUS
<1>z. PICK z : z = Succ(c)
  OBVIOUS
<1>0. /\ Within("identifier") /\ UNCHANGED <<program, sent, gone, phase>> /\ TypeOK
      /\ exp' = NoFrame
  BY DEF End, FInv
<1>1. /\ call'.busy = "next" /\ call'.str = SubSeq(call.str, k + 1, Len(call.str))
      /\ call' = [Idle EXCEPT !.busy = "next", !.str = call'.str]
  BY <1>k DEF End, Idle
<1>2. k \in Nat /\ Real(c) /\ Pos(call.str, OnWire, k + 1) = z
  BY <1>0, <1>c, <1>k, <1>z, AtFacts, SeqTypes
<1>3. Explain(k)
  <2>1. phase' \in {phase, "open"} /\ phase' \in {"client", "connected", "opening", "open"}
    BY <1>0 DEF TypeOK
  <2> QED
    BY <1>k, <1>1, <2>1 DEF End, Explain
<1>4. /\ TypeOK' /\ StreamOK' /\ PhaseOK' /\ CallOK' /\ LinesOK' /\ OncePerLine'
      /\ GoneOK' /\ FreshOK' /\ Joined' /\ AccountedTo(x)'
      /\ First' = z
      /\ x \in DOMAIN sent /\ x \in Nat /\ c = <<x, Length[sent[x]]>>
  BY <1>2, <1>3, <1>c, <1>x, Explained
<1>5. z = <<x, Length[sent[x]] + 1>> \/ z = <<x + 1, 1>>
  BY <1>0, <1>2, <1>4, <1>z, SuccFacts
<1>6. Mode'
  <2>1. z[2] = 1 \/ NulFirst'
    <3>1. CASE z = <<x + 1, 1>>
      BY <3>1
    <3>2. CASE z = <<x, Length[sent[x]] + 1>>
      <4>1. z[1] = x /\ z[2] = Length[sent[x]] + 1 /\ Length[sent[x]] \in Nat
        BY <1>0, <1>4, <3>2, FrameFacts
      <4>2. z[2] > Length[sent[x]]
        BY <4>1
      <4> QED
        BY <1>0, <1>4, <4>1, <4>2 DEF NulFirst, IsNul
    <3> QED
      BY <1>5, <3>1, <3>2
  <2>2. Starting'
    BY <1>0, <1>1, <1>4, <2>1 DEF Starting, NoFrame
  <2> QED
    BY <2>2 DEF Mode
<1>7. Accounted'
  <2>1. ASSUME NEW f \in (DOMAIN sent) \ gone, Before(<<f, Length[sent[f]]>>, z) PROVE f <= x
    <3>1. f \in Nat /\ Length[sent[f]] \in Nat /\ 1 < Length[sent[f]]
      BY <1>0, FrameFacts
    <3> QED
      BY <1>4, <1>5, <2>1, <3>1 DEF Before
  <2> QED
    BY <1>0, <1>4, <2>1 DEF Accounted, AccountedTo, Passed, Before
<1> QED
  BY <1>4, <1>6, <1>7 DEF FInv

(* What of a read is behind $initsess is dropped; what it belongs to is    *)
(* excused.                                                                *)
LEMMA EndOfOpeningStep ==
    ASSUME FInv, EndOfOpening
    PROVE  FInv'
<1>k. PICK k : k = Len(call.str)
  OBVIOUS
<1>c. PICK c : c = At
  OBVIOUS
<1>x. PICK x : x = c[1]
  OBVIOUS
<1>z. PICK z : z = OnWire
  OBVIOUS
<1>0. /\ Within("identifier") /\ UNCHANGED <<program, sent, gone, early>> /\ exp' = NoFrame
      /\ Unopened /\ call' = Idle /\ phase' = "open"
      /\ TypeOK /\ StreamOK /\ PhaseOK
  BY DEF EndOfOpening, FInv
<1>1. /\ k \in Nat /\ call.str \in Seq(Byte) /\ Run(call.str, z) /\ DOMAIN call.str = 1 .. k
      /\ z[1] \in Nat /\ z[2] \in Nat /\ z = <<z[1], z[2]>> /\ Pos(call.str, z, k + 1) = z
      /\ Place(z)
  <2>1. k \in Nat /\ call.str \in Seq(Byte) /\ Run(call.str, z) /\ DOMAIN call.str = 1 .. k
    BY <1>0, <1>k, <1>z, SeqTypes DEF StreamOK
  <2> QED
    BY <1>0, <1>k, <1>z, <2>1, Places, PlaceFacts DEF Pos
<1>2. /\ call'.busy = "no" /\ call'.str = <<>> /\ Idle = [Idle EXCEPT !.busy = "no", !.str = <<>>]
      /\ SubSeq(call.str, k + 1, Len(call.str)) = <<>>
  <2>1. SubSeq(call.str, k + 1, Len(call.str)) = <<>>
    BY <1>1, <1>k
  <2>2. call'.busy = "no" /\ call'.str = <<>>
    BY <1>0 DEF Idle
  <2>3. Idle = [Idle EXCEPT !.busy = "no", !.str = <<>>]
    <3>1. Idle \in CallType /\ Idle.busy = "no" /\ Idle.str = <<>>
      BY KindsAssumption DEF Idle, CallType
    <3> QED
      BY <3>1 DEF CallType
  <2> QED
    BY <2>1, <2>2, <2>3
<1>3. Explain(k)
  BY <1>0, <1>2, <1>k DEF EndOfOpening, Explain
<1>4. /\ TypeOK' /\ StreamOK' /\ PhaseOK' /\ CallOK' /\ LinesOK' /\ OncePerLine'
      /\ GoneOK' /\ FreshOK' /\ Joined' /\ AccountedTo(x)'
      /\ First' = z
      /\ First[1] \in Nat /\ First[1] <= x /\ k \in DOMAIN call.str
      /\ x \in DOMAIN sent /\ x \in Nat /\ c = <<x, Length[sent[x]]>> /\ Before(c, z)
  BY <1>1, <1>3, <1>c, <1>x, <1>z, Explained
<1>5. ASSUME NEW f \in DOMAIN sent, x < f, \E n \in DOMAIN call.str : call.str[n][1] = f
      PROVE  f \in early
  <2>1. f \in Nat
    BY <1>0, FrameFacts
  <2>2. sent[f] \notin Opening
    BY <1>0, <1>4, <1>5, <2>1 DEF PhaseOK
  <2> QED
    BY <1>0, <1>5, <2>2 DEF PhaseOK
<1>b. PICK b : b = call.str[k]
  OBVIOUS
<1>6. \/ z[2] = 1
      \/ z[1] \in DOMAIN sent /\ z[1] = b[1] /\ z[2] = b[2] + 1
  <2>1. Real(b) /\ z = Succ(b)
    BY <1>1, <1>4, <1>b, <1>k DEF Run
  <2>2. /\ b[1] \in DOMAIN sent
        /\ z = <<b[1], b[2] + 1>> \/ z = <<b[1] + 1, 1>>
    BY <1>0, <2>1, SuccFacts
  <2> QED
    BY <2>2
<1>7. Mode'
  <2>1. CASE z[2] = 1 \/ NulFirst'
    <3>1. Starting'
      BY <1>0, <1>2, <1>4, <2>1 DEF Starting, NoFrame
    <3> QED
      BY <3>1 DEF Mode
  <2>2. CASE z[2] # 1 /\ ~ NulFirst'
    <3>1. z[1] \in DOMAIN sent /\ z[1] = b[1]
      BY <1>6, <2>2
    <3>2. ~ (z[2] > Length[sent[z[1]]])
      BY <1>0, <1>4, <2>2, <3>1 DEF NulFirst, IsNul
    <3>3. x < z[1]
      <4>1. z[1] = x => ~ (Length[sent[x]] < z[2])
        BY <1>1, <3>2
      <4> QED
        BY <1>1, <1>4, <4>1 DEF Before
    <3>4. z[1] \in early
      BY <1>4, <1>5, <1>b, <3>1, <3>3
    <3>5. Spoilt'
      BY <1>0, <1>4, <2>2, <3>4 DEF Spoilt, Bad
    <3> QED
      BY <3>5 DEF Mode
  <2> QED
    BY <2>1, <2>2
<1>8. Accounted'
  <2>1. ASSUME NEW f \in (DOMAIN sent) \ gone, Before(<<f, Length[sent[f]]>>, z), ~ (f <= x)
        PROVE  f \in early
    <3>1. f \in Nat /\ Length[sent[f]] \in Nat /\ 1 < Length[sent[f]] /\ x < f
      BY <1>0, <1>4, <2>1, FrameFacts
    <3>2. CASE f < z[1]
      <4>1. Pos(call.str, z, 1)[1] = First[1] /\ First[1] <= f
        BY <1>4, <1>z, <3>1 DEF First
      <4>2. \E n \in DOMAIN call.str : call.str[n][1] = f
        BY <1>0, <1>1, <1>4, <3>2, <4>1, Covered
      <4> QED
        BY <1>5, <3>1, <4>2
    <3>3. CASE ~ (f < z[1])
      <4>1. f = z[1] /\ Length[sent[f]] < z[2]
        BY <2>1, <3>3 DEF Before
      <4>2. z[1] = b[1]
        BY <1>6, <3>1, <4>1
      <4> QED
        BY <1>4, <1>5, <1>b, <3>1, <4>1, <4>2
    <3> QED
      BY <3>2, <3>3
  <2>2. ASSUME NEW f \in (DOMAIN sent)' \ gone', Passed(f)'
        PROVE  Given(f)' \/ Bad(f)'
    <3>1. f \in (DOMAIN sent) \ gone /\ Before(<<f, Length[sent[f]]>>, z)
      BY <1>0, <1>4, <2>2 DEF Passed, Before
    <3>2. CASE f <= x
      BY <1>4, <2>2, <3>2 DEF AccountedTo
    <3>3. CASE ~ (f <= x)
      BY <1>0, <2>1, <3>1, <3>3 DEF Bad
    <3> QED
      BY <3>2, <3>3
  <2> QED
    BY <2>2 DEF Accounted
<1> QED
  BY <1>4, <1>7, <1>8 DEF FInv

-----------------------------------------------------------------------------
(* The steps between two reads.                                            *)

LEMMA BetweenReads ==
    ASSUME FInv, call.busy = "no"
    PROVE  /\ call = Idle /\ call.str = <<>> /\ call.dwCurrPt = 1 /\ call.Head = <<>>
           /\ First = OnWire /\ Now = OnWire /\ Place(First)
           /\ First[1] \in Nat /\ First[2] \in Nat /\ 1 <= First[1] /\ 1 <= First[2]
           /\ First[1] <= Len(sent) + 1 /\ First = <<First[1], First[2]>>
           /\ First[1] \in DOMAIN sent => Real(First)
           /\ First[1] \notin DOMAIN sent => First = NextSent
<1>1. TypeOK /\ StreamOK /\ call = Idle
  BY DEF FInv, CallOK
<1>2. call.str = <<>> /\ call.dwCurrPt = 1 /\ call.Head = <<>>
  BY <1>1 DEF Idle
<1>3. First = OnWire /\ Now = OnWire
  BY <1>2 DEF First, Now, Pos
<1>4. Place(First)
  BY <1>1, Places
<1> QED
  BY <1>1, <1>2, <1>3, <1>4, PlaceFacts

LEMMA ReadStep ==
    ASSUME FInv, NEW n \in DOMAIN wire, Read(n)
    PROVE  FInv'
<1>s. PICK s : s = SubSeq(wire, 1, n)
  OBVIOUS
<1>e. PICK e : e = NextSent
  OBVIOUS
<1>0. /\ call.busy = "no"
      /\ call' = [Idle EXCEPT !.busy = "next", !.str = s]
      /\ wire' = SubSeq(wire, n + 1, Len(wire))
      /\ hurt' = IF wire[n][2] < Window THEN hurt \cup {wire[n][1]} ELSE hurt
      /\ fresh' = IF exp.searchstatus # "null" THEN fresh
                  ELSE fresh \cup {f \in DOMAIN sent : FirstOf(s) = <<f, 1>>}
      /\ early' = IF Unopened
                  THEN early \cup {f \in DOMAIN sent : sent[f] \notin Opening
                                                      /\ \E i \in 1 .. n : wire[i][1] = f}
                  ELSE early
      /\ UNCHANGED <<program, sent, exp, given, gone, phase>>
      /\ TypeOK /\ PhaseOK /\ StreamOK /\ GoneOK /\ FreshOK /\ LinesOK /\ OncePerLine /\ Mode /\ Accounted
      /\ Joined
  BY <1>s DEF Read, FInv
<1>1. /\ wire \in Seq(Byte) /\ Len(wire) \in Nat /\ n \in Nat /\ 1 <= n /\ n <= Len(wire)
      /\ n \in 1 .. Len(wire) /\ Run(wire, e)
  BY <1>0, <1>e, SeqTypes DEF StreamOK
<1>2. IsPrefix(wire, e, n, s)
  BY <1>1, <1>s, Prefix
<1>w. PICK w : w = wire'
  OBVIOUS
<1>3. IsSuffix(wire, e, n, w)
  BY <1>0, <1>1, <1>w, Suffix
<1>g. PICK g : g = Pos(wire, e, n + 1)
  OBVIOUS
<1>4. /\ s \in Seq(Byte) /\ Len(s) = n /\ Run(s, g) /\ \A i \in 1 .. n : s[i] = wire[i]
      /\ w \in Seq(Byte) /\ Len(w) \in Nat /\ Run(w, e) /\ Pos(w, e, 1) = g
  BY <1>1, <1>2, <1>3, <1>g DEF IsPrefix, IsSuffix
<1>5. s # <<>>
  BY <1>1, <1>4
<1>6. /\ call'.busy = "next" /\ call'.str = s /\ call'.dwCurrPt = 1
      /\ call'.Head = <<>> /\ call'.iHeadLen = Window /\ call' \in CallType
  <2>1. call' \in CallType
    BY <1>0, <1>4, IdleType
  <2> QED
    BY <1>0, <2>1 DEF Idle
<1>7. OnWire' = g
  BY <1>0, <1>4, <1>e, <1>w DEF OnWire, Pos, NextSent
<1>8. First = wire[1] /\ Real(First) /\ First' = First /\ Now' = Now /\ Now = First
  <2>1. First = wire[1] /\ Real(First) /\ Now = First
    <3>1. First = OnWire /\ Now = OnWire
      BY <1>0, BetweenReads
    <3>2. OnWire = wire[1]
      BY <1>1 DEF OnWire, Pos
    <3>3. 1 \in 1 .. Len(wire)
      BY <1>1
    <3>4. Real(wire[1])
      BY <1>1, <3>3 DEF Run
    <3> QED
      BY <3>1, <3>2, <3>4
  <2>2. Pos(s, g, 1) = wire[1]
    BY <1>1, <1>4 DEF Pos
  <2> QED
    BY <1>6, <1>7, <2>1, <2>2 DEF First, Now, Pos
<1>y. PICK y : y = First[1]
  OBVIOUS
<1>9. /\ y \in DOMAIN sent /\ y \in Nat /\ First[2] \in Nat /\ First = <<y, First[2]>>
      /\ wire[n][1] \in DOMAIN sent /\ wire[n][1] \in Frames /\ hurt \subseteq hurt'
  <2>1. Real(wire[n])
    BY <1>1 DEF Run
  <2>2. wire[n][1] \in DOMAIN sent /\ y \in DOMAIN sent /\ First[2] \in Nat /\ First = <<y, First[2]>>
    BY <1>0, <1>8, <1>y, <2>1, SuccFacts
  <2> QED
    BY <1>0, <2>2, FrameFacts
<1>10. ASSUME NEW f \in fresh', f \notin fresh
       PROVE  /\ f \in Nat /\ f \in Frames /\ exp.searchstatus = "null"
              /\ \/ First = <<f, 1>>
                 \/ NulFirst /\ f = y + 1
  <2>1. f \in DOMAIN sent /\ FirstOf(s) = <<f, 1>> /\ exp.searchstatus = "null"
    BY <1>0, <1>10
  <2>2. f \in Nat /\ f \in Frames
    BY <1>0, <2>1, FrameFacts
  <2>3. s[1] = First
    BY <1>1, <1>4, <1>8
  <2>4. CASE Len(s) > 1 /\ IsNul(s[1])
    <3>1. s[2] = <<f, 1>>
      BY <2>1, <2>4 DEF FirstOf
    <3>2. s[2] = Succ(First)
      <4>1. 1 \in 1 .. Len(s) /\ 2 <= Len(s)
        BY <1>1, <1>4, <2>4
      <4> QED
        BY <1>4, <2>3, <4>1 DEF Run, Pos
    <3>3. NulFirst
      BY <1>9, <1>y, <2>3, <2>4 DEF NulFirst
    <3>4. Succ(First) = <<y, First[2] + 1>> \/ Succ(First) = <<y + 1, 1>>
      BY <1>0, <1>8, <1>y, SuccFacts
    <3>5. First[2] + 1 # 1
      <4>1. 1 <= First[2]
        BY <1>8 DEF Real
      <4> QED
        BY <1>9, <4>1
    <3> QED
      BY <2>1, <2>2, <3>1, <3>2, <3>3, <3>4, <3>5
  <2>5. CASE ~ (Len(s) > 1 /\ IsNul(s[1]))
    BY <2>1, <2>2, <2>3, <2>5 DEF FirstOf
  <2> QED
    BY <2>4, <2>5
<1>11. TypeOK'
  <2>1. hurt' \subseteq 1 .. MaxSent + 1
    <3>1. wire[n][1] \in 1 .. MaxSent + 1
      BY <1>9, BoundAssumption DEF Frames
    <3> QED
      BY <1>0, <3>1 DEF TypeOK
  <2>2. fresh' \subseteq Frames
    BY <1>0, <1>10 DEF TypeOK
  <2>3. Len(<<>>) < Window /\ Window \in Nat
    BY KindsAssumption
  <2>4. wire' \in Seq(Byte)
    BY <1>4, <1>w
  <2>5. /\ call' \in CallType /\ Len(call'.Head) < call'.iHeadLen /\ call'.iHeadLen <= Window
    BY <1>6, <2>3
  <2>6. early' \subseteq Frames
    <3>1. early \subseteq Frames
      BY <1>0 DEF TypeOK
    <3>2. \A f \in DOMAIN sent : f \in Frames
      BY <1>0, FrameFacts
    <3> QED
      BY <1>0, <3>1, <3>2
  <2> QED
    BY <1>0, <2>1, <2>2, <2>4, <2>5, <2>6 DEF TypeOK
<1>12. StreamOK'
  <2>1. NextSent' = e
    BY <1>0, <1>e DEF NextSent
  <2>2. Run(wire', NextSent')
    BY <1>4, <1>w, <2>1
  <2>3. Run(call'.str, OnWire')
    BY <1>4, <1>6, <1>7
  <2>4. \A b : (Real(b)' <=> Real(b)) /\ Succ(b)' = Succ(b)
    BY <1>0 DEF Real, Succ, Total
  <2> QED
    BY <2>2, <2>3, <2>4 DEF StreamOK, Run, Pos
<1>13. CallOK'
  <2>1. 1 \in 1 .. Len(s) + 1 /\ Len(<<>>) = 0
    BY <1>1, <1>4
  <2>2. LastOf(s) = wire[n]
    BY <1>1, <1>4 DEF LastOf
  <2>3. LastOf(s)[2] < Window => LastOf(s)[1] \in hurt'
    BY <1>0, <2>2
  <2>4. Idle' = Idle /\ call' = [Idle EXCEPT !.busy = "next", !.str = call'.str]
    BY <1>0, <1>6 DEF Idle
  <2>5. Len(call'.Head) < call'.dwCurrPt /\ \A i \in 1 .. Len(call'.Head) : FALSE
    BY <1>6
  <2> QED
    BY <1>6, <2>1, <2>3, <2>4, <2>5 DEF CallOK, LastOf
<1>14. LinesOK' /\ OncePerLine' /\ GoneOK'
  BY <1>0, <1>8 DEF LinesOK, LineEnd, LF, LastOf, Before, OncePerLine, GoneOK
<1>n. NulFirst' <=> NulFirst
  BY <1>0, <1>8 DEF NulFirst, IsNul
<1>15. FreshOK'
  <2>1. ASSUME NEW f \in fresh'
        PROVE  f <= First'[1] \/ (call'.busy = "next" /\ call'.str # <<>> /\ NulFirst' /\ f = First'[1] + 1)
    <3>1. CASE f \in fresh
      BY <1>0, <1>8, <3>1 DEF FreshOK
    <3>2. CASE f \notin fresh
      BY <1>5, <1>6, <1>8, <1>9, <1>10, <1>n, <1>y, <3>2
    <3> QED
      BY <3>1, <3>2
  <2> QED
    BY <2>1 DEF FreshOK
<1>16. Joined'
  <2>1. CASE exp.searchstatus = "identifier"
    <3>1. ~ (call.busy = "search")
      BY <1>0
    <3> QED
      BY <1>0, <1>8, <1>9, <2>1, <3>1 DEF Joined, LF, LastOf
  <2>2. CASE exp.searchstatus # "identifier"
    BY <1>0, <2>2 DEF Joined
  <2> QED
    BY <2>1, <2>2
<1>17. \A f : Given(f)' <=> Given(f)
  BY <1>0 DEF Given, Whole
<1>18. ASSUME NEW f, Bad(f) PROVE Bad(f)' \/ f \in fresh' \ fresh
  <2>1. CASE f \in hurt \/ f \in early
    BY <1>0, <1>9, <2>1 DEF Bad
  <2>2. CASE f \in DOMAIN sent /\ (Unknown(f) \/ TooLong(f) \/ Excused(f))
    BY <1>0, <1>17, <2>2 DEF Bad, Excused, Unknown, TooLong
  <2> QED
    BY <1>18, <2>1, <2>2 DEF Bad
<1>19. Mode'
  <2>1. CASE Starting
    <3>1. Starting'
      BY <1>0, <1>6, <1>8, <1>n, <2>1 DEF Starting
    <3> QED
      BY <3>1 DEF Mode
  <2>2. CASE Aligned
    <3>1. Aligned'
      BY <1>0, <1>8, <2>2 DEF Aligned
    <3> QED
      BY <3>1 DEF Mode
  <2>3. CASE Spoilt /\ y \in fresh' \ fresh
    <3>1. y \in Nat /\ y # y + 1
      BY <1>9
    <3>2. First = <<y, 1>> /\ exp.searchstatus = "null"
      BY <1>10, <2>3, <3>1
    <3>3. First'[2] = 1
      BY <1>8, <3>2
    <3>4. Starting'
      BY <1>0, <1>6, <3>2, <3>3 DEF Starting
    <3> QED
      BY <3>4 DEF Mode
  <2>4. CASE Spoilt /\ ~ (y \in fresh' \ fresh)
    <3>1. Bad(y)'
      BY <1>18, <1>y, <2>4 DEF Spoilt
    <3>2. First'[1] = y /\ ~ NulFirst'
      BY <1>8, <1>n, <1>y, <2>4 DEF Spoilt
    <3> QED
      BY <3>1, <3>2 DEF Mode, Spoilt
  <2> QED
    BY <1>0, <2>1, <2>2, <2>3, <2>4 DEF Mode
<1>20. Accounted'
  <2>1. ASSUME NEW f \in (DOMAIN sent) \ gone, Passed(f) PROVE Given(f) \/ Bad(f)'
    <3>1. Given(f) \/ Bad(f)
      BY <1>0, <2>1 DEF Accounted
    <3>2. f \notin fresh' \ fresh
      <4>1. SUFFICES ASSUME f \in fresh' \ fresh PROVE FALSE
        OBVIOUS
      <4>2. f \in Nat /\ (First = <<f, 1>> \/ f = y + 1)
        BY <1>10, <4>1
      <4>3. Length[sent[f]] \in Nat /\ 1 < Length[sent[f]]
        BY <1>0, <2>1, FrameFacts
      <4>4. f < First[1] \/ (f = First[1] /\ Length[sent[f]] < First[2])
        BY <2>1 DEF Passed, Before
      <4> QED
        BY <1>9, <1>y, <4>2, <4>3, <4>4
    <3> QED
      BY <1>18, <3>1, <3>2
  <2>2. \A f : Passed(f)' <=> Passed(f)
    BY <1>0, <1>8 DEF Passed, Before
  <2> QED
    BY <1>0, <1>17, <2>1, <2>2 DEF Accounted
<1>21. PhaseOK'
  <2>1. wire # <<>>
    BY <1>1
  <2>2. phase # "connected"
    BY <1>0, <2>1 DEF PhaseOK
  <2>3. ASSUME Unopened', NEW i \in DOMAIN s
        PROVE  sent[s[i][1]] \in Opening \/ s[i][1] \in early'
    <3>1. Unopened
      BY <1>0, <2>3 DEF Unopened
    <3>2. i \in 1 .. n /\ s[i] = wire[i] /\ Real(wire[i])
      BY <1>1, <1>4 DEF Run
    <3>3. wire[i][1] \in DOMAIN sent
      BY <1>0, <3>2, SuccFacts
    <3> QED
      BY <1>0, <3>1, <3>2, <3>3
  <2> QED
    BY <1>0, <1>6, <1>8, <2>2, <2>3 DEF PhaseOK
<1> QED
  BY <1>11, <1>12, <1>13, <1>14, <1>15, <1>16, <1>19, <1>20, <1>21 DEF FInv

LEMMA SendStep ==
    ASSUME FInv, NEW k \in Kinds, Send(k)
    PROVE  FInv'
<1>f. PICK f : f = Len(sent) + 1
  OBVIOUS
<1>n. PICK n : n = Length[k] + (IF k \in Nul /\ program # "bdjob" THEN 1 ELSE 0)
  OBVIOUS
<1>e. PICK e : e = NextSent
  OBVIOUS
<1>l. PICK l : l = Len(wire)
  OBVIOUS
<1>x. PICK x : x = [i \in 1 .. n |-> <<f, i>>]
  OBVIOUS
<1>w. PICK w : w = wire'
  OBVIOUS
<1>0. /\ call.busy = "no" /\ Len(sent) < MaxSent
      /\ w = wire \o x /\ sent' = Append(sent, k)
      /\ k \in Opening <=> phase = "connected"
      /\ phase' = IF phase = "connected" THEN "opening" ELSE phase
      /\ UNCHANGED <<program, exp, call, given, hurt, fresh, gone, early>>
      /\ TypeOK /\ PhaseOK /\ StreamOK /\ CallOK /\ GoneOK /\ FreshOK /\ LinesOK /\ OncePerLine
      /\ Mode /\ Accounted /\ Joined
  BY <1>f, <1>n, <1>x, <1>w DEF Send, FInv
<1>1. /\ sent \in Seq(Kinds) /\ Len(sent) \in Nat /\ DOMAIN sent = 1 .. Len(sent)
      /\ wire \in Seq(Byte) /\ l \in Nat /\ f \in Nat /\ f \in Frames
      /\ Length[k] \in Nat /\ 1 < Length[k] /\ n \in Nat /\ Length[k] <= n
      /\ e = <<f, 1>>
  <2>1. sent \in Seq(Kinds) /\ Len(sent) \in Nat /\ DOMAIN sent = 1 .. Len(sent)
        /\ wire \in Seq(Byte) /\ l \in Nat
    BY <1>0, <1>l, SeqTypes
  <2>2. f \in Nat /\ f \in Frames
    BY <1>0, <1>f, <2>1, BoundAssumption DEF Frames
  <2>3. Length[k] \in Nat /\ 1 < Length[k]
    BY KindsAssumption
  <2> QED
    BY <1>e, <1>f, <1>n, <2>1, <2>2, <2>3 DEF NextSent
<1>2. /\ sent' \in Seq(Kinds) /\ Len(sent') = f /\ DOMAIN sent' = 1 .. f /\ sent'[f] = k
      /\ \A g \in DOMAIN sent : sent'[g] = sent[g] /\ g \in DOMAIN sent' /\ g # f /\ g \in Nat
      /\ \A g \in DOMAIN sent' : g = f \/ g \in DOMAIN sent
  <2>1. /\ sent' \in Seq(Kinds) /\ Len(sent') = f
        /\ sent'[f] = k /\ \A g \in 1 .. Len(sent) : sent'[g] = sent[g]
    BY <1>0, <1>1, <1>f
  <2>2. DOMAIN sent' = 1 .. f
    BY <2>1
  <2>3. \A g \in 1 .. Len(sent) : g \in 1 .. f /\ g # f /\ g \in Nat
    BY <1>1, <1>f
  <2>4. \A g \in 1 .. f : g = f \/ g \in 1 .. Len(sent)
    BY <1>1, <1>f
  <2> QED
    BY <1>1, <2>1, <2>2, <2>3, <2>4
<1>3. /\ x \in Seq(Byte) /\ Len(x) = n /\ \A i \in 1 .. n : x[i] = <<f, i>>
  <2>1. \A i \in 1 .. n : <<f, i>> \in Byte
    BY <1>1 DEF Byte
  <2> QED
    BY <1>1, <1>x, <2>1
<1>4. /\ w \in Seq(Byte) /\ Len(w) = l + n
      /\ \A i \in 1 .. l : w[i] = wire[i]
      /\ \A i \in l + 1 .. l + n : w[i] = <<f, i - l>>
  <2>1. /\ w \in Seq(Byte) /\ Len(w) = l + n
        /\ \A i \in 1 .. l + n : w[i] = IF i <= l THEN wire[i] ELSE x[i - l]
    <3>1. /\ wire \o x \in Seq(Byte) /\ Len(wire \o x) = Len(wire) + Len(x)
          /\ \A i \in 1 .. Len(wire) + Len(x) :
                (wire \o x)[i] = IF i <= Len(wire) THEN wire[i] ELSE x[i - Len(wire)]
      BY <1>1, <1>3, ConcatProperties
    <3> QED
      BY <1>0, <1>3, <1>l, <3>1
  <2>2. ASSUME NEW i \in l + 1 .. l + n PROVE w[i] = <<f, i - l>>
    <3>1. i \in 1 .. l + n /\ ~ (i <= l) /\ i - l \in 1 .. n
      BY <1>1
    <3> QED
      BY <1>3, <2>1, <3>1
  <2>3. ASSUME NEW i \in 1 .. l PROVE w[i] = wire[i]
    <3>1. i \in 1 .. l + n /\ i <= l
      BY <1>1
    <3> QED
      BY <2>1, <3>1
  <2> QED
    BY <2>1, <2>2, <2>3
<1>5. ASSUME NEW g \in DOMAIN sent
      PROVE  Total(g)' = Total(g) /\ Whole(g)' = Whole(g)
  BY <1>0, <1>2 DEF Total, Whole
<1>6. Total(f)' = n
  BY <1>0, <1>2, <1>n DEF Total
<1>7. ASSUME NEW b, Real(b) PROVE Real(b)' /\ Succ(b)' = Succ(b)
  <2>1. b[1] \in DOMAIN sent /\ b \in (DOMAIN sent) \X Nat /\ 1 <= b[2] /\ b[2] <= Total(b[1])
    BY <1>7 DEF Real
  <2>2. Total(b[1])' = Total(b[1])
    BY <1>5, <2>1
  <2>3. b \in (DOMAIN sent') \X Nat
    BY <1>2, <2>1
  <2>4. Real(b)'
    BY <2>1, <2>2, <2>3 DEF Real
  <2>5. Succ(b)' = Succ(b)
    BY <2>2 DEF Succ
  <2> QED
    BY <2>4, <2>5
<1>8. NextSent' = <<f + 1, 1>>
  BY <1>2 DEF NextSent
<1>9. ASSUME NEW i \in 1 .. l + 1
      PROVE  Pos(w, NextSent', i) = Pos(wire, e, i)
  <2>1. CASE i <= l
    <3>1. i \in 1 .. l /\ i <= l + n
      BY <1>1, <2>1
    <3> QED
      BY <1>4, <1>l, <3>1, <2>1 DEF Pos
  <2>2. CASE ~ (i <= l)
    <3>1. i = l + 1 /\ i \in l + 1 .. l + n /\ i <= l + n /\ i - l = 1
      BY <1>1, <2>2
    <3>2. w[i] = <<f, 1>>
      BY <1>4, <3>1
    <3> QED
      BY <1>1, <1>4, <1>l, <2>2, <3>1, <3>2 DEF Pos
  <2> QED
    BY <2>1, <2>2
<1>10. OnWire' = OnWire
  <2>1. 1 \in 1 .. l + 1
    BY <1>1
  <2>2. Pos(w, NextSent', 1) = Pos(wire, e, 1)
    BY <1>9, <2>1
  <2> QED
    BY <1>e, <1>w, <2>2 DEF OnWire, Pos
<1>11. ASSUME NEW i \in 1 .. Len(w)
       PROVE  Real(w[i])' /\ Pos(w, NextSent', i + 1) = Succ(w[i])'
  <2>1. CASE i <= l
    <3>1. i \in 1 .. l /\ i + 1 \in 1 .. l + 1 /\ i \in 1 .. Len(wire)
      BY <1>1, <1>l, <2>1
    <3>2. Real(wire[i]) /\ Pos(wire, e, i + 1) = Succ(wire[i])
      BY <1>0, <1>e, <3>1 DEF StreamOK, Run
    <3>3. w[i] = wire[i]
      BY <1>4, <3>1
    <3>b. PICK b : b = wire[i]
      OBVIOUS
    <3>4. Real(b)' /\ Succ(b)' = Succ(b)
      BY <1>7, <3>2, <3>b
    <3>6. Pos(w, NextSent', i + 1) = Pos(wire, e, i + 1)
      BY <1>9, <3>1
    <3> QED
      BY <3>2, <3>3, <3>4, <3>6, <3>b
  <2>2. CASE ~ (i <= l)
    <3>j. PICK j : j = i - l
      OBVIOUS
    <3>1. i \in l + 1 .. l + n /\ j \in 1 .. n /\ j \in Nat /\ 1 <= j /\ j <= n
      BY <1>1, <1>4, <2>2, <3>j
    <3>b. PICK b : b = w[i]
      OBVIOUS
    <3>2. b = <<f, j>> /\ b[1] = f /\ b[2] = j
      BY <1>4, <3>1, <3>j, <3>b
    <3>3. f \in DOMAIN sent'
      BY <1>1, <1>2, <1>f
    <3>4. Real(b)'
      BY <1>6, <3>1, <3>2, <3>3 DEF Real
    <3>5. CASE j < n
      <4>1. i + 1 \in l + 1 .. l + n /\ (i + 1) - l = j + 1 /\ i + 1 <= l + n
        BY <1>1, <3>1, <3>5, <3>j
      <4>2. w[i + 1] = <<f, j + 1>>
        BY <1>4, <4>1
      <4>3. Succ(b)' = <<f, j + 1>>
        BY <1>6, <3>2, <3>5 DEF Succ
      <4> QED
        BY <1>4, <3>4, <3>b, <4>1, <4>2, <4>3 DEF Pos
    <3>6. CASE ~ (j < n)
      <4>1. ~ (i + 1 <= l + n)
        BY <1>1, <3>1, <3>6, <3>j
      <4>2. Succ(b)' = <<f + 1, 1>>
        BY <1>6, <3>2, <3>6 DEF Succ
      <4> QED
        BY <1>4, <1>8, <3>4, <3>b, <4>1, <4>2 DEF Pos
    <3> QED
      BY <3>5, <3>6
  <2> QED
    BY <2>1, <2>2
<1>12. /\ call.str = <<>> /\ First = OnWire /\ Now = OnWire
       /\ First[1] \in Nat /\ First[2] \in Nat /\ First[1] <= f
       /\ First[1] \notin DOMAIN sent => First = <<f, 1>>
  BY <1>0, <1>1, <1>e, <1>f, BetweenReads
<1>13. First' = First /\ Now' = Now
  BY <1>0, <1>10 DEF First, Now, Pos
<1>14. StreamOK'
  <2>1. \A i \in 1 .. Len(w) : Real(w[i])' /\ Pos(w, NextSent', i + 1) = Succ(w[i])'
    BY <1>11
  <2>2. Run(wire, NextSent)'
    BY <1>w, <2>1 DEF Run, Pos
  <2>3. Run(call.str, OnWire)'
    BY <1>0, <1>12 DEF Run
  <2> QED
    BY <2>2, <2>3 DEF StreamOK
<1>15. TypeOK'
  <2>1. Len(sent') <= MaxSent /\ MaxSent \in Nat
    BY <1>0, <1>1, <1>2, <1>f, BoundAssumption
  <2>2. wire' \in Seq(Byte)
    BY <1>4, <1>w
  <2> QED
    BY <1>0, <1>2, <2>1, <2>2 DEF TypeOK
<1>16. CallOK'
  <2>1. Idle' = Idle /\ call' = call
    BY <1>0 DEF Idle
  <2>2. call.busy # "search"
    BY <1>0
  <2> QED
    BY <1>0, <2>1, <2>2 DEF CallOK, LastOf
<1>17. LinesOK' /\ OncePerLine' /\ GoneOK'
  <2>1. ASSUME NEW b, LineEnd(b) PROVE LineEnd(b)'
    BY <1>2, <2>1 DEF LineEnd, LF
  <2> QED
    BY <1>0, <1>13, <2>1 DEF LinesOK, LastOf, Before, OncePerLine, GoneOK
<1>18. NulFirst' <=> NulFirst
  <2>1. CASE First[1] \in DOMAIN sent
    BY <1>2, <1>13, <2>1 DEF NulFirst, IsNul
  <2>2. CASE First[1] \notin DOMAIN sent
    <3>1. First[1] = f /\ First[2] = 1
      BY <1>12, <2>2
    <3>2. ~ (First[2] > Length[sent'[f]])
      BY <1>1, <1>2, <3>1
    <3> QED
      BY <1>13, <2>2, <3>1, <3>2 DEF NulFirst, IsNul
  <2> QED
    BY <2>1, <2>2
<1>19. FreshOK'
  BY <1>0, <1>13, <1>18 DEF FreshOK
<1>20. Joined'
  <2>1. ~ (call.busy = "search")
    BY <1>0
  <2>2. Now[1] \in DOMAIN sent => Now[1] \in DOMAIN sent' /\ sent'[Now[1]] = sent[Now[1]]
    BY <1>2
  <2> QED
    BY <1>0, <1>13, <2>1, <2>2 DEF Joined, LF, LastOf
<1>21. ASSUME NEW g \in DOMAIN sent PROVE Given(g)' <=> Given(g)
  <2>1. Whole(g)' = Whole(g)
    BY <1>5
  <2> QED
    BY <1>0, <2>1 DEF Given
<1>22. ASSUME NEW g, Bad(g) PROVE Bad(g)'
  <2>1. CASE g \in hurt \/ g \in early
    BY <1>0, <2>1 DEF Bad
  <2>2. CASE g \in DOMAIN sent /\ (Unknown(g) \/ TooLong(g))
    BY <1>0, <1>2, <2>2 DEF Bad, Unknown, TooLong
  <2>3. CASE g \in DOMAIN sent /\ Excused(g)
    <3>1. g \notin fresh /\ g - 1 \in (DOMAIN sent) \ gone /\ ~ Given(g - 1)
      BY <2>3 DEF Excused
    <3>h. PICK h : h = g - 1
      OBVIOUS
    <3>2. ~ Given(h)' /\ h \in (DOMAIN sent') \ gone'
      BY <1>0, <1>2, <1>21, <3>1, <3>h
    <3>3. Excused(g)'
      BY <1>0, <3>1, <3>2, <3>h DEF Excused
    <3> QED
      BY <1>2, <2>3, <3>3 DEF Bad
  <2> QED
    BY <1>22, <2>1, <2>2, <2>3 DEF Bad
<1>23. Mode'
  <2>1. CASE Starting
    <3>1. Starting'
      BY <1>0, <1>13, <1>18, <2>1 DEF Starting
    <3> QED
      BY <3>1 DEF Mode
  <2>2. CASE Aligned
    <3>1. Aligned'
      BY <1>0, <1>2, <1>13, <2>2 DEF Aligned
    <3> QED
      BY <3>1 DEF Mode
  <2>3. CASE Spoilt
    <3>y. PICK y : y = First[1]
      OBVIOUS
    <3>1. Bad(y)' /\ First'[1] = y /\ ~ NulFirst'
      BY <1>13, <1>18, <1>22, <2>3, <3>y DEF Spoilt
    <3> QED
      BY <3>1 DEF Mode, Spoilt
  <2> QED
    BY <1>0, <2>1, <2>2, <2>3 DEF Mode
<1>24. Accounted'
  <2>1. ASSUME NEW g \in (DOMAIN sent') \ gone, Passed(g)' PROVE Given(g)' \/ Bad(g)'
    <3>1. CASE g = f
      <4>1. g < First[1] \/ (g = First[1] /\ Length[k] < First[2])
        BY <1>2, <1>13, <2>1, <3>1 DEF Passed, Before
      <4>2. g = First[1] /\ First = <<f, 1>>
        BY <1>2, <1>12, <3>1, <4>1, <1>1
      <4> QED
        BY <1>1, <1>12, <4>1, <4>2
    <3>2. CASE g # f
      <4>1. g \in (DOMAIN sent) \ gone
        BY <1>2, <2>1, <3>2
      <4>2. Passed(g)
        BY <1>2, <1>13, <2>1, <4>1 DEF Passed, Before
      <4> QED
        BY <1>0, <1>21, <1>22, <4>1, <4>2 DEF Accounted
    <3> QED
      BY <3>1, <3>2
  <2> QED
    BY <1>0, <2>1 DEF Accounted
<1>25. PhaseOK'
  <2>1. ASSUME k \in Opening PROVE First[1] = f
    <3>1. wire = <<>>
      BY <1>0, <2>1 DEF PhaseOK
    <3> QED
      BY <1>1, <1>12, <3>1 DEF OnWire, Pos, NextSent
  <2>2. ASSUME NEW g \in DOMAIN sent', sent'[g] \in Opening PROVE g <= First'[1]
    <3>1. CASE g = f
      BY <1>1, <1>2, <1>13, <2>1, <2>2, <3>1
    <3>2. CASE g # f
      BY <1>0, <1>2, <1>13, <2>2, <3>2 DEF PhaseOK
    <3> QED
      BY <3>1, <3>2
  <2>3. ASSUME First'[1] \in DOMAIN sent', First'[2] = 1, sent'[First'[1]] \in Opening
        PROVE  phase' = "opening"
    <3>1. CASE First[1] = f
      BY <1>0, <1>2, <1>13, <2>3, <3>1
    <3>2. CASE First[1] # f
      <4>1. phase = "opening"
        BY <1>0, <1>2, <1>13, <2>3, <3>2 DEF PhaseOK
      <4> QED
        BY <1>0, <4>1
    <3> QED
      BY <3>1, <3>2
  <2>4. phase' # "connected"
    BY <1>0
  <2>5. call'.str = <<>>
    BY <1>0, <1>12
  <2> QED
    BY <2>2, <2>3, <2>4, <2>5 DEF PhaseOK
<1> QED
  BY <1>14, <1>15, <1>16, <1>17, <1>19, <1>20, <1>23, <1>24, <1>25 DEF FInv

LEMMA CoveredByWire ==
    ASSUME TypeOK, StreamOK, NEW f \in DOMAIN sent, OnWire[1] <= f
    PROVE  \E n \in DOMAIN wire : wire[n][1] = f
<1>e. PICK e : e = NextSent
  OBVIOUS
<1>1. wire \in Seq(Byte) /\ Run(wire, e) /\ Len(sent) \in Nat /\ f <= Len(sent) /\ f \in Nat
  BY <1>e, SeqTypes, FrameFacts DEF StreamOK
<1>2. e[1] = Len(sent) + 1
  BY <1>e DEF NextSent
<1>3. Pos(wire, e, 1) = OnWire /\ OnWire[1] \in Nat
  BY <1>e, Places, PlaceFacts DEF OnWire
<1> QED
  BY <1>1, <1>2, <1>3, Covered

(* What is on the wire is of frames that were sent, from where it begins.  *)
LEMMA OnTheWire ==
    ASSUME TypeOK, StreamOK, NEW n \in DOMAIN wire
    PROVE  /\ wire[n][1] \in DOMAIN sent /\ wire[n][1] \in Nat /\ wire[n][1] <= Len(sent)
           /\ wire[n][1] \in Frames /\ OnWire[1] <= wire[n][1]
<1>e. PICK e : e = NextSent
  OBVIOUS
<1>1. /\ wire \in Seq(Byte) /\ Len(wire) \in Nat /\ n \in 1 .. Len(wire) /\ Run(wire, e)
  BY <1>e, SeqTypes DEF StreamOK
<1>2. wire[n][1] \in DOMAIN sent /\ wire[n][2] \in Nat
  <2>1. Real(wire[n])
    BY <1>1 DEF Run
  <2> QED
    BY <2>1, SuccFacts
<1>3. wire[n][1] \in Nat /\ wire[n][1] <= Len(sent) /\ wire[n][1] \in Frames
  BY <1>2, FrameFacts
<1>4. OnWire = wire[1] /\ OnWire[1] \in Nat
  <2>1. OnWire = wire[1]
    BY <1>1 DEF OnWire, Pos
  <2> QED
    BY <2>1, Places, PlaceFacts
<1>5. CASE n # 1
  <2>1. n \in 1 .. Len(wire) + 1 /\ 1 \in 1 .. Len(wire) + 1 /\ 1 < n
    BY <1>1, <1>5
  <2>2. Before(Pos(wire, e, 1), Pos(wire, e, n))
    BY <1>1, <2>1, Order
  <2>3. Before(OnWire, wire[n])
    BY <1>1, <1>4, <2>2 DEF Pos
  <2> QED
    BY <1>2, <1>3, <1>4, <2>3 DEF Before
<1> QED
  BY <1>2, <1>3, <1>4, <1>5

LEMMA ReconnectStep ==
    ASSUME FInv, Reconnect
    PROVE  FInv'
<1>e. PICK e : e = NextSent
  OBVIOUS
<1>0. /\ call.busy = "no"
      /\ gone' = gone \cup {f \in Pending : ~ IsNul(wire[1]) \/ wire[1][1] # f}
      /\ wire' = <<>>
      /\ exp' = NoFrame \/ exp' = exp
      /\ hurt' = IF exp'.searchstatus = "identifier" THEN hurt \cup {Len(sent) + 1} ELSE hurt
      /\ phase' = IF phase = "client" THEN phase ELSE "connected"
      /\ UNCHANGED <<program, sent, call, given, fresh, early>>
      /\ TypeOK /\ PhaseOK /\ StreamOK /\ CallOK /\ GoneOK /\ FreshOK /\ LinesOK /\ OncePerLine
      /\ Mode /\ Accounted /\ Joined
  BY DEF Reconnect, exp_clear, FInv
<1>1. /\ wire \in Seq(Byte) /\ Len(wire) \in Nat /\ Run(wire, e)
      /\ Len(sent) \in Nat /\ DOMAIN sent = 1 .. Len(sent) /\ DOMAIN wire = 1 .. Len(wire)
  BY <1>0, <1>e, SeqTypes DEF StreamOK
<1>2. /\ call = Idle /\ call.str = <<>> /\ call.dwCurrPt = 1 /\ call.Head = <<>>
      /\ First = OnWire /\ First[1] \in Nat /\ First[2] \in Nat /\ First[1] <= Len(sent) + 1
  BY <1>0, BetweenReads
<1>3. 1 <= Len(wire) => First = wire[1]
  BY <1>1, <1>2 DEF OnWire, Pos
<1>4. e = <<Len(sent) + 1, 1>> /\ NextSent' = e
  BY <1>0, <1>e DEF NextSent
<1>5. OnWire' = e /\ First' = e /\ Now' = e
  BY <1>0, <1>2, <1>4 DEF OnWire, First, Now, Pos
<1>6. \A f \in Pending : f \in DOMAIN sent /\ f \in Nat /\ f <= Len(sent) /\ f \in Frames
                         /\ First[1] <= f
  BY <1>0, <1>2, OnTheWire DEF Pending
<1>7. exp' \in ExpType /\ Len(exp'.frame) < Limit[program]
      /\ exp'.searchstatus \in {"null", "identifier"}
  <2>1. exp \in ExpType /\ Len(exp.frame) < Limit[program]
    BY <1>0 DEF TypeOK
  <2>2. NoFrame \in ExpType /\ Len(NoFrame.frame) < Limit[program]
    <3>1. Limit[program] \in Nat /\ 0 < Limit[program]
      BY <1>0, KindsAssumption, BoundAssumption DEF TypeOK
    <3> QED
      BY <3>1 DEF NoFrame, ExpType
  <2>3. exp' \in ExpType /\ Len(exp'.frame) < Limit[program]
    BY <1>0, <2>1, <2>2
  <2> QED
    BY <2>3 DEF ExpType
<1>8. TypeOK'
  <2>1. hurt' \subseteq 1 .. MaxSent + 1
    <3>1. Len(sent) + 1 \in 1 .. MaxSent + 1
      BY <1>0, <1>1, BoundAssumption DEF TypeOK
    <3> QED
      BY <1>0, <3>1 DEF TypeOK
  <2>2. gone' \subseteq Frames
    BY <1>0, <1>6 DEF TypeOK
  <2> QED
    BY <1>0, <1>7, <2>1, <2>2 DEF TypeOK
<1>9. StreamOK'
  BY <1>0, <1>2 DEF StreamOK, Run
<1>10. CallOK'
  <2>1. Idle' = Idle /\ call' = Idle /\ call'.busy = "no" /\ call'.str = <<>>
        /\ call'.dwCurrPt = 1 /\ call'.Head = <<>>
    BY <1>0, <1>2 DEF Idle
  <2>2. 1 \in 1 .. Len(<<>>) + 1 /\ Len(<<>>) = 0
    OBVIOUS
  <2> QED
    BY <2>1, <2>2 DEF CallOK
<1>11. LinesOK' /\ OncePerLine'
  <2>1. ASSUME NEW n \in DOMAIN given
        PROVE  given[n] # <<>> /\ LineEnd(LastOf(given[n])) /\ Before(LastOf(given[n]), e)
    <3>1. given[n] # <<>> /\ LineEnd(LastOf(given[n]))
      BY <1>0 DEF LinesOK
    <3>2. LastOf(given[n])[1] \in DOMAIN sent
      BY <3>1 DEF LineEnd
    <3>3. LastOf(given[n])[1] < e[1]
      BY <1>1, <1>4, <3>2
    <3> QED
      BY <3>1, <3>3 DEF Before
  <2>2. LinesOK'
    BY <1>0, <1>5, <2>1 DEF LinesOK, LineEnd, LF, LastOf, Before
  <2> QED
    BY <1>0, <2>2 DEF OncePerLine
<1>12. GoneOK'
  <2>1. ASSUME NEW f \in gone' PROVE f < First'[1]
    <3>1. CASE f \in gone
      <4>1. f < First[1] /\ f \in Nat
        BY <1>0, <3>1 DEF GoneOK, TypeOK, Frames
      <4> QED
        BY <1>1, <1>2, <1>4, <1>5, <4>1
    <3>2. CASE f \in Pending
      BY <1>1, <1>4, <1>5, <1>6, <3>2
    <3> QED
      BY <1>0, <3>1, <3>2
  <2> QED
    BY <2>1 DEF GoneOK
<1>13. FreshOK'
  <2>1. ASSUME NEW f \in fresh PROVE f <= First'[1]
    <3>1. f <= First[1] /\ f \in Nat
      BY <1>0 DEF FreshOK, TypeOK, Frames
    <3> QED
      BY <1>1, <1>2, <1>4, <1>5, <3>1
  <2> QED
    BY <1>0, <2>1 DEF FreshOK
<1>14. ~ NulFirst'
  <2>1. First'[1] \notin DOMAIN sent'
    BY <1>0, <1>1, <1>4, <1>5
  <2> QED
    BY <2>1 DEF NulFirst
<1>15. Joined' /\ Mode'
  <2>1. CASE exp'.searchstatus = "null"
    <3>1. Starting'
      BY <1>0, <1>4, <1>5, <2>1 DEF Starting
    <3> QED
      BY <2>1, <3>1 DEF Joined, Mode
  <2>2. CASE exp'.searchstatus = "identifier"
    <3>1. exp' = exp
      BY <1>0, <2>2 DEF NoFrame
    <3>2. Len(sent) + 1 \in hurt'
      BY <1>0, <2>2
    <3>3. e[1] = Len(sent) + 1 /\ e[2] = 1
      BY <1>4
    <3>4. Spoilt'
      BY <1>5, <1>14, <3>2, <3>3 DEF Spoilt, Bad
    <3>5. Joined'
      BY <1>0, <1>5, <2>2, <3>1, <3>2, <3>3 DEF Joined
    <3> QED
      BY <3>4, <3>5 DEF Mode
  <2> QED
    BY <1>7, <2>1, <2>2
<1>16. Accounted'
  <2>1. \A f : Given(f)' <=> Given(f)
    BY <1>0 DEF Given, Whole
  <2>2. ASSUME NEW f \in (DOMAIN sent) \ gone'
        PROVE  Given(f) \/ Bad(f)'
    <3>0. f \in DOMAIN sent /\ f \notin gone /\ f \in Nat /\ Length[sent[f]] \in Nat
      BY <1>0, <2>2, FrameFacts
    <3>1. Passed(f) /\ f <= First[1]
      <4>1. CASE f < First[1]
        BY <1>2, <3>0, <4>1 DEF Passed, Before
      <4>2. CASE ~ (f < First[1])
        <5>1. OnWire[1] <= f
          BY <1>2, <3>0, <4>2
        <5>2. PICK n \in DOMAIN wire : wire[n][1] = f
          BY <1>0, <3>0, <5>1, CoveredByWire
        <5>3. IsNul(wire[1]) /\ wire[1][1] = f
          BY <1>0, <2>2, <5>2 DEF Pending
        <5>4. First = wire[1]
          BY <1>1, <1>3, <5>2
        <5> QED
          BY <1>2, <3>0, <5>3, <5>4 DEF IsNul, Passed, Before
      <4> QED
        BY <1>2, <3>0, <4>1, <4>2
    <3>2. Given(f) \/ Bad(f)
      BY <1>0, <3>0, <3>1 DEF Accounted
    <3>3. CASE f \in hurt \/ f \in early \/ Unknown(f) \/ TooLong(f)
      BY <1>0, <3>0, <3>3 DEF Bad, Unknown, TooLong
    <3>4. CASE Excused(f)
      <4>g. PICK g : g = f - 1
        OBVIOUS
      <4>1. f \notin fresh /\ g \in (DOMAIN sent) \ gone /\ ~ Given(g)
        BY <3>4, <4>g DEF Excused
      <4>2. g \notin Pending
        <5>1. g < First[1] /\ g \in Nat
          BY <1>0, <1>2, <3>0, <3>1, <4>1, <4>g, FrameFacts
        <5> QED
          BY <1>2, <1>6, <5>1
      <4>3. Excused(f)'
        BY <1>0, <2>1, <4>1, <4>2, <4>g DEF Excused
      <4> QED
        BY <1>0, <3>0, <4>3 DEF Bad
    <3> QED
      BY <3>2, <3>3, <3>4 DEF Bad
  <2> QED
    BY <1>0, <2>1, <2>2 DEF Accounted
<1>17. PhaseOK'
  <2>1. ASSUME NEW f \in DOMAIN sent PROVE f <= First'[1]
    BY <1>1, <1>4, <1>5
  <2>2. First'[1] \notin DOMAIN sent
    BY <1>1, <1>4, <1>5
  <2>3. wire' = <<>> /\ call'.str = <<>>
    BY <1>0, <1>2
  <2> QED
    BY <1>0, <2>1, <2>2, <2>3 DEF PhaseOK
<1> QED
  BY <1>8, <1>9, <1>10, <1>11, <1>12, <1>13, <1>15, <1>16, <1>17 DEF FInv

-----------------------------------------------------------------------------
(* The invariant.                                                          *)

LEMMA FInvInit ==
    ASSUME Init
    PROVE  FInv
<1>0. /\ sent = <<>> /\ wire = <<>> /\ exp = NoFrame /\ call = Idle /\ given = <<>>
      /\ hurt = {} /\ fresh = {} /\ gone = {} /\ early = {} /\ program \in Programs
      /\ phase \in {"client", "connected"}
  BY DEF Init
<1>1. /\ call.busy = "no" /\ call.str = <<>> /\ call.dwCurrPt = 1 /\ call.Head = <<>>
      /\ call.iHeadLen = Window /\ call \in CallType /\ exp \in ExpType
      /\ exp.searchstatus = "null" /\ exp.frame = <<>> /\ Window \in Nat /\ 1 <= Window
  BY <1>0, KindsAssumption DEF Idle, CallType, NoFrame, ExpType
<1>2. First = <<1, 1>>
  BY <1>0, <1>1 DEF First, OnWire, Pos, NextSent
<1>3. TypeOK
  <2>1. Limit[program] \in Nat /\ 0 < Limit[program] /\ MaxSent \in Nat
    BY <1>0, KindsAssumption, BoundAssumption
  <2> QED
    BY <1>0, <1>1, <2>1 DEF TypeOK
<1>4. StreamOK
  BY <1>0, <1>1 DEF StreamOK, Run
<1>5. CallOK
  <2>1. 1 \in 1 .. Len(<<>>) + 1 /\ Len(<<>>) = 0
    OBVIOUS
  <2> QED
    BY <1>0, <1>1, <2>1 DEF CallOK
<1>6. LinesOK /\ OncePerLine
  <2>1. DOMAIN given = {} /\ Len(given) = 0
    BY <1>0
  <2> QED
    BY <2>1 DEF LinesOK, OncePerLine
<1>7. GoneOK /\ FreshOK
  BY <1>0 DEF GoneOK, FreshOK
<1>8. Joined /\ Mode
  <2>1. Starting
    BY <1>1, <1>2 DEF Starting
  <2> QED
    BY <1>1, <2>1 DEF Joined, Mode
<1>9. Accounted
  <2>1. DOMAIN sent = {}
    BY <1>0
  <2> QED
    BY <2>1 DEF Accounted
<1>10. PhaseOK
  <2>1. DOMAIN sent = {} /\ DOMAIN call.str = {}
    BY <1>0, <1>1
  <2> QED
    BY <1>0, <1>1, <2>1 DEF PhaseOK
<1> QED
  BY <1>3, <1>4, <1>5, <1>6, <1>7, <1>8, <1>9, <1>10 DEF FInv

LEMMA FInvStutter ==
    ASSUME FInv, UNCHANGED vars
    PROVE  FInv'
<1>1. SameStream /\ UNCHANGED <<exp, call>>
  BY DEF vars, SameStream
<1>2. First' = First /\ OnWire' = OnWire /\ NulFirst' = NulFirst /\ \A f : Bad(f)' <=> Bad(f)
  <2>1. NulFirst' = NulFirst
    BY <1>1 DEF SameStream, NulFirst, IsNul, First, OnWire, Pos, NextSent
  <2> QED
    BY <1>1, <2>1, Same
<1>3. Now' = Now
  BY <1>1, <1>2 DEF Now, Pos
<1>4. TypeOK' /\ CallOK'
  BY <1>1 DEF FInv, TypeOK, CallOK, SameStream, LastOf, IsNul, Idle
<1>5. Joined'
  BY <1>1, <1>3 DEF FInv, Joined, SameStream, LastOf, LF, Dollar
<1>6. Mode'
  BY <1>1, <1>2, <1>3 DEF FInv, Mode, Starting, Aligned, Spoilt, SameStream, Pos
<1> QED
  BY <1>1, <1>4, <1>5, <1>6, SameStep

LEMMA FInvNext ==
    ASSUME FInv, [Next]_vars
    PROVE  FInv'
<1>1. CASE \E k \in Kinds : Send(k)
  BY <1>1, SendStep
<1>2. CASE \E n \in DOMAIN wire : Read(n)
  BY <1>2, ReadStep
<1>3. CASE Step
  BY <1>3, SkipNulStep, SearchBegins, DoneStep, CollectStep, BeginStep, SlideStep, AddStep,
     OverrunStep, EndStep, EndOfOpeningStep, ExhaustedStep DEF Step
<1>4. CASE Reconnect
  BY <1>4, ReconnectStep
<1>5. CASE UNCHANGED vars
  BY <1>5, FInvStutter
<1> QED
  BY <1>1, <1>2, <1>3, <1>4, <1>5 DEF Next

THEOREM Invariance == Spec => []FInv
<1>1. Init => FInv
  BY FInvInit
<1>2. FInv /\ [Next]_vars => FInv'
  BY FInvNext
<1> QED
  BY <1>1, <1>2, PTL DEF Spec

(* The searcher's state is well typed; neither the window nor a frame      *)
(* outgrows its buffer, whatever the stream and its cuts.                  *)
THEOREM TypeCorrect == Spec => []TypeOK
<1>1. FInv => TypeOK
  BY DEF FInv
<1> QED
  BY <1>1, Invariance, PTL

(* No line is handled twice, though Begin() goes back in the read.         *)
THEOREM OncePerLineHolds == Spec => []OncePerLine
<1>1. FInv => OncePerLine
  BY DEF FInv
<1> QED
  BY <1>1, Invariance, PTL

(* A frame is lost for the reasons that OnlyHurtLost names, and no other.  *)
THEOREM OnlyHurtLostHolds == Spec => []OnlyHurtLost
<1>1. FInv => OnlyHurtLost
  <2>1. SUFFICES ASSUME FInv, call.busy = "no", NEW f \in Lost
                 PROVE  \/ f \in hurt \/ Unknown(f) \/ TooLong(f) \/ f \in early
                        \/ (f \notin fresh /\ f - 1 \in Lost)
    BY DEF OnlyHurtLost
  <2>2. TypeOK /\ StreamOK /\ Accounted
    BY <2>1 DEF FInv
  <2>3. f \in (DOMAIN sent) \ gone /\ f \notin Pending /\ ~ Given(f)
    BY <2>1 DEF Lost, Given
  <2>4. First = OnWire /\ First[1] \in Nat /\ f \in Nat
    BY <2>1, <2>2, <2>3, BetweenReads, FrameFacts
  <2>5. f < First[1]
    <3>1. SUFFICES ASSUME OnWire[1] <= f PROVE FALSE
      BY <2>4
    <3> QED
      BY <2>2, <2>3, <3>1, CoveredByWire DEF Pending
  <2>6. Bad(f)
    <3>1. Passed(f)
      BY <2>5 DEF Passed, Before
    <3> QED
      BY <2>2, <2>3, <3>1 DEF Accounted
  <2>7. ASSUME Excused(f) PROVE f \notin fresh /\ f - 1 \in Lost
    <3>g. PICK g : g = f - 1
      OBVIOUS
    <3>1. f \notin fresh /\ g \in (DOMAIN sent) \ gone /\ ~ Given(g)
      BY <2>7, <3>g DEF Excused
    <3>2. g \in Nat /\ g < First[1]
      BY <2>2, <2>4, <2>5, <3>1, <3>g, FrameFacts
    <3>3. g \notin Pending
      <4>1. SUFFICES ASSUME NEW n \in DOMAIN wire, wire[n][1] = g PROVE FALSE
        BY DEF Pending
      <4>2. First[1] <= wire[n][1]
        BY <2>2, OnTheWire, <2>4
      <4> QED
        BY <2>4, <3>2, <4>1, <4>2
    <3> QED
      BY <3>1, <3>3, <3>g DEF Lost, Given
  <2> QED
    BY <2>6, <2>7 DEF Bad
<1> QED
  BY <1>1, Invariance, PTL
=============================================================================
