---------------------- MODULE SentenceSearch_proofs ----------------------
(* Proofs about the search for BeiDou sentences: whatever the lines        *)
(* deliver, and however the reader threads interleave, titles and          *)
(* sentences stay within their buffers; and where no two devices share an  *)
(* array for titles, the search gets into step again after damage: what it *)
(* loses are damaged sentences and those that the damage to one reaches.   *)
EXTENDS SentenceSearch, FiniteSetTheorems, SequenceTheorems, WellFoundedInduction, TLAPS

-----------------------------------------------------------------------------
(* A byte of a sentence that was sent, or what damage made of one.         *)
Known == {Noise} \cup ((DOMAIN sent) \X Nat)

(* Only such bytes are on the lines and in the buffers.  The length field  *)
(* of a sentence can be read only where its bytes are bytes of a sentence. *)
KnownOK ==
    \A d \in Device :
        /\ line[d] \in Seq(Known)
        /\ m_ComBuff[d] \in Seq(Known)
        /\ exp[d].m_FrameBuff \in Seq(Known)

HeadsOK == \A p \in Protocols : head[p] \in Seq(Known)

SInv == TypeOK /\ Len(sent) <= MaxSent /\ KnownOK /\ HeadsOK

-----------------------------------------------------------------------------
(* A set of natural numbers has a least element.                           *)
LEMMA Least ==
    ASSUME NEW T \in SUBSET Nat, T # {}
    PROVE  \E x \in T : \A y \in T : x <= y
<1> DEFINE R == OpToRel(<, Nat)
<1>1. IsWellFoundedOn(R, Nat)
  BY NatLessThanWellFounded
<1>2. \A m, n \in Nat : m < n => <<m, n>> \in R
  BY DEF OpToRel
<1> HIDE DEF R
<1>3. PICK x \in T : \A y \in T : ~ (<<y, x>> \in R)
  BY <1>1, WFMin
<1>4. ASSUME NEW y \in T PROVE x <= y
  <2>1. x \in Nat /\ y \in Nat /\ ~ (<<y, x>> \in R)
    BY <1>3
  <2>2. ~ (y < x)
    BY <1>2, <2>1
  <2> QED
    BY <2>1, <2>2
<1> QED
  BY <1>4

LEMMA MinIn ==
    ASSUME NEW T \in SUBSET Nat, T # {}
    PROVE  Min(T) \in T /\ \A y \in T : Min(T) <= y
<1>1. \E x \in T : \A y \in T : x <= y
  BY Least
<1>2. Min(T) = CHOOSE x \in T : \A y \in T : x <= y
  BY DEF Min
<1> QED
  BY <1>1, <1>2

LEMMA SentFacts ==
    ASSUME SInv
    PROVE  /\ sent \in Seq([dev : Device, kind : AllKinds]) /\ Len(sent) \in Nat
           /\ DOMAIN sent = 1 .. Len(sent) /\ MaxSent \in Nat
           /\ DOMAIN sent \subseteq 1 .. MaxSent
           /\ \A f \in DOMAIN sent : sent[f].kind \in AllKinds /\ Length[sent[f].kind] \in Nat
           /\ Known \subseteq Byte
<1>1. /\ sent \in Seq([dev : Device, kind : AllKinds]) /\ Len(sent) \in Nat
      /\ DOMAIN sent = 1 .. Len(sent) /\ MaxSent \in Nat /\ Len(sent) <= MaxSent
  BY BoundAssumption DEF SInv, TypeOK
<1>2. DOMAIN sent \subseteq 1 .. MaxSent
  BY <1>1
<1>3. ASSUME NEW f \in DOMAIN sent PROVE sent[f].kind \in AllKinds /\ Length[sent[f].kind] \in Nat
  <2>0. f \in 1 .. Len(sent)
    BY <1>1
  <2>1. sent[f] \in [dev : Device, kind : AllKinds]
    BY <1>1, <2>0, ElementOfSeq
  <2> QED
    BY <2>1, KindsAssumption
<1>4. Known \subseteq Byte
  <2>1. Noise \in Byte
    BY <1>1 DEF Noise, Byte
  <2>2. \A f \in DOMAIN sent : f \in 0 .. MaxSent
    BY <1>1, <1>2
  <2> QED
    BY <2>1, <2>2 DEF Known, Byte
<1> QED
  BY <1>1, <1>2, <1>3, <1>4

(* Sequences of known bytes.                                               *)
LEMMA SeqSub ==
    ASSUME NEW S, NEW T, S \subseteq T, NEW s, s \in Seq(S)
    PROVE  s \in Seq(T)
  OBVIOUS

(* The types of one device's state.                                        *)
LEMMA DeviceFacts ==
    ASSUME SInv, NEW d \in Device
    PROVE  /\ protocal[d] \in Protocols
           /\ line[d] \in Seq(Known) /\ m_ComBuff[d] \in Seq(Known)
           /\ exp[d] \in ExpType /\ exp[d].m_FrameBuff \in Seq(Known)
           /\ exp[d].m_bSearchStatus \in {"NULL", "LENGTH", "IDENTIFIER", "BINARYCHECK"}
           /\ exp[d].m_uBinaryLen \in Nat
           /\ head[protocal[d]] \in Seq(Known) /\ Len(head[protocal[d]]) < HeadLen[protocal[d]]
           /\ HeadLen[protocal[d]] \in Nat /\ 0 < HeadLen[protocal[d]]
           /\ HeadLen[protocal[d]] < Limit /\ Limit \in Nat
<1>1. protocal[d] \in Protocols /\ exp[d] \in ExpType
  BY DEF SInv, TypeOK
<1>2. /\ line[d] \in Seq(Known) /\ m_ComBuff[d] \in Seq(Known) /\ exp[d].m_FrameBuff \in Seq(Known)
  BY DEF SInv, KnownOK
<1>3. head[protocal[d]] \in Seq(Known) /\ Len(head[protocal[d]]) < HeadLen[protocal[d]]
  BY <1>1 DEF SInv, HeadsOK, TypeOK
<1>4. /\ exp[d].m_bSearchStatus \in {"NULL", "LENGTH", "IDENTIFIER", "BINARYCHECK"}
      /\ exp[d].m_uBinaryLen \in Nat
  BY <1>1 DEF ExpType
<1>5. /\ HeadLen[protocal[d]] \in Nat \ {0, 1} /\ HeadLen[protocal[d]] < Limit /\ Limit \in Nat
  BY <1>1, KindsAssumption, BoundAssumption
<1> QED
  BY <1>1, <1>2, <1>3, <1>4, <1>5

LEMMA WithinFacts ==
    ASSUME SInv, NEW d \in Device, NEW status, Within(d, status)
    PROVE  /\ At(d) \in Known
           /\ m_ComBuff' \in [Device -> Seq(Byte)]
           /\ \A c \in Device : m_ComBuff'[c] \in Seq(Known)
           /\ Longer(d) \in Seq(Known) /\ Len(Longer(d)) = Len(exp[d].m_FrameBuff) + 1
           /\ Len(Longer(d)) \in Nat
           /\ Filled(d) \in Seq(Known) /\ Len(Filled(d)) = Len(head[protocal[d]]) + 1
           /\ Len(Filled(d)) \in Nat /\ Len(Filled(d)) <= HeadLen[protocal[d]]
           /\ UNCHANGED <<protocal, sent, line, hurt>>
<1>0. /\ m_ComBuff[d] # <<>> /\ m_ComBuff' = [m_ComBuff EXCEPT ![d] = Tail(m_ComBuff[d])]
      /\ UNCHANGED <<protocal, sent, line, hurt>>
      /\ m_ComBuff \in [Device -> Seq(Byte)]
  BY DEF Within, SInv, TypeOK
<1>1. /\ m_ComBuff[d] \in Seq(Known) /\ exp[d].m_FrameBuff \in Seq(Known)
      /\ head[protocal[d]] \in Seq(Known) /\ Len(head[protocal[d]]) < HeadLen[protocal[d]]
      /\ HeadLen[protocal[d]] \in Nat /\ Known \subseteq Byte
  BY DeviceFacts, SentFacts
<1>2. At(d) \in Known /\ Tail(m_ComBuff[d]) \in Seq(Known) /\ Tail(m_ComBuff[d]) \in Seq(Byte)
  <2>1. m_ComBuff[d][1] \in Known /\ Tail(m_ComBuff[d]) \in Seq(Known)
    BY <1>0, <1>1
  <2> QED
    BY <1>1, <2>1, SeqSub DEF At
<1>3. m_ComBuff' \in [Device -> Seq(Byte)]
  BY <1>0, <1>2
<1>4. ASSUME NEW c \in Device PROVE m_ComBuff'[c] \in Seq(Known)
  BY <1>0, <1>2, DeviceFacts
<1>5. /\ Longer(d) \in Seq(Known) /\ Len(Longer(d)) = Len(exp[d].m_FrameBuff) + 1
      /\ Len(Longer(d)) \in Nat
  BY <1>1, <1>2 DEF Longer
<1>6. /\ Filled(d) \in Seq(Known) /\ Len(Filled(d)) = Len(head[protocal[d]]) + 1
      /\ Len(Filled(d)) \in Nat
  BY <1>1, <1>2 DEF Filled
<1>7. Len(Filled(d)) <= HeadLen[protocal[d]]
  <2>1. Len(head[protocal[d]]) \in Nat
    BY <1>1
  <2> QED
    BY <1>1, <1>6, <2>1
<1> QED
  BY <1>0, <1>2, <1>3, <1>4, <1>5, <1>6, <1>7

-----------------------------------------------------------------------------
(* What a step of a search leaves to show: the searcher of the device and  *)
(* the array of its class are what they should be.                         *)
ExpOK(e) == e \in ExpType /\ e.m_FrameBuff \in Seq(Known) /\ Len(e.m_FrameBuff) < Limit

HeadOK(h, p) == h \in Seq(Known) /\ Len(h) < HeadLen[p]

LEMMA SearchStep ==
    ASSUME SInv, NEW d \in Device, NEW status, Within(d, status),
           exp' = exp \/ \E e : ExpOK(e) /\ exp' = [exp EXCEPT ![d] = e],
           head' = head \/ \E h : HeadOK(h, protocal[d]) /\ head' = [head EXCEPT ![protocal[d]] = h],
           given' = given \/ \E f \in DOMAIN sent : given' = Append(given, <<d, f>>)
    PROVE  SInv'
<1>1. /\ m_ComBuff' \in [Device -> Seq(Byte)]
      /\ \A c \in Device : m_ComBuff'[c] \in Seq(Known)
      /\ UNCHANGED <<protocal, sent, line, hurt>>
  BY WithinFacts
<1>2. TypeOK /\ KnownOK /\ HeadsOK /\ Known \subseteq Byte /\ protocal[d] \in Protocols
      /\ DOMAIN sent \subseteq 1 .. MaxSent
  BY SentFacts, DeviceFacts DEF SInv
<1>3. /\ exp' \in [Device -> ExpType]
      /\ \A c \in Device : exp'[c].m_FrameBuff \in Seq(Known) /\ Len(exp'[c].m_FrameBuff) < Limit
  <2>0. /\ exp \in [Device -> ExpType]
        /\ \A c \in Device : exp[c].m_FrameBuff \in Seq(Known) /\ Len(exp[c].m_FrameBuff) < Limit
    BY <1>2 DEF TypeOK, KnownOK
  <2>1. CASE exp' = exp
    BY <2>0, <2>1
  <2>2. CASE \E e : ExpOK(e) /\ exp' = [exp EXCEPT ![d] = e]
    <3>1. PICK e : ExpOK(e) /\ exp' = [exp EXCEPT ![d] = e]
      BY <2>2
    <3> QED
      BY <2>0, <3>1 DEF ExpOK
  <2> QED
    BY <2>1, <2>2
<1>4. /\ head' \in [Protocols -> Seq(Byte)]
      /\ \A p \in Protocols : head'[p] \in Seq(Known) /\ Len(head'[p]) < HeadLen[p]
  <2>0. /\ head \in [Protocols -> Seq(Byte)]
        /\ \A p \in Protocols : head[p] \in Seq(Known) /\ Len(head[p]) < HeadLen[p]
    BY <1>2 DEF TypeOK, HeadsOK
  <2>1. CASE head' = head
    BY <2>0, <2>1
  <2>2. CASE \E h : HeadOK(h, protocal[d]) /\ head' = [head EXCEPT ![protocal[d]] = h]
    <3>1. PICK h : HeadOK(h, protocal[d]) /\ head' = [head EXCEPT ![protocal[d]] = h]
      BY <2>2
    <3>2. h \in Seq(Byte)
      BY <1>2, <3>1, SeqSub DEF HeadOK
    <3> QED
      BY <1>2, <2>0, <3>1, <3>2 DEF HeadOK
  <2> QED
    BY <2>1, <2>2
<1>5. given' \in Seq(Device \X (1 .. MaxSent))
  <2>0. given \in Seq(Device \X (1 .. MaxSent))
    BY <1>2 DEF TypeOK
  <2>1. CASE given' = given
    BY <2>0, <2>1
  <2>2. CASE \E f \in DOMAIN sent : given' = Append(given, <<d, f>>)
    <3>1. PICK f \in DOMAIN sent : given' = Append(given, <<d, f>>)
      BY <2>2
    <3>2. <<d, f>> \in Device \X (1 .. MaxSent)
      BY <1>2
    <3> QED
      BY <2>0, <3>1, <3>2
  <2> QED
    BY <2>1, <2>2
<1>6. TypeOK'
  BY <1>1, <1>2, <1>3, <1>4, <1>5 DEF TypeOK
<1>7. Known' = Known
  BY <1>1 DEF Known
<1>8. KnownOK' /\ HeadsOK'
  BY <1>1, <1>2, <1>3, <1>4, <1>7 DEF KnownOK, HeadsOK
<1> QED
  BY <1>1, <1>6, <1>8 DEF SInv

LEMMA CollectStep ==
    ASSUME SInv, NEW d \in Device, Collect(d)
    PROVE  SInv'
<1>1. /\ Within(d, "NULL") /\ ~ Full(d) /\ UNCHANGED <<exp, given>>
      /\ head' = [head EXCEPT ![protocal[d]] = Filled(d)]
  BY DEF Collect
<1>2. HeadOK(Filled(d), protocal[d])
  <2>1. /\ Filled(d) \in Seq(Known) /\ Len(Filled(d)) \in Nat
        /\ Len(Filled(d)) <= HeadLen[protocal[d]] /\ HeadLen[protocal[d]] \in Nat
    BY <1>1, WithinFacts, DeviceFacts
  <2>2. Len(Filled(d)) # HeadLen[protocal[d]]
    BY <1>1 DEF Full
  <2> QED
    BY <2>1, <2>2 DEF HeadOK
<1> QED
  BY <1>1, <1>2, SearchStep

LEMMA EmptyHead ==
    ASSUME SInv, NEW d \in Device
    PROVE  HeadOK(<<>>, protocal[d])
<1>1. 0 < HeadLen[protocal[d]]
  BY DeviceFacts
<1> QED
  BY <1>1 DEF HeadOK

LEMMA NoFrameOK ==
    ASSUME SInv
    PROVE  ExpOK(NoFrame) /\ NoFrame.m_FrameBuff = <<>>
<1>1. 0 < Limit
  <2>1. "2_1" \in Protocols
    BY DEF Protocols
  <2>2. HeadLen["2_1"] \in Nat /\ HeadLen["2_1"] < Limit /\ Limit \in Nat
    BY <2>1, KindsAssumption, BoundAssumption
  <2> QED
    BY <2>2
<1> QED
  BY <1>1 DEF ExpOK, NoFrame, ExpType

LEMMA BeginStep ==
    ASSUME SInv, NEW d \in Device, Begin(d)
    PROVE  SInv'
<1>e. PICK e : e = [NoFrame EXCEPT !.m_bSearchStatus = "LENGTH", !.m_FrameBuff = Filled(d)]
  OBVIOUS
<1>1. /\ Within(d, "NULL") /\ Full(d) /\ given' = given
      /\ exp' = [exp EXCEPT ![d] = e] /\ head' = [head EXCEPT ![protocal[d]] = <<>>]
  BY <1>e DEF Begin
<1>2. ExpOK(e)
  <2>1. /\ Filled(d) \in Seq(Known) /\ Len(Filled(d)) < Limit /\ Filled(d) \in Seq(Byte)
    <3>1. /\ Filled(d) \in Seq(Known) /\ Len(Filled(d)) = HeadLen[protocal[d]]
          /\ HeadLen[protocal[d]] < Limit
      BY <1>1, WithinFacts, DeviceFacts DEF Full
    <3> QED
      BY <3>1, SentFacts, SeqSub
  <2>2. NoFrame \in ExpType
    BY NoFrameOK DEF ExpOK
  <2>3. e \in ExpType /\ e.m_FrameBuff = Filled(d)
    BY <1>e, <2>1, <2>2 DEF ExpType
  <2> QED
    BY <2>1, <2>3 DEF ExpOK
<1> QED
  BY <1>1, <1>2, EmptyHead, SearchStep

LEMMA SlideStep ==
    ASSUME SInv, NEW d \in Device, Slide(d)
    PROVE  SInv'
<1> DEFINE next == {i \in 2 .. HeadLen[protocal[d]] : Dollar(Filled(d)[i])}
           h == IF next = {} THEN <<>> ELSE SubSeq(Filled(d), Min(next), Len(Filled(d)))
<1>1. /\ Within(d, "NULL") /\ Full(d) /\ UNCHANGED <<exp, given>>
      /\ head' = [head EXCEPT ![protocal[d]] = h]
  BY DEF Slide
<1>2. HeadOK(h, protocal[d])
  <2>0. /\ Filled(d) \in Seq(Known) /\ Len(Filled(d)) = HeadLen[protocal[d]]
        /\ HeadLen[protocal[d]] \in Nat /\ Len(Filled(d)) \in Nat
    BY <1>1, WithinFacts, DeviceFacts DEF Full
  <2>1. CASE next = {}
    BY <2>1, EmptyHead
  <2>2. CASE next # {}
    <3>1. next \subseteq Nat
      BY <2>0
    <3>2. Min(next) \in next
      BY <2>2, <3>1, MinIn
    <3>m. PICK m : m = Min(next)
      OBVIOUS
    <3>3. m \in Nat /\ 2 <= m /\ m <= Len(Filled(d))
      BY <2>0, <3>2, <3>m
    <3>h. PICK w : w = h
      OBVIOUS
    <3>4. w = SubSeq(Filled(d), m, Len(Filled(d)))
      BY <2>2, <3>h, <3>m
    <3> HIDE DEF h, next
    <3>5. \A i \in m .. Len(Filled(d)) : Filled(d)[i] \in Known
      BY <2>0, <3>3
    <3>6. /\ w \in Seq(Known)
          /\ Len(w) = IF m <= Len(Filled(d)) THEN Len(Filled(d)) - m + 1 ELSE 0
      BY <2>0, <3>3, <3>4, <3>5, SubSeqProperties
    <3>7. Len(w) < HeadLen[protocal[d]]
      BY <2>0, <3>3, <3>6
    <3> QED
      BY <3>6, <3>7, <3>h DEF HeadOK
  <2> QED
    BY <2>1, <2>2
<1> HIDE DEF h
<1> QED
  BY <1>1, <1>2, SearchStep

LEMMA OverrunStep ==
    ASSUME SInv, NEW d \in Device, Overrun(d)
    PROVE  SInv'
<1>1. PICK status \in {"LENGTH", "IDENTIFIER", "BINARYCHECK"} : Within(d, status)
  BY DEF Overrun
<1>2. exp' = [exp EXCEPT ![d] = NoFrame] /\ UNCHANGED <<head, given>>
  BY DEF Overrun
<1> QED
  BY <1>1, <1>2, NoFrameOK, SearchStep

(* A frame that is not too long takes the byte.                            *)
LEMMA GoesStep ==
    ASSUME SInv, NEW d \in Device, NEW was, Within(d, was), ~ Overruns(d),
           NEW status, status \in {"LENGTH", "IDENTIFIER", "BINARYCHECK"}, Goes(d, status),
           UNCHANGED <<head, given>>
    PROVE  SInv'
<1>e. PICK e : e = [exp[d] EXCEPT !.m_FrameBuff = Longer(d), !.m_bSearchStatus = status]
  OBVIOUS
<1>0. exp \in [Device -> ExpType]
  BY DEF SInv, TypeOK
<1>1. exp' = [exp EXCEPT ![d] = e]
  BY <1>0, <1>e DEF Goes, ExpType
<1>2. ExpOK(e)
  <2>1. /\ Longer(d) \in Seq(Known) /\ Len(Longer(d)) \in Nat /\ Limit \in Nat
        /\ exp[d] \in ExpType /\ Known \subseteq Byte
    BY WithinFacts, DeviceFacts, SentFacts
  <2>2. Len(Longer(d)) < Limit
    BY <2>1 DEF Overruns
  <2>3. Longer(d) \in Seq(Byte)
    BY <2>1, SeqSub
  <2>4. e \in ExpType /\ e.m_FrameBuff = Longer(d)
    BY <1>e, <2>1, <2>3 DEF ExpType
  <2> QED
    BY <2>1, <2>2, <2>4 DEF ExpOK
<1> QED
  BY <1>1, <1>2, SearchStep

LEMMA ReadBodyStep ==
    ASSUME SInv, NEW d \in Device, ReadBody(d)
    PROVE  SInv'
<1>s. PICK status : status = IF TextMode(d) /\ Star(At(d)) THEN "IDENTIFIER" ELSE "LENGTH"
  OBVIOUS
<1>1. /\ Within(d, "LENGTH") /\ ~ Overruns(d) /\ Goes(d, status) /\ UNCHANGED <<head, given>>
      /\ status \in {"LENGTH", "IDENTIFIER", "BINARYCHECK"}
  BY <1>s DEF ReadBody
<1> QED
  BY <1>1, GoesStep

LEMMA ReadRestStep ==
    ASSUME SInv, NEW d \in Device, ReadRest(d)
    PROVE  SInv'
<1>1. PICK was \in {"IDENTIFIER", "BINARYCHECK"} : Within(d, was)
  BY DEF ReadRest
<1>2. /\ ~ Overruns(d) /\ Goes(d, exp[d].m_bSearchStatus) /\ UNCHANGED <<head, given>>
      /\ exp[d].m_bSearchStatus \in {"LENGTH", "IDENTIFIER", "BINARYCHECK"}
  BY <1>1 DEF ReadRest, Within
<1> QED
  BY <1>1, <1>2, GoesStep

(* What a length field says is a number: where its bytes belong to one     *)
(* sentence, that has been sent and has a length.                          *)
LEMMA ReadLengthStep ==
    ASSUME SInv, NEW d \in Device, ReadLength(d)
    PROVE  SInv'
<1>1. Within(d, "LENGTH") /\ ~ Overruns(d) /\ FieldEnds(d) /\ UNCHANGED <<head, given>>
  BY DEF ReadLength
<1>2. PICK n \in Lengths(d) :
          exp' = [exp EXCEPT ![d] = IF n >= Limit THEN NoFrame
                     ELSE [m_bSearchStatus |-> "BINARYCHECK", m_FrameBuff |-> Longer(d),
                           m_uBinaryLen |-> n]]
  BY DEF ReadLength
<1>3. /\ Longer(d) \in Seq(Known) /\ Len(Longer(d)) \in Nat /\ Limit \in Nat
      /\ Len(Longer(d)) = Len(exp[d].m_FrameBuff) + 1 /\ Known \subseteq Byte
      /\ Len(Longer(d)) = HeadLen[protocal[d]] + 2 /\ HeadLen[protocal[d]] \in Nat
  BY <1>1, WithinFacts, DeviceFacts, SentFacts DEF FieldEnds
<1>4. n \in Nat
  <2>m. PICK m : m = Len(Longer(d))
    OBVIOUS
  <2>a. PICK a : a = Longer(d)[m - 1]
    OBVIOUS
  <2>1. m - 1 \in 1 .. m
    BY <1>3, <2>m
  <2>2. a \in Known
    BY <1>3, <2>1, <2>a, <2>m
  <2>3. n \in Claims \/ (a # Noise /\ n = Length[Kind(a)])
    BY <1>2, <2>a, <2>m DEF Lengths
  <2>4. a # Noise => Length[Kind(a)] \in Nat
    <3>1. a # Noise => a[1] \in DOMAIN sent
      BY <2>2 DEF Known
    <3> QED
      BY <3>1, SentFacts DEF Kind
  <2> QED
    BY <2>3, <2>4, BoundAssumption
<1>5. CASE n >= Limit
  <2>1. exp' = [exp EXCEPT ![d] = NoFrame]
    BY <1>2, <1>5
  <2> QED
    BY <1>1, <2>1, NoFrameOK, SearchStep
<1>6. CASE ~ (n >= Limit)
  <2>e. PICK e : e = [m_bSearchStatus |-> "BINARYCHECK", m_FrameBuff |-> Longer(d),
                      m_uBinaryLen |-> n]
    OBVIOUS
  <2>1. exp' = [exp EXCEPT ![d] = e]
    BY <1>2, <1>6, <2>e
  <2>2. Len(Longer(d)) < Limit
    BY <1>1, <1>3 DEF Overruns
  <2>3. Longer(d) \in Seq(Byte)
    BY <1>3, SeqSub
  <2>4. ExpOK(e)
    BY <1>3, <1>4, <2>2, <2>3, <2>e DEF ExpOK, ExpType
  <2> QED
    BY <1>1, <2>1, <2>4, SearchStep
<1> QED
  BY <1>5, <1>6

LEMMA EndStep ==
    ASSUME SInv, NEW d \in Device, End(d)
    PROVE  SInv'
<1>1. PICK was \in {"IDENTIFIER", "BINARYCHECK"} : Within(d, was)
  BY DEF End
<1>2. /\ exp' = [exp EXCEPT ![d] = NoFrame] /\ head' = head
      /\ given' = given \/ \E f \in DOMAIN sent : given' = Append(given, <<d, f>>)
  BY DEF End, Checked
<1> QED
  BY <1>1, <1>2, NoFrameOK, SearchStep

-----------------------------------------------------------------------------
(* The steps around the search.                                            *)

LEMMA ReadStep ==
    ASSUME SInv, NEW d \in Device, NEW n \in DOMAIN line[d], Read(d, n)
    PROVE  SInv'
<1>l. PICK l : l = line[d]
  OBVIOUS
<1>0. /\ m_ComBuff' = [m_ComBuff EXCEPT ![d] = SubSeq(l, 1, n)]
      /\ line' = [line EXCEPT ![d] = SubSeq(l, n + 1, Len(l))]
      /\ UNCHANGED <<protocal, sent, exp, head, given, hurt>>
      /\ TypeOK /\ KnownOK /\ HeadsOK
  BY <1>l DEF Read, SInv
<1>1. l \in Seq(Known) /\ Known \subseteq Byte /\ Len(l) \in Nat /\ n \in Nat /\ 1 <= n /\ n <= Len(l)
  <2>1. l \in Seq(Known) /\ Known \subseteq Byte
    BY <1>l, DeviceFacts, SentFacts
  <2> QED
    BY <1>l, <2>1
<1>2. /\ SubSeq(l, 1, n) \in Seq(Known) /\ SubSeq(l, n + 1, Len(l)) \in Seq(Known)
  <2>1. (\A i \in 1 .. n : l[i] \in Known) /\ \A i \in n + 1 .. Len(l) : l[i] \in Known
    BY <1>1
  <2>2. n + 1 \in Nat
    BY <1>1
  <2> QED
    BY <1>1, <2>1, <2>2, SubSeqProperties
<1>3. /\ SubSeq(l, 1, n) \in Seq(Byte) /\ SubSeq(l, n + 1, Len(l)) \in Seq(Byte)
  BY <1>1, <1>2, SeqSub
<1>4. TypeOK'
  <2>1. m_ComBuff' \in [Device -> Seq(Byte)] /\ line' \in [Device -> Seq(Byte)]
    BY <1>0, <1>3 DEF TypeOK
  <2> QED
    BY <1>0, <2>1 DEF TypeOK
<1>5. KnownOK' /\ HeadsOK'
  <2>1. Known' = Known
    BY <1>0 DEF Known
  <2>2. ASSUME NEW c \in Device PROVE line'[c] \in Seq(Known) /\ m_ComBuff'[c] \in Seq(Known)
    BY <1>0, <1>2 DEF KnownOK, TypeOK
  <2> QED
    BY <1>0, <2>1, <2>2 DEF KnownOK, HeadsOK
<1> QED
  BY <1>0, <1>4, <1>5 DEF SInv

LEMMA SendStep ==
    ASSUME SInv, NEW d \in Device, NEW k \in AllKinds, Send(d, k)
    PROVE  SInv'
<1>f. PICK f : f = Len(sent) + 1
  OBVIOUS
<1>w. PICK w : w = [i \in 1 .. Length[k] |-> <<f, i>>]
  OBVIOUS
<1>0. /\ f <= MaxSent /\ sent' = Append(sent, [dev |-> d, kind |-> k])
      /\ UNCHANGED <<protocal, m_ComBuff, exp, head, given>>
      /\ hurt' = hurt \/ hurt' = hurt \cup {f}
      /\ \E v : (v = w \/ v \in Damaged(w)) /\ line' = [line EXCEPT ![d] = line[d] \o v]
      /\ TypeOK /\ KnownOK /\ HeadsOK
  BY <1>f, <1>w DEF Send, SInv
<1>1. PICK v : (v = w \/ v \in Damaged(w)) /\ line' = [line EXCEPT ![d] = line[d] \o v]
  BY <1>0
<1>2. /\ sent \in Seq([dev : Device, kind : AllKinds]) /\ Len(sent) \in Nat
      /\ DOMAIN sent = 1 .. Len(sent) /\ MaxSent \in Nat /\ Length[k] \in Nat
      /\ f \in Nat /\ f \in 1 .. MaxSent
  BY <1>0, <1>f, SentFacts, KindsAssumption
<1>3. /\ sent' \in Seq([dev : Device, kind : AllKinds]) /\ Len(sent') = f
      /\ DOMAIN sent' = 1 .. f
  <2>1. [dev |-> d, kind |-> k] \in [dev : Device, kind : AllKinds]
    OBVIOUS
  <2> QED
    BY <1>0, <1>2, <1>f, <2>1
<1>4. Known \subseteq Known' /\ Known' \subseteq Byte
  <2>1. DOMAIN sent \subseteq DOMAIN sent' /\ DOMAIN sent' \subseteq 0 .. MaxSent
    BY <1>2, <1>3, <1>f
  <2>2. Noise \in Byte /\ Noise' = Noise
    BY <1>2 DEF Noise, Byte
  <2> QED
    BY <2>1, <2>2 DEF Known, Byte
<1>5. w \in Seq(Known')
  <2>1. \A i \in 1 .. Length[k] : <<f, i>> \in Known'
    BY <1>2, <1>3 DEF Known
  <2> QED
    BY <1>2, <1>w, <2>1
<1>6. v \in Seq(Known')
  <2>0. Len(w) \in Nat /\ DOMAIN w = 1 .. Len(w)
    BY <1>5
  <2>1. ASSUME NEW i \in DOMAIN w PROVE [w EXCEPT ![i] = Noise] \in Seq(Known')
    <3>1. Noise \in Known'
      BY DEF Known, Noise
    <3> QED
      BY <1>5, <3>1
  <2>2. ASSUME NEW i \in DOMAIN w
        PROVE  SubSeq(w, 1, i - 1) \o SubSeq(w, i + 1, Len(w)) \in Seq(Known')
    <3>1. i - 1 \in Nat /\ i + 1 \in Nat /\ i - 1 <= Len(w)
      BY <2>0
    <3>2. (\A j \in 1 .. i - 1 : w[j] \in Known') /\ \A j \in i + 1 .. Len(w) : w[j] \in Known'
      BY <1>5, <2>0
    <3>3. SubSeq(w, 1, i - 1) \in Seq(Known') /\ SubSeq(w, i + 1, Len(w)) \in Seq(Known')
      BY <2>0, <3>1, <3>2, SubSeqProperties
    <3> QED
      BY <3>3, ConcatProperties
  <2> QED
    BY <1>1, <1>5, <2>1, <2>2 DEF Damaged
<1>7. ASSUME NEW c \in Device PROVE line'[c] \in Seq(Known')
  <2>1. line[c] \in Seq(Known')
    BY <1>4, DeviceFacts, SeqSub
  <2>2. line[c] \o v \in Seq(Known')
    BY <1>6, <2>1, ConcatProperties
  <2> QED
    BY <1>0, <1>1, <2>1, <2>2 DEF TypeOK
<1>8. TypeOK'
  <2>1. line' \in [Device -> Seq(Byte)]
    <3>1. line' = [c \in Device |-> line'[c]]
      BY <1>0, <1>1 DEF TypeOK
    <3>2. \A c \in Device : line'[c] \in Seq(Byte)
      BY <1>4, <1>7, SeqSub
    <3> QED
      BY <3>1, <3>2
  <2>2. hurt' \subseteq 1 .. MaxSent
    BY <1>0, <1>2 DEF TypeOK
  <2> QED
    BY <1>0, <1>3, <2>1, <2>2 DEF TypeOK
<1>9. KnownOK' /\ HeadsOK'
  <2>1. ASSUME NEW c \in Device
        PROVE  m_ComBuff[c] \in Seq(Known') /\ exp[c].m_FrameBuff \in Seq(Known')
    BY <1>4, DeviceFacts, SeqSub
  <2>2. ASSUME NEW p \in Protocols PROVE head[p] \in Seq(Known')
    BY <1>0, <1>4, SeqSub DEF HeadsOK
  <2> QED
    BY <1>0, <1>7, <2>1, <2>2 DEF KnownOK, HeadsOK
<1> QED
  BY <1>0, <1>3, <1>8, <1>9 DEF SInv

-----------------------------------------------------------------------------
(* The invariant.                                                          *)

LEMMA SInvInit ==
    ASSUME Init
    PROVE  SInv
<1>0. /\ protocal \in [Device -> Protocols] /\ sent = <<>>
      /\ line = [d \in Device |-> <<>>] /\ m_ComBuff = [d \in Device |-> <<>>]
      /\ exp = [d \in Device |-> NoFrame] /\ head = [p \in Protocols |-> <<>>]
      /\ given = <<>> /\ hurt = {}
  BY DEF Init
<1>1. NoFrame \in ExpType /\ NoFrame.m_FrameBuff = <<>>
  BY DEF NoFrame, ExpType
<1>2. 0 < Limit /\ MaxSent \in Nat /\ \A p \in Protocols : 0 < HeadLen[p]
  <2>1. "2_1" \in Protocols
    BY DEF Protocols
  <2>2. HeadLen["2_1"] \in Nat /\ HeadLen["2_1"] < Limit /\ Limit \in Nat
    BY <2>1, KindsAssumption, BoundAssumption
  <2>3. \A p \in Protocols : HeadLen[p] \in Nat \ {0, 1}
    BY KindsAssumption
  <2> QED
    BY <2>2, <2>3, BoundAssumption
<1>3. TypeOK
  <2>1. exp \in [Device -> ExpType] /\ \A d \in Device : Len(exp[d].m_FrameBuff) < Limit
    BY <1>0, <1>1, <1>2
  <2>2. head \in [Protocols -> Seq(Byte)] /\ \A p \in Protocols : Len(head[p]) < HeadLen[p]
    BY <1>0, <1>2
  <2> QED
    BY <1>0, <2>1, <2>2 DEF TypeOK
<1>4. KnownOK /\ HeadsOK
  <2>1. <<>> \in Seq(Known)
    OBVIOUS
  <2>2. ASSUME NEW d \in Device
        PROVE  line[d] = <<>> /\ m_ComBuff[d] = <<>> /\ exp[d].m_FrameBuff = <<>>
    BY <1>0, <1>1
  <2>3. \A p \in Protocols : head[p] = <<>>
    BY <1>0
  <2> QED
    BY <2>1, <2>2, <2>3 DEF KnownOK, HeadsOK
<1> QED
  BY <1>0, <1>2, <1>3, <1>4 DEF SInv

LEMMA SInvNext ==
    ASSUME SInv, [Next]_vars
    PROVE  SInv'
<1>1. ASSUME NEW d \in Device, NEW k \in AllKinds, Send(d, k) PROVE SInv'
  BY <1>1, SendStep
<1>2. ASSUME NEW d \in Device, NEW n \in DOMAIN line[d], Read(d, n) PROVE SInv'
  BY <1>2, ReadStep
<1>3. ASSUME NEW d \in Device, SearchData(d) PROVE SInv'
  BY <1>3, CollectStep, BeginStep, SlideStep, OverrunStep, ReadBodyStep, ReadLengthStep,
     ReadRestStep, EndStep DEF SearchData
<1>4. CASE UNCHANGED vars
  BY <1>4 DEF vars, SInv, TypeOK, KnownOK, HeadsOK, Known
<1> QED
  BY <1>1, <1>2, <1>3, <1>4 DEF Next

THEOREM Invariance == Spec => []SInv
<1>1. Init => SInv
  BY SInvInit
<1>2. SInv /\ [Next]_vars => SInv'
  BY SInvNext
<1> QED
  BY <1>1, <1>2, PTL DEF Spec

(* A sentence stays within m_FrameBuff and a title within Head, whatever   *)
(* the line delivers and however the reader threads interleave in Head.    *)
THEOREM TypeCorrect == Spec => []TypeOK
<1>1. SInv => TypeOK
  BY DEF SInv
<1> QED
  BY <1>1, Invariance, PTL

-----------------------------------------------------------------------------
(* How long sentences are together.                                        *)

(* The bytes of the sentences U of q, as Reaches adds them.                *)
Sum(q, U) == MapThenSumSet(LAMBDA h : Length[q[h].kind], U)

(* U are some sentences of q.                                              *)
Summed(q, U) == IsFiniteSet(U) /\ \A h \in U : Length[q[h].kind] \in Nat

(* The recursion of the fold: it takes any element first.                  *)
Adds(t, q, U) ==
    t = [s \in SUBSET U |->
            IF s = {} THEN 0
            ELSE Length[q[CHOOSE x \in s : TRUE].kind] + t[s \ {CHOOSE x \in s : TRUE}]]

(* A table of the sums over the subsets of U.                              *)
Total(t, q, U) ==
    /\ t \in [SUBSET U -> Nat] /\ t[{}] = 0
    /\ \A s \in SUBSET U : \A z \in s : t[s] = Length[q[z].kind] + t[s \ {z}]

LEMMA SumIs == ASSUME NEW q, NEW U PROVE Sum(q, U) = (CHOOSE t : Adds(t, q, U))[U]
  BY DEF Sum, MapThenSumSet, MapThenFoldSet, Adds

LEMMA SumOf ==
    ASSUME NEW q, NEW U, NEW t, Adds(t, q, U)
    PROVE  \E u : Sum(q, U) = u[U] /\ Adds(u, q, U)
<1>1. Adds((CHOOSE u : Adds(u, q, U)), q, U)
  BY Zenon
<1> QED
  BY <1>1, SumIs

(* A table for U without z is one for U.                                   *)
LEMMA TotalWith ==
    ASSUME NEW q, NEW U, Summed(q, U), NEW z \in U,
           NEW t, Total(t, q, U \ {z})
    PROVE  \E u : Total(u, q, U)
<1> DEFINE u == [s \in SUBSET U |-> IF z \in s THEN Length[q[z].kind] + t[s \ {z}] ELSE t[s]]
<1>0. \A h \in U : Length[q[h].kind] \in Nat
  BY DEF Summed
<1>1. /\ t \in [SUBSET (U \ {z}) -> Nat] /\ t[{}] = 0
      /\ \A s \in SUBSET (U \ {z}) : \A y \in s : t[s] = Length[q[y].kind] + t[s \ {y}]
  BY DEF Total
<1>2. ASSUME NEW s \in SUBSET U PROVE u[s] \in Nat
  <2>1. CASE z \in s
    <3>1. s \ {z} \in SUBSET (U \ {z})
      OBVIOUS
    <3>2. t[s \ {z}] \in Nat
      BY <1>1, <3>1
    <3> QED
      BY <1>0, <2>1, <3>2
  <2>2. CASE z \notin s
    <3>1. s \in SUBSET (U \ {z})
      BY <2>2
    <3> QED
      BY <1>1, <2>2, <3>1
  <2> QED
    BY <2>1, <2>2
<1>3. u[{}] = 0
  BY <1>1
<1>4. ASSUME NEW s \in SUBSET U, NEW y \in s PROVE u[s] = Length[q[y].kind] + u[s \ {y}]
  <2>0. s \ {y} \in SUBSET U
    OBVIOUS
  <2>1. CASE z \notin s
    <3>1. s \in SUBSET (U \ {z}) /\ z \notin s \ {y}
      BY <2>1
    <3>2. t[s] = Length[q[y].kind] + t[s \ {y}]
      BY <1>1, <3>1
    <3> QED
      BY <2>0, <2>1, <3>1, <3>2
  <2>2. CASE z \in s /\ y = z
    <3>1. z \notin s \ {y}
      BY <2>2
    <3> QED
      BY <2>0, <2>2, <3>1
  <2>3. CASE z \in s /\ y # z
    <3>1. PICK a, b, c : a = s \ {z} /\ b = s \ {y} /\ c = (s \ {y}) \ {z}
      OBVIOUS
    <3>2. a \in SUBSET (U \ {z}) /\ y \in a /\ z \in b /\ c \in SUBSET (U \ {z})
      BY <2>3, <3>1
    <3>3. a \ {y} = c
      BY <3>1
    <3>4. t[a] = Length[q[y].kind] + t[a \ {y}]
      BY <1>1, <3>2
    <3>4a. t[a] = Length[q[y].kind] + t[c]
      BY <3>3, <3>4
    <3>5. u[s] = Length[q[z].kind] + t[a] /\ u[b] = Length[q[z].kind] + t[c]
      BY <2>0, <2>3, <3>1, <3>2
    <3>6. PICK i, j, k \in Nat : i = t[c] /\ j = Length[q[y].kind] /\ k = Length[q[z].kind]
      BY <1>0, <1>1, <2>3, <3>2
    <3> QED
      BY ONLY <3>1, <3>4a, <3>5, <3>6
  <2> QED
    BY <2>1, <2>2, <2>3
<1> HIDE DEF u
<1>5. u \in [SUBSET U -> Nat]
  BY <1>2 DEF u
<1>6. Total(u, q, U)
  BY <1>3, <1>4, <1>5 DEF Total
<1> QED
  BY <1>6

(* There is such a table.                                                  *)
LEMMA TotalExists ==
    ASSUME NEW q, NEW U, Summed(q, U)
    PROVE  \E t : Total(t, q, U)
<1> SUFFICES ASSUME ~ (\E t : Total(t, q, U)) PROVE FALSE
  OBVIOUS
<1>0. IsFiniteSet(U)
  BY DEF Summed
<1> DEFINE T == {n \in Nat : \E V \in SUBSET U : Cardinality(V) = n /\ ~ (\E t : Total(t, q, V))}
<1>1. T \in SUBSET Nat /\ T # {}
  <2>1. Cardinality(U) \in Nat
    BY <1>0, FS_CardinalityType
  <2> QED
    BY <2>1
<1>2. PICK n \in T : \A m \in T : n <= m
  BY ONLY <1>1, Least
<1>3. PICK V \in SUBSET U : Cardinality(V) = n /\ ~ (\E t : Total(t, q, V))
  OBVIOUS
<1>4. IsFiniteSet(V) /\ Summed(q, V)
  <2>1. IsFiniteSet(V)
    BY <1>0, FS_Subset
  <2> QED
    BY <2>1 DEF Summed
<1>5. CASE V = {}
  <2> DEFINE t == [s \in SUBSET V |-> 0]
  <2>1. t \in [SUBSET V -> Nat] /\ t[{}] = 0
    OBVIOUS
  <2>2. \A s \in SUBSET V : \A z \in s : FALSE
    BY <1>5
  <2> HIDE DEF t
  <2>3. Total(t, q, V)
    BY <2>1, <2>2 DEF Total
  <2> QED
    BY <1>3, <2>3
<1>6. CASE V # {}
  <2>1. PICK z : z \in V
    BY <1>6
  <2>2. Cardinality(V \ {z}) = Cardinality(V) - 1
    BY <1>4, <2>1, FS_RemoveElement
  <2>3. n \in Nat /\ n - 1 \in Nat
    <3>1. Cardinality(V) # 0
      BY <1>4, <1>6, FS_EmptySet
    <3> QED
      BY <1>2, <1>3, <3>1
  <2>4. n - 1 \notin T
    BY <1>1, <1>2, <2>3
  <2>5. \E t : Total(t, q, V \ {z})
    <3>1. V \ {z} \in SUBSET U
      OBVIOUS
    <3> QED
      BY <1>3, <2>2, <2>3, <2>4, <3>1
  <2>6. \E t : Total(t, q, V)
    BY <1>4, <2>1, <2>5, TotalWith
  <2> QED
    BY <1>3, <2>6
<1> QED
  BY <1>5, <1>6

(* It is the table of the fold; and that has the values of any such table. *)
LEMMA TotalAdds ==
    ASSUME NEW q, NEW U, NEW t, Total(t, q, U)
    PROVE  Adds(t, q, U)
<1> DEFINE u == [s \in SUBSET U |->
            IF s = {} THEN 0
            ELSE Length[q[CHOOSE x \in s : TRUE].kind] + t[s \ {CHOOSE x \in s : TRUE}]]
<1>1. /\ t \in [SUBSET U -> Nat] /\ t[{}] = 0
      /\ \A s \in SUBSET U : \A z \in s : t[s] = Length[q[z].kind] + t[s \ {z}]
  BY DEF Total
<1>2. ASSUME NEW s \in SUBSET U PROVE t[s] = u[s]
  <2>1. CASE s = {}
    BY <1>1, <2>1
  <2>2. CASE s # {}
    <3>1. (CHOOSE x \in s : TRUE) \in s
      BY <2>2
    <3>2. PICK z \in s : z = CHOOSE x \in s : TRUE
      BY <3>1
    <3> QED
      BY <1>1, <2>2, <3>2
  <2> QED
    BY <2>1, <2>2
<1>3. t = u
  BY <1>1, <1>2
<1> QED
  BY <1>3 DEF Adds

LEMMA AddsTotal ==
    ASSUME NEW q, NEW U, Summed(q, U), NEW t, Total(t, q, U), NEW u, Adds(u, q, U),
           NEW V \in SUBSET U
    PROVE  u[V] = t[V]
<1> SUFFICES ASSUME u[V] # t[V] PROVE FALSE
  OBVIOUS
<1>0. IsFiniteSet(U)
  BY DEF Summed
<1> DEFINE T == {n \in Nat : \E s \in SUBSET U : Cardinality(s) = n /\ u[s] # t[s]}
<1>1. T \in SUBSET Nat /\ T # {}
  <2>1. Cardinality(V) \in Nat
    BY <1>0, FS_CardinalityType, FS_Subset
  <2> QED
    BY <2>1
<1>2. PICK n \in T : \A m \in T : n <= m
  BY ONLY <1>1, Least
<1>3. PICK s \in SUBSET U : Cardinality(s) = n /\ u[s] # t[s]
  OBVIOUS
<1>4. IsFiniteSet(s)
  BY <1>0, FS_Subset
<1>5. /\ u[s] = IF s = {} THEN 0
                ELSE Length[q[CHOOSE x \in s : TRUE].kind] + u[s \ {CHOOSE x \in s : TRUE}]
  BY DEF Adds
<1>6. /\ t[{}] = 0
      /\ \A a \in SUBSET U : \A z \in a : t[a] = Length[q[z].kind] + t[a \ {z}]
  BY DEF Total
<1>7. s # {}
  BY <1>3, <1>5, <1>6
<1>8. PICK z \in s : z = CHOOSE x \in s : TRUE
  BY <1>7
<1>9. u[s] = Length[q[z].kind] + u[s \ {z}] /\ t[s] = Length[q[z].kind] + t[s \ {z}]
  BY <1>5, <1>6, <1>7, <1>8
<1>10. u[s \ {z}] # t[s \ {z}]
  BY <1>3, <1>9
<1>11. Cardinality(s \ {z}) = n - 1
  BY <1>3, <1>4, <1>8, FS_RemoveElement
<1>12. n - 1 \in Nat /\ n \in Nat
  <2>1. Cardinality(s) # 0
    BY <1>4, <1>7, FS_EmptySet
  <2> QED
    BY <1>2, <1>3, <2>1
<1>13. n - 1 \in T
  <2>1. s \ {z} \in SUBSET U
    OBVIOUS
  <2> QED
    BY <1>10, <1>11, <1>12, <2>1
<1> HIDE DEF T
<1> QED
  BY <1>2, <1>12, <1>13

(* A sum is that of any element and of the others, and depends on nothing  *)
(* but the lengths.                                                        *)
LEMMA SumTotal ==
    ASSUME NEW q, NEW U, Summed(q, U), NEW t, Total(t, q, U)
    PROVE  Sum(q, U) = t[U]
<1>1. Adds(t, q, U)
  BY TotalAdds
<1>2. PICK u : Sum(q, U) = u[U] /\ Adds(u, q, U)
  BY <1>1, SumOf
<1>3. u[U] = t[U]
  BY <1>2, AddsTotal
<1> QED
  BY <1>2, <1>3

LEMMA SumPart ==
    ASSUME NEW q, NEW U, Summed(q, U), NEW t, Total(t, q, U), NEW V \in SUBSET U
    PROVE  Sum(q, V) = t[V]
<1>1. Summed(q, V)
  BY FS_Subset DEF Summed
<1> DEFINE u == [s \in SUBSET V |-> t[s]]
<1>2. /\ t \in [SUBSET U -> Nat] /\ t[{}] = 0
      /\ \A s \in SUBSET U : \A z \in s : t[s] = Length[q[z].kind] + t[s \ {z}]
  BY DEF Total
<1>3. u \in [SUBSET V -> Nat] /\ u[{}] = 0 /\ u[V] = t[V]
  BY <1>2
<1>4. \A s \in SUBSET V : \A z \in s : u[s] = Length[q[z].kind] + u[s \ {z}]
  BY <1>2
<1> HIDE DEF u
<1>5. Total(u, q, V)
  BY <1>3, <1>4 DEF Total
<1> QED
  BY <1>1, <1>3, <1>5, SumTotal

(* The recursion a sum follows: take off any element.                      *)
LEMMA SumFacts ==
    ASSUME NEW q, NEW U, Summed(q, U)
    PROVE  /\ Sum(q, U) \in Nat /\ Sum(q, {}) = 0
           /\ \A z \in U : Sum(q, U) = Length[q[z].kind] + Sum(q, U \ {z})
<1>1. PICK t : Total(t, q, U)
  BY TotalExists
<1>2. /\ t \in [SUBSET U -> Nat] /\ t[{}] = 0
      /\ \A s \in SUBSET U : \A z \in s : t[s] = Length[q[z].kind] + t[s \ {z}]
  BY <1>1 DEF Total
<1>3. \A V \in SUBSET U : Sum(q, V) = t[V]
  BY <1>1, SumPart
<1> QED
  BY <1>2, <1>3

(* A sum depends on the lengths of its elements alone.                     *)
LEMMA SumSame ==
    ASSUME NEW q, NEW r, NEW U, Summed(q, U), \A h \in U : r[h] = q[h]
    PROVE  Sum(r, U) = Sum(q, U)
<1>1. PICK t : Total(t, q, U)
  BY TotalExists
<1>2. Summed(r, U)
  BY DEF Summed
<1>3. Total(t, r, U)
  <2>1. \A s \in SUBSET U : \A z \in s : r[z] = q[z]
    OBVIOUS
  <2> QED
    BY <1>1, <2>1 DEF Total
<1> QED
  BY <1>1, <1>2, <1>3, SumTotal
-----------------------------------------------------------------------------
(* In step.  Which sentences damage costs: those it reaches.               *)

(* What device d has sent and the search has not seen.                     *)
Stream(d) == m_ComBuff[d] \o line[d]

(* What the search holds of what it has seen: a part of a title, or of a   *)
(* sentence.                                                               *)
Held(d) == IF exp[d].m_bSearchStatus = "NULL" THEN head[protocal[d]] ELSE exp[d].m_FrameBuff

(* Both: the search takes bytes from its front and moves the border between*)
(* them, the device adds bytes at its end.                                 *)
Window(d) == Held(d) \o Stream(d)

(* The first byte of a sentence still to be sent.                          *)
Beyond == <<MaxSent + 1, 1>>

P(w, i) == IF i <= Len(w) THEN w[i] ELSE Beyond

Given(d, f) == \E n \in DOMAIN given : given[n] = <<d, f>>

Size(f) == Length[sent[f].kind]

Mine(d, f) == f \in DOMAIN sent /\ sent[f].dev = d

(* g is the sentence of device d before f.                                 *)
Precedes(d, g, f) == Mine(d, g) /\ g < f /\ \A h : Mine(d, h) => ~ (g < h /\ h < f)

Intact(d, f) == Mine(d, f) /\ f \notin hurt

Sound(d, f) == Intact(d, f) \/ f = MaxSent + 1

Excused(d, f) == \E g : Precedes(d, g, f) /\ (g \in hurt \/ ~ Given(d, g))

RealByte(d, b) ==
    /\ Mine(d, b[1]) /\ b[2] \in 1 .. Size(b[1])
    /\ b = <<b[1], b[2]>>

Before(b, c) == b[1] < c[1] \/ (b[1] = c[1] /\ b[2] < c[2])

(* The bytes of a window are those of sentences of d, in order.            *)
Bytes(d, w) == \A i \in 1 .. Len(w) : w[i] = Noise \/ RealByte(d, w[i])

Ascending(w) ==
    \A i, j \in 1 .. Len(w) : i < j /\ w[i] # Noise /\ w[j] # Noise => Before(w[i], w[j])

(* A sentence without damage goes on to its end, and has come from its     *)
(* first byte; it follows the one before, if that has no damage either.    *)
GoesOn(d, w) ==
    \A i \in 1 .. Len(w) :
        Intact(d, w[i][1]) /\ w[i][2] < Size(w[i][1])
            => i < Len(w) /\ w[i + 1] = <<w[i][1], w[i][2] + 1>>

GoesBack(d, w) ==
    \A i \in 2 .. Len(w) :
        Intact(d, w[i][1]) /\ 1 < w[i][2] => w[i - 1] = <<w[i][1], w[i][2] - 1>>

Joined(d, f, b) == \E g : Precedes(d, g, f) /\ (g \in hurt \/ b = <<g, Size(g)>>)

Joints(d, w) ==
    \A i \in 1 .. Len(w) : \A f : Sound(d, f) /\ P(w, i + 1) = <<f, 1>> => Joined(d, f, w[i])

(* From g on, before f.                                                    *)
Between(d, g, f) == {h \in From(d) : g <= h /\ h < f}

(* The bytes between the first ones of two sentences are all of them but   *)
(* one for each damaged.                                                   *)
Spaced(d, w) ==
    \A i, k \in 1 .. Len(w) + 1 : \A g, f :
        i < k /\ P(w, i) = <<g, 1>> /\ P(w, k) = <<f, 1>>
            => Sum(sent, Between(d, g, f)) <= (k - i) + Cardinality(hurt)

Laid(d, w) ==
    Bytes(d, w) /\ Ascending(w) /\ GoesOn(d, w) /\ GoesBack(d, w) /\ Joints(d, w) /\ Spaced(d, w)

(* The search has seen all of a sentence that was given.                   *)
Past(w, f) == \A i \in 1 .. Len(w) : w[i] = Noise \/ w[i][1] > f

GivenPast(d, w) == \A f : Given(d, f) => Mine(d, f) /\ Past(w, f)

InFrame(d) == exp[d].m_bSearchStatus # "NULL"

(* A frame begins with a title, and no other is collected.                 *)
Title(d, w, n) ==
    /\ head[protocal[d]] = <<>> /\ HeadLen[protocal[d]] <= n /\ w[1][2] = 1
    /\ \A i \in 2 .. HeadLen[protocal[d]] : w[i] # Noise /\ w[i][2] = i /\ Kind(w[i]) = Kind(w[2])

(* The state of the search is what n bytes of sentence f make of it.       *)
Status(d, f, n) ==
    CASE exp[d].m_bSearchStatus = "NULL" -> TRUE
      [] exp[d].m_bSearchStatus = "LENGTH" ->
             IF sent[f].kind \in Text THEN n + 4 < Size(f) ELSE n < HeadLen[protocal[d]] + 2
      [] exp[d].m_bSearchStatus = "IDENTIFIER" -> sent[f].kind \in Text /\ Size(f) <= n + 4
      [] exp[d].m_bSearchStatus = "BINARYCHECK" ->
             sent[f].kind \notin Text /\ exp[d].m_uBinaryLen = Size(f)

InStep(d, w, n) == Intact(d, w[1][1]) => n < Size(w[1][1]) /\ Status(d, w[1][1], n)

(* No end was passed by that a text sentence has.                          *)
InText(d, w, n) ==
    Kind(w[2]) \in Text =>
        /\ exp[d].m_bSearchStatus # "BINARYCHECK"
        /\ exp[d].m_bSearchStatus = "LENGTH" =>
               \A i \in HeadLen[protocal[d]] + 1 .. n : ~ Star(w[i])
        /\ \A i \in HeadLen[protocal[d]] + 5 .. n : ~ (LF(w[i]) /\ CR(w[i - 1]) /\ Star(w[i - 4]))

FrameOK(d, w, n) == InFrame(d) => Title(d, w, n) /\ InStep(d, w, n) /\ InText(d, w, n)

Reached(d, f) == \E g \in hurt \cap From(d) : Reaches(d, g, f)

(* What is left of the stream is behind the beginning of f.                *)
Behind(d, f) == \A i \in 1 .. Len(Stream(d)) : Stream(d)[i] = Noise \/ Stream(d)[i][1] >= f

(* The search has still to see the first byte of f, or holds it where a    *)
(* title may begin.                                                        *)
Ahead(d, f, w, n) == \E i \in 1 .. Len(w) : w[i] = <<f, 1>> /\ (InFrame(d) => i = 1 \/ n < i)

(* A sentence without damage was given, or missed for damage, or is ahead. *)
Where(d, f, w, n) == Given(d, f) \/ (Reached(d, f) /\ Excused(d, f) /\ Behind(d, f)) \/ Ahead(d, f, w, n)

InOrder(d, w, n) ==
    /\ Laid(d, w) /\ GivenPast(d, w) /\ FrameOK(d, w, n)
    /\ \A f : Intact(d, f) => Where(d, f, w, n)

DevOK(d) == \E w \in Seq(Byte), n \in Nat : w = Window(d) /\ n = Len(Held(d)) /\ InOrder(d, w, n)

Served == \A f \in DOMAIN sent : sent[f].kind \in Kinds[protocal[sent[f].dev]]

Lonely == \A d, e \in Device : d # e => protocal[d] # protocal[e]

LInv == SInv /\ Lonely /\ Served /\ hurt \subseteq DOMAIN sent /\ \A d \in Device : DevOK(d)

-----------------------------------------------------------------------------
(* Windows.                                                                *)

(* Two sequences one behind the other.                                     *)
LEMMA Joins ==
    ASSUME NEW T, NEW a \in Seq(T), NEW b \in Seq(T)
    PROVE  /\ a \o b \in Seq(T) /\ Len(a) \in Nat /\ Len(b) \in Nat
           /\ Len(a \o b) = Len(a) + Len(b)
           /\ \A i \in 1 .. Len(a) : (a \o b)[i] = a[i]
           /\ \A i \in 1 .. Len(b) : (a \o b)[Len(a) + i] = b[i]
<1>1. /\ a \o b \in Seq(T) /\ Len(a \o b) = Len(a) + Len(b)
      /\ \A i \in 1 .. Len(a) + Len(b) : (a \o b)[i] = IF i <= Len(a) THEN a[i] ELSE b[i - Len(a)]
  BY ConcatProperties
<1>2. PICK m, n \in Nat : m = Len(a) /\ n = Len(b)
  OBVIOUS
<1>3. \A i \in 1 .. m : i \in 1 .. m + n /\ i <= m
  BY <1>2
<1>4. \A i \in 1 .. n : m + i \in 1 .. m + n /\ ~ (m + i <= m) /\ (m + i) - m = i
  BY <1>2
<1> QED
  BY <1>1, <1>2, <1>3, <1>4

(* Two sequences that agree.                                               *)
LEMMA Alike ==
    ASSUME NEW T, NEW a \in Seq(T), NEW b \in Seq(T), Len(a) = Len(b),
           \A i \in 1 .. Len(a) : a[i] = b[i]
    PROVE  a = b
  BY SeqEqual

LEMMA WindowFacts ==
    ASSUME SInv, NEW d \in Device
    PROVE  /\ Held(d) \in Seq(Byte) /\ Stream(d) \in Seq(Byte) /\ Window(d) \in Seq(Byte)
           /\ Len(Held(d)) \in Nat /\ Len(Stream(d)) \in Nat /\ Len(Window(d)) \in Nat
           /\ Len(Window(d)) = Len(Held(d)) + Len(Stream(d))
           /\ \A i \in 1 .. Len(Held(d)) : Window(d)[i] = Held(d)[i]
           /\ \A i \in 1 .. Len(Stream(d)) : Window(d)[Len(Held(d)) + i] = Stream(d)[i]
<1>1. /\ exp[d].m_FrameBuff \in Seq(Known) /\ head[protocal[d]] \in Seq(Known)
      /\ m_ComBuff[d] \in Seq(Known) /\ line[d] \in Seq(Known) /\ Known \subseteq Byte
  BY DeviceFacts, SentFacts
<1>2. /\ exp[d].m_FrameBuff \in Seq(Byte) /\ head[protocal[d]] \in Seq(Byte)
      /\ m_ComBuff[d] \in Seq(Byte) /\ line[d] \in Seq(Byte)
  BY <1>1, SeqSub
<1>3. PICK a, b : a = Held(d) /\ b = Stream(d)
  OBVIOUS
<1>4. a \in Seq(Byte)
  BY <1>2, <1>3 DEF Held
<1>5. b \in Seq(Byte)
  BY <1>2, <1>3, Joins DEF Stream
<1>6. Window(d) = a \o b
  BY <1>3 DEF Window
<1> QED
  BY <1>3, <1>4, <1>5, <1>6, Joins

(* u is w without its first c bytes.                                       *)
Cut(w, u, c) ==
    /\ w \in Seq(Byte) /\ u \in Seq(Byte) /\ c \in Nat /\ Len(w) = Len(u) + c
    /\ \A i \in 1 .. Len(u) : u[i] = w[i + c]

LEMMA CutFacts ==
    ASSUME NEW w, NEW u, NEW c, Cut(w, u, c)
    PROVE  /\ Len(w) \in Nat /\ Len(u) \in Nat /\ c \in Nat /\ Len(w) = Len(u) + c
           /\ \A i \in 1 .. Len(u) : /\ u[i] = w[i + c] /\ i + c \in 1 .. Len(w)
                                     /\ i \in Nat /\ i + c \in Nat
           /\ \A i \in 1 .. Len(u) + 1 : P(u, i) = P(w, i + c) /\ i + c \in 1 .. Len(w) + 1
<1>1. /\ w \in Seq(Byte) /\ u \in Seq(Byte) /\ c \in Nat /\ Len(w) = Len(u) + c
      /\ \A i \in 1 .. Len(u) : u[i] = w[i + c]
  BY DEF Cut
<1>2. PICK m, n \in Nat : m = Len(u) /\ n = Len(w)
  BY <1>1
<1>3. \A i \in 1 .. m : i + c \in 1 .. n /\ i \in Nat /\ i + c \in Nat
  BY <1>1, <1>2
<1>4. \A i \in 1 .. m + 1 : i + c \in 1 .. n + 1 /\ (i <= m <=> i + c <= n) /\ (i <= m => i \in 1 .. m)
  BY <1>1, <1>2
<1>5. \A i \in 1 .. m + 1 : P(u, i) = P(w, i + c)
  BY <1>1, <1>2, <1>4 DEF P
<1> QED
  BY <1>1, <1>2, <1>3, <1>4, <1>5
-----------------------------------------------------------------------------
(* Sentences and places in a window.                                       *)

(* The numbers of a sentence: its place in sent, and its length.           *)
LEMMA MineFacts ==
    ASSUME SInv, Served, NEW d \in Device, NEW f, Mine(d, f)
    PROVE  /\ f \in Nat /\ 1 <= f /\ f <= Len(sent) /\ f <= MaxSent /\ f \in DOMAIN sent
           /\ Len(sent) \in Nat /\ MaxSent \in Nat /\ Limit \in Nat
           /\ sent[f].kind \in Kinds[protocal[d]] /\ sent[f].kind \in AllKinds
           /\ Size(f) \in Nat /\ Size(f) < Limit
           /\ HeadLen[protocal[d]] \in Nat /\ 2 <= HeadLen[protocal[d]]
           /\ HeadLen[protocal[d]] + (IF sent[f].kind \in Text THEN 4 ELSE 2) < Size(f)
<1>1. SInv /\ Served
  OBVIOUS
<1>2. f \in DOMAIN sent /\ sent[f].dev = d
  BY DEF Mine
<1>3. /\ DOMAIN sent = 1 .. Len(sent) /\ Len(sent) \in Nat /\ MaxSent \in Nat
      /\ DOMAIN sent \subseteq 1 .. MaxSent
      /\ sent[f].kind \in AllKinds /\ Length[sent[f].kind] \in Nat
  BY <1>1, <1>2, SentFacts
<1>4. sent[f].kind \in Kinds[protocal[d]]
  BY <1>1, <1>2 DEF Served
<1>5. protocal[d] \in Protocols /\ Limit \in Nat
  BY <1>1, DeviceFacts
<1>6. /\ HeadLen[protocal[d]] \in Nat \ {0, 1}
      /\ Size(f) > HeadLen[protocal[d]] + (IF sent[f].kind \in Text THEN 4 ELSE 2)
      /\ Size(f) < Limit
  BY <1>4, <1>5, KindsAssumption DEF Size
<1> QED
  BY <1>2, <1>3, <1>4, <1>5, <1>6 DEF Size

(* The numbers of a byte that is one of a sentence.                        *)
LEMMA RealFacts ==
    ASSUME SInv, Served, NEW d \in Device, NEW b, RealByte(d, b)
    PROVE  /\ Mine(d, b[1]) /\ b[1] \in Nat /\ 1 <= b[1] /\ b[1] <= MaxSent /\ MaxSent \in Nat
           /\ b[2] \in Nat /\ 1 <= b[2] /\ b[2] <= Size(b[1]) /\ Size(b[1]) \in Nat
           /\ b = <<b[1], b[2]>> /\ b # Noise
<1>1. Mine(d, b[1]) /\ b[2] \in 1 .. Size(b[1]) /\ b = <<b[1], b[2]>>
  BY DEF RealByte
<1>2. b[1] \in Nat /\ 1 <= b[1] /\ b[1] <= MaxSent /\ MaxSent \in Nat /\ Size(b[1]) \in Nat
  BY <1>1, MineFacts
<1> QED
  BY <1>1, <1>2 DEF Noise

(* Nothing new was sent.                                                   *)
LEMMA SameSent ==
    ASSUME sent' = sent, hurt' = hurt, NEW d
    PROVE  /\ \A f : Mine(d, f)' <=> Mine(d, f)
           /\ \A f : Size(f)' = Size(f)
           /\ \A f : Intact(d, f)' <=> Intact(d, f)
           /\ \A f : Sound(d, f)' <=> Sound(d, f)
           /\ \A f, g : Precedes(d, g, f)' <=> Precedes(d, g, f)
           /\ \A b : RealByte(d, b)' <=> RealByte(d, b)
<1>1. \A f : Mine(d, f)' <=> Mine(d, f)
  BY DEF Mine
<1>2. \A f : Size(f)' = Size(f)
  BY DEF Size
<1>3. \A f : Intact(d, f)' <=> Intact(d, f)
  BY <1>1 DEF Intact
<1>4. \A f : Sound(d, f)' <=> Sound(d, f)
  BY <1>3 DEF Sound
<1>5. \A f, g : Precedes(d, g, f)' <=> Precedes(d, g, f)
  BY <1>1 DEF Precedes
<1>6. \A b : RealByte(d, b)' <=> RealByte(d, b)
  BY <1>1, <1>2 DEF RealByte
<1> QED
  BY <1>1, <1>2, <1>3, <1>4, <1>5, <1>6

(* A sentence is found.                                                    *)
LEMMA GivenGrows ==
    ASSUME SInv, NEW d, NEW f, given' = Append(given, <<d, f>>), NEW c
    PROVE  \A g : Given(c, g)' <=> Given(c, g) \/ (c = d /\ g = f)
<1>1. given \in Seq(Device \X (1 .. MaxSent))
  BY DEF SInv, TypeOK
<1>2. PICK q : q = given
  OBVIOUS
<1>3. PICK n : n = Len(q)
  OBVIOUS
<1>4. n \in Nat /\ DOMAIN q = 1 .. n
  BY <1>1, <1>2, <1>3
<1>5. /\ DOMAIN given' = 1 .. n + 1 /\ given'[n + 1] = <<d, f>>
      /\ \A i \in 1 .. n : given'[i] = q[i]
  BY <1>1, <1>2, <1>3, <1>4
<1>6. ASSUME NEW g, Given(c, g) PROVE Given(c, g)'
  <2>1. PICK i \in 1 .. n : q[i] = <<c, g>>
    BY <1>2, <1>4, <1>6 DEF Given
  <2> QED
    BY <1>4, <1>5, <2>1 DEF Given
<1>7. Given(d, f)'
  BY <1>4, <1>5 DEF Given
<1>8. ASSUME NEW g, Given(c, g)', ~ (c = d /\ g = f) PROVE Given(c, g)
  <2>1. PICK i \in 1 .. n + 1 : given'[i] = <<c, g>>
    BY <1>5, <1>8 DEF Given
  <2>2. i # n + 1
    BY <1>5, <1>8, <2>1
  <2>3. i \in 1 .. n
    BY <1>4, <2>1, <2>2
  <2> QED
    BY <1>2, <1>4, <1>5, <2>1, <2>3 DEF Given
<1> QED
  BY <1>6, <1>7, <1>8

(* What a step does not give is given as before.                           *)
LEMMA GivenStays == ASSUME given' = given, NEW c PROVE \A g : Given(c, g)' <=> Given(c, g)
  BY DEF Given

(* The sentences of a device, and those between two of them.               *)
LEMMA BetweenFacts ==
    ASSUME SInv, Served, hurt \subseteq DOMAIN sent, NEW d \in Device, NEW g, NEW f
    PROVE  /\ \A h : h \in From(d) <=> Mine(d, h)
           /\ Between(d, g, f) \subseteq DOMAIN sent /\ IsFiniteSet(Between(d, g, f))
           /\ Summed(sent, Between(d, g, f))
           /\ IsFiniteSet(hurt) /\ Cardinality(hurt) \in Nat
<1>1. /\ DOMAIN sent = 1 .. Len(sent) /\ Len(sent) \in Nat
      /\ \A h \in DOMAIN sent : Length[sent[h].kind] \in Nat
  BY SentFacts
<1>2. IsFiniteSet(DOMAIN sent)
  BY <1>1, FS_Interval
<1>3. Between(d, g, f) \subseteq DOMAIN sent
  BY DEF Between, From
<1>4. IsFiniteSet(Between(d, g, f)) /\ IsFiniteSet(hurt)
  BY <1>2, <1>3, FS_Subset
<1>5. Cardinality(hurt) \in Nat
  BY <1>4, FS_CardinalityType
<1>6. \A h : h \in From(d) <=> Mine(d, h)
  BY DEF From, Mine
<1> QED
  BY <1>1, <1>3, <1>4, <1>5, <1>6 DEF Summed

(* Reaches, with the names used here.                                      *)
Spans(d, g, f) ==
    \/ g = f
    \/ g < f /\ Cardinality(Between(d, g, f)) = 1
    \/ /\ g < f /\ \E h \in Between(d, g, f) : sent[h].kind \notin Text
       /\ Sum(sent, Between(d, g, f)) < Limit + Cardinality(hurt)

(* Reaches, in the words of the proof.                                     *)
LEMMA ReachesIs ==
    ASSUME NEW CONSTANT d, NEW CONSTANT g, NEW CONSTANT f
    PROVE  (Reaches(d, g, f) <=> Spans(d, g, f)) /\ (Reaches(d, g, f)' <=> Spans(d, g, f)')
<1>1. Reaches(d, g, f) <=> Spans(d, g, f)
  BY DEF Reaches, Spans, Between, Sum
<1>2. Reaches(d, g, f)' <=> Spans(d, g, f)'
  BY <1>1, PTL
<1> QED
  BY <1>1, <1>2

-----------------------------------------------------------------------------
(* A sentence without damage lies in a window from its first byte to its   *)
(* last.                                                                   *)
LEMMA Runs ==
    ASSUME SInv, Served, NEW d \in Device, NEW w \in Seq(Byte), GoesOn(d, w),
           NEW f, Intact(d, f), NEW i \in 1 .. Len(w), w[i] = <<f, 1>>, NEW k \in 1 .. Size(f)
    PROVE  i + (k - 1) \in 1 .. Len(w) /\ w[i + (k - 1)] = <<f, k>>
<1> DEFINE Lies(j) == i + (j - 1) \in 1 .. Len(w) /\ w[i + (j - 1)] = <<f, j>>
<1> SUFFICES ASSUME ~ Lies(k) PROVE FALSE
  OBVIOUS
<1>1. Size(f) \in Nat /\ Len(w) \in Nat /\ i \in Nat /\ k \in Nat
  BY MineFacts DEF Intact
<1> DEFINE T == {j \in Nat : j \in 1 .. Size(f) /\ ~ Lies(j)}
<1>2. T \in SUBSET Nat /\ T # {}
  BY <1>1
<1>3. PICK j \in T : \A y \in T : j <= y
  BY ONLY <1>2, Least
<1>4. j \in Nat /\ 1 <= j /\ j <= Size(f) /\ ~ Lies(j)
  BY <1>1
<1>5. Lies(1)
  <2>1. i + (1 - 1) = i
    BY <1>1
  <2> QED
    BY <2>1
<1>6. PICK m \in Nat : j = m + 1
  BY <1>4
<1>7. m # 0
  BY <1>4, <1>5, <1>6
<1>8. m \in 1 .. Size(f) /\ m \notin T
  <2>1. m \in 1 .. Size(f) /\ ~ (j <= m)
    BY <1>1, <1>4, <1>6, <1>7
  <2> HIDE DEF T
  <2> QED
    BY <1>3, <2>1
<1>9. Lies(m)
  BY <1>8
<1>10. PICK p : p = i + (m - 1)
  OBVIOUS
<1>11. p \in 1 .. Len(w) /\ w[p] = <<f, m>> /\ m < Size(f)
  BY <1>1, <1>4, <1>6, <1>9, <1>10
<1>12. p < Len(w) /\ w[p + 1] = <<f, m + 1>>
  <2>1. Intact(d, w[p][1]) /\ w[p][2] < Size(w[p][1])
            => p < Len(w) /\ w[p + 1] = <<w[p][1], w[p][2] + 1>>
    BY <1>11 DEF GoesOn
  <2>2. w[p][1] = f /\ w[p][2] = m
    BY <1>11
  <2> QED
    BY <1>11, <2>1, <2>2
<1>13. p + 1 = i + (j - 1) /\ p + 1 \in 1 .. Len(w)
  BY <1>1, <1>6, <1>10, <1>11, <1>12
<1> HIDE DEF T
<1> QED
  BY <1>4, <1>6, <1>12, <1>13

(* Nothing is sent: what lay in a window lies in what is left of it.       *)
LEMMA CutLaid ==
    ASSUME SInv, sent' = sent, hurt' = hurt, NEW d \in Device, NEW w, NEW u, NEW c, Cut(w, u, c),
           Laid(d, w)
    PROVE  Laid(d, u)'
<1>1. /\ Len(w) \in Nat /\ Len(u) \in Nat /\ c \in Nat /\ Len(w) = Len(u) + c
      /\ \A i \in 1 .. Len(u) : /\ u[i] = w[i + c] /\ i + c \in 1 .. Len(w)
                                /\ i \in Nat /\ i + c \in Nat
      /\ \A i \in 1 .. Len(u) + 1 : P(u, i) = P(w, i + c) /\ i + c \in 1 .. Len(w) + 1
  BY CutFacts
<1>2. /\ Bytes(d, w) /\ Ascending(w) /\ GoesOn(d, w) /\ GoesBack(d, w) /\ Joints(d, w)
      /\ Spaced(d, w)
  BY DEF Laid
<1>3. /\ \A f : Size(f)' = Size(f)
      /\ \A f : Intact(d, f)' <=> Intact(d, f)
      /\ \A f : Sound(d, f)' <=> Sound(d, f)
      /\ \A f, g : Precedes(d, g, f)' <=> Precedes(d, g, f)
      /\ \A b : RealByte(d, b)' <=> RealByte(d, b)
  BY SameSent
<1>4. PICK l \in Nat : l = Len(u)
  BY <1>1
<1>5. Bytes(d, u)'
  <2> SUFFICES ASSUME NEW i \in 1 .. l PROVE u[i] = Noise \/ RealByte(d, u[i])'
    BY <1>4 DEF Bytes, Noise
  <2>1. w[i + c] = Noise \/ RealByte(d, w[i + c])
    BY <1>1, <1>2, <1>4 DEF Bytes
  <2> QED
    BY <1>1, <1>3, <1>4, <2>1
<1>6. Ascending(u)
  <2> SUFFICES ASSUME NEW i \in 1 .. l, NEW j \in 1 .. l, i < j, u[i] # Noise, u[j] # Noise
               PROVE  Before(u[i], u[j])
    BY <1>4 DEF Ascending
  <2>1. i + c < j + c
    BY <1>1, <1>4
  <2> QED
    BY <1>1, <1>2, <1>4, <2>1 DEF Ascending
<1>7. GoesOn(d, u)'
  <2> SUFFICES ASSUME NEW i \in 1 .. l, Intact(d, u[i][1])', u[i][2] < Size(u[i][1])'
               PROVE  i < l /\ u[i + 1] = <<u[i][1], u[i][2] + 1>>
    BY <1>4 DEF GoesOn
  <2>1. Intact(d, w[i + c][1]) /\ w[i + c][2] < Size(w[i + c][1])
    BY <1>1, <1>3, <1>4
  <2>2. i + c < Len(w) /\ w[(i + c) + 1] = <<u[i][1], u[i][2] + 1>>
    BY <1>1, <1>2, <1>4, <2>1 DEF GoesOn
  <2>3. i < l /\ i + 1 \in 1 .. l /\ (i + 1) + c = (i + c) + 1
    BY <1>1, <1>4, <2>2
  <2>4. u[i + 1] = w[(i + 1) + c]
    BY <1>1, <1>4, <2>3
  <2> QED
    BY <2>2, <2>3, <2>4
<1>8. GoesBack(d, u)'
  <2> SUFFICES ASSUME NEW i \in 2 .. l, Intact(d, u[i][1])', 1 < u[i][2]
               PROVE  u[i - 1] = <<u[i][1], u[i][2] - 1>>
    BY <1>4 DEF GoesBack
  <2>1. /\ i \in 1 .. l /\ i - 1 \in 1 .. l /\ i + c \in 2 .. Len(w) /\ (i - 1) + c = (i + c) - 1
    BY <1>1, <1>4
  <2>2. Intact(d, w[i + c][1]) /\ 1 < w[i + c][2]
    BY <1>1, <1>3, <1>4, <2>1
  <2>3. w[(i + c) - 1] = <<w[i + c][1], w[i + c][2] - 1>>
    BY <1>2, <2>1, <2>2 DEF GoesBack
  <2>4. u[i - 1] = w[(i - 1) + c]
    BY <1>1, <1>4, <2>1
  <2> QED
    BY <1>1, <1>4, <2>1, <2>3, <2>4
<1>9. Joints(d, u)'
  <2> SUFFICES ASSUME NEW i \in 1 .. l, NEW f, Sound(d, f)', P(u, i + 1)' = <<f, 1>>
               PROVE  Joined(d, f, u[i])'
    BY <1>4 DEF Joints
  <2>0. P(u, i + 1)' = P(u, i + 1)
    BY DEF P, Beyond
  <2>1. i + 1 \in 1 .. l + 1 /\ (i + 1) + c = (i + c) + 1
    BY <1>1, <1>4
  <2>2. P(w, (i + c) + 1) = <<f, 1>>
    BY <1>1, <1>4, <2>0, <2>1
  <2>3. Joined(d, f, w[i + c])
    BY <1>1, <1>2, <1>3, <1>4, <2>2 DEF Joints
  <2>4. PICK g : Precedes(d, g, f) /\ (g \in hurt \/ w[i + c] = <<g, Size(g)>>)
    BY <2>3 DEF Joined
  <2>5. Precedes(d, g, f)' /\ (g \in hurt' \/ u[i] = <<g, Size(g)'>>)
    BY <1>1, <1>3, <1>4, <2>4
  <2> QED
    BY <2>5 DEF Joined
<1>10. Spaced(d, u)'
  <2> SUFFICES ASSUME NEW i \in 1 .. l + 1, NEW k \in 1 .. l + 1, NEW g, NEW f, i < k,
                      P(u, i)' = <<g, 1>>, P(u, k)' = <<f, 1>>
               PROVE  (Sum(sent, Between(d, g, f)) <= (k - i) + Cardinality(hurt))'
    BY <1>4 DEF Spaced
  <2>0. P(u, i)' = P(u, i) /\ P(u, k)' = P(u, k)
    BY DEF P, Beyond
  <2>1. i + c < k + c /\ (k + c) - (i + c) = k - i
    BY <1>1, <1>4
  <2>2. P(w, i + c) = <<g, 1>> /\ P(w, k + c) = <<f, 1>>
    BY <1>1, <1>4, <2>0
  <2>3. Sum(sent, Between(d, g, f)) <= ((k + c) - (i + c)) + Cardinality(hurt)
    BY <1>1, <1>2, <1>4, <2>1, <2>2 DEF Spaced
  <2>4. Between(d, g, f)' = Between(d, g, f)
    BY DEF Between, From
  <2>5. Sum(sent, Between(d, g, f))' = Sum(sent', Between(d, g, f)')
    OBVIOUS
  <2> QED
    BY <2>1, <2>3, <2>4, <2>5
<1>11. Ascending(u)'
  BY <1>6 DEF Ascending, Before, Noise
<1> QED
  BY <1>5, <1>7, <1>8, <1>9, <1>10, <1>11 DEF Laid

(* What the search has seen all of stays behind it.                        *)
LEMMA CutPast ==
    ASSUME NEW w, NEW u, NEW c, Cut(w, u, c), NEW f, Past(w, f)
    PROVE  Past(u, f)
<1>1. \A i \in 1 .. Len(u) : u[i] = w[i + c] /\ i + c \in 1 .. Len(w)
  BY CutFacts
<1> QED
  BY <1>1 DEF Past

-----------------------------------------------------------------------------
(* A byte is taken from the stream.                                        *)
LEMMA Taken ==
    ASSUME SInv, NEW d \in Device, NEW status, Within(d, status)
    PROVE  /\ 1 <= Len(Stream(d)) /\ Stream(d)[1] = At(d)
           /\ Len(Stream(d)') = Len(Stream(d)) - 1
           /\ \A i \in 1 .. Len(Stream(d)) - 1 : Stream(d)'[i] = Stream(d)[i + 1]
           /\ \A c \in Device : c # d => Stream(c)' = Stream(c)
<1>1. /\ m_ComBuff[d] # <<>> /\ m_ComBuff' = [m_ComBuff EXCEPT ![d] = Tail(m_ComBuff[d])]
      /\ line' = line /\ m_ComBuff \in [Device -> Seq(Byte)]
  BY DEF Within, SInv, TypeOK
<1>2. PICK a, b : a = m_ComBuff[d] /\ b = line[d]
  OBVIOUS
<1>3. a \in Seq(Known) /\ b \in Seq(Known) /\ a # <<>>
  BY <1>1, <1>2, DeviceFacts
<1>4. /\ Len(a) \in Nat \ {0} /\ Len(b) \in Nat /\ Tail(a) \in Seq(Known) /\ Len(Tail(a)) = Len(a) - 1
      /\ \A i \in 1 .. Len(a) - 1 : Tail(a)[i] = a[i + 1]
  BY <1>3, EmptySeq, HeadTailProperties
<1>5. PICK s, t : s = Stream(d) /\ t = Stream(d)'
  OBVIOUS
<1>6. m_ComBuff'[d] = Tail(a) /\ line'[d] = b
  BY <1>1, <1>2
<1>7. t = Tail(a) \o b /\ s = a \o b
  BY <1>2, <1>5, <1>6 DEF Stream
<1>8. /\ Len(t) = Len(Tail(a)) + Len(b)
      /\ \A i \in 1 .. Len(Tail(a)) + Len(b) :
            t[i] = IF i <= Len(Tail(a)) THEN Tail(a)[i] ELSE b[i - Len(Tail(a))]
  BY <1>3, <1>4, <1>7, ConcatProperties
<1>9. /\ Len(s) = Len(a) + Len(b)
      /\ \A i \in 1 .. Len(a) + Len(b) : s[i] = IF i <= Len(a) THEN a[i] ELSE b[i - Len(a)]
  BY <1>3, <1>7, ConcatProperties
<1>10. Len(t) = Len(s) - 1 /\ Len(s) \in Nat /\ 1 <= Len(s)
  BY <1>4, <1>8, <1>9
<1>11. ASSUME NEW i \in 1 .. Len(t) PROVE t[i] = s[i + 1]
  <2>1. i \in Nat /\ i <= Len(a) - 1 + Len(b) /\ i + 1 \in 1 .. Len(s)
    BY <1>4, <1>8, <1>10
  <2>2. CASE i <= Len(a) - 1
    BY <1>4, <1>8, <1>9, <2>1, <2>2
  <2>3. CASE ~ (i <= Len(a) - 1)
    <3>1. t[i] = b[i - (Len(a) - 1)] /\ s[i + 1] = b[(i + 1) - Len(a)]
      BY <1>4, <1>8, <1>9, <2>1, <2>3
    <3>2. i - (Len(a) - 1) = (i + 1) - Len(a)
      BY <1>4, <2>1
    <3> QED
      BY <3>1, <3>2
  <2> QED
    BY <2>2, <2>3
<1>12. s[1] = a[1]
  <2>1. 1 \in 1 .. Len(a) + Len(b) /\ 1 <= Len(a)
    BY <1>4
  <2> QED
    BY <1>9, <2>1
<1>13. s[1] = At(d)
  BY <1>2, <1>12 DEF At
<1>14. ASSUME NEW c \in Device, c # d PROVE Stream(c)' = Stream(c)
  BY <1>1, <1>14 DEF Stream
<1> QED
  BY <1>5, <1>10, <1>11, <1>13, <1>14

(* A read moves the cut and no byte.                                       *)
LEMMA CutMoves ==
    ASSUME SInv, NEW d \in Device, NEW n \in DOMAIN line[d], Read(d, n), NEW c \in Device
    PROVE  Stream(c)' = Stream(c)
<1>1. /\ m_ComBuff[d] = <<>> /\ m_ComBuff' = [m_ComBuff EXCEPT ![d] = SubSeq(line[d], 1, n)]
      /\ line' = [line EXCEPT ![d] = SubSeq(line[d], n + 1, Len(line[d]))]
      /\ m_ComBuff \in [Device -> Seq(Byte)] /\ line \in [Device -> Seq(Byte)]
  BY DEF Read, SInv, TypeOK
<1>2. CASE c # d
  BY <1>1, <1>2 DEF Stream
<1>3. CASE c = d
  <2>1. PICK l, a, b : l = line[d] /\ a = SubSeq(l, 1, n) /\ b = SubSeq(l, n + 1, Len(l))
    OBVIOUS
  <2>2. l \in Seq(Known) /\ Len(l) \in Nat /\ n \in Nat /\ 1 <= n /\ n <= Len(l)
    <3>1. l \in Seq(Known)
      BY <2>1, DeviceFacts
    <3> QED
      BY <2>1, <3>1
  <2>3. (\A i \in 1 .. n : l[i] \in Known) /\ \A i \in n + 1 .. Len(l) : l[i] \in Known
    BY <2>2
  <2>4. a \in Seq(Known) /\ Len(a) = n /\ \A i \in 1 .. n : a[i] = l[i]
    BY <2>1, <2>2, <2>3, SubSeqProperties
  <2>5. b \in Seq(Known) /\ Len(b) = Len(l) - n /\ \A i \in 1 .. Len(l) - n : b[i] = l[n + i]
    <3>1. n + 1 \in Nat
      BY <2>2
    <3>2. /\ b \in Seq(Known) /\ Len(b) = IF n + 1 <= Len(l) THEN Len(l) - (n + 1) + 1 ELSE 0
          /\ \A i \in 1 .. Len(l) - (n + 1) + 1 : b[i] = l[n + 1 + i - 1]
      BY <2>1, <2>2, <2>3, <3>1, SubSeqProperties
    <3> QED
      BY <2>2, <3>2
  <2>6. /\ a \o b \in Seq(Known) /\ Len(a \o b) = Len(a) + Len(b)
        /\ \A i \in 1 .. Len(a) + Len(b) : (a \o b)[i] = IF i <= Len(a) THEN a[i] ELSE b[i - Len(a)]
    BY <2>4, <2>5, ConcatProperties
  <2>7. ASSUME NEW i \in 1 .. Len(l) PROVE (a \o b)[i] = l[i]
    <3>1. CASE i <= n
      BY <2>2, <2>4, <2>5, <2>6, <3>1
    <3>2. CASE ~ (i <= n)
      <4>1. i - n \in 1 .. Len(l) - n /\ n + (i - n) = i
        BY <2>2, <3>2
      <4> QED
        BY <2>2, <2>4, <2>5, <2>6, <3>2, <4>1
    <3> QED
      BY <3>1, <3>2
  <2>8. a \o b = l
    <3>1. Len(a \o b) = Len(l)
      BY <2>2, <2>4, <2>5, <2>6
    <3> QED
      BY <2>2, <2>6, <2>7, <3>1, Alike
  <2>9. Stream(c)' = a \o b
    BY <1>1, <1>3, <2>1 DEF Stream
  <2>10. Stream(c) = l
    <3>1. Stream(c) = <<>> \o l
      BY <1>1, <1>3, <2>1 DEF Stream
    <3> QED
      BY <2>2, <3>1, ConcatEmptySeq
  <2> QED
    BY <2>8, <2>9, <2>10
<1> QED
  BY <1>2, <1>3

(* What the search drops of what it holds, it drops of the window.         *)
LEMMA TakenWindow ==
    ASSUME SInv, SInv', NEW d \in Device, NEW status, Within(d, status),
           NEW c, Cut(Append(Held(d), At(d)), Held(d)', c)
    PROVE  /\ Cut(Window(d), Window(d)', c)
           /\ Len(Held(d)) + 1 <= Len(Window(d)) /\ Window(d)[Len(Held(d)) + 1] = At(d)
           /\ Len(Held(d)) + 1 = Len(Held(d)') + c
<1>1. PICK h, s, k, t : h = Held(d) /\ s = Stream(d) /\ k = Held(d)' /\ t = Stream(d)'
  OBVIOUS
<1>2. /\ h \in Seq(Byte) /\ s \in Seq(Byte) /\ Window(d) = h \o s
  BY <1>1, WindowFacts DEF Window
<1>3. /\ k \in Seq(Byte) /\ t \in Seq(Byte) /\ Window(d)' = k \o t
  <2>1. k \in Seq(Byte)
    BY <1>1 DEF Cut
  <2>2. m_ComBuff'[d] \in Seq(Byte) /\ line'[d] \in Seq(Byte)
    BY DEF SInv, TypeOK
  <2>3. PICK a, b : a = m_ComBuff'[d] /\ b = line'[d]
    OBVIOUS
  <2>4. t = a \o b
    BY <1>1, <2>3 DEF Stream
  <2>5. a \o b \in Seq(Byte)
    BY <2>2, <2>3, Joins
  <2> QED
    BY <1>1, <2>1, <2>4, <2>5 DEF Window
<1>4. /\ 1 <= Len(s) /\ s[1] = At(d) /\ Len(t) = Len(s) - 1
      /\ \A i \in 1 .. Len(s) - 1 : t[i] = s[i + 1]
  BY <1>1, Taken
<1>5. PICK w, u : w = h \o s /\ u = k \o t
  OBVIOUS
<1>6. PICK n, l, m, r \in Nat : n = Len(h) /\ l = Len(s) /\ m = Len(k) /\ r = Len(t)
  BY <1>2, <1>3
<1>7. /\ w \in Seq(Byte) /\ Len(w) = n + l
      /\ \A i \in 1 .. n : w[i] = h[i]
      /\ \A i \in 1 .. l : w[n + i] = s[i]
  BY <1>2, <1>5, <1>6, Joins
<1>8. /\ u \in Seq(Byte) /\ Len(u) = m + r
      /\ \A i \in 1 .. m : u[i] = k[i]
      /\ \A i \in 1 .. r : u[m + i] = t[i]
  BY <1>3, <1>5, <1>6, Joins
<1>9. PICK x : x = Append(h, At(d))
  OBVIOUS
<1>10. Len(x) = n + 1 /\ x[n + 1] = At(d) /\ \A i \in 1 .. n : x[i] = h[i]
  BY <1>2, <1>6, <1>9, AppendProperties
<1>11. c \in Nat /\ Len(x) = m + c /\ \A i \in 1 .. m : k[i] = x[i + c]
  BY <1>1, <1>6, <1>9 DEF Cut
<1>12. n + 1 = m + c /\ l = r + 1
  BY <1>4, <1>6, <1>10, <1>11
<1>13. w[n + 1] = At(d)
  <2>1. 1 \in 1 .. l
    BY <1>4, <1>6
  <2> QED
    BY <1>4, <1>7, <2>1
<1>14. ASSUME NEW i \in 1 .. m PROVE u[i] = w[i + c]
  <2>1. u[i] = x[i + c] /\ i + c \in 1 .. n + 1
    BY <1>8, <1>11, <1>12
  <2>2. CASE i + c = n + 1
    BY <1>10, <1>13, <2>1, <2>2
  <2>3. CASE i + c # n + 1
    <3>1. i + c \in 1 .. n
      BY <2>1, <2>3
    <3> QED
      BY <1>7, <1>10, <2>1, <3>1
  <2> QED
    BY <2>2, <2>3
<1>15. ASSUME NEW i \in 1 .. r PROVE u[m + i] = w[(m + i) + c]
  <2>1. i \in 1 .. l - 1 /\ i + 1 \in 1 .. l /\ (m + i) + c = n + (i + 1)
    BY <1>6, <1>11, <1>12
  <2>2. u[m + i] = s[i + 1]
    BY <1>4, <1>6, <1>8, <2>1
  <2> QED
    BY <1>7, <2>1, <2>2
<1>16. ASSUME NEW i \in 1 .. Len(u) PROVE u[i] = w[i + c]
  <2>1. CASE i <= m
    BY <1>8, <1>14, <2>1
  <2>2. CASE ~ (i <= m)
    <3>1. i - m \in 1 .. r /\ i = m + (i - m)
      BY <1>6, <1>8, <2>2
    <3> QED
      BY <1>15, <3>1
  <2> QED
    BY <2>1, <2>2
<1>17. Len(w) = Len(u) + c /\ n + 1 <= Len(w)
  BY <1>7, <1>8, <1>11, <1>12
<1>18. Cut(w, u, c)
  BY <1>7, <1>8, <1>11, <1>16, <1>17 DEF Cut
<1> QED
  BY <1>1, <1>2, <1>3, <1>5, <1>6, <1>12, <1>13, <1>17, <1>18

(* It drops nothing, or all.                                               *)
LEMMA DropsNone ==
    ASSUME SInv, NEW d \in Device, NEW status, Within(d, status), NEW k, k = Append(Held(d), At(d))
    PROVE  Cut(Append(Held(d), At(d)), k, 0)
<1>1. PICK h : h = Held(d)
  OBVIOUS
<1>2. h \in Seq(Byte) /\ At(d) \in Byte
  BY <1>1, WindowFacts, WithinFacts, SentFacts
<1>3. k \in Seq(Byte) /\ Len(k) \in Nat
  BY <1>1, <1>2, AppendProperties
<1>4. \A i \in 1 .. Len(k) : i + 0 = i
  BY <1>3
<1> QED
  BY <1>3, <1>4 DEF Cut

(* A search that drops what it holds cuts that off its window.             *)
LEMMA DropsAll ==
    ASSUME SInv, NEW d \in Device, NEW status, Within(d, status), NEW k, k = <<>>
    PROVE  Cut(Append(Held(d), At(d)), k, Len(Held(d)) + 1)
<1>1. PICK h : h = Held(d)
  OBVIOUS
<1>2. h \in Seq(Byte) /\ At(d) \in Byte /\ Len(h) \in Nat
  BY <1>1, WindowFacts, WithinFacts, SentFacts
<1>3. Append(h, At(d)) \in Seq(Byte) /\ Len(Append(h, At(d))) = Len(h) + 1
  BY <1>2, AppendProperties
<1>4. k \in Seq(Byte) /\ Len(k) = 0
  OBVIOUS
<1> QED
  BY <1>1, <1>2, <1>3, <1>4 DEF Cut

(* A search that drops the first bytes of what it holds.                   *)
LEMMA DropsSome ==
    ASSUME SInv, NEW d \in Device, NEW status, Within(d, status),
           NEW i, i \in 1 .. Len(Held(d)) + 1,
           NEW k, k = SubSeq(Append(Held(d), At(d)), i, Len(Held(d)) + 1)
    PROVE  Cut(Append(Held(d), At(d)), k, i - 1)
<1>1. PICK h, n : h = Held(d) /\ n = Len(h)
  OBVIOUS
<1>2. h \in Seq(Byte) /\ At(d) \in Byte /\ n \in Nat
  BY <1>1, WindowFacts, WithinFacts, SentFacts
<1>3. PICK x : x = Append(h, At(d))
  OBVIOUS
<1>4. x \in Seq(Byte) /\ Len(x) = n + 1
  BY <1>1, <1>2, <1>3, AppendProperties
<1>5. i \in Nat /\ 1 <= i /\ i <= n + 1 /\ i \in 1 .. n + 1 + 1
  BY <1>1, <1>2
<1>6. \A j \in i .. n + 1 : x[j] \in Byte
  BY <1>4, <1>5
<1>7. k = SubSeq(x, i, n + 1) /\ n + 1 \in Int /\ i \in Int
  BY <1>1, <1>2, <1>3, <1>5
<1>8. /\ k \in Seq(Byte) /\ Len(k) = IF i <= n + 1 THEN (n + 1) - i + 1 ELSE 0
      /\ \A j \in 1 .. (n + 1) - i + 1 : k[j] = x[i + j - 1]
  <2>1. PICK e \in Int : e = n + 1
    BY <1>7
  <2>2. i \in Int /\ \A j \in i .. e : x[j] \in Byte
    BY <1>6, <1>7, <2>1
  <2>3. /\ SubSeq(x, i, e) \in Seq(Byte)
        /\ Len(SubSeq(x, i, e)) = IF i <= e THEN e - i + 1 ELSE 0
        /\ \A j \in 1 .. e - i + 1 : SubSeq(x, i, e)[j] = x[i + j - 1]
    BY ONLY <2>1, <2>2, SubSeqProperties
  <2> QED
    BY <1>7, <2>1, <2>3
<1>9. Len(k) = (n + 1) - i + 1
  BY <1>5, <1>8
<1>10. \A j \in 1 .. Len(k) : i + j - 1 = j + (i - 1)
  BY <1>2, <1>5, <1>9
<1>11. i - 1 \in Nat /\ Len(x) = Len(k) + (i - 1)
  BY <1>2, <1>4, <1>5, <1>9
<1> QED
  BY <1>1, <1>3, <1>4, <1>8, <1>9, <1>10, <1>11 DEF Cut

-----------------------------------------------------------------------------
(* A sentence that begins behind the bytes of a frame is missed: damage    *)
(* reaches it.                                                             *)

(* Behind a title a sentence without damage goes back byte by byte.        *)
LEMMA StepsBack ==
    ASSUME NEW d \in Device, HeadLen[protocal[d]] \in Nat, 2 <= HeadLen[protocal[d]],
           NEW w, GoesBack(d, w), NEW n, Title(d, w, n),
           NEW x, Intact(d, x), NEW k \in Nat, HeadLen[protocal[d]] < k,
           NEW i \in 1 .. Len(w), w[i] = <<x, k>>
    PROVE  HeadLen[protocal[d]] < i /\ w[i - 1] = <<x, k - 1>>
<1>1. PICK H \in Nat : H = HeadLen[protocal[d]]
  OBVIOUS
<1>2. w[1][2] = 1 /\ \A j \in 2 .. H : w[j][2] = j
  BY <1>1 DEF Title
<1>3. H < i
  <2>1. i # 1
    BY <1>1, <1>2
  <2>2. i \notin 2 .. H
    BY <1>1, <1>2
  <2> QED
    BY <1>1, <2>1, <2>2
<1>4. i \in 2 .. Len(w) /\ w[i][1] = x /\ w[i][2] = k /\ 1 < k
  BY <1>1, <1>3
<1>5. w[i - 1] = <<x, k - 1>>
  BY <1>4 DEF GoesBack
<1> QED
  BY <1>1, <1>3, <1>5

(* So the end of a text sentence ends a frame of text.                     *)
LEMMA TextEnds ==
    ASSUME SInv, Served, NEW d \in Device, NEW w \in Seq(Byte), NEW n \in Nat, InFrame(d),
           GoesBack(d, w), FrameOK(d, w, n), Kind(w[2]) \in Text,
           NEW x, Intact(d, x), sent[x].kind \in Text,
           n \in 1 .. Len(w), w[n] = <<x, Size(x)>>
    PROVE  FALSE
<1>1. Title(d, w, n) /\ InText(d, w, n)
  BY DEF FrameOK
<1>2. Mine(d, x)
  BY DEF Intact
<1>3. /\ HeadLen[protocal[d]] \in Nat /\ 2 <= HeadLen[protocal[d]]
      /\ HeadLen[protocal[d]] + 4 < Size(x) /\ Size(x) \in Nat /\ x \in Nat /\ 1 <= x
  BY <1>2, MineFacts
<1>4. PICK H, m \in Nat : H = HeadLen[protocal[d]] /\ m = Size(x)
  BY <1>3
<1>5. \A i \in 1 .. Len(w) : \A k \in Nat :
         H < k /\ w[i] = <<x, k>> => H < i /\ w[i - 1] = <<x, k - 1>>
  <2> SUFFICES ASSUME NEW i \in 1 .. Len(w), NEW k \in Nat, HeadLen[protocal[d]] < k, w[i] = <<x, k>>
               PROVE  HeadLen[protocal[d]] < i /\ w[i - 1] = <<x, k - 1>>
    BY <1>4
  <2>1. /\ d \in Device /\ HeadLen[protocal[d]] \in Nat /\ 2 <= HeadLen[protocal[d]]
        /\ GoesBack(d, w) /\ Title(d, w, n) /\ Intact(d, x) /\ k \in Nat
        /\ HeadLen[protocal[d]] < k /\ i \in 1 .. Len(w) /\ w[i] = <<x, k>>
    BY <1>1, <1>3
  <2> QED
    BY ONLY <2>1, StepsBack
<1>6. Len(w) \in Nat /\ H + 4 < m /\ n <= Len(w) /\ w[n] = <<x, m>> /\ 2 <= H
  BY <1>3, <1>4
<1>7. H < n /\ w[n - 1] = <<x, m - 1>>
  BY <1>4, <1>5, <1>6
<1>8. H < n - 1 /\ w[n - 2] = <<x, m - 2>>
  <2>1. n - 1 \in 1 .. Len(w) /\ m - 1 \in Nat /\ H < m - 1
    BY <1>6, <1>7
  <2>2. H < n - 1 /\ w[(n - 1) - 1] = <<x, (m - 1) - 1>>
    BY <1>5, <1>7, <2>1
  <2>3. (n - 1) - 1 = n - 2 /\ (m - 1) - 1 = m - 2
    BY <1>4
  <2> QED
    BY <2>2, <2>3
<1>9. H < n - 2 /\ w[n - 3] = <<x, m - 3>>
  <2>1. n - 2 \in 1 .. Len(w) /\ m - 2 \in Nat /\ H < m - 2
    BY <1>6, <1>8
  <2>2. H < n - 2 /\ w[(n - 2) - 1] = <<x, (m - 2) - 1>>
    BY <1>5, <1>8, <2>1
  <2>3. (n - 2) - 1 = n - 3 /\ (m - 2) - 1 = m - 3
    BY <1>4
  <2> QED
    BY <2>2, <2>3
<1>10. H < n - 3 /\ w[n - 4] = <<x, m - 4>>
  <2>1. n - 3 \in 1 .. Len(w) /\ m - 3 \in Nat /\ H < m - 3
    BY <1>6, <1>9
  <2>2. H < n - 3 /\ w[(n - 3) - 1] = <<x, (m - 3) - 1>>
    BY <1>5, <1>9, <2>1
  <2>3. (n - 3) - 1 = n - 4 /\ (m - 3) - 1 = m - 4
    BY <1>4
  <2> QED
    BY <2>2, <2>3
<1>11. H < n - 4
  <2>1. n - 4 \in 1 .. Len(w) /\ m - 4 \in Nat /\ H < m - 4
    BY <1>6, <1>10
  <2> QED
    BY <1>5, <1>10, <2>1
<1>12. n \in H + 5 .. n
  BY <1>4, <1>11
<1>13. ASSUME NEW i \in 0 .. 4, NEW b, b = <<x, m - i>> PROVE AtEnd(b, i)
  <2>1. b[1] = x /\ b[2] = m - i /\ b # Noise
    BY <1>3, <1>13 DEF Noise
  <2> QED
    BY <1>4, <2>1 DEF AtEnd, Kind, Size
<1>14. LF(w[n]) /\ CR(w[n - 1]) /\ Star(w[n - 4])
  <2>1. w[n] = <<x, m - 0>>
    BY <1>4, <1>6
  <2> QED
    BY <1>7, <1>10, <1>13, <2>1 DEF LF, CR, Star
<1> QED
  BY <1>1, <1>4, <1>12, <1>14 DEF InText

(* A sentence whose first byte comes while a frame is open is missed, for  *)
(* damage to the one that opened the frame: the bytes since then are in a  *)
(* buffer shorter than Limit.                                              *)
LEMMA Missed ==
    ASSUME SInv, Served, hurt \subseteq DOMAIN sent, NEW d \in Device,
           NEW w \in Seq(Byte), NEW n \in Nat, n < Limit, InFrame(d),
           Laid(d, w), GivenPast(d, w), FrameOK(d, w, n),
           NEW f, Intact(d, f), n + 1 \in 1 .. Len(w), w[n + 1] = <<f, 1>>
    PROVE  Reached(d, f) /\ Excused(d, f)
<1>1. /\ Bytes(d, w) /\ Ascending(w) /\ GoesOn(d, w) /\ GoesBack(d, w) /\ Joints(d, w)
      /\ Spaced(d, w)
  BY DEF Laid
<1>2. Title(d, w, n) /\ InStep(d, w, n)
  BY DEF FrameOK
<1>3. /\ Mine(d, f) /\ f \in Nat /\ 1 <= f /\ f <= MaxSent /\ MaxSent \in Nat /\ Limit \in Nat
      /\ HeadLen[protocal[d]] \in Nat /\ 2 <= HeadLen[protocal[d]]
  BY MineFacts DEF Intact
<1>4. /\ HeadLen[protocal[d]] <= n /\ w[1][2] = 1 /\ 2 <= n /\ Len(w) \in Nat
      /\ 1 \in 1 .. Len(w) /\ 2 \in 1 .. Len(w) /\ n \in 1 .. Len(w)
      /\ w[2] # Noise /\ w[2][2] = 2
  <2>1. HeadLen[protocal[d]] <= n /\ 2 <= n /\ 2 \in 2 .. HeadLen[protocal[d]]
    BY <1>2, <1>3 DEF Title
  <2> QED
    BY <1>2, <2>1 DEF Title
(* The frame begins with the first byte of some g. *)
<1>5. PICK g : w[1] = <<g, 1>> /\ Mine(d, g)
  <2>1. w[1] # Noise
    BY <1>4 DEF Noise
  <2>2. RealByte(d, w[1])
    BY <1>1, <1>4, <2>1 DEF Bytes
  <2> QED
    BY <1>4, <2>2 DEF RealByte
<1>6. g \in Nat /\ 1 <= g /\ Size(g) \in Nat
  BY <1>5, MineFacts
<1>7. g < f
  <2>1. w[1] # Noise /\ w[n + 1] # Noise
    BY <1>3, <1>5, <1>6 DEF Noise
  <2>2. 1 \in 1 .. Len(w) /\ n + 1 \in 1 .. Len(w) /\ 1 < n + 1
    BY <1>4
  <2>3. Before(w[1], w[n + 1])
    BY <1>1, <2>1, <2>2 DEF Ascending
  <2> QED
    BY <1>3, <1>5, <1>6, <2>3 DEF Before
<1>8. g \in hurt
  <2> SUFFICES ASSUME g \notin hurt PROVE FALSE
    OBVIOUS
  <2>1. Intact(d, g) /\ n + 1 \in 1 .. Size(g)
    <3>1. Intact(d, g)
      BY <1>5 DEF Intact
    <3>2. n < Size(g)
      BY <1>2, <1>5, <3>1 DEF InStep
    <3> QED
      BY <1>6, <3>1, <3>2
  <2>2. w[1 + ((n + 1) - 1)] = <<g, n + 1>>
    BY <1>1, <1>4, <1>5, <2>1, Runs
  <2>3. 1 + ((n + 1) - 1) = n + 1
    OBVIOUS
  <2>4. n + 1 = 1
    BY <2>2, <2>3
  <2> QED
    BY <1>4, <2>4
(* x is the sentence before f. *)
<1>9. PICK x : Precedes(d, x, f) /\ (x \in hurt \/ w[n] = <<x, Size(x)>>)
  <2>1. P(w, n + 1) = <<f, 1>> /\ Sound(d, f)
    BY <1>4 DEF P, Sound
  <2>2. Joined(d, f, w[n])
    BY <1>1, <1>4, <2>1 DEF Joints
  <2> QED
    BY <2>2 DEF Joined
<1>10. /\ Mine(d, x) /\ x < f /\ x \in Nat /\ 1 <= x /\ g <= x
       /\ \A h : Mine(d, h) => ~ (x < h /\ h < f)
  <2>1. Mine(d, x) /\ x < f /\ \A h : Mine(d, h) => ~ (x < h /\ h < f)
    BY <1>9 DEF Precedes
  <2>2. x \in Nat /\ 1 <= x
    BY <2>1, MineFacts
  <2>3. ~ (x < g)
    BY <1>5, <1>7, <2>1
  <2> QED
    BY <1>6, <2>1, <2>2, <2>3
<1>11. Excused(d, f)
  <2>1. ~ Given(d, x)
    <3> SUFFICES ASSUME Given(d, x) PROVE FALSE
      OBVIOUS
    <3>1. Past(w, x)
      BY DEF GivenPast
    <3>2. w[1] = Noise \/ w[1][1] > x
      BY <1>4, <3>1 DEF Past
    <3> QED
      BY <1>5, <1>6, <1>10, <3>2 DEF Noise
  <2> QED
    BY <1>9, <2>1 DEF Excused
(* The bytes from g to f are no more than the buffer holds. *)
<1>12. /\ \A h : h \in From(d) <=> Mine(d, h)
       /\ Between(d, g, f) \subseteq DOMAIN sent /\ Summed(sent, Between(d, g, f))
       /\ Cardinality(hurt) \in Nat
  BY BetweenFacts
<1>13. Sum(sent, Between(d, g, f)) \in Nat
  BY <1>12, SumFacts
<1>14. Sum(sent, Between(d, g, f)) < Limit + Cardinality(hurt)
  <2>1. P(w, 1) = <<g, 1>> /\ P(w, n + 1) = <<f, 1>>
    BY <1>4, <1>5 DEF P
  <2>2. 1 \in 1 .. Len(w) + 1 /\ n + 1 \in 1 .. Len(w) + 1 /\ 1 < n + 1
    BY <1>4
  <2>3. Sum(sent, Between(d, g, f)) <= ((n + 1) - 1) + Cardinality(hurt)
    BY <1>1, <2>1, <2>2 DEF Spaced
  <2> QED
    BY <1>3, <1>12, <1>13, <2>3
<1>15. ASSUME NEW h, Mine(d, h), g <= h, h < f, sent[h].kind \notin Text PROVE Reached(d, f)
  <2>1. h \in Between(d, g, f)
    BY <1>12, <1>15 DEF Between
  <2>2. Reaches(d, g, f)
    BY <1>7, <1>14, <1>15, <2>1, ReachesIs DEF Spans
  <2> QED
    BY <1>5, <1>8, <1>12, <2>2 DEF Reached
<1>16. CASE x \in hurt
  <2>1. Between(d, x, f) = {x}
    <3>1. x \in Between(d, x, f)
      BY <1>10, <1>12 DEF Between
    <3>2. ASSUME NEW h \in Between(d, x, f) PROVE h = x
      <4>1. Mine(d, h) /\ x <= h /\ h < f
        BY <1>12 DEF Between
      <4>2. h \in Nat /\ ~ (x < h)
        BY <1>10, <4>1, MineFacts
      <4> QED
        BY <1>10, <4>1, <4>2
    <3> QED
      BY <3>1, <3>2
  <2>2. Cardinality(Between(d, x, f)) = 1
    BY <2>1, FS_Singleton
  <2>3. Reaches(d, x, f)
    BY <1>10, <2>2, ReachesIs DEF Spans
  <2> QED
    BY <1>10, <1>11, <1>12, <1>16, <2>3 DEF Reached
<1>17. CASE x \notin hurt /\ sent[x].kind \notin Text
  BY <1>10, <1>11, <1>15, <1>17
<1>18. CASE x \notin hurt /\ sent[x].kind \in Text
  <2>1. w[n] = <<x, Size(x)>> /\ Intact(d, x)
    BY <1>9, <1>10, <1>18 DEF Intact
  <2>2. Kind(w[2]) \notin Text
    BY <1>1, <1>4, <1>18, <2>1, TextEnds
  <2>3. RealByte(d, w[2])
    BY <1>1, <1>4 DEF Bytes
  <2>4. PICK b : b = w[2]
    OBVIOUS
  <2>5. Mine(d, b[1]) /\ b[1] \in Nat /\ b # Noise /\ b[2] = 2
    BY <1>4, <2>3, <2>4, RealFacts
  <2>6. w[1] # Noise /\ w[n + 1] # Noise /\ 2 < n + 1
    BY <1>3, <1>4, <1>5, <1>6 DEF Noise
  <2>7. Before(w[1], b) /\ Before(b, w[n + 1])
    <3>1. \A i, j \in 1 .. Len(w) : i < j /\ w[i] # Noise /\ w[j] # Noise => Before(w[i], w[j])
      BY <1>1 DEF Ascending
    <3>2. Before(w[1], w[2])
      BY <1>4, <2>6, <3>1
    <3>3. Before(w[2], w[n + 1])
      BY <1>4, <2>6, <3>1
    <3> QED
      BY <2>4, <3>2, <3>3
  <2>8. g <= b[1] /\ b[1] < f
    BY <1>3, <1>5, <1>6, <2>5, <2>7 DEF Before
  <2>9. sent[b[1]].kind \notin Text
    BY <2>2, <2>4 DEF Kind
  <2> QED
    BY <1>11, <1>15, <2>5, <2>8, <2>9
<1> QED
  BY <1>16, <1>17, <1>18

-----------------------------------------------------------------------------
(* A byte is taken: what it does to the sentences.                         *)

(* Damage that reaches a sentence reaches it after a search step too.      *)
LEMMA ReachedStays ==
    ASSUME sent' = sent, hurt' = hurt, NEW d, NEW f, Reached(d, f)
    PROVE  Reached(d, f)'
<1>1. PICK g : g \in hurt /\ g \in From(d) /\ Reaches(d, g, f)
  BY DEF Reached
<1>2. From(d)' = From(d) /\ Between(d, g, f)' = Between(d, g, f)
  BY DEF From, Between
<1>3. Spans(d, g, f)
  BY <1>1, ReachesIs
<1>4. PICK a, b : a = sent /\ b = Between(d, g, f)
  OBVIOUS
<1>5. sent' = a /\ Between(d, g, f)' = b
  BY <1>2, <1>4
<1>6. Spans(d, g, f)'
  BY <1>3, <1>4, <1>5 DEF Spans
<1>7. Reaches(d, g, f)'
  BY <1>6, ReachesIs
<1> QED
  BY <1>1, <1>2, <1>7 DEF Reached

(* The last byte of a sentence is taken, and it is given.                  *)
Finds(d, f) ==
    Mine(d, f) /\ At(d) = <<f, Size(f)>> /\ given' = Append(given, <<d, f>>)

(* Where a sentence without damage may be held it is kept, or given.       *)
Keeps(d, w, n, c) ==
    \A f : Intact(d, f) =>
        \A i \in 1 .. n + 1 :
            w[i] = <<f, 1>> /\ (InFrame(d) => i = 1)
                => Given(d, f)' \/ (c < i /\ (InFrame(d)' => i = 1))

(* What a search step does to the window, whatever it keeps: it stays in   *)
(* order if the frame does and every sentence is where it should be.       *)
LEMMA Onward ==
    ASSUME LInv, SInv', NEW d \in Device, NEW status, Within(d, status),
           NEW w \in Seq(Byte), w = Window(d), NEW n \in Nat, n = Len(Held(d)), InOrder(d, w, n),
           NEW c, Cut(Append(Held(d), At(d)), Held(d)', c),
           \A u, m : u = Window(d)' /\ m = Len(Held(d)') => FrameOK(d, u, m)',
           InFrame(d)' => c = 0,
           given' = given \/ (c = n + 1 /\ \E f : Finds(d, f)),
           Keeps(d, w, n, c)
    PROVE  DevOK(d)'
<1>0. SInv /\ Served /\ hurt \subseteq DOMAIN sent
  BY DEF LInv
<1>1. PICK u, m : u = Window(d)' /\ m = Len(Held(d)')
  OBVIOUS
<1>2. Cut(w, u, c) /\ n + 1 <= Len(w) /\ w[n + 1] = At(d) /\ n + 1 = m + c
  BY <1>0, <1>1, TakenWindow
<1>3. /\ Len(w) \in Nat /\ Len(u) \in Nat /\ c \in Nat /\ Len(w) = Len(u) + c
      /\ \A i \in 1 .. Len(u) : u[i] = w[i + c] /\ i + c \in 1 .. Len(w)
  BY <1>2, CutFacts
<1>4. u \in Seq(Byte) /\ m \in Nat
  <2>1. u \in Seq(Byte) /\ Held(d)' \in Seq(Byte)
    BY <1>2 DEF Cut
  <2> QED
    BY <1>1, <2>1
<1>5. sent' = sent /\ hurt' = hurt
  BY DEF Within
<1>6. /\ \A f : Mine(d, f)' <=> Mine(d, f)
      /\ \A f : Intact(d, f)' <=> Intact(d, f)
      /\ \A f, g : Precedes(d, g, f)' <=> Precedes(d, g, f)
  BY <1>5, SameSent
<1>7. /\ Laid(d, w) /\ GivenPast(d, w) /\ FrameOK(d, w, n)
      /\ \A f : Intact(d, f) => Where(d, f, w, n)
  BY DEF InOrder
<1>8. Laid(d, u)'
  BY <1>0, <1>2, <1>5, <1>7, CutLaid
<1>9. Bytes(d, w) /\ Ascending(w)
  BY <1>7 DEF Laid
(* What was given stays given. *)
<1>10. ASSUME NEW f, Given(d, f) PROVE Given(d, f)'
  BY <1>0, <1>10, GivenGrows, GivenStays DEF Finds
<1>11. ASSUME NEW f, Given(d, f)', ~ Given(d, f) PROVE Finds(d, f) /\ c = n + 1
  <2>1. given' # given
    BY <1>11, GivenStays
  <2>2. PICK g : Finds(d, g) /\ c = n + 1
    BY <2>1
  <2>3. f = g
    BY <1>0, <1>11, <2>2, GivenGrows DEF Finds
  <2> QED
    BY <2>2, <2>3
<1>12. n + 1 \in 1 .. Len(w)
  BY <1>2, <1>3
<1>13. GivenPast(d, u)'
  <2> SUFFICES ASSUME NEW f, Given(d, f)' PROVE Mine(d, f)' /\ Past(u, f)
    BY DEF GivenPast, Past, Noise
  <2>1. CASE Given(d, f)
    <3>1. Mine(d, f) /\ Past(w, f)
      BY <1>7, <2>1 DEF GivenPast
    <3> QED
      BY <1>2, <1>6, <3>1, CutPast
  <2>2. CASE ~ Given(d, f)
    <3>1. Mine(d, f) /\ w[n + 1] = <<f, Size(f)>> /\ c = n + 1
      BY <1>2, <1>11, <2>2 DEF Finds
    <3>2. f \in Nat /\ 1 <= f /\ Size(f) \in Nat
      BY <1>0, <3>1, MineFacts
    <3>3. ASSUME NEW i \in 1 .. Len(u), u[i] # Noise PROVE u[i][1] > f
      <4>1. PICK b : b = u[i]
        OBVIOUS
      <4>0. n + 1 < i + c
        BY <1>3, <3>1
      <4>2. b = w[i + c] /\ i + c \in 1 .. Len(w) /\ n + 1 < i + c /\ b # Noise
        BY <1>3, <3>3, <4>0, <4>1
      <4>3. w[n + 1] # Noise
        BY <3>1, <3>2 DEF Noise
      <4>4. Before(w[n + 1], b)
        BY <1>9, <1>12, <4>2, <4>3 DEF Ascending
      <4>5. RealByte(d, b)
        BY <1>9, <4>2 DEF Bytes
      <4>6. b[1] \in Nat /\ b[2] \in Nat /\ b[2] <= Size(b[1])
        BY <1>0, <4>5, RealFacts
      <4> QED
        BY <3>1, <3>2, <4>1, <4>4, <4>6 DEF Before
    <3> QED
      BY <1>6, <3>1, <3>3 DEF Past
  <2> QED
    BY <2>1, <2>2
(* An excuse lasts. *)
<1>14. ASSUME NEW f, f \in Nat, Excused(d, f),
              \A g : Mine(d, g) /\ g < f => ~ (At(d) = <<g, Size(g)>>)
       PROVE  Excused(d, f)'
  <2>1. PICK g : Precedes(d, g, f) /\ (g \in hurt \/ ~ Given(d, g))
    BY <1>14 DEF Excused
  <2>2. ASSUME ~ Given(d, g) PROVE ~ Given(d, g)'
    BY <1>11, <1>14, <2>1, <2>2 DEF Finds, Precedes
  <2> QED
    BY <1>5, <1>6, <2>1, <2>2 DEF Excused
<1>15. /\ 1 <= Len(Stream(d)) /\ Stream(d)[1] = At(d)
       /\ Len(Stream(d)') = Len(Stream(d)) - 1
       /\ \A i \in 1 .. Len(Stream(d)) - 1 : Stream(d)'[i] = Stream(d)[i + 1]
       /\ Len(Stream(d)) \in Nat /\ Len(w) = n + Len(Stream(d))
       /\ \A i \in 1 .. Len(Stream(d)) : w[n + i] = Stream(d)[i]
  BY <1>0, Taken, WindowFacts
<1>16. ASSUME NEW f, Intact(d, f)' PROVE Where(d, f, u, m)'
  <2>0. Intact(d, f) /\ Where(d, f, w, n) /\ Mine(d, f) /\ f \in Nat /\ 1 <= f
    <3>1. Intact(d, f)
      BY <1>6, <1>16
    <3> QED
      BY <1>0, <1>7, <3>1, MineFacts DEF Intact
  <2>1. CASE Given(d, f)
    BY <1>10, <2>1 DEF Where
  <2>2. CASE Reached(d, f) /\ Excused(d, f) /\ Behind(d, f)
    <3>1. Reached(d, f)'
      BY <1>5, <2>2, ReachedStays
    <3>2. Excused(d, f)'
      <4>1. At(d) = Noise \/ At(d)[1] >= f
        <5>1. 1 \in 1 .. Len(Stream(d))
          BY <1>15
        <5> QED
          BY <1>15, <2>2, <5>1 DEF Behind
      <4>2. ASSUME NEW g, Mine(d, g), g < f PROVE At(d) # <<g, Size(g)>>
        <5>1. g \in Nat /\ 1 <= g
          BY <1>0, <4>2, MineFacts
        <5> QED
          BY <2>0, <4>1, <4>2, <5>1 DEF Noise
      <4> QED
        BY <1>14, <2>0, <2>2, <4>2
    <3>3. Behind(d, f)'
      <4>1. PICK t : t = Stream(d)'
        OBVIOUS
      <4>2. \A i \in 1 .. Len(t) : t[i] = Noise \/ t[i][1] >= f
        <5> SUFFICES ASSUME NEW i \in 1 .. Len(t) PROVE t[i] = Noise \/ t[i][1] >= f
          OBVIOUS
        <5>1. i \in 1 .. Len(Stream(d)) - 1 /\ i + 1 \in 1 .. Len(Stream(d))
          BY <1>15, <4>1
        <5>2. t[i] = Stream(d)[i + 1]
          BY <1>15, <4>1, <5>1
        <5> QED
          BY <2>2, <5>1, <5>2 DEF Behind
      <4> QED
        BY <4>1, <4>2 DEF Behind, Noise
    <3> QED
      BY <3>1, <3>2, <3>3 DEF Where
  <2>3. CASE Ahead(d, f, w, n)
    <3>1. PICK i \in 1 .. Len(w) : w[i] = <<f, 1>> /\ (InFrame(d) => i = 1 \/ n < i)
      BY <2>3 DEF Ahead
    <3>2. CASE i \in 1 .. n + 1 /\ (InFrame(d) => i = 1)
      <4>1. Given(d, f)' \/ (c < i /\ (InFrame(d)' => i = 1))
        BY <2>0, <3>1, <3>2 DEF Keeps
      <4>2. CASE c < i /\ (InFrame(d)' => i = 1)
        <5>1. i - c \in 1 .. Len(u) /\ (i - c) + c = i
          BY <1>3, <4>2
        <5>2. u[i - c] = <<f, 1>>
          BY <1>3, <3>1, <5>1
        <5>3. InFrame(d)' => i - c = 1
          BY <1>3, <4>2
        <5>4. Ahead(d, f, u, m)'
          BY <5>1, <5>2, <5>3 DEF Ahead
        <5> QED
          BY <5>4 DEF Where
      <4> QED
        BY <4>1, <4>2 DEF Where
    <3>3. CASE InFrame(d) /\ i = n + 1
      <4>1. n < Limit
        <5>1. Held(d) = exp[d].m_FrameBuff
          BY <3>3 DEF InFrame, Held
        <5> QED
          BY <1>0, <5>1 DEF SInv, TypeOK
      <4>2. Reached(d, f) /\ Excused(d, f)
        BY <1>0, <1>7, <2>0, <3>1, <3>3, <4>1, Missed
      <4>3. Reached(d, f)'
        BY <1>5, <4>2, ReachedStays
      <4>4. Excused(d, f)'
        <5>1. At(d) = <<f, 1>>
          BY <1>2, <3>1, <3>3
        <5>2. ASSUME NEW g, Mine(d, g), g < f PROVE At(d) # <<g, Size(g)>>
          <6>1. g # f
            BY <2>0, <5>2
          <6> QED
            BY <5>1, <6>1
        <5> QED
          BY <1>14, <2>0, <4>2, <5>2
      <4>5. Behind(d, f)'
        <5>1. PICK t : t = Stream(d)'
          OBVIOUS
        <5>2. \A j \in 1 .. Len(t) : t[j] = Noise \/ t[j][1] >= f
          <6> SUFFICES ASSUME NEW j \in 1 .. Len(t), t[j] # Noise PROVE t[j][1] >= f
            OBVIOUS
          <6>1. j \in 1 .. Len(Stream(d)) - 1 /\ j + 1 \in 1 .. Len(Stream(d))
            BY <1>15, <5>1
          <6>2. t[j] = w[n + (j + 1)]
            BY <1>15, <5>1, <6>1
          <6>3. n + (j + 1) \in 1 .. Len(w) /\ n + 1 < n + (j + 1)
            BY <1>15, <6>1
          <6>4. PICK b : b = t[j]
            OBVIOUS
          <6>5. w[n + 1] = <<f, 1>> /\ w[n + 1] # Noise
            BY <2>0, <3>1, <3>3 DEF Noise
          <6>6. Before(w[n + 1], b)
            BY <1>9, <1>12, <6>2, <6>3, <6>4, <6>5 DEF Ascending
          <6>7. b[1] \in Nat
            <7>1. RealByte(d, b)
              BY <1>9, <6>2, <6>3, <6>4 DEF Bytes
            <7> QED
              BY <1>0, <7>1, RealFacts
          <6> QED
            BY <2>0, <6>4, <6>5, <6>6, <6>7 DEF Before
        <5> QED
          BY <5>1, <5>2 DEF Behind, Noise
      <4> QED
        BY <4>3, <4>4, <4>5 DEF Where
    <3>4. CASE ~ (i \in 1 .. n + 1)
      <4>1. n + 1 < i
        BY <3>4
      <4>2. i - c \in 1 .. Len(u) /\ (i - c) + c = i /\ m < i - c
        BY <1>2, <1>3, <1>4, <4>1
      <4>3. u[i - c] = <<f, 1>>
        BY <1>3, <3>1, <4>2
      <4>4. Ahead(d, f, u, m)'
        BY <4>2, <4>3 DEF Ahead
      <4> QED
        BY <4>4 DEF Where
    <3>5. (i \in 1 .. n + 1 /\ (InFrame(d) => i = 1)) \/ (InFrame(d) /\ i = n + 1) \/ ~ (i \in 1 .. n + 1)
      BY <3>1
    <3> QED
      BY <3>2, <3>3, <3>4, <3>5
  <2> QED
    BY <2>0, <2>1, <2>2, <2>3 DEF Where
<1>17. FrameOK(d, u, m)'
  BY <1>1
<1>18. InOrder(d, u, m)'
  BY <1>8, <1>13, <1>16, <1>17 DEF InOrder
<1> QED
  BY <1>1, <1>4, <1>18 DEF DevOK

-----------------------------------------------------------------------------
(* What is sent, by another device or by this one, changes nothing of what *)
(* was sent before.                                                        *)

Grows(d) ==
    /\ \A g : Mine(d, g) => /\ Mine(d, g)' /\ sent'[g] = sent[g]
                            /\ g \in hurt' <=> g \in hurt
    /\ \A g, h : Mine(d, h) => /\ Precedes(d, g, h)' <=> Precedes(d, g, h)
                               /\ Between(d, g, h)' = Between(d, g, h)
    /\ Cardinality(hurt) \in Nat /\ Cardinality(hurt') \in Nat
    /\ Cardinality(hurt) <= Cardinality(hurt')
    /\ exp'[d] = exp[d] /\ head'[protocal[d]] = head[protocal[d]] /\ protocal' = protocal
    /\ \A g : Given(d, g)' <=> Given(d, g)

(* What is sent does not change what the open frame is made of.            *)
LEMMA FrameStays ==
    ASSUME SInv, Served, NEW d \in Device, Grows(d),
           NEW w, NEW u, NEW n \in Nat, Len(w) \in Nat, n <= Len(w), Bytes(d, w),
           \A i \in 1 .. n : u[i] = w[i], FrameOK(d, w, n)
    PROVE  FrameOK(d, u, n)'
<1> SUFFICES ASSUME InFrame(d)' PROVE (Title(d, u, n) /\ InStep(d, u, n) /\ InText(d, u, n))'
  BY DEF FrameOK
<1>1. /\ \A g : Mine(d, g) => /\ Mine(d, g)' /\ sent'[g] = sent[g]
                              /\ g \in hurt' <=> g \in hurt
      /\ exp'[d] = exp[d] /\ head'[protocal[d]] = head[protocal[d]] /\ protocal' = protocal
  BY DEF Grows
<1>2. InFrame(d) /\ Title(d, w, n) /\ InStep(d, w, n) /\ InText(d, w, n)
  BY <1>1 DEF InFrame, FrameOK
<1>3. HeadLen[protocal[d]] \in Nat /\ 2 <= HeadLen[protocal[d]] /\ HeadLen[protocal[d]] <= n
  <2>1. protocal[d] \in Protocols
    BY DeviceFacts
  <2>2. HeadLen[protocal[d]] \in Nat \ {0, 1}
    BY <2>1, KindsAssumption
  <2> QED
    BY <1>2, <2>2 DEF Title
<1>4. \A i \in 1 .. n : i \in 1 .. Len(w)
  OBVIOUS
<1>5. ASSUME NEW i \in 1 .. n, w[i] # Noise
      PROVE  Mine(d, w[i][1]) /\ Kind(w[i])' = Kind(w[i])
  <2>1. RealByte(d, w[i])
    BY <1>4, <1>5 DEF Bytes
  <2>2. Mine(d, w[i][1])
    BY <2>1 DEF RealByte
  <2> QED
    BY <1>1, <2>2 DEF Kind
<1>6. ASSUME NEW i \in 1 .. n
      PROVE  /\ Star(u[i])' <=> Star(w[i])
             /\ CR(u[i])' <=> CR(w[i])
             /\ LF(u[i])' <=> LF(w[i])
  <2>1. u[i] = w[i]
    OBVIOUS
  <2>2. \A m : AtEnd(w[i], m)' <=> AtEnd(w[i], m)
    BY <1>5 DEF AtEnd, Noise
  <2> QED
    BY <2>1, <2>2 DEF Star, CR, LF, AtEnd, Kind, Noise
<1>7. 1 \in 1 .. n /\ 2 \in 1 .. n /\ 2 \in 2 .. HeadLen[protocal[d]]
  BY <1>3
<1>8. w[1][2] = 1 /\ w[2] # Noise
  BY <1>2, <1>7 DEF Title
<1>9. w[1] # Noise
  BY <1>8 DEF Noise
<1>10. /\ u[1] = w[1] /\ u[2] = w[2] /\ Mine(d, w[1][1])
       /\ Kind(u[2])' = Kind(w[2])
  BY <1>5, <1>7, <1>8, <1>9 DEF Kind
<1>11. Title(d, u, n)'
  <2>1. \A i \in 2 .. HeadLen[protocal[d]] : i \in 1 .. n
    BY <1>3
  <2>2. ASSUME NEW i \in 2 .. HeadLen[protocal[d]]
        PROVE  u[i] # Noise /\ u[i][2] = i /\ Kind(u[i])' = Kind(u[2])'
    <3>1. u[i] = w[i] /\ w[i] # Noise /\ w[i][2] = i /\ Kind(w[i]) = Kind(w[2]) /\ i \in 1 .. n
      BY <1>2, <2>1 DEF Title
    <3>2. Kind(w[i])' = Kind(w[i])
      BY <1>5, <3>1
    <3>3. Kind(u[i])' = Kind(w[i])'
      BY <3>1 DEF Kind
    <3> QED
      BY <1>10, <3>1, <3>2, <3>3
  <2> QED
    BY <1>1, <1>2, <1>3, <1>8, <1>10, <2>2 DEF Title, Noise
<1>12. InStep(d, u, n)'
  <2> SUFFICES ASSUME Intact(d, u[1][1])' PROVE (n < Size(u[1][1]) /\ Status(d, u[1][1], n))'
    BY DEF InStep
  <2>1. PICK g : g = w[1][1]
    OBVIOUS
  <2>2. u[1][1] = g /\ Mine(d, g) /\ sent'[g] = sent[g] /\ Size(g)' = Size(g)
    BY <1>1, <1>10, <2>1 DEF Size
  <2>3. Intact(d, g)
    BY <1>1, <2>2 DEF Intact
  <2>4. n < Size(g) /\ Status(d, g, n)
    BY <1>2, <2>1, <2>3 DEF InStep
  <2>5. n < Size(g)' /\ Status(d, g, n)'
    BY <1>1, <2>2, <2>4 DEF Status
  <2> QED
    BY <2>2, <2>5 DEF Status, Size
<1>13. InText(d, u, n)'
  <2> SUFFICES ASSUME Kind(w[2]) \in Text
               PROVE  /\ exp'[d].m_bSearchStatus # "BINARYCHECK"
                      /\ exp'[d].m_bSearchStatus = "LENGTH" =>
                             \A i \in HeadLen[protocal'[d]] + 1 .. n : ~ Star(u[i])'
                      /\ \A i \in HeadLen[protocal'[d]] + 5 .. n :
                             ~ (LF(u[i])' /\ CR(u[i - 1])' /\ Star(u[i - 4])')
    BY <1>10 DEF InText
  <2>1. \A i \in HeadLen[protocal[d]] + 1 .. n : i \in 1 .. n
    BY <1>3
  <2>2. \A i \in HeadLen[protocal[d]] + 5 .. n : i \in 1 .. n /\ i - 1 \in 1 .. n /\ i - 4 \in 1 .. n
    BY <1>3
  <2>3. /\ exp[d].m_bSearchStatus # "BINARYCHECK"
        /\ exp[d].m_bSearchStatus = "LENGTH" =>
               \A i \in HeadLen[protocal[d]] + 1 .. n : ~ Star(w[i])
        /\ \A i \in HeadLen[protocal[d]] + 5 .. n : ~ (LF(w[i]) /\ CR(w[i - 1]) /\ Star(w[i - 4]))
    BY <1>2 DEF InText
  <2>4. ASSUME exp[d].m_bSearchStatus = "LENGTH", NEW i \in HeadLen[protocal[d]] + 1 .. n
        PROVE  ~ Star(u[i])'
    BY <1>6, <2>1, <2>3, <2>4
  <2>5. ASSUME NEW i \in HeadLen[protocal[d]] + 5 .. n
        PROVE  ~ (LF(u[i])' /\ CR(u[i - 1])' /\ Star(u[i - 4])')
    <3>1. LF(u[i])' <=> LF(w[i])
      BY <1>6, <2>2
    <3>2. CR(u[i - 1])' <=> CR(w[i - 1])
      BY <1>6, <2>2
    <3>3. Star(u[i - 4])' <=> Star(w[i - 4])
      BY <1>6, <2>2
    <3> QED
      BY <2>3, <3>1, <3>2, <3>3
  <2> QED
    BY <1>1, <2>3, <2>4, <2>5
<1> QED
  BY <1>11, <1>12, <1>13

(* What is sent behind a sentence leaves it where it is.                   *)
LEMMA WhereStays ==
    ASSUME SInv, Served, hurt \subseteq DOMAIN sent, NEW d \in Device, Grows(d),
           NEW w, NEW u, NEW n, \A i \in 1 .. Len(w) : i \in 1 .. Len(u) /\ u[i] = w[i],
           NEW f, Mine(d, f), Where(d, f, w, n), Behind(d, f) => Behind(d, f)'
    PROVE  Where(d, f, u, n)'
<1>1. /\ \A g : Mine(d, g) => /\ Mine(d, g)' /\ sent'[g] = sent[g]
                              /\ g \in hurt' <=> g \in hurt
      /\ \A g, h : Mine(d, h) => /\ Precedes(d, g, h)' <=> Precedes(d, g, h)
                                 /\ Between(d, g, h)' = Between(d, g, h)
      /\ Cardinality(hurt) \in Nat /\ Cardinality(hurt') \in Nat
      /\ Cardinality(hurt) <= Cardinality(hurt')
      /\ exp'[d] = exp[d]
      /\ \A g : Given(d, g)' <=> Given(d, g)
  BY DEF Grows
<1>2. CASE Given(d, f)
  BY <1>1, <1>2 DEF Where
<1>3. CASE Reached(d, f) /\ Excused(d, f) /\ Behind(d, f)
  <2>1. PICK g : g \in hurt /\ g \in From(d) /\ Reaches(d, g, f)
    BY <1>3 DEF Reached
  <2>2. Mine(d, g) /\ Mine(d, g)' /\ g \in hurt' /\ g \in From(d)'
    <3>1. Mine(d, g)
      BY <2>1 DEF From, Mine
    <3> QED
      BY <1>1, <2>1, <3>1 DEF From, Mine
  <2>3. Spans(d, g, f)
    BY <2>1, ReachesIs
  <2>4. PICK B : B = Between(d, g, f)
    OBVIOUS
  <2>5. /\ Between(d, g, f)' = B /\ B \subseteq DOMAIN sent /\ Summed(sent, B)
        /\ \A h \in B : sent'[h] = sent[h]
    <3>1. B \subseteq DOMAIN sent /\ Summed(sent, B)
      BY <2>4, BetweenFacts
    <3>2. \A h \in B : Mine(d, h)
      BY <2>4 DEF Between, From, Mine
    <3> QED
      BY <1>1, <2>4, <3>1, <3>2
  <2>6. PICK q : q = sent'
    OBVIOUS
  <2>7. Sum(q, B) = Sum(sent, B)
    <3>1. Summed(sent, B) /\ \A h \in B : q[h] = sent[h]
      BY <2>5, <2>6
    <3> QED
      BY ONLY <3>1, SumSame
  <2>8. Sum(sent, B) \in Nat /\ Limit \in Nat
    BY <2>5, SumFacts, BoundAssumption
  <2>9. Spans(d, g, f)'
    <3>1. CASE g = f
      BY <3>1 DEF Spans
    <3>2. CASE g < f /\ Cardinality(B) = 1
      BY <2>5, <3>2 DEF Spans
    <3>3. CASE /\ g < f /\ \E h \in B : sent[h].kind \notin Text
               /\ Sum(sent, B) < Limit + Cardinality(hurt)
      <4>1. \E h \in B : sent'[h].kind \notin Text
        BY <2>5, <3>3
      <4>2. Sum(q, B) < Limit + Cardinality(hurt')
        BY <1>1, <2>7, <2>8, <3>3
      <4> QED
        BY <2>5, <2>6, <3>3, <4>1, <4>2 DEF Spans
    <3> QED
      BY <2>3, <2>4, <3>1, <3>2, <3>3 DEF Spans
  <2>10. Reaches(d, g, f)'
    BY <2>9, ReachesIs
  <2>11. Reached(d, f)'
    BY <2>2, <2>10 DEF Reached
  <2>12. Excused(d, f)'
    <3>1. PICK x : Precedes(d, x, f) /\ (x \in hurt \/ ~ Given(d, x))
      BY <1>3 DEF Excused
    <3>2. Mine(d, x)
      BY <3>1 DEF Precedes
    <3> QED
      BY <1>1, <3>1, <3>2 DEF Excused
  <2> QED
    BY <1>3, <2>11, <2>12 DEF Where
<1>4. CASE Ahead(d, f, w, n)
  <2>1. PICK i \in 1 .. Len(w) : w[i] = <<f, 1>> /\ (InFrame(d) => i = 1 \/ n < i)
    BY <1>4 DEF Ahead
  <2>2. i \in 1 .. Len(u) /\ u[i] = <<f, 1>> /\ (InFrame(d)' => i = 1 \/ n < i)
    BY <1>1, <2>1 DEF InFrame
  <2>3. Ahead(d, f, u, n)'
    BY <2>2 DEF Ahead
  <2> QED
    BY <2>3 DEF Where
<1> QED
  BY <1>2, <1>3, <1>4 DEF Where

(* Another device is searched, or sends.                                   *)
LEMMA Untouched ==
    ASSUME SInv, Served, hurt \subseteq DOMAIN sent, NEW d \in Device, DevOK(d), Grows(d),
           \A f : Mine(d, f)' <=> Mine(d, f), \A g, f : Between(d, g, f)' = Between(d, g, f),
           Stream(d)' = Stream(d)
    PROVE  DevOK(d)'
<1>1. PICK w \in Seq(Byte), n \in Nat : w = Window(d) /\ n = Len(Held(d)) /\ InOrder(d, w, n)
  BY DEF DevOK
<1>2. /\ \A g : Mine(d, g) => sent'[g] = sent[g] /\ (g \in hurt' <=> g \in hurt)
      /\ Cardinality(hurt) \in Nat /\ Cardinality(hurt') \in Nat
      /\ Cardinality(hurt) <= Cardinality(hurt')
      /\ exp'[d] = exp[d] /\ head'[protocal[d]] = head[protocal[d]] /\ protocal' = protocal
      /\ \A g : Given(d, g)' <=> Given(d, g)
  BY DEF Grows
<1>3. Held(d)' = Held(d)
  BY <1>2 DEF Held
<1>4. Window(d)' = w /\ Len(Held(d)') = n
  BY <1>1, <1>3 DEF Window
<1>5. /\ Bytes(d, w) /\ Ascending(w) /\ GoesOn(d, w) /\ GoesBack(d, w) /\ Joints(d, w)
      /\ Spaced(d, w) /\ GivenPast(d, w) /\ FrameOK(d, w, n)
      /\ \A f : Intact(d, f) => Where(d, f, w, n)
  BY <1>1 DEF InOrder, Laid
<1>6. /\ \A f : Mine(d, f) => Size(f)' = Size(f)
      /\ \A f : Intact(d, f)' <=> Intact(d, f)
      /\ \A f : Sound(d, f)' <=> Sound(d, f)
      /\ \A f, g : Precedes(d, g, f)' <=> Precedes(d, g, f)
  <2>1. \A f : Mine(d, f) => Size(f)' = Size(f)
    BY <1>2 DEF Size
  <2>2. \A f : Intact(d, f)' <=> Intact(d, f)
    BY <1>2 DEF Intact
  <2>3. \A f : Sound(d, f)' <=> Sound(d, f)
    BY <2>2 DEF Sound
  <2>4. \A f, g : Precedes(d, g, f)' <=> Precedes(d, g, f)
    BY DEF Precedes
  <2> QED
    BY <2>1, <2>2, <2>3, <2>4
<1>7. \A b : RealByte(d, b)' <=> RealByte(d, b)
  BY <1>6 DEF RealByte
<1>8. Bytes(d, w)'
  BY <1>5, <1>7 DEF Bytes, Noise, RealByte, Mine, Size
<1>9. Ascending(w)'
  BY <1>5 DEF Ascending, Before, Noise
<1>10. GoesOn(d, w)'
  <2> SUFFICES ASSUME NEW i \in 1 .. Len(w), Intact(d, w[i][1])', (w[i][2] < Size(w[i][1]))'
               PROVE  i < Len(w) /\ w[i + 1] = <<w[i][1], w[i][2] + 1>>
    BY DEF GoesOn
  <2>1. PICK g : g = w[i][1]
    OBVIOUS
  <2>2. Intact(d, g)'
    BY <2>1 DEF Intact, Mine
  <2>3. w[i][2] < Size(g)'
    BY <2>1 DEF Size
  <2>4. Intact(d, g) /\ w[i][2] < Size(g)
    BY <1>6, <2>2, <2>3 DEF Intact
  <2> QED
    BY <1>5, <2>1, <2>4 DEF GoesOn
<1>11. GoesBack(d, w)'
  <2> SUFFICES ASSUME NEW i \in 2 .. Len(w), Intact(d, w[i][1])', 1 < w[i][2]
               PROVE  w[i - 1] = <<w[i][1], w[i][2] - 1>>
    BY DEF GoesBack
  <2>1. PICK g : g = w[i][1]
    OBVIOUS
  <2>2. Intact(d, g)'
    BY <2>1 DEF Intact, Mine
  <2>3. Intact(d, g)
    BY <1>6, <2>2
  <2> QED
    BY <1>5, <2>1, <2>3 DEF GoesBack
<1>12. \A i : P(w, i)' = P(w, i)
  BY DEF P, Beyond
<1>13. Joints(d, w)'
  <2> SUFFICES ASSUME NEW i \in 1 .. Len(w), NEW f, Sound(d, f)', P(w, i + 1)' = <<f, 1>>
               PROVE  Joined(d, f, w[i])'
    BY DEF Joints
  <2>1. Joined(d, f, w[i])
    BY <1>5, <1>6, <1>12 DEF Joints
  <2>2. PICK g : Precedes(d, g, f) /\ (g \in hurt \/ w[i] = <<g, Size(g)>>)
    BY <2>1 DEF Joined
  <2>3. Mine(d, g)
    BY <2>2 DEF Precedes
  <2> QED
    BY <1>2, <1>6, <2>2, <2>3 DEF Joined
<1>14. Spaced(d, w)'
  <2> SUFFICES ASSUME NEW i \in 1 .. Len(w) + 1, NEW k \in 1 .. Len(w) + 1, NEW g, NEW f, i < k,
                      P(w, i)' = <<g, 1>>, P(w, k)' = <<f, 1>>
               PROVE  Sum(sent, Between(d, g, f))' <= (k - i) + Cardinality(hurt')
    BY DEF Spaced
  <2>1. PICK B, q : B = Between(d, g, f) /\ q = sent'
    OBVIOUS
  <2>2. Sum(sent, B) <= (k - i) + Cardinality(hurt)
    BY <1>5, <1>12, <2>1 DEF Spaced
  <2>3. Summed(sent, B) /\ \A h \in B : q[h] = sent[h]
    <3>1. Summed(sent, B)
      BY <2>1, BetweenFacts
    <3>2. \A h \in B : Mine(d, h)
      BY <2>1 DEF Between, From, Mine
    <3> QED
      BY <1>2, <2>1, <3>1, <3>2
  <2>4. Sum(q, B) = Sum(sent, B)
    BY ONLY <2>3, SumSame
  <2>5. Sum(sent, B) \in Nat /\ k - i \in Int
    <3>1. Sum(sent, B) \in Nat
      BY <2>3, SumFacts
    <3>2. Len(w) \in Nat
      BY <1>1
    <3> QED
      BY <3>1, <3>2
  <2>6. Between(d, g, f)' = B
    BY <2>1
  <2> QED
    BY <1>2, <2>1, <2>2, <2>4, <2>5, <2>6
<1>15. GivenPast(d, w)'
  BY <1>2, <1>5 DEF GivenPast, Past, Noise
<1>16. FrameOK(d, w, n)'
  <2>1. Len(w) \in Nat /\ n <= Len(w)
    BY <1>1, WindowFacts
  <2> QED
    BY <1>5, <2>1, FrameStays
<1>17. ASSUME NEW f, Intact(d, f)' PROVE Where(d, f, w, n)'
  <2>1. Intact(d, f) /\ Mine(d, f)
    BY <1>6, <1>17 DEF Intact
  <2>2. Where(d, f, w, n)
    BY <1>5, <2>1
  <2>3. Behind(d, f) => Behind(d, f)'
    BY DEF Behind, Noise
  <2> QED
    BY <2>1, <2>2, <2>3, WhereStays
<1>18. InOrder(d, w, n)'
  BY <1>8, <1>9, <1>10, <1>11, <1>13, <1>14, <1>15, <1>16, <1>17 DEF InOrder, Laid
<1> QED
  BY <1>1, <1>4, <1>18 DEF DevOK

(* The other devices of a search: their arrays and searchers are their own.*)
LEMMA OthersOK ==
    ASSUME LInv, SInv', UNCHANGED <<protocal, sent, hurt>>, NEW c \in Device,
           Stream(c)' = Stream(c), exp'[c] = exp[c], head'[protocal[c]] = head[protocal[c]],
           \A f : Given(c, f)' <=> Given(c, f)
    PROVE  DevOK(c)'
<1>1. SInv /\ Served /\ hurt \subseteq DOMAIN sent /\ DevOK(c)
  BY DEF LInv
<1>2. /\ \A f : Mine(c, f)' <=> Mine(c, f)
      /\ \A f, g : Precedes(c, g, f)' <=> Precedes(c, g, f)
      /\ \A g, f : Between(c, g, f)' = Between(c, g, f)
  <2>1. \A f : Mine(c, f)' <=> Mine(c, f)
    BY DEF Mine
  <2>2. From(c)' = From(c)
    BY DEF From
  <2> QED
    BY <2>1, <2>2 DEF Precedes, Between
<1>3. Cardinality(hurt) \in Nat /\ Cardinality(hurt') = Cardinality(hurt)
  BY <1>1, BetweenFacts
<1>4. Grows(c)
  BY <1>2, <1>3 DEF Grows
<1> QED
  BY <1>1, <1>2, <1>4, Untouched

(* A search step of one device leaves the others in order.                 *)
LEMMA SearchOn ==
    ASSUME LInv, SInv', NEW d \in Device, NEW status, Within(d, status),
           exp' = exp \/ \E e : exp' = [exp EXCEPT ![d] = e],
           head' = head \/ \E h : head' = [head EXCEPT ![protocal[d]] = h],
           given' = given \/ \E f : given' = Append(given, <<d, f>>),
           DevOK(d)'
    PROVE  LInv'
<1>1. SInv /\ UNCHANGED <<protocal, sent, hurt>> /\ Lonely
  BY DEF Within, LInv
<1>2. exp \in [Device -> ExpType] /\ head \in [Protocols -> Seq(Byte)]
  BY <1>1 DEF SInv, TypeOK
<1>3. ASSUME NEW c \in Device, c # d PROVE DevOK(c)'
  <2>1. protocal[c] # protocal[d] /\ protocal[c] \in Protocols
    BY <1>1, <1>3, DeviceFacts DEF Lonely
  <2>2. Stream(c)' = Stream(c)
    BY <1>1, <1>3, Taken
  <2>3. exp'[c] = exp[c] /\ head'[protocal[c]] = head[protocal[c]]
    BY <1>2, <1>3, <2>1
  <2>4. \A f : Given(c, f)' <=> Given(c, f)
    BY <1>1, <1>3, GivenStays, GivenGrows
  <2> QED
    BY <1>1, <2>2, <2>3, <2>4, OthersOK
<1>4. Lonely' /\ Served' /\ (hurt \subseteq DOMAIN sent)'
  BY <1>1 DEF Lonely, Served, LInv
<1> QED
  BY <1>3, <1>4 DEF LInv

(* A read moves bytes within the stream.                                   *)
LEMMA ReadInStep ==
    ASSUME LInv, NEW d \in Device, NEW n \in DOMAIN line[d], Read(d, n)
    PROVE  LInv'
<1>1. SInv /\ SInv' /\ UNCHANGED <<protocal, sent, exp, head, given, hurt>>
  BY ReadStep DEF LInv, Read
<1>2. ASSUME NEW c \in Device PROVE DevOK(c)'
  <2>1. Stream(c)' = Stream(c)
    BY <1>1, CutMoves
  <2>2. \A f : Given(c, f)' <=> Given(c, f)
    BY <1>1, GivenStays
  <2> QED
    BY <1>1, <2>1, <2>2, OthersOK
<1> QED
  BY <1>1, <1>2 DEF LInv, Lonely, Served

LEMMA StutterInStep ==
    ASSUME LInv, UNCHANGED vars
    PROVE  LInv'
<1>1. UNCHANGED <<protocal, sent, line, m_ComBuff, exp, head, given, hurt>>
  BY DEF vars
<1>2. SInv /\ SInv'
  BY SInvNext DEF LInv
<1>3. ASSUME NEW c \in Device PROVE DevOK(c)'
  <2>1. Stream(c)' = Stream(c)
    BY <1>1 DEF Stream
  <2>2. \A f : Given(c, f)' <=> Given(c, f)
    BY <1>1, GivenStays
  <2> QED
    BY <1>1, <1>2, <2>1, <2>2, OthersOK
<1> QED
  BY <1>1, <1>2, <1>3 DEF LInv, Lonely, Served

-----------------------------------------------------------------------------
(* The steps of a search.                                                  *)

(* What is known where a byte is taken.                                    *)
Framed(d, w, n) == w \in Seq(Byte) /\ n \in Nat /\ w = Window(d) /\ n = Len(Held(d)) /\ InOrder(d, w, n)

(* The byte that a search step takes is the next of its window.            *)
LEMMA Takes ==
    ASSUME SInv, NEW d \in Device, NEW status, Within(d, status), NEW w, NEW n, Framed(d, w, n)
    PROVE  /\ n \in Nat /\ Len(w) \in Nat /\ n + 1 <= Len(w) /\ w[n + 1] = At(d)
           /\ Len(Append(Held(d), At(d))) = n + 1
           /\ \A i \in 1 .. n + 1 : Append(Held(d), At(d))[i] = w[i]
           /\ \A i \in 1 .. n + 1 : i \in 1 .. Len(w)
           /\ Append(Held(d), At(d)) \in Seq(Byte)
<1>1. w \in Seq(Byte) /\ n \in Nat /\ w = Window(d) /\ n = Len(Held(d))
  BY DEF Framed
<1>2. /\ 1 <= Len(Stream(d)) /\ Stream(d)[1] = At(d)
  BY Taken
<1>3. /\ Held(d) \in Seq(Byte) /\ Stream(d) \in Seq(Byte) /\ Len(Stream(d)) \in Nat
      /\ Len(w) = n + Len(Stream(d))
      /\ \A i \in 1 .. n : w[i] = Held(d)[i]
      /\ \A i \in 1 .. Len(Stream(d)) : w[n + i] = Stream(d)[i]
  BY <1>1, WindowFacts
<1>4. At(d) \in Byte /\ 1 \in 1 .. Len(Stream(d))
  <2>1. 1 \in 1 .. Len(Stream(d))
    BY <1>2, <1>3
  <2> QED
    BY <1>2, <1>3, <2>1, ElementOfSeq
<1>5. n + 1 <= Len(w) /\ w[n + 1] = At(d) /\ Len(w) \in Nat
  <2>1. w[n + 1] = At(d)
    BY <1>2, <1>3, <1>4
  <2> QED
    BY <1>1, <1>2, <1>3, <2>1
<1>6. PICK h, b : h = Held(d) /\ b = At(d)
  OBVIOUS
<1>7. /\ Append(h, b) \in Seq(Byte) /\ Len(Append(h, b)) = n + 1 /\ Append(h, b)[n + 1] = b
      /\ \A i \in 1 .. n : Append(h, b)[i] = h[i]
  BY <1>1, <1>3, <1>4, <1>6, AppendProperties
<1>8. ASSUME NEW i \in 1 .. n + 1 PROVE Append(h, b)[i] = w[i] /\ i \in 1 .. Len(w)
  <2>1. CASE i = n + 1
    BY <1>1, <1>5, <1>6, <1>7, <2>1
  <2>2. CASE i # n + 1
    <3>1. i \in 1 .. n
      BY <1>1, <2>2
    <3> QED
      BY <1>1, <1>3, <1>5, <1>6, <1>7, <3>1
  <2> QED
    BY <2>1, <2>2
<1> QED
  BY <1>1, <1>5, <1>6, <1>7, <1>8

(* The byte is kept.                                                       *)
LEMMA OnwardKept ==
    ASSUME LInv, SInv', NEW d \in Device, NEW status, Within(d, status),
           NEW w, NEW n, Framed(d, w, n), Held(d)' = Append(Held(d), At(d)), given' = given,
           InFrame(d)' => (Title(d, w, n + 1) /\ InStep(d, w, n + 1) /\ InText(d, w, n + 1))',
           Keeps(d, w, n, 0)
    PROVE  DevOK(d)'
<1>0. SInv
  BY DEF LInv
<1>1. w \in Seq(Byte) /\ n \in Nat /\ w = Window(d) /\ n = Len(Held(d)) /\ InOrder(d, w, n)
  BY DEF Framed
<1>2. Cut(Append(Held(d), At(d)), Held(d)', 0)
  BY <1>0, DropsNone
<1>3. PICK u, m : u = Window(d)' /\ m = Len(Held(d)')
  OBVIOUS
<1>4. Cut(w, u, 0) /\ n + 1 = m + 0
  BY <1>0, <1>1, <1>2, <1>3, TakenWindow
<1>5. u = w /\ m = n + 1
  <2>1. /\ w \in Seq(Byte) /\ u \in Seq(Byte) /\ Len(u) = Len(w) + 0
        /\ \A i \in 1 .. Len(u) : u[i] = w[i + 0]
    BY <1>4 DEF Cut
  <2>2. Len(w) \in Nat
    BY <1>1
  <2>3. u \in Seq(Byte) /\ w \in Seq(Byte) /\ Len(u) = Len(w) /\ \A i \in 1 .. Len(u) : u[i] = w[i]
    BY <2>1, <2>2
  <2>4. u = w
    BY ONLY <2>3, Alike
  <2>5. Len(Held(d)') \in Nat
    BY Takes, <1>0
  <2> QED
    BY <1>1, <1>3, <1>4, <2>4, <2>5
<1>6. FrameOK(d, w, n + 1)'
  BY DEF FrameOK
<1>7. \A x, y : x = Window(d)' /\ y = Len(Held(d)') => FrameOK(d, x, y)'
  BY <1>3, <1>5, <1>6
<1> QED
  BY <1>1, <1>2, <1>7, Onward

(* No sentence is begun.                                                   *)
LEMMA OnwardIdle ==
    ASSUME LInv, SInv', NEW d \in Device, NEW status, Within(d, status),
           NEW w, NEW n, Framed(d, w, n), ~ InFrame(d)',
           NEW c, Cut(Append(Held(d), At(d)), Held(d)', c),
           given' = given \/ (c = n + 1 /\ \E f : Finds(d, f)),
           Keeps(d, w, n, c)
    PROVE  DevOK(d)'
<1>1. w \in Seq(Byte) /\ n \in Nat /\ w = Window(d) /\ n = Len(Held(d)) /\ InOrder(d, w, n)
  BY DEF Framed
<1>2. \A u, m : u = Window(d)' /\ m = Len(Held(d)') => FrameOK(d, u, m)'
  BY DEF FrameOK
<1> QED
  BY <1>1, <1>2, Onward

(* What a device in order is a search of.                                  *)
LEMMA HeadFacts ==
    ASSUME LInv, NEW d \in Device
    PROVE  /\ protocal[d] \in Protocols /\ exp \in [Device -> ExpType]
           /\ head \in [Protocols -> Seq(Byte)]
           /\ HeadLen[protocal[d]] \in Nat /\ 2 <= HeadLen[protocal[d]]
           /\ SInv /\ Served /\ \E w, n : Framed(d, w, n)
<1>1. SInv /\ Served /\ DevOK(d)
  BY DEF LInv
<1>2. protocal[d] \in Protocols
  BY <1>1, DeviceFacts
<1>3. HeadLen[protocal[d]] \in Nat \ {0, 1}
  BY <1>2, KindsAssumption
<1> QED
  BY <1>1, <1>2, <1>3 DEF DevOK, SInv, TypeOK, Framed

(* A sentence without damage that begins what is held has come byte by     *)
(* byte.                                                                   *)
LEMMA Begun ==
    ASSUME LInv, NEW d \in Device, NEW status, Within(d, status), NEW w, NEW n, Framed(d, w, n),
           NEW f, Intact(d, f), w[1] = <<f, 1>>, n + 1 <= Size(f)
    PROVE  /\ \A i \in 1 .. n + 1 : w[i] = <<f, i>>
           /\ At(d) = <<f, n + 1>> /\ At(d) # Noise /\ n + 1 \in 1 .. n + 1
<1>1. w \in Seq(Byte) /\ n \in Nat /\ GoesOn(d, w)
  BY DEF Framed, InOrder, Laid
<1>2. SInv /\ Served
  BY DEF LInv
<1>3. /\ Len(w) \in Nat /\ n + 1 <= Len(w) /\ w[n + 1] = At(d)
  BY <1>2, Takes
<1>4. f \in Nat /\ 1 <= f /\ Size(f) \in Nat
  BY <1>2, MineFacts DEF Intact
<1>5. 1 \in 1 .. Len(w)
  BY <1>1, <1>3
<1>6. ASSUME NEW i \in 1 .. n + 1 PROVE w[i] = <<f, i>>
  <2>1. i \in 1 .. Size(f)
    BY <1>1, <1>4
  <2>2. w[1 + (i - 1)] = <<f, i>>
    BY <1>1, <1>2, <1>5, <2>1, Runs
  <2>3. 1 + (i - 1) = i
    BY <1>1
  <2> QED
    BY <2>2, <2>3
<1>7. n + 1 \in 1 .. n + 1
  BY <1>1
<1>8. w[n + 1] = <<f, n + 1>>
  BY <1>6, <1>7
<1>9. <<f, n + 1>> # Noise
  BY <1>4 DEF Noise
<1> QED
  BY <1>3, <1>6, <1>7, <1>8, <1>9

(* A title grows by a byte, and is not full: what it holds stays.          *)
LEMMA CollectInStep ==
    ASSUME LInv, NEW d \in Device, Collect(d)
    PROVE  LInv'
<1>1. /\ Within(d, "NULL") /\ head' = [head EXCEPT ![protocal[d]] = Filled(d)]
      /\ exp' = exp /\ given' = given /\ protocal' = protocal
      /\ exp[d].m_bSearchStatus = "NULL"
  BY DEF Collect, Within
<1>2. SInv /\ SInv'
  BY CollectStep DEF LInv
<1>3. PICK w, n : Framed(d, w, n)
  BY HeadFacts
<1>4. ~ InFrame(d) /\ ~ InFrame(d)'
  BY <1>1 DEF InFrame
<1>5. Held(d)' = Append(Held(d), At(d))
  <2>1. head'[protocal[d]] = Filled(d)
    BY <1>1, HeadFacts
  <2> QED
    BY <1>1, <2>1 DEF Held, Filled
<1>6. Keeps(d, w, n, 0)
  <2>1. n \in Nat
    BY <1>3 DEF Framed
  <2>2. \A i \in 1 .. n + 1 : 0 < i
    BY <2>1
  <2> QED
    BY <1>4, <2>2 DEF Keeps
<1>7. DevOK(d)'
  BY <1>1, <1>2, <1>3, <1>4, <1>5, <1>6, OnwardKept
<1> QED
  BY <1>1, <1>2, <1>7, SearchOn

(* The array of a device that has no frame.                                *)
LEMMA FilledFacts ==
    ASSUME LInv, NEW d \in Device, Within(d, "NULL"), Full(d), NEW w, NEW n, Framed(d, w, n)
    PROVE  /\ Held(d) = head[protocal[d]] /\ Filled(d) = Append(Held(d), At(d))
           /\ n + 1 = HeadLen[protocal[d]] /\ Len(Filled(d)) = n + 1
           /\ HeadLen[protocal[d]] \in Nat /\ 2 <= HeadLen[protocal[d]]
           /\ n \in Nat /\ Len(w) \in Nat /\ n + 1 <= Len(w) /\ Bytes(d, w)
           /\ \A i \in 1 .. n + 1 : Filled(d)[i] = w[i] /\ i \in 1 .. Len(w)
           /\ ~ InFrame(d)
<1>1. Held(d) = head[protocal[d]] /\ ~ InFrame(d)
  BY DEF Within, Held, InFrame
<1>2. Filled(d) = Append(Held(d), At(d))
  BY <1>1 DEF Filled
<1>3. SInv
  BY DEF LInv
<1>4. /\ n \in Nat /\ Len(w) \in Nat /\ n + 1 <= Len(w)
      /\ Len(Append(Held(d), At(d))) = n + 1
      /\ \A i \in 1 .. n + 1 : Append(Held(d), At(d))[i] = w[i]
      /\ \A i \in 1 .. n + 1 : i \in 1 .. Len(w)
  BY <1>3, Takes
<1>5. Len(Filled(d)) = HeadLen[protocal[d]]
  BY DEF Full
<1>6. Bytes(d, w)
  BY DEF Framed, InOrder, Laid
<1> QED
  BY <1>1, <1>2, <1>4, <1>5, <1>6, HeadFacts

(* A title is found: it opens a frame, of the sentence it begins.          *)
LEMMA BeginInStep ==
    ASSUME LInv, NEW d \in Device, Begin(d)
    PROVE  LInv'
<1>e. PICK e : e = [NoFrame EXCEPT !.m_bSearchStatus = "LENGTH", !.m_FrameBuff = Filled(d)]
  OBVIOUS
<1>1. /\ Within(d, "NULL") /\ Full(d) /\ head' = [head EXCEPT ![protocal[d]] = <<>>]
      /\ exp' = [exp EXCEPT ![d] = e] /\ given' = given /\ protocal' = protocal
      /\ sent' = sent /\ hurt' = hurt /\ TitlesOf(Filled(d)) # {}
  BY <1>e DEF Begin, Within
<1>2. SInv /\ SInv' /\ Served
  BY BeginStep DEF LInv
<1>3. PICK w, n : Framed(d, w, n)
  BY HeadFacts
<1>4. /\ Held(d) = head[protocal[d]] /\ Filled(d) = Append(Held(d), At(d))
      /\ n + 1 = HeadLen[protocal[d]] /\ Len(Filled(d)) = n + 1
      /\ HeadLen[protocal[d]] \in Nat /\ 2 <= HeadLen[protocal[d]]
      /\ n \in Nat /\ Len(w) \in Nat /\ n + 1 <= Len(w) /\ Bytes(d, w)
      /\ \A i \in 1 .. n + 1 : Filled(d)[i] = w[i] /\ i \in 1 .. Len(w)
      /\ ~ InFrame(d)
  BY <1>1, <1>3, FilledFacts
<1>5. /\ exp'[d].m_bSearchStatus = "LENGTH" /\ exp'[d].m_FrameBuff = Filled(d)
      /\ head'[protocal[d]] = <<>>
  BY <1>1, <1>e, HeadFacts DEF NoFrame
<1>6. Held(d)' = Append(Held(d), At(d))
  BY <1>4, <1>5 DEF Held
<1>7. PICK k \in TitlesOf(Filled(d)) : TRUE
  BY <1>1
<1>8. /\ w[1][2] = 1
      /\ \A i \in 2 .. n + 1 : w[i] # Noise /\ Kind(w[i]) = k /\ w[i][2] = i
  <2>1. /\ Dollar(Filled(d)[1])
        /\ \A i \in 2 .. n + 1 : /\ Filled(d)[i] # Noise
                                 /\ Kind(Filled(d)[i]) = k /\ Filled(d)[i][2] = i
    BY <1>4, <1>7 DEF TitlesOf
  <2>2. 1 \in 1 .. n + 1 /\ \A i \in 2 .. n + 1 : i \in 1 .. n + 1
    BY <1>4
  <2>3. Filled(d)[1] = w[1]
    BY <1>4, <2>2
  <2>4. \A i \in 2 .. n + 1 : Filled(d)[i] = w[i]
    BY <1>4, <2>2
  <2> QED
    BY <2>1, <2>3, <2>4 DEF Dollar
<1>9. Title(d, w, n + 1)'
  <2>1. 2 \in 2 .. n + 1
    BY <1>4
  <2>2. Kind(w[2]) = k
    BY <1>8, <2>1
  <2>3. \A i : Kind(w[i])' = Kind(w[i])
    BY <1>1 DEF Kind
  <2>4. \A i \in 2 .. n + 1 : w[i] # Noise /\ w[i][2] = i /\ Kind(w[i])' = Kind(w[2])'
    BY <1>8, <2>2, <2>3
  <2>5. HeadLen[protocal'[d]] = n + 1 /\ n + 1 <= n + 1 /\ head'[protocal'[d]] = <<>>
    BY <1>1, <1>4, <1>5
  <2> QED
    BY <1>8, <2>4, <2>5 DEF Title, Noise
<1>10. InStep(d, w, n + 1)'
  <2> SUFFICES ASSUME Intact(d, w[1][1])' PROVE (n + 1 < Size(w[1][1]) /\ Status(d, w[1][1], n + 1))'
    BY DEF InStep
  <2>1. PICK f : f = w[1][1]
    OBVIOUS
  <2>2. Mine(d, f)
    BY <1>1, <2>1 DEF Intact, Mine
  <2>3. PICK H : H = HeadLen[protocal[d]]
    OBVIOUS
  <2>4. H \in Nat /\ Size(f) \in Nat /\ H + (IF sent[f].kind \in Text THEN 4 ELSE 2) < Size(f)
    BY <1>2, <2>2, <2>3, MineFacts
  <2>5. n + 1 = H /\ H < Size(f) /\ (sent[f].kind \in Text => H + 4 < Size(f)) /\ H < H + 2
    BY <1>4, <2>3, <2>4
  <2>6. Size(f)' = Size(f) /\ sent'[f] = sent[f] /\ HeadLen[protocal'[d]] = H
    BY <1>1, <2>3 DEF Size
  <2>7. n + 1 < Size(f)' /\ Status(d, f, n + 1)'
    BY <1>5, <2>5, <2>6 DEF Status
  <2> QED
    BY <2>1, <2>7 DEF Size, Status
<1>11. InText(d, w, n + 1)'
  <2>1. exp'[d].m_bSearchStatus # "BINARYCHECK" /\ HeadLen[protocal'[d]] = n + 1
    BY <1>1, <1>4, <1>5
  <2>2. (\A i \in (n + 1) + 1 .. n + 1 : FALSE) /\ \A i \in (n + 1) + 5 .. n + 1 : FALSE
    BY <1>4
  <2> QED
    BY <2>1, <2>2 DEF InText
<1>12. Keeps(d, w, n, 0)
  <2> SUFFICES ASSUME NEW f, NEW i \in 1 .. n + 1, w[i] = <<f, 1>> PROVE i = 1
    <3>1. \A i \in 1 .. n + 1 : 0 < i
      BY <1>4
    <3> QED
      BY <3>1 DEF Keeps
  <2>1. ASSUME i # 1 PROVE FALSE
    <3>1. i \in 2 .. n + 1
      BY <1>4, <2>1
    <3>2. w[i][2] = i
      BY <1>8, <3>1
    <3> QED
      BY <2>1, <3>2
  <2> QED
    BY <2>1
<1>13. DevOK(d)'
  BY <1>1, <1>2, <1>3, <1>6, <1>9, <1>10, <1>11, <1>12, OnwardKept
<1> QED
  BY <1>1, <1>2, <1>13, SearchOn

(* A full title is none: all before its next dollar sign is dropped.       *)
LEMMA SlideInStep ==
    ASSUME LInv, NEW d \in Device, Slide(d)
    PROVE  LInv'
<1>t. PICK next : next = {i \in 2 .. HeadLen[protocal[d]] : Dollar(Filled(d)[i])}
  OBVIOUS
<1>h. PICK h : h = IF next = {} THEN <<>> ELSE SubSeq(Filled(d), Min(next), Len(Filled(d)))
  OBVIOUS
<1>1. /\ Within(d, "NULL") /\ Full(d) /\ TitlesOf(Filled(d)) = {}
      /\ exp' = exp /\ given' = given /\ protocal' = protocal
      /\ exp[d].m_bSearchStatus = "NULL"
      /\ head' = [head EXCEPT ![protocal[d]] = h]
  BY <1>t, <1>h DEF Slide, Within
<1>2. SInv /\ SInv' /\ Served
  BY SlideStep DEF LInv
<1>3. PICK w, n : Framed(d, w, n)
  BY HeadFacts
<1>4. /\ Held(d) = head[protocal[d]] /\ Filled(d) = Append(Held(d), At(d))
      /\ n + 1 = HeadLen[protocal[d]] /\ Len(Filled(d)) = n + 1
      /\ HeadLen[protocal[d]] \in Nat /\ 2 <= HeadLen[protocal[d]]
      /\ n \in Nat /\ Len(w) \in Nat /\ n + 1 <= Len(w) /\ Bytes(d, w)
      /\ \A i \in 1 .. n + 1 : Filled(d)[i] = w[i] /\ i \in 1 .. Len(w)
      /\ ~ InFrame(d)
  BY <1>1, <1>3, FilledFacts
<1>5. ~ InFrame(d)' /\ Held(d)' = h
  <2>1. head'[protocal[d]] = h
    BY <1>1, HeadFacts
  <2> QED
    BY <1>1, <2>1 DEF InFrame, Held
<1>6. next \subseteq 2 .. n + 1 /\ next \in SUBSET Nat
  BY <1>4, <1>t
(* What begins the array is no sentence without damage: it would be a title. *)
<1>7. ASSUME NEW f, Intact(d, f), w[1] = <<f, 1>> PROVE FALSE
  <2>1. /\ HeadLen[protocal[d]] + (IF sent[f].kind \in Text THEN 4 ELSE 2) < Size(f)
        /\ Size(f) \in Nat /\ sent[f].kind \in AllKinds /\ f \in Nat /\ 1 <= f
    BY <1>2, <1>7, MineFacts DEF Intact
  <2>2. n + 1 <= Size(f)
    BY <1>4, <2>1
  <2>3. \A i \in 1 .. n + 1 : w[i] = <<f, i>>
    BY <1>1, <1>3, <1>7, <2>2, Begun
  <2>4. \A i \in 1 .. n + 1 : Filled(d)[i] = <<f, i>>
    BY <1>4, <2>3
  <2>5. Dollar(Filled(d)[1])
    <3>1. Filled(d)[1] = <<f, 1>>
      BY <1>4, <2>4
    <3> QED
      BY <3>1 DEF Dollar
  <2>6. ASSUME NEW i \in 2 .. Len(Filled(d))
        PROVE  Filled(d)[i] # Noise /\ Kind(Filled(d)[i]) = sent[f].kind /\ Filled(d)[i][2] = i
    <3>1. Filled(d)[i] = <<f, i>>
      BY <1>4, <2>4
    <3> QED
      BY <2>1, <3>1 DEF Noise, Kind
  <2>7. sent[f].kind \in TitlesOf(Filled(d))
    BY <2>1, <2>5, <2>6 DEF TitlesOf
  <2> QED
    BY <1>1, <2>7
(* What is behind begins with a '$'. *)
<1>8. ASSUME NEW f, NEW i \in 1 .. n + 1, Intact(d, f), w[i] = <<f, 1>> PROVE i \in next
  <2>1. i # 1
    BY <1>7, <1>8
  <2>2. i \in 2 .. HeadLen[protocal[d]]
    BY <1>4, <2>1
  <2>3. Dollar(Filled(d)[i])
    BY <1>4, <1>8 DEF Dollar
  <2> QED
    BY <1>t, <2>2, <2>3
<1>9. CASE next = {}
  <2>1. Held(d)' = <<>>
    BY <1>5, <1>9, <1>h
  <2>2. Cut(Append(Held(d), At(d)), Held(d)', Len(Held(d)) + 1)
    BY <1>1, <1>2, <2>1, DropsAll
  <2>3. Keeps(d, w, n, Len(Held(d)) + 1)
    BY <1>8, <1>9 DEF Keeps
  <2>4. DevOK(d)'
    BY <1>1, <1>2, <1>3, <1>5, <2>2, <2>3, OnwardIdle
  <2> QED
    BY <1>1, <1>2, <2>4, SearchOn
<1>10. CASE next # {}
  <2>1. PICK i : i = Min(next)
    OBVIOUS
  <2>2. i \in next /\ \A j \in next : i <= j
    BY <1>6, <1>10, <2>1, MinIn
  <2>3. n = Len(Held(d))
    BY <1>3 DEF Framed
  <2>4. i \in 1 .. Len(Held(d)) + 1 /\ i - 1 < i /\ i \in Nat
    BY <1>4, <1>6, <2>2, <2>3
  <2>5. Held(d)' = SubSeq(Append(Held(d), At(d)), i, Len(Held(d)) + 1)
    BY <1>4, <1>5, <1>10, <1>h, <2>1, <2>3
  <2>6. Cut(Append(Held(d), At(d)), Held(d)', i - 1)
    BY <1>1, <1>2, <2>4, <2>5, DropsSome
  <2>7. Keeps(d, w, n, i - 1)
    <3> SUFFICES ASSUME NEW f, NEW j \in 1 .. n + 1, Intact(d, f), w[j] = <<f, 1>>
                 PROVE  i - 1 < j
      BY <1>5 DEF Keeps
    <3>1. j \in next
      BY <1>8
    <3>2. i <= j
      BY <2>2, <3>1
    <3> QED
      BY <1>4, <2>4, <3>2
  <2>8. DevOK(d)'
    BY <1>1, <1>2, <1>3, <1>5, <2>6, <2>7, OnwardIdle
  <2> QED
    BY <1>1, <1>2, <2>8, SearchOn
<1> QED
  BY <1>9, <1>10

(* The frame of a device, and the byte that comes.                         *)
LEMMA Frame ==
    ASSUME LInv, NEW d \in Device, NEW status, Within(d, status), status # "NULL",
           NEW w, NEW n, Framed(d, w, n)
    PROVE  /\ InFrame(d) /\ Held(d) = exp[d].m_FrameBuff /\ Longer(d) = Append(Held(d), At(d))
           /\ n \in Nat /\ Len(w) \in Nat /\ n + 1 <= Len(w) /\ n = Len(Held(d))
           /\ Len(Longer(d)) = n + 1 /\ (\A i \in 1 .. n + 1 : Longer(d)[i] = w[i]) /\ w[n + 1] = At(d)
           /\ HeadLen[protocal[d]] \in Nat /\ 2 <= HeadLen[protocal[d]] /\ HeadLen[protocal[d]] <= n
           /\ Title(d, w, n) /\ InStep(d, w, n) /\ InText(d, w, n)
           /\ TextMode(d) <=> Kind(w[2]) \in Text
           /\ w[1] = <<w[1][1], 1>>
<1>1. exp[d].m_bSearchStatus # "NULL"
  BY DEF Within
<1>2. InFrame(d) /\ Held(d) = exp[d].m_FrameBuff
  BY <1>1 DEF InFrame, Held
<1>3. Longer(d) = Append(Held(d), At(d))
  BY <1>2 DEF Longer
<1>4. SInv
  BY DEF LInv
<1>5. /\ n \in Nat /\ Len(w) \in Nat /\ n + 1 <= Len(w) /\ w[n + 1] = At(d)
      /\ Len(Append(Held(d), At(d))) = n + 1
      /\ \A i \in 1 .. n + 1 : Append(Held(d), At(d))[i] = w[i]
  BY <1>4, Takes
<1>6. Title(d, w, n) /\ InStep(d, w, n) /\ InText(d, w, n) /\ n = Len(Held(d)) /\ w \in Seq(Byte)
      /\ w = Window(d)
  BY <1>2 DEF Framed, InOrder, FrameOK
<1>7. HeadLen[protocal[d]] \in Nat /\ 2 <= HeadLen[protocal[d]] /\ HeadLen[protocal[d]] <= n
  BY <1>6, HeadFacts DEF Title
<1>8. TextMode(d) <=> Kind(w[2]) \in Text
  <2>1. 2 \in 1 .. Len(Held(d))
    BY <1>5, <1>6, <1>7
  <2>2. w[2] = exp[d].m_FrameBuff[2]
    BY <1>2, <1>4, <1>6, <2>1, WindowFacts
  <2> QED
    BY <2>2 DEF TextMode
<1>9. w[1] = <<w[1][1], 1>>
  <2>1. 1 \in 1 .. Len(w)
    BY <1>5, <1>7
  <2>2. w[1] \in Byte
    BY <1>6, <2>1, ElementOfSeq
  <2>3. w[1] = <<w[1][1], w[1][2]>>
    BY <2>2 DEF Byte
  <2>4. w[1][2] = 1
    BY <1>6 DEF Title
  <2> QED
    BY <2>3, <2>4
<1> QED
  BY <1>2, <1>3, <1>5, <1>6, <1>7, <1>8, <1>9

(* The frame of a sentence without damage.                                 *)
LEMMA FrameOf ==
    ASSUME LInv, NEW d \in Device, NEW status, Within(d, status), status # "NULL",
           NEW w, NEW n, Framed(d, w, n), NEW f, Intact(d, f), w[1] = <<f, 1>>
    PROVE  /\ f \in DOMAIN sent /\ f \in Nat /\ 1 <= f /\ Size(f) \in Nat /\ n + 1 <= Size(f)
           /\ ~ Overruns(d) /\ Size(f) < Limit /\ Limit \in Nat /\ Status(d, f, n)
           /\ HeadLen[protocal[d]] + (IF sent[f].kind \in Text THEN 4 ELSE 2) < Size(f)
           /\ \A i \in 1 .. n + 1 : w[i] = <<f, i>> /\ Longer(d)[i] = <<f, i>>
           /\ At(d) = <<f, n + 1>> /\ At(d) # Noise
           /\ Kind(w[2]) = sent[f].kind
           /\ TextMode(d) <=> sent[f].kind \in Text
<1>1. /\ n \in Nat /\ Len(w) \in Nat /\ n + 1 <= Len(w)
      /\ Len(Longer(d)) = n + 1 /\ (\A i \in 1 .. n + 1 : Longer(d)[i] = w[i])
      /\ HeadLen[protocal[d]] \in Nat /\ 2 <= HeadLen[protocal[d]] /\ HeadLen[protocal[d]] <= n
      /\ InStep(d, w, n) /\ (TextMode(d) <=> Kind(w[2]) \in Text)
  BY Frame
<1>2. SInv /\ Served
  BY DEF LInv
<1>3. /\ f \in DOMAIN sent /\ f \in Nat /\ 1 <= f /\ Size(f) \in Nat /\ Size(f) < Limit /\ Limit \in Nat
      /\ HeadLen[protocal[d]] + (IF sent[f].kind \in Text THEN 4 ELSE 2) < Size(f)
  BY <1>2, MineFacts DEF Intact
<1>4. w[1][1] = f
  OBVIOUS
<1>5. n < Size(f) /\ Status(d, f, n)
  BY <1>1, <1>4 DEF InStep
<1>6. n + 1 <= Size(f)
  BY <1>1, <1>3, <1>5
<1>7. (\A i \in 1 .. n + 1 : w[i] = <<f, i>>) /\ At(d) = <<f, n + 1>> /\ At(d) # Noise
  BY <1>6, Begun
<1>8. ~ Overruns(d)
  <2>1. n + 1 < Limit
    BY <1>1, <1>3, <1>6
  <2> QED
    BY <1>1, <1>3, <2>1 DEF Overruns
<1>9. Kind(w[2]) = sent[f].kind
  <2>1. 2 \in 1 .. n + 1
    BY <1>1
  <2>2. w[2] = <<f, 2>>
    BY <1>7, <2>1
  <2> QED
    BY <2>2 DEF Kind
<1> QED
  BY <1>1, <1>3, <1>5, <1>6, <1>7, <1>8, <1>9

(* The buffer is full: the frame had damage, and all of it is dropped.     *)
LEMMA OverrunInStep ==
    ASSUME LInv, NEW d \in Device, Overrun(d)
    PROVE  LInv'
<1>1. PICK status \in {"LENGTH", "IDENTIFIER", "BINARYCHECK"} : Within(d, status)
  BY DEF Overrun
<1>2. /\ Overruns(d) /\ exp' = [exp EXCEPT ![d] = NoFrame] /\ head' = head /\ given' = given
      /\ protocal' = protocal
  BY <1>1 DEF Overrun, Within
<1>3. SInv /\ SInv'
  BY OverrunStep DEF LInv
<1>4. PICK w, n : Framed(d, w, n)
  BY HeadFacts
<1>5. InFrame(d) /\ head[protocal[d]] = <<>> /\ n = Len(Held(d)) /\ n \in Nat
  BY <1>1, <1>4, Frame DEF Title
<1>6. ~ InFrame(d)' /\ Held(d)' = <<>>
  <2>1. exp'[d].m_bSearchStatus = "NULL"
    BY <1>2, HeadFacts DEF NoFrame
  <2> QED
    BY <1>2, <1>5, <2>1 DEF InFrame, Held
<1>7. Cut(Append(Held(d), At(d)), Held(d)', Len(Held(d)) + 1)
  BY <1>1, <1>3, <1>6, DropsAll
<1>8. Keeps(d, w, n, Len(Held(d)) + 1)
  <2> SUFFICES ASSUME NEW f, Intact(d, f), w[1] = <<f, 1>> PROVE FALSE
    BY <1>5 DEF Keeps
  <2> QED
    BY <1>1, <1>2, <1>4, FrameOf
<1>9. DevOK(d)'
  BY <1>1, <1>2, <1>3, <1>4, <1>6, <1>7, <1>8, OnwardIdle
<1> QED
  BY <1>1, <1>2, <1>3, <1>9, SearchOn

(* One byte more of a frame.                                               *)
LEMMA GoesInStep ==
    ASSUME LInv, SInv', NEW d \in Device, NEW was, Within(d, was), was # "NULL",
           NEW e, exp' = [exp EXCEPT ![d] = e], e.m_FrameBuff = Longer(d), e.m_bSearchStatus # "NULL",
           UNCHANGED <<head, given>>, NEW w, NEW n, Framed(d, w, n),
           \A f : Intact(d, f) /\ w[1] = <<f, 1>> => n + 1 < Size(f) /\ Status(d, f, n + 1)',
           InText(d, w, n + 1)'
    PROVE  LInv'
<1>1. protocal' = protocal /\ sent' = sent /\ hurt' = hurt /\ head' = head /\ given' = given
  BY DEF Within
<1>2. exp'[d] = e
  BY HeadFacts
<1>3. /\ InFrame(d) /\ Longer(d) = Append(Held(d), At(d)) /\ n \in Nat
      /\ HeadLen[protocal[d]] \in Nat /\ HeadLen[protocal[d]] <= n
      /\ Title(d, w, n) /\ w[1] = <<w[1][1], 1>>
  BY Frame
<1>4. Held(d)' = Append(Held(d), At(d))
  BY <1>2, <1>3 DEF Held
<1>5. Title(d, w, n + 1)'
  <2>1. \A i : Kind(w[i])' = Kind(w[i])
    BY <1>1 DEF Kind
  <2>2. HeadLen[protocal[d]] <= n + 1
    BY <1>3
  <2> QED
    BY <1>1, <1>3, <2>1, <2>2 DEF Title, Noise
<1>6. InStep(d, w, n + 1)'
  <2> SUFFICES ASSUME Intact(d, w[1][1])' PROVE (n + 1 < Size(w[1][1]) /\ Status(d, w[1][1], n + 1))'
    BY DEF InStep
  <2>1. PICK f : f = w[1][1]
    OBVIOUS
  <2>2. Intact(d, f) /\ w[1] = <<f, 1>>
    BY <1>1, <1>3, <2>1 DEF Intact, Mine
  <2>3. n + 1 < Size(f) /\ Status(d, f, n + 1)' /\ Size(f)' = Size(f)
    BY <1>1, <2>2 DEF Size
  <2> QED
    BY <2>1, <2>3 DEF Size, Status
<1>7. Keeps(d, w, n, 0)
  <2>1. \A i \in 1 .. n + 1 : 0 < i
    BY <1>3
  <2> QED
    BY <1>3, <2>1 DEF Keeps
<1>8. DevOK(d)'
  BY <1>1, <1>4, <1>5, <1>6, <1>7, OnwardKept
<1> QED
  BY <1>1, <1>8, SearchOn

(* The body of a text sentence, up to its star.                            *)
LEMMA ReadBodyInStep ==
    ASSUME LInv, NEW d \in Device, ReadBody(d)
    PROVE  LInv'
<1>s. PICK status : status = IF TextMode(d) /\ Star(At(d)) THEN "IDENTIFIER" ELSE "LENGTH"
  OBVIOUS
<1>e. PICK e : e = [exp[d] EXCEPT !.m_FrameBuff = Longer(d), !.m_bSearchStatus = status]
  OBVIOUS
<1>1. /\ Within(d, "LENGTH") /\ ~ FieldEnds(d) /\ Goes(d, status) /\ UNCHANGED <<head, given>>
      /\ status # "NULL" /\ sent' = sent /\ protocal' = protocal
      /\ exp[d].m_bSearchStatus = "LENGTH"
  BY <1>s DEF ReadBody, Within
<1>2. SInv /\ SInv'
  BY ReadBodyStep DEF LInv
<1>3. /\ exp' = [exp EXCEPT ![d] = e] /\ exp'[d] = e
      /\ e.m_FrameBuff = Longer(d) /\ e.m_bSearchStatus = status
  BY <1>1, <1>e, HeadFacts DEF Goes, ExpType
<1>4. PICK w, n : Framed(d, w, n)
  BY HeadFacts
<1>5. /\ n \in Nat /\ Len(Longer(d)) = n + 1 /\ w[n + 1] = At(d)
      /\ HeadLen[protocal[d]] \in Nat /\ HeadLen[protocal[d]] <= n
      /\ InText(d, w, n) /\ (TextMode(d) <=> Kind(w[2]) \in Text)
  BY <1>1, <1>4, Frame
<1>h. PICK H : H = HeadLen[protocal[d]]
  OBVIOUS
<1>6. ASSUME NEW f, Intact(d, f), w[1] = <<f, 1>>
      PROVE  n + 1 < Size(f) /\ Status(d, f, n + 1)'
  <2>1. /\ Size(f) \in Nat /\ n + 1 <= Size(f) /\ Status(d, f, n)
        /\ H + (IF sent[f].kind \in Text THEN 4 ELSE 2) < Size(f)
        /\ At(d) = <<f, n + 1>> /\ At(d) # Noise
        /\ TextMode(d) <=> sent[f].kind \in Text
    BY <1>1, <1>4, <1>6, <1>h, FrameOf
  <2>2. Size(f)' = Size(f) /\ sent'[f] = sent[f] /\ HeadLen[protocal'[d]] = H
    BY <1>1, <1>h DEF Size
  <2>3. IF sent[f].kind \in Text THEN n + 4 < Size(f) ELSE n < H + 2
    BY <1>1, <1>h, <2>1 DEF Status
  <2>4. CASE sent[f].kind \in Text
    <3>1. n + 1 < Size(f) /\ n + 4 < Size(f)
      BY <1>5, <2>1, <2>3, <2>4
    <3>2. Star(At(d)) <=> n + 1 = Size(f) - 4
      BY <2>1, <2>4 DEF Star, AtEnd, Kind, Size
    <3>3. CASE n + 1 = Size(f) - 4
      <4>1. status = "IDENTIFIER" /\ Size(f) <= (n + 1) + 4
        BY <1>s, <1>5, <2>1, <2>4, <3>2, <3>3
      <4> QED
        BY <1>3, <2>2, <2>4, <3>1, <4>1 DEF Status
    <3>4. CASE n + 1 # Size(f) - 4
      <4>1. status = "LENGTH" /\ (n + 1) + 4 < Size(f)
        BY <1>s, <1>5, <2>1, <3>1, <3>2, <3>4
      <4> QED
        BY <1>3, <2>2, <2>4, <3>1, <4>1 DEF Status
    <3> QED
      BY <3>3, <3>4
  <2>5. CASE sent[f].kind \notin Text
    <3>1. n + 1 # H + 2
      BY <1>1, <1>5, <1>h, <2>1, <2>5 DEF FieldEnds
    <3>2. H \in Nat /\ n < H + 2 /\ H + 2 < Size(f)
      BY <1>5, <1>h, <2>1, <2>3, <2>5
    <3>3. n + 1 < H + 2 /\ n + 1 < Size(f)
      BY <1>5, <2>1, <3>1, <3>2
    <3>4. status = "LENGTH"
      BY <1>s, <2>1, <2>5
    <3> QED
      BY <1>3, <2>2, <2>5, <3>3, <3>4 DEF Status
  <2> QED
    BY <2>4, <2>5
<1>7. InText(d, w, n + 1)'
  <2>1. /\ \A i : Kind(w[i])' = Kind(w[i])
        /\ \A i : Star(w[i])' <=> Star(w[i])
        /\ \A i : CR(w[i])' <=> CR(w[i])
        /\ \A i : LF(w[i])' <=> LF(w[i])
        /\ HeadLen[protocal'[d]] = H /\ exp'[d].m_bSearchStatus = status
    BY <1>1, <1>3, <1>h DEF Kind, Star, CR, LF, AtEnd, Noise
  <2> SUFFICES ASSUME Kind(w[2]) \in Text
               PROVE  /\ status # "BINARYCHECK"
                      /\ status = "LENGTH" => \A i \in H + 1 .. n + 1 : ~ Star(w[i])
                      /\ \A i \in H + 5 .. n + 1 : ~ (LF(w[i]) /\ CR(w[i - 1]) /\ Star(w[i - 4]))
    BY <2>1 DEF InText
  <2>2. \A i \in H + 1 .. n : ~ Star(w[i])
    BY <1>1, <1>5, <1>h DEF InText
  <2>3. \A i \in H + 5 .. n : ~ (LF(w[i]) /\ CR(w[i - 1]) /\ Star(w[i - 4]))
    BY <1>5, <1>h DEF InText
  <2>4. H \in Nat
    BY <1>5, <1>h
  <2>5. ASSUME status = "LENGTH", NEW i \in H + 1 .. n + 1 PROVE ~ Star(w[i])
    <3>1. CASE i = n + 1
      <4>1. ~ Star(At(d))
        BY <1>s, <1>5, <2>5
      <4> QED
        BY <1>5, <3>1, <4>1
    <3>2. CASE i # n + 1
      <4>1. i \in H + 1 .. n
        BY <1>5, <2>4, <3>2
      <4> QED
        BY <2>2, <4>1
    <3> QED
      BY <3>1, <3>2
  <2>6. ASSUME NEW i \in H + 5 .. n + 1 PROVE ~ (LF(w[i]) /\ CR(w[i - 1]) /\ Star(w[i - 4]))
    <3>1. i - 4 \in H + 1 .. n
      BY <1>5, <2>4
    <3> QED
      BY <2>2, <3>1
  <2> QED
    BY <1>s, <2>5, <2>6
<1> QED
  BY <1>1, <1>2, <1>3, <1>4, <1>6, <1>7, GoesInStep

(* The rest of a sentence, but for its last byte.                          *)
LEMMA ReadRestInStep ==
    ASSUME LInv, NEW d \in Device, ReadRest(d)
    PROVE  LInv'
<1>1. PICK was \in {"IDENTIFIER", "BINARYCHECK"} : Within(d, was)
  BY DEF ReadRest
<1>e. PICK e : e = [exp[d] EXCEPT !.m_FrameBuff = Longer(d), !.m_bSearchStatus = was]
  OBVIOUS
<1>2. /\ ~ Ends(d) /\ Goes(d, was) /\ UNCHANGED <<head, given>> /\ exp[d].m_bSearchStatus = was
      /\ sent' = sent /\ protocal' = protocal
  BY <1>1 DEF ReadRest, Within
<1>3. SInv /\ SInv'
  BY ReadRestStep DEF LInv
<1>4. /\ exp' = [exp EXCEPT ![d] = e] /\ exp'[d] = e
      /\ e.m_FrameBuff = Longer(d) /\ e.m_bSearchStatus = was
      /\ e.m_uBinaryLen = exp[d].m_uBinaryLen
  BY <1>2, <1>e, HeadFacts DEF Goes, ExpType
<1>5. PICK w, n : Framed(d, w, n)
  BY HeadFacts
<1>6. /\ n \in Nat /\ Len(Longer(d)) = n + 1 /\ w[n + 1] = At(d)
      /\ (\A i \in 1 .. n + 1 : Longer(d)[i] = w[i])
      /\ HeadLen[protocal[d]] \in Nat /\ HeadLen[protocal[d]] <= n
      /\ InText(d, w, n) /\ (TextMode(d) <=> Kind(w[2]) \in Text)
  BY <1>1, <1>5, Frame
<1>h. PICK H : H = HeadLen[protocal[d]]
  OBVIOUS
(* The end of a text sentence. *)
<1>7. ASSUME was = "IDENTIFIER", 5 <= n + 1, LF(w[n + 1]), CR(w[n]), Star(w[n - 3])
      PROVE  FALSE
  <2>1. n \in 1 .. n + 1 /\ n - 3 \in 1 .. n + 1 /\ (n + 1) - 1 = n /\ (n + 1) - 4 = n - 3 /\ n + 1 > 4
    BY <1>6, <1>7
  <2>2. LF(At(d))
    BY <1>6, <1>7
  <2>3. CR(Longer(d)[n])
    BY <1>6, <1>7, <2>1
  <2>4. Star(Longer(d)[n - 3])
    BY <1>6, <1>7, <2>1
  <2> QED
    BY <1>2, <1>6, <1>7, <2>1, <2>2, <2>3, <2>4 DEF Ends
<1>8. ASSUME NEW f, Intact(d, f), w[1] = <<f, 1>>
      PROVE  n + 1 < Size(f) /\ Status(d, f, n + 1)'
  <2>1. /\ Size(f) \in Nat /\ n + 1 <= Size(f) /\ Status(d, f, n) /\ f \in Nat /\ 1 <= f
        /\ H + (IF sent[f].kind \in Text THEN 4 ELSE 2) < Size(f)
        /\ \A i \in 1 .. n + 1 : w[i] = <<f, i>>
    BY <1>1, <1>5, <1>8, <1>h, FrameOf
  <2>2. Size(f)' = Size(f) /\ sent'[f] = sent[f]
    BY <1>2 DEF Size
  <2>3. CASE was = "IDENTIFIER"
    <3>1. sent[f].kind \in Text /\ Size(f) <= n + 4
      BY <1>2, <2>1, <2>3 DEF Status
    <3>2. Status(d, f, n + 1)'
      <4>1. Size(f) <= (n + 1) + 4
        BY <1>6, <2>1, <3>1
      <4> QED
        BY <1>4, <2>2, <2>3, <3>1, <4>1 DEF Status
    <3>3. ASSUME n + 1 = Size(f) PROVE FALSE
      <4>1. 5 <= n + 1 /\ n \in 1 .. n + 1 /\ n - 3 \in 1 .. n + 1 /\ n + 1 \in 1 .. n + 1
        BY <1>6, <1>h, <2>1, <3>1, <3>3
      <4>2. w[n + 1] = <<f, n + 1>> /\ w[n] = <<f, n>> /\ w[n - 3] = <<f, n - 3>>
        BY <2>1, <4>1
      <4>3. LF(w[n + 1])
        <5>1. PICK b : b = w[n + 1]
          OBVIOUS
        <5>2. b[1] = f /\ b[2] = Size(f) - 0 /\ b # Noise
          BY <2>1, <3>3, <4>2, <5>1 DEF Noise
        <5> QED
          BY <3>1, <5>1, <5>2 DEF LF, AtEnd, Kind, Size
      <4>4. CR(w[n])
        <5>1. PICK b : b = w[n]
          OBVIOUS
        <5>2. b[1] = f /\ b[2] = Size(f) - 1 /\ b # Noise
          BY <1>6, <2>1, <3>3, <4>2, <5>1 DEF Noise
        <5> QED
          BY <3>1, <5>1, <5>2 DEF CR, AtEnd, Kind, Size
      <4>5. Star(w[n - 3])
        <5>1. PICK b : b = w[n - 3]
          OBVIOUS
        <5>2. b[1] = f /\ b[2] = Size(f) - 4 /\ b # Noise
          BY <1>6, <2>1, <3>3, <4>2, <5>1 DEF Noise
        <5> QED
          BY <3>1, <5>1, <5>2 DEF Star, AtEnd, Kind, Size
      <4> QED
        BY <1>7, <2>3, <4>1, <4>3, <4>4, <4>5
    <3> QED
      BY <1>6, <2>1, <3>2, <3>3
  <2>4. CASE was = "BINARYCHECK"
    <3>1. sent[f].kind \notin Text /\ exp[d].m_uBinaryLen = Size(f)
      BY <1>2, <2>1, <2>4 DEF Status
    <3>2. Status(d, f, n + 1)'
      BY <1>4, <2>2, <2>4, <3>1 DEF Status
    <3>3. n + 1 # Size(f)
      BY <1>2, <1>6, <2>4, <3>1 DEF Ends
    <3> QED
      BY <1>6, <2>1, <3>2, <3>3
  <2> QED
    BY <2>3, <2>4
<1>9. InText(d, w, n + 1)'
  <2>1. /\ \A i : Kind(w[i])' = Kind(w[i])
        /\ \A i : Star(w[i])' <=> Star(w[i])
        /\ \A i : CR(w[i])' <=> CR(w[i])
        /\ \A i : LF(w[i])' <=> LF(w[i])
        /\ HeadLen[protocal'[d]] = H /\ exp'[d].m_bSearchStatus = was
    BY <1>2, <1>4, <1>h DEF Kind, Star, CR, LF, AtEnd, Noise
  <2> SUFFICES ASSUME Kind(w[2]) \in Text
               PROVE  /\ was # "BINARYCHECK"
                      /\ was = "LENGTH" => \A i \in H + 1 .. n + 1 : ~ Star(w[i])
                      /\ \A i \in H + 5 .. n + 1 : ~ (LF(w[i]) /\ CR(w[i - 1]) /\ Star(w[i - 4]))
    BY <2>1 DEF InText
  <2>2. was = "IDENTIFIER"
    BY <1>2, <1>6 DEF InText
  <2>3. \A i \in H + 5 .. n : ~ (LF(w[i]) /\ CR(w[i - 1]) /\ Star(w[i - 4]))
    BY <1>6, <1>h DEF InText
  <2>4. H \in Nat
    BY <1>6, <1>h
  <2>5. ASSUME NEW i \in H + 5 .. n + 1 PROVE ~ (LF(w[i]) /\ CR(w[i - 1]) /\ Star(w[i - 4]))
    <3>1. CASE i = n + 1
      <4>1. 5 <= n + 1 /\ i - 1 = n /\ i - 4 = n - 3
        BY <1>6, <2>4, <3>1
      <4> QED
        BY <1>7, <2>2, <3>1, <4>1
    <3>2. CASE i # n + 1
      <4>1. i \in H + 5 .. n
        BY <1>6, <2>4, <3>2
      <4> QED
        BY <2>3, <4>1
    <3> QED
      BY <3>1, <3>2
  <2> QED
    BY <2>2, <2>5
<1> QED
  BY <1>1, <1>2, <1>3, <1>4, <1>5, <1>8, <1>9, GoesInStep

(* The length field: right, if its sentence has no damage.                 *)
LEMMA ReadLengthInStep ==
    ASSUME LInv, NEW d \in Device, ReadLength(d)
    PROVE  LInv'
<1>1. /\ Within(d, "LENGTH") /\ FieldEnds(d) /\ head' = head /\ given' = given
      /\ exp[d].m_bSearchStatus = "LENGTH" /\ sent' = sent /\ protocal' = protocal
  BY DEF ReadLength, Within
<1>2. SInv /\ SInv'
  BY ReadLengthStep DEF LInv
<1>3. PICK m \in Lengths(d) :
          exp' = [exp EXCEPT ![d] = IF m >= Limit THEN NoFrame
                                    ELSE [m_bSearchStatus |-> "BINARYCHECK",
                                          m_FrameBuff |-> Longer(d), m_uBinaryLen |-> m]]
  BY DEF ReadLength
<1>4. PICK e : e = IF m >= Limit THEN NoFrame
                   ELSE [m_bSearchStatus |-> "BINARYCHECK",
                         m_FrameBuff |-> Longer(d), m_uBinaryLen |-> m]
  OBVIOUS
<1>5. exp' = [exp EXCEPT ![d] = e] /\ exp'[d] = e
  BY <1>3, <1>4, HeadFacts
<1>6. PICK w, n : Framed(d, w, n)
  BY HeadFacts
<1>7. /\ InFrame(d) /\ n \in Nat /\ n = Len(Held(d)) /\ Len(Longer(d)) = n + 1
      /\ head[protocal[d]] = <<>> /\ (TextMode(d) <=> Kind(w[2]) \in Text)
      /\ HeadLen[protocal[d]] \in Nat /\ 2 <= HeadLen[protocal[d]]
  BY <1>1, <1>6, Frame DEF Title
<1>8. n + 1 = HeadLen[protocal[d]] + 2 /\ ~ TextMode(d)
  BY <1>1, <1>7 DEF FieldEnds
(* The length of a sentence without damage is the one it has. *)
<1>9. ASSUME NEW f, Intact(d, f), w[1] = <<f, 1>>
      PROVE  /\ m = Size(f) /\ ~ (m >= Limit) /\ sent[f].kind \notin Text
             /\ n + 1 < Size(f)
  <2>1. /\ f \in Nat /\ 1 <= f /\ Size(f) \in Nat /\ Size(f) < Limit /\ Limit \in Nat
        /\ HeadLen[protocal[d]] + (IF sent[f].kind \in Text THEN 4 ELSE 2) < Size(f)
        /\ \A i \in 1 .. n + 1 : Longer(d)[i] = <<f, i>>
        /\ TextMode(d) <=> sent[f].kind \in Text
    BY <1>1, <1>6, <1>9, FrameOf
  <2>2. sent[f].kind \notin Text
    BY <1>8, <2>1
  <2>3. PICK k : k = n + 1
    OBVIOUS
  <2>4. k \in Nat /\ k - 1 \in 1 .. n + 1 /\ k \in 1 .. n + 1 /\ Len(Longer(d)) = k
    BY <1>7, <1>8, <2>3
  <2>5. Longer(d)[k - 1] = <<f, k - 1>> /\ Longer(d)[k] = <<f, k>>
    BY <2>1, <2>4
  <2>6. Lengths(d) = {Size(f)}
    <3>1. PICK a, b : a = <<f, k - 1>> /\ b = <<f, k>>
      OBVIOUS
    <3>2. a # Noise /\ Kind(a) = sent[f].kind /\ b = <<a[1], k>> /\ a[2] = k - 1
      BY <2>1, <3>1 DEF Noise, Kind
    <3>3. Longer(d)[Len(Longer(d)) - 1] = a /\ Longer(d)[Len(Longer(d))] = b
      BY <2>4, <2>5, <3>1
    <3>4. Lengths(d) = {Length[Kind(a)]}
      BY <2>4, <3>2, <3>3 DEF Lengths
    <3>5. Length[Kind(a)] = Size(f)
      BY <3>2 DEF Size
    <3> QED
      BY <3>4, <3>5
  <2>7. m = Size(f)
    <3>1. m \in Lengths(d)
      OBVIOUS
    <3> QED
      BY <2>6, <3>1
  <2>8. n + 1 < Size(f)
    BY <1>8, <2>1, <2>2
  <2> QED
    BY <2>1, <2>2, <2>7, <2>8
<1>10. CASE m >= Limit
  <2>1. exp'[d].m_bSearchStatus = "NULL"
    BY <1>4, <1>5, <1>10 DEF NoFrame
  <2>2. ~ InFrame(d)' /\ Held(d)' = <<>>
    BY <1>1, <1>7, <2>1 DEF InFrame, Held
  <2>3. Cut(Append(Held(d), At(d)), Held(d)', Len(Held(d)) + 1)
    BY <1>1, <1>2, <2>2, DropsAll
  <2>4. Keeps(d, w, n, Len(Held(d)) + 1)
    <3> SUFFICES ASSUME NEW f, Intact(d, f), w[1] = <<f, 1>> PROVE FALSE
      BY <1>7 DEF Keeps
    <3> QED
      BY <1>9, <1>10
  <2>5. DevOK(d)'
    BY <1>1, <1>2, <1>6, <2>2, <2>3, <2>4, OnwardIdle
  <2> QED
    BY <1>1, <1>2, <1>5, <2>5, SearchOn
<1>11. CASE ~ (m >= Limit)
  <2>1. /\ e.m_bSearchStatus = "BINARYCHECK" /\ e.m_FrameBuff = Longer(d) /\ e.m_uBinaryLen = m
    BY <1>4, <1>11
  <2>2. ASSUME NEW f, Intact(d, f), w[1] = <<f, 1>>
        PROVE  n + 1 < Size(f) /\ Status(d, f, n + 1)'
    <3>1. n + 1 < Size(f) /\ m = Size(f) /\ sent[f].kind \notin Text
      BY <1>9, <2>2
    <3>2. Size(f)' = Size(f) /\ sent'[f] = sent[f]
      BY <1>1 DEF Size
    <3> QED
      BY <1>5, <2>1, <3>1, <3>2 DEF Status
  <2>3. InText(d, w, n + 1)'
    <3>1. Kind(w[2]) \notin Text /\ Kind(w[2])' = Kind(w[2])
      BY <1>1, <1>7, <1>8 DEF Kind
    <3> QED
      BY <3>1 DEF InText
  <2> QED
    BY <1>1, <1>2, <1>5, <1>6, <2>1, <2>2, <2>3, GoesInStep
<1> QED
  BY <1>10, <1>11

(* The end: the sentence is given, and the next title begins.              *)
LEMMA EndInStep ==
    ASSUME LInv, NEW d \in Device, End(d)
    PROVE  LInv'
<1>1. PICK was \in {"IDENTIFIER", "BINARYCHECK"} : Within(d, was)
  BY DEF End
<1>2. /\ Ends(d) /\ exp' = [exp EXCEPT ![d] = NoFrame] /\ head' = head
      /\ exp[d].m_bSearchStatus = was /\ sent' = sent /\ protocal' = protocal
      /\ Checked(d) = {} => given' = given
      /\ Checked(d) # {} => \E f \in Checked(d) : given' = Append(given, <<d, f>>)
  BY <1>1 DEF End, Within
<1>3. SInv /\ SInv' /\ Served
  BY EndStep DEF LInv
<1>4. PICK w, n : Framed(d, w, n)
  BY HeadFacts
<1>5. /\ InFrame(d) /\ n \in Nat /\ n = Len(Held(d)) /\ Len(Longer(d)) = n + 1
      /\ Len(w) \in Nat /\ n + 1 <= Len(w)
      /\ (\A i \in 1 .. n + 1 : Longer(d)[i] = w[i]) /\ w[n + 1] = At(d)
      /\ HeadLen[protocal[d]] \in Nat /\ 2 <= HeadLen[protocal[d]] /\ HeadLen[protocal[d]] <= n
      /\ head[protocal[d]] = <<>>
  BY <1>1, <1>4, Frame DEF Title
<1>6. ~ InFrame(d)' /\ Held(d)' = <<>>
  <2>1. exp'[d].m_bSearchStatus = "NULL"
    BY <1>2, HeadFacts DEF NoFrame
  <2> QED
    BY <1>2, <1>5, <2>1 DEF InFrame, Held
<1>7. Cut(Append(Held(d), At(d)), Held(d)', n + 1)
  BY <1>1, <1>3, <1>5, <1>6, DropsAll
<1>8. Bytes(d, w)
  BY <1>4 DEF Framed, InOrder, Laid
<1>9. ASSUME NEW f \in Checked(d) PROVE Mine(d, f) /\ At(d) = <<f, Size(f)>>
  <2>1. /\ f \in DOMAIN sent /\ n + 1 = Size(f)
        /\ \A i \in HeadLen[protocal[d]] + 1 .. n + 1 : Longer(d)[i] = <<f, i>>
    BY <1>5 DEF Checked, Size
  <2>2. n + 1 \in HeadLen[protocal[d]] + 1 .. n + 1 /\ n + 1 \in 1 .. n + 1
    BY <1>5
  <2>3. At(d) = <<f, Size(f)>>
    BY <1>5, <2>1, <2>2
  <2>4. f \in Nat /\ 1 <= f
    BY <1>3, <2>1, SentFacts
  <2>5. At(d) # Noise
    BY <2>3, <2>4 DEF Noise
  <2>6. n + 1 \in 1 .. Len(w)
    BY <1>5
  <2>7. RealByte(d, At(d))
    BY <1>5, <1>8, <2>5, <2>6 DEF Bytes
  <2>8. At(d)[1] = f
    BY <2>3
  <2>9. Mine(d, At(d)[1])
    BY <2>7 DEF RealByte
  <2> QED
    BY <2>3, <2>8, <2>9
<1>10. given' = given \/ \E f : Finds(d, f)
  BY <1>2, <1>9 DEF Finds
<1>11. Keeps(d, w, n, n + 1)
  <2> SUFFICES ASSUME NEW f, Intact(d, f), w[1] = <<f, 1>> PROVE Given(d, f)'
    BY <1>5 DEF Keeps
  <2>1. /\ f \in DOMAIN sent /\ Size(f) \in Nat /\ n + 1 <= Size(f) /\ Status(d, f, n)
        /\ \A i \in 1 .. n + 1 : w[i] = <<f, i>> /\ Longer(d)[i] = <<f, i>>
        /\ At(d) = <<f, n + 1>>
    BY <1>1, <1>4, FrameOf
  <2>2. n + 1 = Size(f)
    <3>1. CASE was = "IDENTIFIER"
      <4>1. LF(At(d))
        BY <1>2, <3>1 DEF Ends
      <4>2. n + 1 = Size(f) - 0
        BY <2>1, <4>1 DEF LF, AtEnd, Kind, Size
      <4> QED
        BY <2>1, <4>2
    <3>2. CASE was = "BINARYCHECK"
      <4>1. n + 1 = exp[d].m_uBinaryLen
        BY <1>2, <1>5, <3>2 DEF Ends
      <4>2. exp[d].m_uBinaryLen = Size(f)
        BY <1>2, <2>1, <3>2 DEF Status
      <4> QED
        BY <4>1, <4>2
    <3> QED
      BY <3>1, <3>2
  <2>3. f \in Checked(d)
    <3>1. Kind(Longer(d)[2]) = sent[f].kind
      <4>1. 2 \in 1 .. n + 1
        BY <1>5
      <4> QED
        BY <2>1, <4>1 DEF Kind
    <3>2. \A i \in HeadLen[protocal[d]] + 1 .. n + 1 : i \in 1 .. n + 1
      BY <1>5
    <3>3. \A i \in HeadLen[protocal[d]] + 1 .. n + 1 : Longer(d)[i] = <<f, i>>
      BY <2>1, <3>2
    <3> QED
      BY <1>5, <2>1, <2>2, <3>1, <3>3 DEF Checked, Size
  <2>4. PICK g \in Checked(d) : given' = Append(given, <<d, g>>)
    BY <1>2, <2>3
  <2>5. g = f
    <3>1. At(d) = <<g, Size(g)>>
      BY <1>9
    <3> QED
      BY <2>1, <3>1
  <2> QED
    BY <1>3, <2>4, <2>5, GivenGrows
<1>12. DevOK(d)'
  BY <1>1, <1>3, <1>4, <1>6, <1>7, <1>10, <1>11, OnwardIdle
<1>13. given' = given \/ \E f : given' = Append(given, <<d, f>>)
  BY <1>10 DEF Finds
<1> QED
  BY <1>1, <1>2, <1>3, <1>12, <1>13, SearchOn

-----------------------------------------------------------------------------
(* A device sends a sentence.                                              *)

(* What damage leaves are bytes of the sentence in their order, and Noise, *)
(* one fewer at most.                                                      *)
Remains(T, f, m, v) ==
    /\ v \in Seq(T) /\ Len(v) \in Nat /\ m <= Len(v) + 1
    /\ \A i \in 1 .. Len(v) : v[i][2] = 1 => i = 1
    /\ \A i \in 1 .. Len(v) : v[i] = Noise \/ (v[i] = <<f, v[i][2]>> /\ v[i][2] \in 1 .. m)
    /\ \A i, j \in 1 .. Len(v) : i < j /\ v[i] # Noise /\ v[j] # Noise => v[i][2] < v[j][2]

(* A damaged sentence: its bytes in order, at most one of them gone.       *)
LEMMA DamagedFacts ==
    ASSUME NEW T, Noise \in T, NEW f \in Nat, 1 <= f, NEW m \in Nat,
           \A i \in 1 .. m : <<f, i>> \in T,
           NEW w, w = [i \in 1 .. m |-> <<f, i>>], NEW v \in Damaged(w)
    PROVE  Remains(T, f, m, v)
<1>0. w \in Seq(T) /\ Len(w) = m /\ DOMAIN w = 1 .. m /\ \A i \in 1 .. m : w[i] = <<f, i>> /\ w[i] # Noise
  BY DEF Noise
<1>1. CASE \E k \in 1 .. m : v = [w EXCEPT ![k] = Noise]
  <2>1. PICK k \in 1 .. m : v = [w EXCEPT ![k] = Noise]
    BY <1>1
  <2>2. v \in Seq(T) /\ Len(v) = m /\ \A i \in 1 .. m : v[i] = IF i = k THEN Noise ELSE <<f, i>>
    <3>1. k \in 1 .. Len(w)
      BY <1>0
    <3>2. /\ v \in Seq(T) /\ Len(v) = Len(w)
          /\ \A i \in 1 .. Len(w) : v[i] = IF i = k THEN Noise ELSE w[i]
      <4>1. w \in Seq(T)
        BY <1>0
      <4>2. /\ [w EXCEPT ![k] = Noise] \in Seq(T) /\ Len([w EXCEPT ![k] = Noise]) = Len(w)
            /\ \A j \in 1 .. Len(w) : [w EXCEPT ![k] = Noise][j] = IF j = k THEN Noise ELSE w[j]
        <5>1. PICK e : e = Noise
          OBVIOUS
        <5>2. e \in T
          BY <5>1
        <5>3. /\ [w EXCEPT ![k] = e] \in Seq(T) /\ Len([w EXCEPT ![k] = e]) = Len(w)
              /\ \A j \in 1 .. Len(w) : [w EXCEPT ![k] = e][j] = IF j = k THEN e ELSE w[j]
          BY ONLY <3>1, <4>1, <5>2, ExceptSeq
        <5> QED
          BY <5>1, <5>3
      <4> QED
        BY <2>1, <4>2
    <3> QED
      BY <1>0, <3>2
  <2>3. \A i \in 1 .. m : v[i] # Noise => v[i] = <<f, i>>
    BY <2>2
  <2>4. \A i \in 1 .. m : v[i][2] = 1 => i = 1
    <3>1. ASSUME NEW i \in 1 .. m, v[i][2] = 1 PROVE i = 1
      <4>1. v[i] # Noise
        BY <3>1 DEF Noise
      <4> QED
        BY <2>3, <3>1, <4>1
    <3> QED
      BY <3>1
  <2>5. m <= Len(v) + 1
    BY <2>2
  <2> QED
    BY <2>2, <2>3, <2>4, <2>5 DEF Remains
<1>2. CASE \E k \in 1 .. m : v = SubSeq(w, 1, k - 1) \o SubSeq(w, k + 1, Len(w))
  <2>1. PICK k \in 1 .. m : v = SubSeq(w, 1, k - 1) \o SubSeq(w, k + 1, Len(w))
    BY <1>2
  <2>2. PICK a, b : a = SubSeq(w, 1, k - 1) /\ b = SubSeq(w, k + 1, m)
    OBVIOUS
  <2>3. k - 1 \in Nat /\ k + 1 \in Nat /\ k \in Nat /\ 1 <= k /\ k <= m
    OBVIOUS
  <2>4. a \in Seq(T) /\ Len(a) = k - 1 /\ \A i \in 1 .. k - 1 : a[i] = <<f, i>>
    <3>1. \A i \in 1 .. k - 1 : w[i] \in T /\ w[i] = <<f, i>>
      BY <1>0, <2>3
    <3>2. /\ a \in Seq(T) /\ Len(a) = IF 1 <= k - 1 THEN (k - 1) - 1 + 1 ELSE 0
          /\ \A i \in 1 .. (k - 1) - 1 + 1 : a[i] = w[1 + i - 1]
      BY <1>0, <2>2, <2>3, <3>1, SubSeqProperties
    <3>3. Len(a) = k - 1
      BY <2>3, <3>2
    <3>4. ASSUME NEW i \in 1 .. k - 1 PROVE a[i] = <<f, i>>
      <4>1. i \in 1 .. (k - 1) - 1 + 1 /\ 1 + i - 1 = i
        BY <2>3
      <4> QED
        BY <3>1, <3>2, <4>1
    <3> QED
      BY <3>2, <3>3, <3>4
  <2>5. b \in Seq(T) /\ Len(b) = m - k /\ \A i \in 1 .. m - k : b[i] = <<f, k + i>>
    <3>1. \A i \in k + 1 .. m : w[i] \in T /\ w[i] = <<f, i>>
      BY <1>0, <2>3
    <3>2. /\ b \in Seq(T) /\ Len(b) = IF k + 1 <= m THEN m - (k + 1) + 1 ELSE 0
          /\ \A i \in 1 .. m - (k + 1) + 1 : b[i] = w[k + 1 + i - 1]
      <4>1. k + 1 \in Int /\ m \in Int /\ \A i \in k + 1 .. m : w[i] \in T
        BY <2>3, <3>1
      <4>2. /\ SubSeq(w, k + 1, m) \in Seq(T)
            /\ Len(SubSeq(w, k + 1, m)) = IF k + 1 <= m THEN m - (k + 1) + 1 ELSE 0
            /\ \A i \in 1 .. m - (k + 1) + 1 : SubSeq(w, k + 1, m)[i] = w[k + 1 + i - 1]
        BY ONLY <4>1, SubSeqProperties
      <4> QED
        BY <2>2, <4>2
    <3>3. Len(b) = m - k
      BY <2>3, <3>2
    <3>4. ASSUME NEW i \in 1 .. m - k PROVE b[i] = <<f, k + i>>
      <4>1. i \in 1 .. m - (k + 1) + 1 /\ k + 1 + i - 1 = k + i /\ k + i \in k + 1 .. m
        BY <2>3
      <4> QED
        BY <3>1, <3>2, <4>1
    <3> QED
      BY <3>2, <3>3, <3>4
  <2>6. /\ v \in Seq(T) /\ Len(v) = (k - 1) + (m - k)
        /\ \A i \in 1 .. (k - 1) + (m - k) : v[i] = IF i <= k - 1 THEN a[i] ELSE b[i - (k - 1)]
    <3>1. v = a \o b
      BY <1>0, <2>1, <2>2
    <3>2. /\ a \o b \in Seq(T) /\ Len(a \o b) = Len(a) + Len(b)
          /\ \A i \in 1 .. Len(a) + Len(b) : (a \o b)[i] = IF i <= Len(a) THEN a[i] ELSE b[i - Len(a)]
      BY <2>4, <2>5, ConcatProperties
    <3> QED
      BY <2>4, <2>5, <3>1, <3>2
  <2>7. ASSUME NEW i \in 1 .. Len(v)
        PROVE  v[i] = <<f, IF i <= k - 1 THEN i ELSE i + 1>>
    <3>1. CASE i <= k - 1
      BY <2>3, <2>4, <2>6, <3>1
    <3>2. CASE ~ (i <= k - 1)
      <4>1. i - (k - 1) \in 1 .. m - k /\ k + (i - (k - 1)) = i + 1
        BY <2>3, <2>6, <3>2
      <4>2. v[i] = b[i - (k - 1)]
        BY <2>3, <2>6, <3>2
      <4> QED
        BY <2>5, <3>2, <4>1, <4>2
    <3> QED
      BY <3>1, <3>2
  <2>8. Len(v) = m - 1
    BY <2>3, <2>6
  <2>9. ASSUME NEW i \in 1 .. Len(v) PROVE v[i] = <<f, v[i][2]>> /\ v[i][2] \in 1 .. m
    <3>1. CASE i <= k - 1
      BY <2>3, <2>7, <2>8, <3>1
    <3>2. CASE ~ (i <= k - 1)
      BY <2>3, <2>7, <2>8, <3>2
    <3> QED
      BY <3>1, <3>2
  <2>10. ASSUME NEW i \in 1 .. Len(v), NEW j \in 1 .. Len(v), i < j PROVE v[i][2] < v[j][2]
    <3>1. v[i][2] = (IF i <= k - 1 THEN i ELSE i + 1) /\ v[j][2] = IF j <= k - 1 THEN j ELSE j + 1
      BY <2>7
    <3> QED
      BY <2>3, <2>8, <2>10, <3>1
  <2>11. ASSUME NEW i \in 1 .. Len(v), v[i][2] = 1 PROVE i = 1
    <3>1. v[i][2] = IF i <= k - 1 THEN i ELSE i + 1
      BY <2>7
    <3> QED
      BY <2>8, <2>11, <3>1
  <2>12. m <= Len(v) + 1
    BY <2>8
  <2> QED
    BY <2>6, <2>9, <2>10, <2>11, <2>12 DEF Remains
<1> QED
  BY <1>0, <1>1, <1>2 DEF Damaged

(* The sentence f that d sends, of m bytes, and what the line makes of it. *)
Sending(d, f, m, v) ==
    /\ f = Len(sent) + 1 /\ f \in 1 .. MaxSent /\ m \in Nat \ {0}
    /\ DOMAIN sent' = 1 .. f /\ sent'[f].dev = d /\ Length[sent'[f].kind] = m
    /\ \A g \in DOMAIN sent : sent'[g] = sent[g]
    /\ hurt' = hurt \/ hurt' = hurt \cup {f}
    /\ f \notin hurt' => Len(v) = m /\ \A i \in 1 .. m : v[i] = <<f, i>>
    /\ Remains(Byte, f, m, v)
    /\ Len(Stream(d)') = Len(Stream(d)) + Len(v) /\ Stream(d)' \in Seq(Byte)
    /\ \A i \in 1 .. Len(Stream(d)) : Stream(d)'[i] = Stream(d)[i]
    /\ \A i \in 1 .. Len(v) : Stream(d)'[Len(Stream(d)) + i] = v[i]
    /\ UNCHANGED <<protocal, exp, head, given>>

(* Send, as the new sentence and what the line makes of it.                *)
LEMMA SendIs ==
    ASSUME LInv, SInv', NEW d \in Device, NEW k \in AllKinds, Send(d, k)
    PROVE  \E f, m, v : /\ Sending(d, f, m, v) /\ sent'[f].kind \in Kinds[protocal[d]]
                        /\ \A c \in Device : c # d => Stream(c)' = Stream(c)
<1>0. SInv
  BY DEF LInv
<1>f. PICK f : f = Len(sent) + 1
  OBVIOUS
<1>m. PICK m : m = Length[k]
  OBVIOUS
<1>w. PICK w : w = [i \in 1 .. m |-> <<f, i>>]
  OBVIOUS
<1>1. /\ k \in Kinds[protocal[d]] /\ f <= MaxSent /\ sent' = Append(sent, [dev |-> d, kind |-> k])
      /\ UNCHANGED <<protocal, m_ComBuff, exp, head, given>>
      /\ \/ line' = [line EXCEPT ![d] = line[d] \o w] /\ hurt' = hurt
         \/ /\ hurt' = hurt \cup {f}
            /\ \E v \in Damaged(w) : line' = [line EXCEPT ![d] = line[d] \o v]
  BY <1>f, <1>m, <1>w DEF Send
<1>2. PICK v : /\ line' = [line EXCEPT ![d] = line[d] \o v]
               /\ (v = w /\ hurt' = hurt) \/ (v \in Damaged(w) /\ hurt' = hurt \cup {f})
  BY <1>1
<1>3. /\ sent \in Seq([dev : Device, kind : AllKinds]) /\ Len(sent) \in Nat
      /\ DOMAIN sent = 1 .. Len(sent) /\ MaxSent \in Nat
  BY <1>0, SentFacts
<1>4. f \in 1 .. MaxSent /\ f \in Nat /\ 1 <= f
  BY <1>1, <1>3, <1>f
<1>5. /\ DOMAIN sent' = 1 .. f /\ sent'[f] = [dev |-> d, kind |-> k]
      /\ \A g \in DOMAIN sent : sent'[g] = sent[g]
  <2>1. [dev |-> d, kind |-> k] \in [dev : Device, kind : AllKinds]
    OBVIOUS
  <2> QED
    BY <1>1, <1>3, <1>f, <2>1
<1>6. m \in Nat \ {0}
  <2>1. m \in Nat /\ protocal[d] \in Protocols
    BY <1>0, <1>m, KindsAssumption, DeviceFacts
  <2>2. m > HeadLen[protocal[d]] /\ HeadLen[protocal[d]] \in Nat
    <3>1. /\ m > HeadLen[protocal[d]] + (IF k \in Text THEN 4 ELSE 2)
          /\ HeadLen[protocal[d]] \in Nat \ {0, 1}
      BY <1>1, <1>m, <2>1, KindsAssumption
    <3> QED
      BY <2>1, <3>1
  <2> QED
    BY <2>1, <2>2
<1>7. Noise \in Byte /\ \A i \in 1 .. m : <<f, i>> \in Byte /\ <<f, i>> # Noise
  BY <1>3, <1>4, <1>6 DEF Byte, Noise
<1>8. w \in Seq(Byte) /\ Len(w) = m /\ \A i \in 1 .. m : w[i] = <<f, i>>
  BY <1>6, <1>7, <1>w
<1>9. Remains(Byte, f, m, v)
  <2>1. CASE v = w
    <3>1. v \in Seq(Byte) /\ Len(v) = m /\ (\A i \in 1 .. m : v[i] = <<f, i>>)
      BY <1>8, <2>1
    <3> QED
      BY <1>6, <3>1 DEF Remains
  <2>2. CASE v \in Damaged(w)
    <3>1. Noise \in Byte /\ f \in Nat /\ 1 <= f /\ m \in Nat /\ \A i \in 1 .. m : <<f, i>> \in Byte
      BY <1>4, <1>6, <1>7
    <3> QED
      BY ONLY <1>w, <2>2, <3>1, DamagedFacts
  <2> QED
    BY <1>2, <2>1, <2>2
<1>9v. v \in Seq(Byte) /\ Len(v) \in Nat
  BY <1>9 DEF Remains
<1>10. f \notin hurt' => v = w
  BY <1>2
<1>11. ASSUME NEW c \in Device, c # d PROVE Stream(c)' = Stream(c)
  BY <1>0, <1>1, <1>2, <1>11 DEF Stream, SInv, TypeOK
<1>12. PICK a, b, s, t : a = m_ComBuff[d] /\ b = line[d] /\ s = Stream(d) /\ t = Stream(d)'
  OBVIOUS
<1>13. a \in Seq(Byte) /\ b \in Seq(Byte) /\ line \in [Device -> Seq(Byte)]
  BY <1>0, <1>12 DEF SInv, TypeOK
<1>14. s = a \o b /\ t = a \o (b \o v)
  <2>1. line'[d] = b \o v /\ m_ComBuff'[d] = a
    BY <1>1, <1>2, <1>12, <1>13
  <2> QED
    BY <1>12, <2>1 DEF Stream
<1>15. /\ b \o v \in Seq(Byte) /\ Len(b \o v) = Len(b) + Len(v)
       /\ \A i \in 1 .. Len(b) + Len(v) : (b \o v)[i] = IF i <= Len(b) THEN b[i] ELSE v[i - Len(b)]
  BY <1>13, <1>9v, ConcatProperties
<1>16. /\ Len(s) = Len(a) + Len(b)
       /\ \A i \in 1 .. Len(a) + Len(b) : s[i] = IF i <= Len(a) THEN a[i] ELSE b[i - Len(a)]
  BY <1>13, <1>14, ConcatProperties
<1>17. /\ Len(t) = Len(a) + Len(b \o v)
       /\ \A i \in 1 .. Len(a) + Len(b \o v) :
             t[i] = IF i <= Len(a) THEN a[i] ELSE (b \o v)[i - Len(a)]
  BY <1>13, <1>14, <1>15, ConcatProperties
<1>18. PICK p, q, r \in Nat : p = Len(a) /\ q = Len(b) /\ r = Len(v)
  BY <1>9v, <1>13
<1>19. Len(s) = p + q /\ Len(t) = (p + q) + r /\ Len(b \o v) = q + r
  BY <1>15, <1>16, <1>17, <1>18
<1>20. ASSUME NEW i \in 1 .. p + q PROVE t[i] = s[i]
  <2>1. i \in 1 .. p + (q + r)
    BY <1>18
  <2>2. CASE i <= p
    BY <1>15, <1>16, <1>17, <1>18, <1>19, <2>1, <2>2
  <2>3. CASE ~ (i <= p)
    <3>1. i - p \in 1 .. q + r /\ i - p <= q
      BY <1>18, <2>3
    <3>2. t[i] = (b \o v)[i - p] /\ s[i] = b[i - p]
      BY <1>16, <1>17, <1>18, <1>19, <2>1, <2>3
    <3> QED
      BY <1>15, <1>18, <3>1, <3>2
  <2> QED
    BY <2>2, <2>3
<1>21. ASSUME NEW i \in 1 .. r PROVE t[(p + q) + i] = v[i]
  <2>1. (p + q) + i \in 1 .. p + (q + r) /\ ~ ((p + q) + i <= p) /\ ((p + q) + i) - p = q + i
    BY <1>18
  <2>2. t[(p + q) + i] = (b \o v)[q + i]
    BY <1>17, <1>18, <1>19, <2>1
  <2>3. q + i \in 1 .. q + r /\ ~ (q + i <= q) /\ (q + i) - q = i
    BY <1>18
  <2> QED
    BY <1>15, <1>18, <2>2, <2>3
<1>22. Sending(d, f, m, v)
  <2>0. t \in Seq(Byte)
    BY <1>13, <1>14, <1>15, ConcatProperties
  <2>1. /\ Len(Stream(d)') = Len(Stream(d)) + Len(v) /\ Stream(d)' \in Seq(Byte)
        /\ \A i \in 1 .. Len(Stream(d)) : Stream(d)'[i] = Stream(d)[i]
        /\ \A i \in 1 .. Len(v) : Stream(d)'[Len(Stream(d)) + i] = v[i]
    BY <1>12, <1>18, <1>19, <1>20, <1>21, <2>0
  <2>2. sent'[f].dev = d /\ Length[sent'[f].kind] = m
    BY <1>5, <1>m
  <2>3. hurt' = hurt \/ hurt' = hurt \cup {f}
    BY <1>2
  <2>4. f \notin hurt' => Len(v) = m /\ \A i \in 1 .. m : v[i] = <<f, i>>
    BY <1>8, <1>10
  <2> QED
    BY <1>f, <1>1, <1>4, <1>5, <1>6, <1>9, <2>1, <2>2, <2>3, <2>4 DEF Sending
<1>23. sent'[f].kind \in Kinds[protocal[d]]
  <2>1. PICK x : x = sent'[f]
    OBVIOUS
  <2>2. x = [dev |-> d, kind |-> k]
    BY <1>5, <2>1
  <2>3. x.kind = k
    BY <2>2
  <2>4. k \in Kinds[protocal[d]]
    BY <1>1
  <2> QED
    BY <2>1, <2>3, <2>4
<1> QED
  BY <1>11, <1>22, <1>23

(* The sentences of d are those it had and the last of them, f.            *)
LEMMA SendingMine ==
    ASSUME LInv, NEW d \in Device, NEW f, NEW m, NEW v, Sending(d, f, m, v)
    PROVE  /\ Mine(d, f)' /\ ~ Mine(d, f) /\ Size(f)' = m /\ f \notin hurt
           /\ f \in Nat /\ 1 <= f /\ f <= MaxSent /\ MaxSent \in Nat /\ m \in Nat \ {0}
           /\ \A g : Mine(d, g)' <=> Mine(d, g) \/ g = f
           /\ \A g : Mine(d, g) => /\ g \in Nat /\ 1 <= g /\ g < f /\ g # f
                                   /\ sent'[g] = sent[g] /\ Size(g)' = Size(g)
                                   /\ g \in hurt' <=> g \in hurt
<1>1. /\ f = Len(sent) + 1 /\ f \in 1 .. MaxSent /\ m \in Nat \ {0}
      /\ DOMAIN sent' = 1 .. f /\ sent'[f].dev = d /\ Length[sent'[f].kind] = m
      /\ \A g \in DOMAIN sent : sent'[g] = sent[g]
      /\ hurt' = hurt \/ hurt' = hurt \cup {f}
  BY DEF Sending
<1>2. SInv /\ hurt \subseteq DOMAIN sent
  BY DEF LInv
<1>3. DOMAIN sent = 1 .. Len(sent) /\ Len(sent) \in Nat /\ MaxSent \in Nat
  BY <1>2, SentFacts
<1>4. /\ f \in Nat /\ 1 <= f /\ f <= MaxSent /\ f \notin DOMAIN sent
      /\ f \in DOMAIN sent' /\ f \notin hurt
  BY <1>1, <1>2, <1>3
<1>5. Mine(d, f)' /\ ~ Mine(d, f) /\ Size(f)' = m
  BY <1>1, <1>4 DEF Mine, Size
<1>6. \A g : g \in DOMAIN sent' <=> g \in DOMAIN sent \/ g = f
  BY <1>1, <1>3
<1>7. \A g : Mine(d, g)' <=> Mine(d, g) \/ g = f
  BY <1>1, <1>4, <1>5, <1>6 DEF Mine
<1>8. ASSUME NEW g, Mine(d, g)
      PROVE  /\ g \in Nat /\ 1 <= g /\ g < f /\ g # f
             /\ sent'[g] = sent[g] /\ Size(g)' = Size(g)
             /\ g \in hurt' <=> g \in hurt
  <2>1. g \in 1 .. Len(sent) /\ g \in DOMAIN sent
    BY <1>3, <1>8 DEF Mine
  <2>2. g \in Nat /\ 1 <= g /\ g < f /\ g # f
    BY <1>1, <1>3, <2>1
  <2>3. sent'[g] = sent[g] /\ Size(g)' = Size(g)
    BY <1>1, <2>1 DEF Size
  <2> QED
    BY <1>1, <2>2, <2>3
<1> QED
  BY <1>1, <1>3, <1>4, <1>5, <1>7, <1>8

(* The sentence before f is the one that was the last.                     *)
LEMMA SendingOrder ==
    ASSUME LInv, NEW d \in Device, NEW f, NEW m, NEW v, Sending(d, f, m, v)
    PROVE  /\ \A g, h : Mine(d, h) => (Precedes(d, g, h)' <=> Precedes(d, g, h))
           /\ \A g : Precedes(d, g, MaxSent + 1) => Precedes(d, g, f)'
           /\ Precedes(d, f, MaxSent + 1)'
<1>1. /\ Mine(d, f)' /\ f \in Nat /\ f <= MaxSent /\ MaxSent \in Nat
      /\ \A g : Mine(d, g)' <=> Mine(d, g) \/ g = f
      /\ \A g : Mine(d, g) => g \in Nat /\ g < f
  BY SendingMine
<1>2. ASSUME NEW g, NEW h, Mine(d, h) PROVE Precedes(d, g, h)' <=> Precedes(d, g, h)
  <2>1. h \in Nat /\ h < f /\ ~ (f < h)
    BY <1>1, <1>2
  <2>2. Precedes(d, g, h)' => Precedes(d, g, h)
    BY <1>1, <2>1 DEF Precedes
  <2>3. ASSUME Precedes(d, g, h) PROVE Precedes(d, g, h)'
    BY <1>1, <2>1, <2>3 DEF Precedes
  <2> QED
    BY <2>2, <2>3
<1>3. ASSUME NEW g, Precedes(d, g, MaxSent + 1) PROVE Precedes(d, g, f)'
  <2>1. Mine(d, g) /\ \A h : Mine(d, h) => ~ (g < h /\ h < MaxSent + 1)
    BY <1>3 DEF Precedes
  <2>2. Mine(d, g)' /\ g < f
    BY <1>1, <2>1
  <2>3. ASSUME NEW h, Mine(d, h)' PROVE ~ (g < h /\ h < f)
    <3>1. CASE h = f
      BY <1>1, <3>1
    <3>2. CASE Mine(d, h)
      <4>1. h \in Nat /\ h < MaxSent + 1
        BY <1>1, <3>2
      <4> QED
        BY <2>1, <3>2, <4>1
    <3> QED
      BY <1>1, <2>3, <3>1, <3>2
  <2> QED
    BY <2>2, <2>3 DEF Precedes
<1>4. Precedes(d, f, MaxSent + 1)'
  <2>1. f < MaxSent + 1
    BY <1>1
  <2>2. ASSUME NEW h, Mine(d, h)' PROVE ~ (f < h)
    BY <1>1, <2>2
  <2> QED
    BY <1>1, <2>1, <2>2 DEF Precedes
<1> QED
  BY <1>2, <1>3, <1>4

(* What was sent before stays as it was; the sums.                         *)
LEMMA SendingGrows ==
    ASSUME LInv, NEW d \in Device, NEW f, NEW m, NEW v, Sending(d, f, m, v)
    PROVE  /\ Grows(d)
           /\ \A g : Between(d, g, f)' = Between(d, g, MaxSent + 1)
           /\ \A g : Mine(d, g) => Between(d, g, MaxSent + 1)' = Between(d, g, MaxSent + 1) \cup {f}
           /\ Between(d, f, MaxSent + 1)' = {f}
           /\ Cardinality(hurt') \in Nat /\ Cardinality(hurt) \in Nat
           /\ Cardinality(hurt') = Cardinality(hurt) + (IF f \in hurt' THEN 1 ELSE 0)
<1>0. SInv /\ Served /\ hurt \subseteq DOMAIN sent
  BY DEF LInv
<1>1. /\ Mine(d, f)' /\ ~ Mine(d, f) /\ f \notin hurt
      /\ f \in Nat /\ 1 <= f /\ f <= MaxSent /\ MaxSent \in Nat
      /\ \A g : Mine(d, g)' <=> Mine(d, g) \/ g = f
      /\ \A g : Mine(d, g) => /\ g \in Nat /\ 1 <= g /\ g < f /\ g # f
                              /\ sent'[g] = sent[g]
                              /\ g \in hurt' <=> g \in hurt
  BY SendingMine
<1>2. \A g, h : Mine(d, h) => (Precedes(d, g, h)' <=> Precedes(d, g, h))
  BY SendingOrder
<1>3. /\ hurt' = hurt \/ hurt' = hurt \cup {f}
      /\ UNCHANGED <<protocal, exp, head, given>>
  BY DEF Sending
<1>4. \A g : (g \in From(d) <=> Mine(d, g)) /\ (g \in From(d)' <=> Mine(d, g)')
  BY DEF From, Mine
<1>5. /\ \A g, h, x : x \in Between(d, g, h) <=> Mine(d, x) /\ g <= x /\ x < h
      /\ \A g, h, x : x \in Between(d, g, h)' <=> Mine(d, x)' /\ g <= x /\ x < h
  BY <1>4 DEF Between
<1>6. ASSUME NEW g, NEW h, Mine(d, h) PROVE Between(d, g, h)' = Between(d, g, h)
  <2>1. h \in Nat /\ h < f
    BY <1>1, <1>6
  <2>2. ~ (f < h)
    BY <1>1, <2>1
  <2>3. \A x : x \in Between(d, g, h)' <=> x \in Between(d, g, h)
    BY <1>1, <1>5, <2>2
  <2> QED
    BY <2>3
<1>7. ASSUME NEW x, Mine(d, x) PROVE x < f /\ x < MaxSent + 1
  <2>1. x \in Nat /\ x < f
    BY <1>1, <1>7
  <2> QED
    BY <1>1, <2>1
<1>8. ASSUME NEW g PROVE Between(d, g, f)' = Between(d, g, MaxSent + 1)
  <2>1. ~ (f < f)
    BY <1>1
  <2>2. \A x : x \in Between(d, g, f)' <=> x \in Between(d, g, MaxSent + 1)
    BY <1>1, <1>5, <1>7, <2>1
  <2> QED
    BY <2>2
<1>9. ASSUME NEW g, Mine(d, g)
      PROVE  Between(d, g, MaxSent + 1)' = Between(d, g, MaxSent + 1) \cup {f}
  <2>1. g <= f /\ f < MaxSent + 1
    <3>1. g \in Nat /\ g < f
      BY <1>1, <1>9
    <3> QED
      BY <1>1, <3>1
  <2>2. \A x : x \in Between(d, g, MaxSent + 1)' <=> x \in Between(d, g, MaxSent + 1) \/ x = f
    BY <1>1, <1>5, <1>7, <2>1
  <2> QED
    BY <2>2
<1>10. Between(d, f, MaxSent + 1)' = {f}
  <2>1. f <= f /\ f < MaxSent + 1
    BY <1>1
  <2>2. ASSUME NEW x, Mine(d, x) PROVE ~ (f <= x)
    <3>1. x \in Nat /\ x < f
      BY <1>1, <2>2
    <3> QED
      BY <1>1, <3>1
  <2>3. \A x : x \in Between(d, f, MaxSent + 1)' <=> x = f
    BY <1>1, <1>5, <2>1, <2>2
  <2> QED
    BY <2>3
<1>11. /\ Cardinality(hurt') \in Nat /\ Cardinality(hurt) \in Nat
       /\ Cardinality(hurt') = Cardinality(hurt) + (IF f \in hurt' THEN 1 ELSE 0)
  <2>1. IsFiniteSet(hurt) /\ Cardinality(hurt) \in Nat
    BY <1>0, BetweenFacts
  <2>2. Cardinality(hurt \cup {f}) = Cardinality(hurt) + 1
    <3>1. Cardinality(hurt \cup {f}) = IF f \in hurt THEN Cardinality(hurt) ELSE Cardinality(hurt) + 1
      BY ONLY <2>1, FS_AddElement
    <3> QED
      BY <1>1, <3>1
  <2>3. CASE hurt' = hurt
    <3>1. f \notin hurt' /\ Cardinality(hurt') = Cardinality(hurt)
      BY <1>1, <2>3
    <3> QED
      BY <2>1, <3>1
  <2>4. CASE hurt' = hurt \cup {f}
    <3>1. f \in hurt' /\ Cardinality(hurt') = Cardinality(hurt) + 1
      BY <2>2, <2>4
    <3> QED
      BY <2>1, <3>1
  <2> QED
    BY <1>3, <2>3, <2>4
<1>12. Grows(d)
  <2>1. \A g : Given(d, g)' <=> Given(d, g)
    BY <1>3, GivenStays
  <2>2. Cardinality(hurt) <= Cardinality(hurt')
    BY <1>11
  <2> QED
    BY <1>1, <1>2, <1>3, <1>6, <1>11, <2>1, <2>2 DEF Grows
<1> QED
  BY <1>8, <1>9, <1>10, <1>11, <1>12

(* The sums over sentences sent before stay, and f adds its own length.    *)
Summing(d, f, m, q) ==
    \A g, h, B :
        B = Between(d, g, h) =>
            /\ Sum(sent, B) \in Nat /\ Sum(q, B) = Sum(sent, B)
            /\ Sum(q, B \cup {f}) = m + Sum(sent, B) /\ Sum(q, {f}) = m

LEMMA SendingSum ==
    ASSUME LInv, NEW d \in Device, NEW f, NEW m, NEW v, Sending(d, f, m, v), NEW q, q = sent'
    PROVE  Summing(d, f, m, q)
<1> SUFFICES ASSUME NEW g, NEW h, NEW B, B = Between(d, g, h)
             PROVE  /\ Sum(sent, B) \in Nat /\ Sum(q, B) = Sum(sent, B)
                    /\ Sum(q, B \cup {f}) = m + Sum(sent, B) /\ Sum(q, {f}) = m
  BY DEF Summing
<1>1. SInv /\ Served /\ hurt \subseteq DOMAIN sent
  BY DEF LInv
<1>2. Summed(sent, B) /\ B \subseteq DOMAIN sent
  BY <1>1, BetweenFacts
<1>3. /\ \A x \in DOMAIN sent : q[x] = sent[x]
      /\ Length[q[f].kind] = m /\ m \in Nat \ {0} /\ f = Len(sent) + 1
  BY DEF Sending
<1>4. f \notin DOMAIN sent
  <2>1. DOMAIN sent = 1 .. Len(sent) /\ Len(sent) \in Nat
    BY <1>1, SentFacts
  <2> QED
    BY <1>3, <2>1
<1>5. Sum(q, B) = Sum(sent, B)
  <2>1. Summed(sent, B) /\ \A x \in B : q[x] = sent[x]
    BY <1>2, <1>3
  <2> QED
    BY ONLY <2>1, SumSame
<1>6. Sum(sent, B) \in Nat
  BY <1>2, SumFacts
<1>7. Summed(q, B \cup {f}) /\ Summed(q, {f})
  <2>1. IsFiniteSet(B) /\ \A x \in B : Length[q[x].kind] \in Nat
    BY <1>2, <1>3 DEF Summed
  <2>2. IsFiniteSet(B \cup {f})
    BY <2>1, FS_AddElement
  <2>3. IsFiniteSet({f})
    BY FS_Singleton
  <2> QED
    BY <1>3, <2>1, <2>2, <2>3 DEF Summed
<1>8. Sum(q, B \cup {f}) = m + Sum(sent, B)
  <2>1. f \in B \cup {f} /\ (B \cup {f}) \ {f} = B
    BY <1>2, <1>4
  <2>2. Sum(q, B \cup {f}) = Length[q[f].kind] + Sum(q, (B \cup {f}) \ {f})
    BY <1>7, <2>1, SumFacts
  <2> QED
    BY <1>3, <1>5, <2>1, <2>2
<1>9. Sum(q, {f}) = m
  <2>1. f \in {f} /\ {f} \ {f} = {}
    OBVIOUS
  <2>2. Sum(q, {f}) = Length[q[f].kind] + Sum(q, {f} \ {f}) /\ Sum(q, {}) = 0
    BY <1>7, <2>1, SumFacts
  <2>3. Sum(q, {f} \ {f}) = 0
    BY <2>1, <2>2
  <2> QED
    BY <1>3, <2>2, <2>3
<1> QED
  BY <1>5, <1>6, <1>8, <1>9

(* Where the bytes are, n that were there and r new ones.                  *)
Places(d, f, m, v, w, n, u, r) ==
    /\ n \in Nat /\ r \in Nat /\ Len(w) = n /\ Len(u) = n + r /\ u \in Seq(Byte)
    /\ \A i \in 1 .. n : u[i] = w[i]
    /\ \A i \in 1 .. r : u[n + i] = v[i]
    /\ \A i \in 1 .. n : w[i] = Noise \/ (RealByte(d, w[i]) /\ Mine(d, w[i][1]))
    /\ \A i \in 1 .. r : v[i] = Noise \/ (v[i] = <<f, v[i][2]>> /\ v[i][2] \in 1 .. m)
    /\ \A i, j \in 1 .. r : i < j /\ v[i] # Noise /\ v[j] # Noise => v[i][2] < v[j][2]
    /\ \A i \in 1 .. r : v[i][2] = 1 => i = 1
    /\ m <= r + 1
    /\ f \notin hurt' => r = m /\ \A i \in 1 .. m : v[i] = <<f, i>>

(* The window after a send: the old one, and the new bytes behind it.      *)
LEMMA SendingPlaces ==
    ASSUME LInv, NEW d \in Device, NEW f, NEW m, NEW v, Sending(d, f, m, v),
           NEW w \in Seq(Byte), w = Window(d), Bytes(d, w), NEW n, n = Len(w),
           NEW u, u = Window(d)', NEW r, r = Len(v)
    PROVE  Places(d, f, m, v, w, n, u, r)
<1>1. SInv /\ Served
  BY DEF LInv
<1>2. /\ v \in Seq(Byte) /\ r \in Nat /\ m <= r + 1
      /\ \A i \in 1 .. r : v[i][2] = 1 => i = 1
      /\ \A i \in 1 .. r : v[i] = Noise \/ (v[i] = <<f, v[i][2]>> /\ v[i][2] \in 1 .. m)
      /\ \A i, j \in 1 .. r : i < j /\ v[i] # Noise /\ v[j] # Noise => v[i][2] < v[j][2]
  BY DEF Sending, Remains
<1>3. PICK h, s, t : h = Held(d) /\ s = Stream(d) /\ t = Stream(d)'
  OBVIOUS
<1>4. /\ f \notin hurt' => r = m /\ \A i \in 1 .. m : v[i] = <<f, i>>
      /\ Len(t) = Len(s) + r /\ t \in Seq(Byte)
      /\ \A i \in 1 .. Len(s) : t[i] = s[i]
      /\ \A i \in 1 .. r : t[Len(s) + i] = v[i]
      /\ UNCHANGED <<protocal, exp, head, given>>
  BY <1>3 DEF Sending
<1>5. u = h \o t
  <2>1. Held(d)' = h
    BY <1>3, <1>4 DEF Held
  <2> QED
    BY <1>3, <2>1 DEF Window
<1>6. /\ h \in Seq(Byte) /\ s \in Seq(Byte) /\ Len(h) \in Nat /\ Len(s) \in Nat
      /\ n = Len(h) + Len(s) /\ n \in Nat
      /\ \A i \in 1 .. Len(h) : w[i] = h[i]
      /\ \A i \in 1 .. Len(s) : w[Len(h) + i] = s[i]
  BY <1>1, <1>3, WindowFacts
<1>7. /\ u \in Seq(Byte) /\ Len(u) = Len(h) + Len(t)
      /\ \A i \in 1 .. Len(h) : u[i] = h[i]
      /\ \A i \in 1 .. Len(t) : u[Len(h) + i] = t[i]
  <2>1. h \in Seq(Byte) /\ t \in Seq(Byte)
    BY <1>4, <1>6
  <2>2. /\ h \o t \in Seq(Byte) /\ Len(h \o t) = Len(h) + Len(t)
        /\ \A i \in 1 .. Len(h) : (h \o t)[i] = h[i]
        /\ \A i \in 1 .. Len(t) : (h \o t)[Len(h) + i] = t[i]
    BY ONLY <2>1, Joins
  <2> QED
    BY <1>5, <2>2
<1>8. PICK a, b \in Nat : a = Len(h) /\ b = Len(s)
  BY <1>6
<1>9. n = a + b /\ Len(t) = b + r /\ Len(u) = n + r
  BY <1>2, <1>4, <1>6, <1>7, <1>8
<1>10. ASSUME NEW i \in 1 .. n PROVE u[i] = w[i]
  <2>1. CASE i \in 1 .. a
    BY <1>6, <1>7, <1>8, <2>1
  <2>2. CASE ~ (i \in 1 .. a)
    <3>1. i - a \in 1 .. b /\ i - a \in 1 .. b + r /\ a + (i - a) = i
      BY <1>2, <1>8, <1>9, <2>2
    <3>2. w[a + (i - a)] = s[i - a]
      BY <1>6, <1>8, <3>1
    <3>3. u[a + (i - a)] = t[i - a]
      BY <1>7, <1>8, <1>9, <3>1
    <3>4. t[i - a] = s[i - a]
      BY <1>4, <1>8, <3>1
    <3> QED
      BY <3>1, <3>2, <3>3, <3>4
  <2> QED
    BY <2>1, <2>2
<1>11. ASSUME NEW i \in 1 .. r PROVE u[n + i] = v[i]
  <2>1. b + i \in 1 .. b + r /\ a + (b + i) = n + i
    BY <1>2, <1>8, <1>9
  <2>2. u[a + (b + i)] = t[b + i]
    BY <1>7, <1>8, <1>9, <2>1
  <2>3. t[b + i] = v[i]
    BY <1>4, <1>8
  <2> QED
    BY <2>1, <2>2, <2>3
<1>12. \A i \in 1 .. n : w[i] = Noise \/ (RealByte(d, w[i]) /\ Mine(d, w[i][1]))
  BY <1>1, RealFacts DEF Bytes
<1> QED
  BY <1>2, <1>4, <1>6, <1>7, <1>9, <1>10, <1>11, <1>12 DEF Places

(* They are laid out as before: the new sentence joins the last one, and   *)
(* no more of its bytes are missing than it has damage.                    *)
LEMMA SendingLaid ==
    ASSUME LInv, NEW d \in Device, NEW f, NEW m, NEW v, Sending(d, f, m, v),
           NEW w, Laid(d, w), NEW n, NEW u, NEW r, Places(d, f, m, v, w, n, u, r)
    PROVE  Laid(d, u)'
<1>1. /\ n \in Nat /\ r \in Nat /\ Len(w) = n /\ Len(u) = n + r
      /\ \A i \in 1 .. n : u[i] = w[i]
      /\ \A i \in 1 .. r : u[n + i] = v[i]
  BY DEF Places
<1>2. /\ \A i \in 1 .. n : w[i] = Noise \/ (RealByte(d, w[i]) /\ Mine(d, w[i][1]))
      /\ \A i \in 1 .. r : v[i] = Noise \/ (v[i] = <<f, v[i][2]>> /\ v[i][2] \in 1 .. m)
      /\ \A i, j \in 1 .. r : i < j /\ v[i] # Noise /\ v[j] # Noise => v[i][2] < v[j][2]
      /\ \A i \in 1 .. r : v[i][2] = 1 => i = 1
      /\ m <= r + 1
      /\ f \notin hurt' => r = m /\ \A i \in 1 .. m : v[i] = <<f, i>>
  BY DEF Places
<1>3. /\ Mine(d, f)' /\ ~ Mine(d, f) /\ Size(f)' = m
      /\ f \in Nat /\ 1 <= f /\ f <= MaxSent /\ MaxSent \in Nat /\ m \in Nat \ {0}
      /\ \A g : Mine(d, g)' <=> Mine(d, g) \/ g = f
  BY SendingMine
<1>4. \A g : Mine(d, g) => /\ g \in Nat /\ 1 <= g /\ g < f /\ g # f
                           /\ Size(g)' = Size(g)
                           /\ g \in hurt' <=> g \in hurt
  BY SendingMine
<1>5. /\ \A g, h : Mine(d, h) => (Precedes(d, g, h)' <=> Precedes(d, g, h))
      /\ \A g : Precedes(d, g, MaxSent + 1) => Precedes(d, g, f)'
      /\ Precedes(d, f, MaxSent + 1)'
  BY SendingOrder
<1>6. /\ Bytes(d, w) /\ Ascending(w) /\ GoesOn(d, w) /\ GoesBack(d, w) /\ Joints(d, w)
      /\ Spaced(d, w)
  BY DEF Laid
<1>7. /\ Beyond' = Beyond /\ Noise[1] = 0 /\ Noise[2] = 0
      /\ Beyond = <<MaxSent + 1, 1>> /\ Beyond[1] = MaxSent + 1 /\ Beyond[2] = 1
  BY DEF Beyond, Noise
(* A byte is old, or of f, or behind the end. *)
<1>8. ASSUME NEW i \in 1 .. n + r, ~ (i \in 1 .. n)
      PROVE  i - n \in 1 .. r /\ u[i] = v[i - n] /\ n < i /\ i \in Nat
  <2>1. i - n \in 1 .. r /\ n + (i - n) = i /\ n < i /\ i \in Nat
    BY <1>1, <1>8
  <2> QED
    BY <1>1, <2>1
<1>9. ASSUME NEW i \in 1 .. n, w[i] # Noise
      PROVE  /\ RealByte(d, w[i]) /\ Mine(d, w[i][1]) /\ w[i][1] \in Nat /\ w[i][1] < f
             /\ u[i] = w[i]
  BY <1>1, <1>2, <1>4, <1>9
<1>10. ASSUME NEW i \in 1 .. n + r, ~ (i \in 1 .. n), u[i] # Noise
       PROVE  u[i] = <<f, u[i][2]>> /\ u[i][1] = f /\ u[i][2] \in 1 .. m
  <2>1. i - n \in 1 .. r /\ u[i] = v[i - n]
    BY <1>8, <1>10
  <2>2. PICK b : b = u[i]
    OBVIOUS
  <2>3. b = <<f, b[2]>> /\ b[2] \in 1 .. m
    BY <1>2, <1>10, <2>1, <2>2
  <2>4. b[1] = f
    BY <2>3
  <2> QED
    BY <2>2, <2>3, <2>4
<1>11. Bytes(d, u)'
  <2> SUFFICES ASSUME NEW i \in 1 .. n + r, u[i] # Noise PROVE RealByte(d, u[i])'
    BY <1>1 DEF Bytes, Noise
  <2>b. PICK b : b = u[i]
    OBVIOUS
  <2>1. CASE i \in 1 .. n
    <3>1. u[i] = w[i]
      BY <1>1, <2>1
    <3>2. RealByte(d, b)
      BY <1>9, <2>b, <2>1, <3>1
    <3>3. RealByte(d, b)'
      BY <1>3, <1>4, <3>2 DEF RealByte
    <3> QED
      BY <2>b, <3>3 DEF RealByte, Mine, Size
  <2>2. CASE ~ (i \in 1 .. n)
    <3>1. b = <<f, b[2]>> /\ b[1] = f /\ b[2] \in 1 .. m
      BY <1>10, <2>b, <2>2
    <3>2. RealByte(d, b)'
      BY <1>3, <3>1 DEF RealByte
    <3> QED
      BY <2>b, <3>2 DEF RealByte, Mine, Size
  <2> QED
    BY <2>1, <2>2
<1>12. Ascending(u)'
  <2> SUFFICES ASSUME NEW i \in 1 .. n + r, NEW j \in 1 .. n + r, i < j,
                      u[i] # Noise, u[j] # Noise
               PROVE  Before(u[i], u[j])
    BY <1>1 DEF Ascending, Before, Noise
  <2>1. CASE j \in 1 .. n
    <3>1. i \in 1 .. n
      BY <1>1, <2>1
    <3>2. u[i] = w[i] /\ u[j] = w[j]
      BY <1>1, <2>1, <3>1
    <3> QED
      BY <1>1, <1>6, <2>1, <3>1, <3>2 DEF Ascending
  <2>2. CASE i \in 1 .. n /\ ~ (j \in 1 .. n)
    <3>1. u[j][1] = f
      BY <1>10, <2>2
    <3>2. u[i] = w[i] /\ w[i][1] < f
      <4>1. u[i] = w[i]
        BY <1>1, <2>2
      <4> QED
        BY <1>9, <2>2, <4>1
    <3> QED
      BY <3>1, <3>2 DEF Before
  <2>3. CASE ~ (i \in 1 .. n) /\ ~ (j \in 1 .. n)
    <3>1. i - n \in 1 .. r /\ u[i] = v[i - n] /\ j - n \in 1 .. r /\ u[j] = v[j - n]
      BY <1>8, <2>3
    <3>2. i - n < j - n
      BY <1>1
    <3>3. v[i - n][2] < v[j - n][2]
      BY <1>2, <3>1, <3>2
    <3>4. u[i][1] = f /\ u[j][1] = f
      BY <1>10, <2>3
    <3> QED
      BY <3>1, <3>3, <3>4 DEF Before
  <2> QED
    BY <2>1, <2>2, <2>3
<1>13. ASSUME f \notin hurt', NEW i \in 1 .. n + r, ~ (i \in 1 .. n)
       PROVE  u[i] = <<f, i - n>> /\ r = m
  <2>1. i - n \in 1 .. r /\ u[i] = v[i - n]
    BY <1>8, <1>13
  <2> QED
    BY <1>2, <1>13, <2>1
<1>14. GoesOn(d, u)'
  <2> SUFFICES ASSUME NEW i \in 1 .. n + r, Intact(d, u[i][1])', (u[i][2] < Size(u[i][1]))'
               PROVE  i < n + r /\ u[i + 1] = <<u[i][1], u[i][2] + 1>>
    BY <1>1 DEF GoesOn
  <2>b. PICK b, g : b = u[i] /\ g = b[1]
    OBVIOUS
  <2>1. Mine(d, g)' /\ g \notin hurt' /\ b[2] < Size(g)'
    BY <2>b DEF Intact, Mine, Size
  <2>2. g # 0 /\ b # Noise
    BY <1>3, <1>4, <1>7, <2>b, <2>1
  <2>3. CASE i \in 1 .. n
    <3>1. b = w[i] /\ Mine(d, g)
      BY <1>1, <1>9, <2>b, <2>2, <2>3
    <3>2. Intact(d, g) /\ b[2] < Size(g)
      BY <1>4, <2>1, <3>1 DEF Intact
    <3>3. i < n /\ w[i + 1] = <<g, b[2] + 1>>
      BY <1>1, <1>6, <2>b, <2>3, <3>1, <3>2 DEF GoesOn
    <3>4. i + 1 \in 1 .. n /\ i < n + r
      BY <1>1, <2>3, <3>3
    <3> QED
      BY <1>1, <2>b, <3>3, <3>4
  <2>4. CASE ~ (i \in 1 .. n)
    <3>1. g = f
      BY <1>10, <2>b, <2>2, <2>4
    <3>2. b = <<f, i - n>> /\ r = m
      BY <1>13, <2>b, <2>1, <2>4, <3>1
    <3>3. i - n < m /\ i - n \in Int
      BY <1>1, <1>3, <2>1, <3>1, <3>2
    <3>4. i < n + r /\ i + 1 \in 1 .. n + r /\ ~ (i + 1 \in 1 .. n) /\ (i + 1) - n = (i - n) + 1
      BY <1>1, <2>4, <3>2, <3>3
    <3>5. u[i + 1] = <<f, (i + 1) - n>>
      BY <1>13, <2>1, <3>1, <3>4
    <3> QED
      BY <2>b, <3>1, <3>2, <3>4, <3>5
  <2> QED
    BY <2>3, <2>4
<1>15. GoesBack(d, u)'
  <2> SUFFICES ASSUME NEW i \in 2 .. n + r, Intact(d, u[i][1])', 1 < u[i][2]
               PROVE  u[i - 1] = <<u[i][1], u[i][2] - 1>>
    BY <1>1 DEF GoesBack
  <2>b. PICK b, g : b = u[i] /\ g = b[1]
    OBVIOUS
  <2>1. Mine(d, g)' /\ g \notin hurt' /\ 1 < b[2] /\ i \in 1 .. n + r
    BY <2>b DEF Intact, Mine
  <2>2. b # Noise
    BY <1>7, <2>1
  <2>3. CASE i \in 1 .. n
    <3>1. b = w[i] /\ Mine(d, g)
      BY <1>1, <1>9, <2>b, <2>2, <2>3
    <3>4. i \in 2 .. n + r
      OBVIOUS
    <3>5. i \in 2 .. n /\ i - 1 \in 1 .. n
      BY <1>1, <2>3, <3>4
    <3>6. Intact(d, g)
      BY <1>4, <2>1, <3>1 DEF Intact
    <3>2. Intact(d, g) /\ i \in 2 .. n /\ i - 1 \in 1 .. n
      BY <3>5, <3>6
    <3>3. w[i - 1] = <<g, b[2] - 1>>
      BY <1>1, <1>6, <2>b, <2>1, <3>1, <3>2 DEF GoesBack
    <3> QED
      BY <1>1, <2>b, <3>2, <3>3
  <2>4. CASE ~ (i \in 1 .. n)
    <3>1. g = f
      BY <1>10, <2>b, <2>1, <2>2, <2>4
    <3>2. b = <<f, i - n>>
      BY <1>13, <2>b, <2>1, <2>4, <3>1
    <3>3. b[2] = i - n
      BY <3>2
    <3>4. i - 1 \in 1 .. n + r /\ ~ (i - 1 \in 1 .. n) /\ (i - 1) - n = (i - n) - 1
      BY <1>1, <2>1, <3>3
    <3>5. u[i - 1] = <<f, (i - 1) - n>>
      BY <1>13, <2>1, <3>1, <3>4
    <3> QED
      BY <2>b, <3>1, <3>3, <3>4, <3>5
  <2> QED
    BY <2>3, <2>4
(* The places, with the one behind the end. *)
<1>16. ASSUME NEW i \in 1 .. n PROVE P(u, i)' = w[i] /\ P(w, i) = w[i] /\ P(u, i) = P(u, i)'
  <2>1. i <= n + r /\ i <= n
    BY <1>1
  <2> QED
    BY <1>1, <1>7, <2>1 DEF P
<1>17. ASSUME NEW i \in 1 .. n + r, ~ (i \in 1 .. n)
       PROVE  P(u, i)' = u[i] /\ u[i] = v[i - n] /\ i - n \in 1 .. r
  <2>1. i <= n + r
    OBVIOUS
  <2> QED
    BY <1>1, <1>8, <1>17, <2>1 DEF P
<1>18. P(u, n + r + 1)' = Beyond /\ P(w, n + 1) = Beyond
  BY <1>1, <1>7 DEF P
<1>19. Joints(d, u)'
  <2> SUFFICES ASSUME NEW i \in 1 .. n + r, NEW g, Sound(d, g)', P(u, i + 1)' = <<g, 1>>
               PROVE  Joined(d, g, u[i])'
    BY <1>1 DEF Joints
  <2>0. g = MaxSent + 1 \/ (Mine(d, g)' /\ g \notin hurt')
    BY DEF Sound, Intact
  <2>1. g # 0 /\ g \in Nat /\ <<g, 1>> # Noise
    BY <1>3, <1>4, <2>0 DEF Noise
  <2>2. CASE i \in 1 .. n /\ i # n
    <3>1. i + 1 \in 1 .. n /\ i \in 1 .. n
      BY <1>1, <2>2
    <3>2. u[i] = w[i] /\ w[i + 1] = <<g, 1>> /\ P(w, i + 1) = <<g, 1>>
      BY <1>1, <1>16, <3>1
    <3>3. Mine(d, g)
      BY <1>9, <2>1, <3>1, <3>2
    <3>4. Sound(d, g)
      BY <1>3, <1>4, <2>0, <3>3 DEF Sound, Intact
    <3>5. Joined(d, g, w[i])
      BY <1>1, <1>6, <3>1, <3>2, <3>4 DEF Joints
    <3>6. PICK h : Precedes(d, h, g) /\ (h \in hurt \/ w[i] = <<h, Size(h)>>)
      BY <3>5 DEF Joined
    <3>7. Mine(d, h) /\ Precedes(d, h, g)'
      BY <1>5, <3>3, <3>6 DEF Precedes
    <3>8. (h \in hurt \/ u[i] = <<h, Size(h)>>)'
      BY <1>4, <3>2, <3>6, <3>7
    <3> QED
      BY <3>7, <3>8 DEF Joined
  <2>3. CASE i = n
    <3>1. i \in 1 .. n /\ u[i] = w[i] /\ P(w, i + 1) = <<MaxSent + 1, 1>>
      BY <1>1, <1>7, <1>18, <2>3
    <3>2. CASE r = 0
      <4>1. P(u, i + 1)' = Beyond
        <5>1. i + 1 = n + r + 1
          BY <1>1, <2>3, <3>2
        <5> QED
          BY <1>18, <5>1
      <4>2. g = MaxSent + 1
        BY <1>7, <4>1
      <4>3. f \in hurt'
        BY <1>2, <1>3, <3>2
      <4> QED
        BY <1>5, <4>2, <4>3 DEF Joined
    <3>3. CASE r # 0
      <4>1. i + 1 \in 1 .. n + r /\ ~ (i + 1 \in 1 .. n)
        BY <1>1, <2>3, <3>3
      <4>2. u[i + 1] = <<g, 1>>
        BY <1>17, <4>1
      <4>3. g = f
        BY <1>10, <2>1, <4>1, <4>2
      <4>4. Joined(d, MaxSent + 1, w[i])
        <5>1. Sound(d, MaxSent + 1)
          BY DEF Sound
        <5> QED
          BY <1>1, <1>6, <3>1, <5>1 DEF Joints
      <4>5. PICK h : Precedes(d, h, MaxSent + 1) /\ (h \in hurt \/ w[i] = <<h, Size(h)>>)
        BY <4>4 DEF Joined
      <4>6. Mine(d, h) /\ Precedes(d, h, f)'
        BY <1>5, <4>5 DEF Precedes
      <4>7. (h \in hurt \/ u[i] = <<h, Size(h)>>)'
        BY <1>4, <3>1, <4>5, <4>6
      <4> QED
        BY <4>3, <4>6, <4>7 DEF Joined
    <3> QED
      BY <3>2, <3>3
  <2>4. CASE ~ (i \in 1 .. n)
    <3>1. n < i /\ i \in Nat
      BY <1>8, <2>4
    <3>2. CASE i # n + r
      <4>1. i + 1 \in 1 .. n + r /\ ~ (i + 1 \in 1 .. n)
        BY <1>1, <3>1, <3>2
      <4>2. u[i + 1] = v[(i + 1) - n] /\ u[i + 1] = <<g, 1>> /\ (i + 1) - n \in 1 .. r
        BY <1>17, <4>1
      <4>3. v[(i + 1) - n][2] = 1
        BY <4>2
      <4>4. (i + 1) - n = 1
        BY <1>2, <4>2, <4>3
      <4> QED
        BY <1>1, <3>1, <4>4
    <3>3. CASE i = n + r
      <4>1. P(u, i + 1)' = Beyond
        BY <1>18, <3>3
      <4>2. g = MaxSent + 1
        BY <1>7, <4>1
      <4>3. f \in hurt' \/ u[i] = <<f, Size(f)'>>
        <5>1. ASSUME f \notin hurt' PROVE u[i] = <<f, Size(f)'>>
          <6>1. u[i] = <<f, i - n>> /\ r = m
            BY <1>13, <2>4, <5>1
          <6>2. i - n = m
            BY <1>1, <3>3, <6>1
          <6> QED
            BY <1>3, <6>1, <6>2
        <5> QED
          BY <5>1
      <4> QED
        BY <1>5, <4>2, <4>3 DEF Joined
    <3> QED
      BY <3>2, <3>3
  <2> QED
    BY <2>2, <2>3, <2>4
<1>20. /\ \A g, h : Mine(d, h) => Between(d, g, h)' = Between(d, g, h)
       /\ \A g : Between(d, g, f)' = Between(d, g, MaxSent + 1)
       /\ \A g : Mine(d, g) => Between(d, g, MaxSent + 1)' = Between(d, g, MaxSent + 1) \cup {f}
       /\ Between(d, f, MaxSent + 1)' = {f}
       /\ Cardinality(hurt') \in Nat /\ Cardinality(hurt) \in Nat
       /\ Cardinality(hurt') = Cardinality(hurt) + (IF f \in hurt' THEN 1 ELSE 0)
  BY SendingGrows DEF Grows
<1>21. PICK q, x, y : q = sent' /\ x = Cardinality(hurt) /\ y = Cardinality(hurt')
  OBVIOUS
<1>22. x \in Nat /\ y \in Nat /\ x <= y /\ (f \in hurt' => y = x + 1)
  BY <1>20, <1>21
<1>23. ASSUME NEW g, NEW h, NEW B, B = Between(d, g, h)
       PROVE  /\ Sum(sent, B) \in Nat /\ Sum(q, B) = Sum(sent, B)
              /\ Sum(q, B \cup {f}) = m + Sum(sent, B) /\ Sum(q, {f}) = m
  <2>1. Summing(d, f, m, q)
    BY <1>21, SendingSum
  <2>2. B = Between(d, g, h)
    BY <1>23
  <2> QED
    BY ONLY <2>1, <2>2 DEF Summing
<1>24. ASSUME NEW i \in 1 .. n + 1, NEW k \in 1 .. n + 1, NEW g, NEW h, i < k,
              P(w, i) = <<g, 1>>, P(w, k) = <<h, 1>>
       PROVE  Sum(sent, Between(d, g, h)) <= (k - i) + x
  BY <1>1, <1>6, <1>21, <1>24 DEF Spaced
<1>25. Spaced(d, u)'
  <2> SUFFICES ASSUME NEW i \in 1 .. (n + r) + 1, NEW k \in 1 .. (n + r) + 1, NEW g, NEW h, i < k,
                      P(u, i)' = <<g, 1>>, P(u, k)' = <<h, 1>>
               PROVE  Sum(q, Between(d, g, h)') <= (k - i) + y
    BY <1>1, <1>21 DEF Spaced
  <2>a. i \in Nat /\ k \in Nat /\ i \in 1 .. n + r /\ i + 1 <= k
    BY <1>1
  <2>1. CASE k \in 1 .. n
    <3>1. i \in 1 .. n /\ i \in 1 .. n + 1 /\ k \in 1 .. n + 1
      BY <1>1, <2>1
    <3>2. P(w, i) = <<g, 1>> /\ P(w, k) = <<h, 1>> /\ w[k] = <<h, 1>>
      BY <1>16, <2>1, <3>1
    <3>3. Mine(d, h)
      <4>1. w[k] # Noise
        BY <3>2 DEF Noise
      <4>2. Mine(d, w[k][1])
        BY <1>9, <2>1, <4>1
      <4> QED
        BY <3>2, <4>2
    <3>4. PICK B : B = Between(d, g, h)
      OBVIOUS
    <3>5. Between(d, g, h)' = B /\ Sum(sent, B) <= (k - i) + x
      BY <1>20, <1>24, <3>1, <3>2, <3>3, <3>4
    <3>6. Sum(sent, B) \in Nat /\ Sum(q, B) = Sum(sent, B)
      BY <1>23, <3>4
    <3>7. Sum(q, B) <= (k - i) + y
      BY <1>22, <2>a, <3>5, <3>6
    <3> QED
      BY <3>5, <3>7
  <2>2. CASE ~ (k \in 1 .. n) /\ i \in 1 .. n
    <3>1. i \in 1 .. n + 1 /\ n + 1 \in 1 .. n + 1 /\ i < n + 1 /\ n + 1 <= k
      BY <1>1, <2>a, <2>2
    <3>2. P(w, i) = <<g, 1>> /\ P(w, n + 1) = <<MaxSent + 1, 1>> /\ w[i] = <<g, 1>>
      BY <1>7, <1>16, <1>18, <2>2
    <3>3. Mine(d, g)
      <4>1. w[i] # Noise
        BY <3>2 DEF Noise
      <4>2. Mine(d, w[i][1])
        BY <1>9, <2>2, <4>1
      <4> QED
        BY <3>2, <4>2
    <3>4. PICK B : B = Between(d, g, MaxSent + 1)
      OBVIOUS
    <3>5. Sum(sent, B) <= ((n + 1) - i) + x
      BY <1>24, <3>1, <3>2, <3>4
    <3>6. /\ Sum(sent, B) \in Nat /\ Sum(q, B) = Sum(sent, B)
          /\ Sum(q, B \cup {f}) = m + Sum(sent, B)
      BY <1>23, <3>4
    <3>7. CASE k \in 1 .. n + r
      <4>1. u[k] = <<h, 1>>
        BY <1>17, <2>2, <3>7
      <4>2. h = f
        <5>1. u[k] # Noise
          BY <4>1 DEF Noise
        <5>2. u[k][1] = f
          BY <1>10, <2>2, <3>7, <5>1
        <5> QED
          BY <4>1, <5>2
      <4>3. Between(d, g, h)' = B
        BY <1>20, <3>4, <4>2
      <4>4. Sum(q, B) <= (k - i) + y
        BY <1>1, <1>22, <2>a, <3>1, <3>5, <3>6
      <4> QED
        BY <4>3, <4>4
    <3>8. CASE k = (n + r) + 1
      <4>1. h = MaxSent + 1
        BY <1>7, <1>18, <3>8
      <4>2. Between(d, g, h)' = B \cup {f}
        BY <1>20, <3>3, <3>4, <4>1
      <4>3. m + x <= r + y
        <5>1. CASE f \in hurt'
          BY <1>1, <1>2, <1>3, <1>22, <5>1
        <5>2. CASE f \notin hurt'
          BY <1>1, <1>2, <1>3, <1>22, <5>2
        <5> QED
          BY <5>1, <5>2
      <4>4. PICK z \in Nat : z = Sum(sent, B)
        BY <3>6
      <4>5. m + z <= (k - i) + y
        <5>1. z <= ((n + 1) - i) + x
          BY <3>5, <4>4
        <5>2. i \in Nat /\ n \in Nat /\ r \in Nat /\ m \in Nat
          BY <1>1, <1>3, <2>2
        <5>3. x \in Nat /\ y \in Nat
          BY <1>22
        <5> QED
          BY <3>8, <4>3, <4>4, <5>1, <5>2, <5>3
      <4> QED
        BY <3>6, <4>2, <4>4, <4>5
    <3> QED
      BY <1>1, <3>7, <3>8
  <2>3. CASE ~ (i \in 1 .. n)
    <3>1. u[i] = <<g, 1>> /\ u[i] = v[i - n] /\ i - n \in 1 .. r
      BY <1>17, <2>a, <2>3
    <3>2. v[i - n][2] = 1
      BY <3>1
    <3>3. i - n = 1
      BY <1>2, <3>1, <3>2
    <3>4. g = f
      <4>1. u[i] # Noise
        BY <3>1 DEF Noise
      <4>2. u[i][1] = f
        BY <1>10, <2>a, <2>3, <4>1
      <4> QED
        BY <3>1, <4>2
    <3>5. CASE k \in 1 .. n + r
      <4>1. ~ (k \in 1 .. n)
        BY <1>1, <2>a, <2>3
      <4>2. u[k] = <<h, 1>> /\ u[k] = v[k - n] /\ k - n \in 1 .. r
        BY <1>17, <3>5, <4>1
      <4>3. v[k - n][2] = 1
        BY <4>2
      <4>4. k - n = 1
        BY <1>2, <4>2, <4>3
      <4> QED
        BY <1>1, <2>a, <3>3, <4>4
    <3>6. CASE k = (n + r) + 1
      <4>1. h = MaxSent + 1
        BY <1>7, <1>18, <3>6
      <4>2. Between(d, g, h)' = {f}
        BY <1>20, <3>4, <4>1
      <4>3. Sum(q, {f}) = m
        <5>1. PICK B : B = Between(d, g, h)
          OBVIOUS
        <5> QED
          BY <1>23, <5>1
      <4>4. m <= r + y
        <5>1. CASE f \in hurt'
          BY <1>1, <1>2, <1>3, <1>22, <5>1
        <5>2. CASE f \notin hurt'
          BY <1>1, <1>2, <1>3, <1>22, <5>2
        <5> QED
          BY <5>1, <5>2
      <4>5. m <= (k - i) + y
        BY <1>1, <1>3, <1>22, <2>a, <3>3, <3>6, <4>4
      <4> QED
        BY <4>2, <4>3, <4>5
    <3> QED
      BY <1>1, <3>5, <3>6
  <2> QED
    BY <2>1, <2>2, <2>3
<1> QED
  BY <1>11, <1>12, <1>14, <1>15, <1>19, <1>25 DEF Laid

(* What the search has given, and holds, and where the sentences are that  *)
(* it has not given: with f behind them, as before.                        *)
LEMMA SendingOK ==
    ASSUME LInv, SInv', NEW d \in Device, NEW f, NEW m, NEW v, Sending(d, f, m, v)
    PROVE  DevOK(d)'
<1>1. SInv /\ SInv' /\ Served /\ hurt \subseteq DOMAIN sent /\ DevOK(d)
  BY DEF LInv
<1>2. PICK w \in Seq(Byte), n \in Nat : w = Window(d) /\ n = Len(Held(d)) /\ InOrder(d, w, n)
  BY <1>1 DEF DevOK
<1>3. PICK u, l, r : u = Window(d)' /\ l = Len(w) /\ r = Len(v)
  OBVIOUS
<1>4. /\ Laid(d, w) /\ GivenPast(d, w) /\ FrameOK(d, w, n) /\ Bytes(d, w)
      /\ \A g : Intact(d, g) => Where(d, g, w, n)
  BY <1>2 DEF InOrder, Laid
<1>5. Places(d, f, m, v, w, l, u, r)
  BY <1>2, <1>3, <1>4, SendingPlaces
<1>6. /\ l \in Nat /\ r \in Nat /\ Len(u) = l + r /\ u \in Seq(Byte)
      /\ \A i \in 1 .. l : u[i] = w[i]
      /\ \A i \in 1 .. r : u[l + i] = v[i]
      /\ \A i \in 1 .. r : v[i] = Noise \/ v[i] = <<f, v[i][2]>>
      /\ f \notin hurt' => r = m /\ \A i \in 1 .. m : v[i] = <<f, i>>
  BY <1>5 DEF Places
<1>7. Laid(d, u)'
  BY <1>4, <1>5, SendingLaid
<1>8. /\ Mine(d, f)' /\ f \in Nat /\ m \in Nat \ {0}
      /\ \A g : Mine(d, g)' <=> Mine(d, g) \/ g = f
      /\ \A g : Mine(d, g) => g \in Nat /\ g < f /\ (g \in hurt' <=> g \in hurt)
  BY SendingMine
<1>9. Grows(d)
  BY SendingGrows
<1>10. /\ \A g : Given(d, g)' <=> Given(d, g)
       /\ UNCHANGED <<protocal, exp, head, given>>
  BY <1>9 DEF Grows, Sending
<1>11. Held(d)' = Held(d) /\ n = Len(Held(d))' /\ (InFrame(d)' <=> InFrame(d))
  BY <1>2, <1>10 DEF Held, InFrame
<1>12. n <= l
  <2>1. Len(Held(d)) \in Nat /\ Len(Stream(d)) \in Nat /\ Len(Window(d)) = Len(Held(d)) + Len(Stream(d))
    BY <1>1, WindowFacts
  <2> QED
    BY <1>2, <1>3, <2>1
(* A byte is old, or of f. *)
<1>13. ASSUME NEW i \in 1 .. l + r PROVE i \in 1 .. l \/ u[i] = Noise \/ u[i][1] = f
  <2>1. CASE ~ (i \in 1 .. l)
    <3>1. i - l \in 1 .. r /\ l + (i - l) = i
      BY <1>6, <2>1
    <3>2. PICK b, j : b = u[i] /\ j = i - l
      OBVIOUS
    <3>5. j \in 1 .. r /\ b = v[j]
      BY <1>6, <3>1, <3>2
    <3>3. b = Noise \/ b = <<f, b[2]>>
      BY <1>6, <3>5
    <3>4. b = Noise \/ b[1] = f
      BY <3>3
    <3> QED
      BY <3>2, <3>4
  <2> QED
    BY <2>1
<1>14. GivenPast(d, u)'
  <2> SUFFICES ASSUME NEW g, Given(d, g)' PROVE Mine(d, g)' /\ Past(u, g)'
    BY DEF GivenPast
  <2>1. Mine(d, g) /\ Past(w, g) /\ Mine(d, g)' /\ g \in Nat /\ f > g
    <3>1. Given(d, g)
      BY <1>10
    <3>2. Mine(d, g) /\ Past(w, g)
      BY <1>4, <3>1 DEF GivenPast
    <3>3. g \in Nat /\ g < f /\ Mine(d, g)'
      BY <1>8, <3>2
    <3> QED
      BY <1>8, <3>2, <3>3
  <2>2. ASSUME NEW i \in 1 .. l + r PROVE u[i] = Noise \/ u[i][1] > g
    <3>1. CASE i \in 1 .. l
      <4>1. u[i] = w[i]
        BY <1>6, <3>1
      <4>2. w[i] = Noise \/ w[i][1] > g
        BY <1>3, <2>1, <3>1 DEF Past
      <4> QED
        BY <4>1, <4>2
    <3> QED
      BY <1>13, <2>1, <3>1
  <2>3. Noise' = Noise
    BY DEF Noise
  <2>4. Past(u, g)'
    BY <1>6, <2>2, <2>3 DEF Past
  <2> QED
    BY <2>1, <2>4
<1>15. FrameOK(d, u, n)'
  <2>1. \A i \in 1 .. n : u[i] = w[i]
    BY <1>6, <1>12
  <2>2. Len(w) \in Nat /\ n <= Len(w)
    BY <1>3, <1>6, <1>12
  <2> QED
    BY <1>1, <1>2, <1>4, <1>9, <2>1, <2>2, FrameStays
<1>16. ASSUME NEW g, Mine(d, g), Behind(d, g) PROVE Behind(d, g)'
  <2>1. PICK s, t : s = Stream(d) /\ t = Stream(d)'
    OBVIOUS
  <2>2. /\ Len(t) = Len(s) + r
        /\ \A i \in 1 .. Len(s) : t[i] = s[i]
        /\ \A i \in 1 .. r : t[Len(s) + i] = v[i]
    BY <1>3, <2>1 DEF Sending
  <2>3. PICK k \in Nat : k = Len(s)
    <3>1. Len(Stream(d)) \in Nat
      BY <1>1, WindowFacts
    <3> QED
      BY <2>1, <3>1
  <2>4. f >= g
    BY <1>8, <1>16
  <2>5. ASSUME NEW i \in 1 .. k + r PROVE t[i] = Noise \/ t[i][1] >= g
    <3>1. CASE i \in 1 .. k
      <4>1. t[i] = s[i]
        BY <2>2, <2>3, <3>1
      <4>2. s[i] = Noise \/ s[i][1] >= g
        BY <1>16, <2>1, <2>3, <3>1 DEF Behind
      <4> QED
        BY <4>1, <4>2
    <3>2. CASE ~ (i \in 1 .. k)
      <4>1. i - k \in 1 .. r /\ k + (i - k) = i
        BY <1>6, <2>3, <3>2
      <4>2. PICK b, j : b = t[i] /\ j = i - k
        OBVIOUS
      <4>5. j \in 1 .. r /\ b = v[j]
        BY <2>2, <2>3, <4>1, <4>2
      <4>3. b = Noise \/ b = <<f, b[2]>>
        BY <1>6, <4>5
      <4>4. b = Noise \/ b[1] = f
        BY <4>3
      <4> QED
        BY <2>4, <4>2, <4>4
    <3> QED
      BY <3>1, <3>2
  <2>6. Noise' = Noise
    BY DEF Noise
  <2> QED
    BY <2>1, <2>2, <2>3, <2>5, <2>6 DEF Behind
<1>17. ASSUME NEW g, Intact(d, g)' PROVE Where(d, g, u, n)'
  <2>1. (Mine(d, g) \/ g = f) /\ g \notin hurt'
    BY <1>8, <1>17 DEF Intact
  <2>2. CASE Mine(d, g)
    <3>1. Where(d, g, w, n)
      BY <1>4, <1>8, <2>1, <2>2 DEF Intact
    <3>2. \A i \in 1 .. Len(w) : i \in 1 .. Len(u) /\ u[i] = w[i]
      BY <1>3, <1>6
    <3> QED
      BY <1>1, <1>9, <1>16, <2>2, <3>1, <3>2, WhereStays
  <2>3. CASE g = f
    <3>1. r = m /\ v[1] = <<f, 1>> /\ 1 \in 1 .. r /\ l + 1 \in 1 .. l + r /\ n < l + 1
      BY <1>6, <1>8, <1>12, <2>1, <2>3
    <3>2. u[l + 1] = <<f, 1>>
      BY <1>6, <3>1
    <3>3. Ahead(d, g, u, n)'
      BY <1>6, <2>3, <3>1, <3>2 DEF Ahead
    <3> QED
      BY <3>3 DEF Where
  <2> QED
    BY <2>1, <2>2, <2>3
<1>18. InOrder(d, u, n)'
  BY <1>7, <1>14, <1>15, <1>17 DEF InOrder
<1>19. Seq(Byte)' = Seq(Byte)
  BY DEF Byte
<1> QED
  BY <1>2, <1>3, <1>6, <1>11, <1>18, <1>19 DEF DevOK

(* A send keeps its device in order, and touches no other.                 *)
LEMMA SendInStep ==
    ASSUME LInv, NEW d \in Device, NEW k \in AllKinds, Send(d, k)
    PROVE  LInv'
<1>1. SInv /\ SInv' /\ Lonely /\ Served /\ hurt \subseteq DOMAIN sent
  BY SendStep DEF LInv
<1>2. PICK f, m, v : /\ Sending(d, f, m, v) /\ sent'[f].kind \in Kinds[protocal[d]]
                     /\ \A c \in Device : c # d => Stream(c)' = Stream(c)
  BY <1>1, SendIs
<1>3. /\ DOMAIN sent' = 1 .. f /\ sent'[f].dev = d /\ f = Len(sent) + 1
      /\ \A g \in DOMAIN sent : sent'[g] = sent[g]
      /\ hurt' = hurt \/ hurt' = hurt \cup {f}
      /\ UNCHANGED <<protocal, exp, head, given>>
  BY <1>2 DEF Sending
<1>4. DOMAIN sent = 1 .. Len(sent) /\ Len(sent) \in Nat
  BY <1>1, SentFacts
<1>5. /\ \A g : g \in DOMAIN sent' <=> g \in DOMAIN sent \/ g = f
      /\ f \notin DOMAIN sent
  BY <1>3, <1>4
<1>6. DevOK(d)'
  BY <1>1, <1>2, SendingOK
<1>7. ASSUME NEW c \in Device, c # d PROVE DevOK(c)'
  <2>1. \A g : Mine(c, g)' <=> Mine(c, g)
    BY <1>3, <1>5, <1>7 DEF Mine
  <2>2. \A g : Mine(c, g) => /\ Mine(c, g)' /\ sent'[g] = sent[g] /\ (g \in hurt' <=> g \in hurt)
    BY <1>3, <1>5, <2>1 DEF Mine
  <2>3. \A g : Given(c, g)' <=> Given(c, g)
    BY <1>3, GivenStays
  <2>4. Stream(c)' = Stream(c)
    BY <1>2, <1>7
  <2>5. \A g, h : Precedes(c, g, h)' <=> Precedes(c, g, h)
    BY <2>1 DEF Precedes
  <2>6. \A g, h : Between(c, g, h)' = Between(c, g, h)
    <3>1. \A g : g \in From(c)' <=> g \in From(c)
      BY <2>1 DEF From, Mine
    <3>2. From(c)' = From(c)
      BY <3>1
    <3> QED
      BY <3>2 DEF Between
  <2>7. /\ Cardinality(hurt') \in Nat /\ Cardinality(hurt) \in Nat
        /\ Cardinality(hurt') = Cardinality(hurt) + (IF f \in hurt' THEN 1 ELSE 0)
    BY <1>2, SendingGrows
  <2>8. Cardinality(hurt) <= Cardinality(hurt')
    BY <2>7
  <2>9. exp'[c] = exp[c] /\ head'[protocal[c]] = head[protocal[c]] /\ protocal' = protocal
    BY <1>3
  <2>10. Grows(c)
    BY <2>2, <2>3, <2>5, <2>6, <2>7, <2>8, <2>9 DEF Grows
  <2>11. DevOK(c)
    BY DEF LInv
  <2> QED
    BY <1>1, <2>1, <2>4, <2>6, <2>10, <2>11, Untouched
<1>8. Lonely' /\ (hurt \subseteq DOMAIN sent)'
  BY <1>1, <1>3, <1>5 DEF Lonely
<1>9. Served'
  BY <1>1, <1>2, <1>3, <1>5 DEF Served
<1> QED
  BY <1>1, <1>6, <1>7, <1>8, <1>9 DEF LInv

-----------------------------------------------------------------------------
(* The invariant, if no two devices have one protocol.                     *)

(* Nothing is sent: the windows are empty.                                 *)
LEMMA LInvInit ==
    ASSUME Alone, Init
    PROVE  LInv
<1>1. /\ sent = <<>> /\ line = [d \in Device |-> <<>>] /\ m_ComBuff = [d \in Device |-> <<>>]
      /\ exp = [d \in Device |-> NoFrame] /\ head = [p \in Protocols |-> <<>>]
      /\ given = <<>> /\ hurt = {} /\ protocal \in [Device -> Protocols] /\ Lonely
  BY DEF Init, Lonely
<1>2. SInv
  BY SInvInit
<1>3. ~ (\E f : f \in DOMAIN sent) /\ ~ (\E n : n \in DOMAIN given)
  BY <1>1
<1>4. ASSUME NEW d \in Device PROVE DevOK(d)
  <2>1. m_ComBuff[d] = <<>> /\ line[d] = <<>> /\ head[protocal[d]] = <<>> /\ exp[d] = NoFrame
    <3>1. protocal[d] \in Protocols
      BY <1>1
    <3> QED
      BY <1>1, <3>1
  <2>2. Held(d) = <<>> /\ Stream(d) = <<>> /\ ~ InFrame(d)
    BY <2>1 DEF Held, Stream, InFrame, NoFrame
  <2>3. PICK w : w = Window(d)
    OBVIOUS
  <2>4. w = <<>> /\ w \in Seq(Byte) /\ Len(w) = 0 /\ Len(Held(d)) = 0
    BY <2>2, <2>3 DEF Window
  <2>5. (\A i \in 1 .. Len(w) : FALSE) /\ (\A i \in 2 .. Len(w) : FALSE)
    BY <2>4
  <2>6. \A i, k \in 1 .. Len(w) + 1 : ~ (i < k)
    BY <2>4
  <2>7. Bytes(d, w) /\ Ascending(w) /\ GoesOn(d, w) /\ GoesBack(d, w) /\ Joints(d, w)
    BY <2>5 DEF Bytes, Ascending, GoesOn, GoesBack, Joints
  <2>8. Spaced(d, w)
    BY <2>6 DEF Spaced
  <2>9. GivenPast(d, w) /\ FrameOK(d, w, 0) /\ \A f : ~ Intact(d, f)
    BY <1>3, <2>2 DEF GivenPast, Given, FrameOK, Intact, Mine
  <2>10. InOrder(d, w, 0)
    BY <2>7, <2>8, <2>9 DEF InOrder, Laid
  <2> QED
    BY <2>3, <2>4, <2>10 DEF DevOK
<1>5. Served /\ hurt \subseteq DOMAIN sent
  BY <1>1, <1>3 DEF Served
<1> QED
  BY <1>1, <1>2, <1>4, <1>5 DEF LInv

(* Each action keeps all devices in order.                                 *)
LEMMA LInvNext ==
    ASSUME LInv, [Next]_vars
    PROVE  LInv'
<1>1. ASSUME NEW d \in Device, NEW k \in AllKinds, Send(d, k) PROVE LInv'
  BY <1>1, SendInStep
<1>2. ASSUME NEW d \in Device, NEW n \in DOMAIN line[d], Read(d, n) PROVE LInv'
  BY <1>2, ReadInStep
<1>3. ASSUME NEW d \in Device, SearchData(d) PROVE LInv'
  BY <1>3, CollectInStep, BeginInStep, SlideInStep, OverrunInStep, ReadBodyInStep,
     ReadLengthInStep, ReadRestInStep, EndInStep DEF SearchData
<1>4. CASE UNCHANGED vars
  BY <1>4, StutterInStep
<1> QED
  BY <1>1, <1>2, <1>3, <1>4 DEF Next

(* Each device is in order, all through any run.                           *)
THEOREM InStepInvariance ==
    ASSUME Alone
    PROVE  Spec => []LInv
<1>1. Init => LInv
  BY LInvInit
<1>2. LInv /\ [Next]_vars => LInv'
  BY LInvNext
<1> QED
  BY <1>1, <1>2, PTL DEF Spec

(* What is lost without damage: the line is read and searched to its end,  *)
(* and the sentence was not given, so damage reaches it and its device's   *)
(* last one was damaged or lost.                                           *)
LEMMA LInvLost ==
    ASSUME LInv, NEW d \in Device, NEW f \in Lost(d), f \notin hurt
    PROVE  Reached(d, f) /\ Excused(d, f)
<1>1. /\ line[d] = <<>> /\ m_ComBuff[d] = <<>> /\ Mine(d, f) /\ ~ Given(d, f) /\ Intact(d, f)
  BY DEF Lost, From, Mine, Given, Intact
<1>2. SInv /\ Served /\ DevOK(d)
  BY DEF LInv
<1>3. PICK w \in Seq(Byte), n \in Nat : w = Window(d) /\ n = Len(Held(d)) /\ InOrder(d, w, n)
  BY <1>2 DEF DevOK
<1>4. GoesOn(d, w) /\ Bytes(d, w) /\ FrameOK(d, w, n) /\ Where(d, f, w, n)
  BY <1>1, <1>3 DEF InOrder, Laid
<1>5. Len(w) = n
  <2>1. Stream(d) = <<>>
    BY <1>1 DEF Stream
  <2>2. Len(Stream(d)) = 0
    BY <2>1
  <2>3. Len(Window(d)) = Len(Held(d)) + Len(Stream(d)) /\ Len(Held(d)) \in Nat
    BY <1>2, WindowFacts
  <2> QED
    BY <1>3, <2>2, <2>3
<1>6. ~ Ahead(d, f, w, n)
  <2> SUFFICES ASSUME NEW i \in 1 .. n, w[i] = <<f, 1>>, InFrame(d) => i = 1 \/ n < i
               PROVE  FALSE
    BY <1>5 DEF Ahead
  <2>1. PICK m : m = Size(f)
    OBVIOUS
  <2>2. /\ m \in Nat \ {0} /\ HeadLen[protocal[d]] \in Nat /\ HeadLen[protocal[d]] < m
    BY <1>1, <1>2, <2>1, MineFacts
  <2>3. i + (m - 1) \in 1 .. n
    <3>1. m \in 1 .. Size(f) /\ i \in 1 .. Len(w)
      BY <1>5, <2>1, <2>2
    <3> QED
      BY <1>1, <1>2, <1>4, <1>5, <3>1, Runs
  <2>4. m <= n
    BY <2>2, <2>3
  <2>5. CASE InFrame(d)
    <3>1. i = 1 /\ w[1] = <<f, 1>>
      BY <2>5
    <3>2. w[1][1] = f
      BY <3>1
    <3>3. n < m
      BY <1>1, <1>4, <2>1, <2>5, <3>2 DEF FrameOK, InStep
    <3> QED
      BY <2>2, <2>4, <3>3
  <2>6. CASE ~ InFrame(d)
    <3>1. n = Len(head[protocal[d]])
      BY <1>3, <2>6 DEF Held, InFrame
    <3>2. Len(head[protocal[d]]) < HeadLen[protocal[d]]
      BY <1>2, DeviceFacts
    <3> QED
      BY <2>2, <2>4, <3>1, <3>2
  <2> QED
    BY <2>5, <2>6
<1> QED
  BY <1>1, <1>4, <1>6 DEF Where

(* Wherever the reads cut the line, each sentence that is lost was damaged *)
(* or is one that damage to another reaches: the next, or, where a length  *)
(* field may have been damaged or a '*' missed, as far as the buffer goes  *)
(* (SearchData, RestartSearch, Rdss2_1SearchExp.cpp, Rdss4_0SearchExp.cpp).*)
THEOREM OnlyDamagedLostHolds ==
    ASSUME Alone
    PROVE  Spec => []OnlyDamagedLost
<1>1. LInv => OnlyDamagedLost
  <2> SUFFICES ASSUME LInv, NEW d \in Device, NEW f \in Lost(d)
               PROVE  \E g \in hurt \cap From(d) : Reaches(d, g, f)
    BY DEF OnlyDamagedLost
  <2>1. CASE f \in hurt
    <3>1. f \in hurt \cap From(d)
      BY <2>1 DEF Lost
    <3>2. Reaches(d, f, f)
      BY ReachesIs DEF Spans
    <3> QED
      BY <3>1, <3>2
  <2>2. CASE f \notin hurt
    BY <2>2, LInvLost DEF Reached
  <2> QED
    BY <2>1, <2>2
<1> QED
  BY <1>1, InStepInvariance, PTL

(* A sentence that is lost was damaged, or the one its device sent before  *)
(* it was damaged or lost: what damage costs are the sentences that follow *)
(* it, and as soon as one is found the search is in step.                  *)
LostInRuns == \A d \in Device : \A f \in Lost(d) : f \in hurt \/ Excused(d, f)

THEOREM LostInRunsHolds ==
    ASSUME Alone
    PROVE  Spec => []LostInRuns
<1>1. LInv => LostInRuns
  BY LInvLost DEF LostInRuns
<1> QED
  BY <1>1, InStepInvariance, PTL

(* No sentence is lost before the first one damaged on its line.           *)
LostAfterDamage == \A d \in Device : \A f \in Lost(d) : \E g \in hurt \cap From(d) : g <= f

THEOREM LostAfterDamageHolds ==
    ASSUME Alone
    PROVE  Spec => []LostAfterDamage
<1>1. SInv /\ OnlyDamagedLost => LostAfterDamage
  <2> SUFFICES ASSUME SInv, OnlyDamagedLost, NEW d \in Device, NEW f \in Lost(d)
               PROVE  \E g \in hurt \cap From(d) : g <= f
    BY DEF LostAfterDamage
  <2>1. PICK g \in hurt \cap From(d) : Reaches(d, g, f)
    BY DEF OnlyDamagedLost
  <2>2. g = f \/ g < f
    BY <2>1, ReachesIs DEF Spans
  <2>3. f \in Nat /\ g \in Nat
    <3>1. f \in DOMAIN sent /\ g \in DOMAIN sent
      BY DEF Lost, From
    <3>2. DOMAIN sent = 1 .. Len(sent) /\ Len(sent) \in Nat
      BY SentFacts
    <3> QED
      BY <3>1, <3>2
  <2> QED
    BY <2>2, <2>3
<1>2. LInv => SInv
  BY DEF LInv
<1> QED
  BY <1>1, <1>2, InStepInvariance, OnlyDamagedLostHolds, PTL
=============================================================================
