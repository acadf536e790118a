--------------------------- MODULE SentenceSearch ---------------------------
(***************************************************************************)
(* How bdjob finds the sentences of its BeiDou devices in what their       *)
(* serial lines deliver: ProcessData() and SearchData() of the two classes *)
(* of searchers in the library BDProtocal.  Each device has a reader       *)
(* thread and a searcher of its own, of the class its protocol asks for;   *)
(* but Head and HeadPtr are static variables of SearchData(), one pair for *)
(* all searchers of a class, and no thread locks them.                     *)
(*                                                                         *)
(* A byte is <<f, i>>, the i-th of the f-th sentence sent; the serial line *)
(* may lose a byte or turn one into Noise.  A thread searches one byte per *)
(* step.  The checksum finds all damage there is.                          *)
(***************************************************************************)
EXTENDS Integers, Sequences, FiniteSetsExt

CONSTANTS
    Device,
    Kinds,      \* [protocols -> SUBSET of the kinds of sentences]
    Text,       \* the kinds that end in "*", two digits, CR, LF; others have a length field
    HeadLen,    \* [protocols -> Nat], the length of a title, 6 and 5
    Length,     \* [kinds -> Nat]
    Claims,     \* what a damaged length field may say
    Limit,      \* UNPACKBUFFSIZE - 1
    Alone,      \* no two devices have one protocol
    MaxSent,    \* bound: sentences sent
    MaxDamage   \* bound: sentences damaged

Protocols == {"2_1", "4_0"}

AllKinds == Kinds["2_1"] \cup Kinds["4_0"]

ASSUME KindsAssumption ==
    /\ Kinds["2_1"] \cap Kinds["4_0"] = {} /\ Text \subseteq Kinds["2_1"]
    /\ HeadLen \in [Protocols -> Nat \ {0, 1}] /\ Length \in [AllKinds -> Nat]
    /\ \A p \in Protocols : \A k \in Kinds[p] :
          /\ Length[k] > HeadLen[p] + (IF k \in Text THEN 4 ELSE 2)
          /\ Length[k] < Limit
    /\ \A p \in Protocols : HeadLen[p] < Limit
ASSUME BoundAssumption ==
    Alone \in BOOLEAN /\ Claims \subseteq Nat /\ {Limit, MaxSent, MaxDamage} \subseteq Nat

VARIABLES
    protocal,
    sent,       \* the sentences sent: the device and the kind
    line,       \* bytes a device sent that were not read
    m_ComBuff,  \* the rest of the read that is being searched
    exp,        \* the searcher of each device, see ExpType
    head,       \* the bytes in the static array of a class, HeadPtr of them
    given,      \* the sentences handed to DataExplain(), each under the device that was read
    hurt        \* history: the sentences damaged

vars == <<protocal, sent, line, m_ComBuff, exp, head, given, hurt>>

Byte == (0 .. MaxSent) \X Nat

Noise == <<0, 0>>

ExpType == [m_bSearchStatus : {"NULL", "LENGTH", "IDENTIFIER", "BINARYCHECK"},
            m_FrameBuff     : Seq(Byte),
            m_uBinaryLen    : Nat]

NoFrame == [m_bSearchStatus |-> "NULL", m_FrameBuff |-> <<>>, m_uBinaryLen |-> 0]

(* The types of the variables; a sentence stays within m_FrameBuff and the *)
(* title within Head, whatever the line delivers.                          *)
TypeOK ==
    /\ protocal \in [Device -> Protocols]
    /\ sent \in Seq([dev : Device, kind : AllKinds])
    /\ line \in [Device -> Seq(Byte)] /\ m_ComBuff \in [Device -> Seq(Byte)]
    /\ exp \in [Device -> ExpType] /\ head \in [Protocols -> Seq(Byte)]
    /\ \A d \in Device : Len(exp[d].m_FrameBuff) < Limit
    /\ \A p \in Protocols : Len(head[p]) < HeadLen[p]
    /\ given \in Seq(Device \X (1 .. MaxSent)) /\ hurt \subseteq 1 .. MaxSent

Init ==
    /\ protocal \in [Device -> Protocols]
    /\ Alone => \A d, e \in Device : d # e => protocal[d] # protocal[e]
    /\ sent = <<>>
    /\ line = [d \in Device |-> <<>>] /\ m_ComBuff = [d \in Device |-> <<>>]
    /\ exp = [d \in Device |-> NoFrame]
    /\ head = [p \in Protocols |-> <<>>]
    /\ given = <<>> /\ hurt = {}

-----------------------------------------------------------------------------
Kind(b) == sent[b[1]].kind

Dollar(b) == b[2] = 1

(* The characters of a text sentence that SearchData() looks for. *)
AtEnd(b, n) == b # Noise /\ Kind(b) \in Text /\ b[2] = Length[Kind(b)] - n
Star(b) == AtEnd(b, 4)
CR(b)   == AtEnd(b, 1)
LF(b)   == AtEnd(b, 0)

Whole(f) == [i \in 1 .. Length[sent[f].kind] |-> <<f, i>>]

(* The kinds whose title an array of bytes is. *)
TitlesOf(w) ==
    {k \in AllKinds : /\ Dollar(w[1])
                      /\ \A i \in 2 .. Len(w) : /\ w[i] # Noise
                                                   /\ Kind(w[i]) = k /\ w[i][2] = i}

-----------------------------------------------------------------------------
(* What the line makes of a sentence: one byte is lost, or another one.    *)
Damaged(w) ==
    {[w EXCEPT ![i] = Noise] : i \in DOMAIN w}
        \cup {SubSeq(w, 1, i - 1) \o SubSeq(w, i + 1, Len(w)) : i \in DOMAIN w}

(* A device sends a sentence. *)
Send(d, k) ==
    LET f == Len(sent) + 1
        w == [i \in 1 .. Length[k] |-> <<f, i>>]
    IN  /\ k \in Kinds[protocal[d]] /\ f <= MaxSent
        /\ sent' = Append(sent, [dev |-> d, kind |-> k])
        /\ \/ line' = [line EXCEPT ![d] = @ \o w] /\ UNCHANGED hurt
           \/ /\ Cardinality(hurt) < MaxDamage
              /\ hurt' = hurt \cup {f}
              /\ \E v \in Damaged(w) : line' = [line EXCEPT ![d] = @ \o v]
        /\ UNCHANGED <<protocal, m_ComBuff, exp, head, given>>

(* ReadData() returns any number of bytes.                                 *)
Read(d, n) ==
    /\ m_ComBuff[d] = <<>>
    /\ m_ComBuff' = [m_ComBuff EXCEPT ![d] = SubSeq(line[d], 1, n)]
    /\ line' = [line EXCEPT ![d] = SubSeq(@, n + 1, Len(@))]
    /\ UNCHANGED <<protocal, sent, exp, head, given, hurt>>

-----------------------------------------------------------------------------
(* SearchData(), a byte at a time. *)

At(d) == m_ComBuff[d][1]

Within(d, status) ==
    /\ m_ComBuff[d] # <<>>
    /\ exp[d].m_bSearchStatus = status
    /\ m_ComBuff' = [m_ComBuff EXCEPT ![d] = Tail(@)]
    /\ UNCHANGED <<protocal, sent, line, hurt>>

Filled(d) == Append(head[protocal[d]], At(d))

Full(d) == Len(Filled(d)) = HeadLen[protocal[d]]

(* A byte for Head, which is not full with it. *)
Collect(d) ==
    /\ Within(d, "NULL")
    /\ ~ Full(d)
    /\ head' = [head EXCEPT ![protocal[d]] = Filled(d)]
    /\ UNCHANGED <<exp, given>>

(* Head is full and a title: the sentence begins. *)
Begin(d) ==
    /\ Within(d, "NULL")
    /\ Full(d)
    /\ TitlesOf(Filled(d)) # {}
    /\ exp' = [exp EXCEPT ![d] = [NoFrame EXCEPT !.m_bSearchStatus = "LENGTH",
                                                 !.m_FrameBuff = Filled(d)]]
    /\ head' = [head EXCEPT ![protocal[d]] = <<>>]
    /\ UNCHANGED given

(* Mutant: Head is emptied. *)
Slide_All(d) ==
    /\ Within(d, "NULL")
    /\ Full(d)
    /\ TitlesOf(Filled(d)) = {}
    /\ head' = [head EXCEPT ![protocal[d]] = <<>>]
    /\ UNCHANGED <<exp, given>>

(* Head is full and no title: it goes on with the next '$' in it.          *)
Slide(d) ==
    LET next == {i \in 2 .. HeadLen[protocal[d]] : Dollar(Filled(d)[i])}
    IN  /\ Within(d, "NULL")
        /\ Full(d)
        /\ TitlesOf(Filled(d)) = {}
        /\ head' = [head EXCEPT ![protocal[d]] =
                        IF next = {} THEN <<>> ELSE SubSeq(Filled(d), Min(next), Len(Filled(d)))]
        /\ UNCHANGED <<exp, given>>

Longer(d) == Append(exp[d].m_FrameBuff, At(d))

(* Mutant: a frame may fill the buffer. *)
Overruns_Late(d) == Len(Longer(d)) > Limit

Overruns(d) == Len(Longer(d)) >= Limit

Goes(d, status) == exp' = [exp EXCEPT ![d].m_FrameBuff = Longer(d), ![d].m_bSearchStatus = status]

(* In all states but the first a frame that is too long is given up.       *)
Overrun(d) ==
    /\ \E status \in {"LENGTH", "IDENTIFIER", "BINARYCHECK"} : Within(d, status)
    /\ Overruns(d)
    /\ exp' = [exp EXCEPT ![d] = NoFrame]
    /\ UNCHANGED <<head, given>>

TextMode(d) == Kind(exp[d].m_FrameBuff[2]) \in Text

FieldEnds(d) == ~ TextMode(d) /\ Len(Longer(d)) = HeadLen[protocal[d]] + 2

(* Data, up to '*' in a text sentence.                                     *)
ReadBody(d) ==
    /\ Within(d, "LENGTH")
    /\ ~ Overruns(d) /\ ~ FieldEnds(d)
    /\ Goes(d, IF TextMode(d) /\ Star(At(d)) THEN "IDENTIFIER" ELSE "LENGTH")
    /\ UNCHANGED <<head, given>>

(* What the two bytes of the length field say: the truth if they are the   *)
(* bytes of one sentence that belong there.                                *)
Lengths(d) ==
    LET n == Len(Longer(d))
        a == Longer(d)[n - 1]
        b == Longer(d)[n]
    IN  IF a # Noise /\ b = <<a[1], n>> /\ a[2] = n - 1 THEN {Length[Kind(a)]} ELSE Claims

(* The length field is complete; a length beyond the buffer ends the frame.*)
ReadLength(d) ==
    /\ Within(d, "LENGTH")
    /\ ~ Overruns(d) /\ FieldEnds(d)
    /\ \E n \in Lengths(d) :
          exp' = [exp EXCEPT ![d] =
                     IF n >= Limit THEN NoFrame
                     ELSE [m_bSearchStatus |-> "BINARYCHECK", m_FrameBuff |-> Longer(d),
                           m_uBinaryLen |-> n]]
    /\ UNCHANGED <<head, given>>

Ends(d) ==
    LET n == Len(Longer(d))
    IN  CASE exp[d].m_bSearchStatus = "IDENTIFIER" ->
                 LF(At(d)) /\ CR(Longer(d)[n - 1]) /\ n > 4 /\ Star(Longer(d)[n - 4])
          [] exp[d].m_bSearchStatus = "BINARYCHECK" -> n = exp[d].m_uBinaryLen

(* The sentences that have the content of a frame; its title may come from *)
(* another of that kind.                                                   *)
Checked(d) ==
    LET w == Longer(d)
        h == HeadLen[protocal[d]]
    IN  {f \in DOMAIN sent : /\ Len(w) = Length[sent[f].kind]
                             /\ Kind(w[2]) = sent[f].kind
                             /\ \A i \in h + 1 .. Len(w) : w[i] = <<f, i>>}

(* Data behind the length field or '*', not the last.                      *)
ReadRest(d) ==
    /\ Within(d, "IDENTIFIER") \/ Within(d, "BINARYCHECK")
    /\ ~ Overruns(d) /\ ~ Ends(d)
    /\ Goes(d, exp[d].m_bSearchStatus)
    /\ UNCHANGED <<head, given>>

(* The last byte: a frame whose checksum is right is explained and         *)
(* notified, another one is dropped; nothing of it is searched again.      *)
End(d) ==
    /\ Within(d, "IDENTIFIER") \/ Within(d, "BINARYCHECK")
    /\ ~ Overruns(d) /\ Ends(d)
    /\ IF Checked(d) = {} THEN UNCHANGED given
       ELSE \E f \in Checked(d) : given' = Append(given, <<d, f>>)
    /\ exp' = [exp EXCEPT ![d] = NoFrame]
    /\ UNCHANGED head

SearchData(d) ==
    Collect(d) \/ Begin(d) \/ Slide(d) \/ Overrun(d) \/ ReadBody(d) \/ ReadLength(d)
        \/ ReadRest(d) \/ End(d)

Next ==
    \E d \in Device :
        \/ \E k \in AllKinds : Send(d, k)
        \/ \E n \in DOMAIN line[d] : Read(d, n)
        \/ SearchData(d)

Spec == Init /\ [][Next]_vars

-----------------------------------------------------------------------------
From(d) == {f \in DOMAIN sent : sent[f].dev = d}

(* Sentences sent by d, read and searched to the last byte, and not found. *)
Lost(d) == IF line[d] # <<>> \/ m_ComBuff[d] # <<>> THEN {}
           ELSE {f \in From(d) : <<d, f>> \notin {given[n] : n \in DOMAIN given}}

(* The damage to g may cost f: itself; the next; and where a length field  *)
(* may have been damaged, or a '*' missed before a sentence that has none, *)
(* as far as the buffer reaches (each damaged one may be a byte short).    *)
Reaches(d, g, f) ==
    LET between == {h \in From(d) : g <= h /\ h < f}
    IN  \/ g = f
        \/ g < f /\ Cardinality(between) = 1
        \/ /\ g < f /\ \E h \in between : sent[h].kind \notin Text
           /\ MapThenSumSet(LAMBDA h : Length[sent[h].kind], between)
              < Limit + Cardinality(hurt)

(* Wherever the reads cut the line, every sentence is found but those that *)
(* damage to one cost: the searcher gets into step again.                  *)
OnlyDamagedLost ==
    \A d \in Device : \A f \in Lost(d) : \E g \in hurt \cap From(d) : Reaches(d, g, f)
=============================================================================
