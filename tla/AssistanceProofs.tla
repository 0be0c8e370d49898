-------------------------- MODULE AssistanceProofs --------------------------
(***************************************************************************)
(* Proofs about the questions put to Gemini and about the summaries, for any *)
(* number of questions, pages and tabs: their types, and that what is shown *)
(* as an answer is an answer to what was asked.                            *)
(***************************************************************************)
EXTENDS AssistanceSession, AiSummary, SequenceTheorems, FiniteSetTheorems, TLAPS

-----------------------------------------------------------------------------
(* The assistance session. *)

SessionType ==
  [state : Phases, req : Maybe, prompt : Maybe, candidate : Maybe,
   share : BOOLEAN, timer : BOOLEAN]
SourceType == [snapshot : Maybe, active : Maybe, closed : BOOLEAN]
AdapterType == [there : BOOLEAN, prepared : Maybe, attempted : BOOLEAN]
GeminiType ==
  [home : BOOLEAN, adapter : AdapterType, box : Maybe \cup {Draft}, busy : BOOLEAN,
   fresh : Seq(Maybe)]
MessageType(dos) == [do : dos, req : Maybe, named : Maybe, live : BOOLEAN]
SourceScripts == MessageType({"capture", "parse", "show"})
SourceResults == MessageType({"moved", "captured", "parsed", "shown"})
GeminiScripts == MessageType({"share", "poll"})
Shared == {"shared", "notShared"}
Polled == {"reply", "waiting", "other", "tooLong", "gone"}
GeminiResults == MessageType(Shared \cup Polled)
Queue(q, S) == q \in Seq(S) /\ Len(q) <= 2

\* The types of AssistanceTypeOK, in full.
AssistanceTyped ==
  /\ session \in SessionType /\ pressSend \in BOOLEAN
  /\ source \in SourceType
  /\ gemini \in GeminiType /\ Len(gemini.fresh) <= 2
  /\ Queue(toSource, SourceScripts) /\ Queue(fromSource, SourceResults)
  /\ Queue(toGemini, GeminiScripts) /\ Queue(fromGemini, GeminiResults)
  /\ shares \in [Requests -> Nat] /\ sends \in [Requests -> Nat]

\* Captures under way are of one question after the other, the last one of now.
CapturesInOrder ==
  /\ \A i \in 1..Len(toSource) :
       /\ toSource[i].req <= session.req
       /\ toSource[i].live => toSource[i].req = session.req
       /\ toSource[i].do = "capture" => source.snapshot # session.req
  /\ \A i, j \in 1..Len(toSource) :
       i < j /\ toSource[i].do = "capture" /\ toSource[j].do = "capture"
         => toSource[i].req < toSource[j].req
  /\ source.snapshot <= session.req

\* Results are of the question of now, and a candidate is one of its snapshot.
ResultsFit ==
  /\ \A i \in 1..Len(fromSource) :
       fromSource[i].do # "moved" => fromSource[i].named \in {0, session.req}
  /\ \A i \in 1..Len(fromSource) :
       fromSource[i].do = "parsed" /\ fromSource[i].named # 0 => source.snapshot = session.req
  /\ session.candidate # 0 =>
       /\ session.candidate = session.req /\ source.snapshot = session.req
       /\ session.state \in {"answered", "waitingForReply"}
  /\ session.prompt \in {0, session.req}

\* Before the first question nothing is under way.
NothingAsked ==
  /\ session.state = "idle" => session.req = 0
  /\ session.req = 0 =>
       /\ toSource = <<>> /\ toGemini = <<>> /\ fromGemini = <<>>
       /\ \A i \in 1..Len(fromSource) : fromSource[i].do = "moved"
       /\ session.state \in {"idle", "failed"} /\ ~session.timer

\* While the page is captured, that is all that is under way.
CaptureUnderWay ==
  \/ \E i \in 1..Len(toSource) : toSource[i].live /\ toSource[i].do = "capture"
  \/ \E i \in 1..Len(fromSource) : fromSource[i].do = "captured"
CapturedOnce ==
  /\ CaptureUnderWay => session.state = "capturing"
  /\ session.state = "capturing" =>
       /\ session.candidate = 0 /\ ~session.timer
       /\ \A i \in 1..Len(toSource) : toSource[i].live => toSource[i].do = "capture"
       /\ \A i \in 1..Len(fromSource) : fromSource[i].do \in {"moved", "captured"}
       /\ \A i \in 1..Len(toGemini) : ~toGemini[i].live
       /\ fromGemini = <<>>
  /\ \A i, j \in 1..Len(fromSource) :
       i < j => ~(fromSource[i].do = "captured" /\ fromSource[j].do = "captured")
  /\ ~(/\ \E i \in 1..Len(toSource) : toSource[i].live /\ toSource[i].do = "capture"
       /\ \E i \in 1..Len(fromSource) : fromSource[i].do = "captured")

\* No answer is read before the prompt has been shared, every time it is.
Quiet ==
  /\ session.candidate = 0
  /\ \A i \in 1..Len(toSource) : toSource[i].live => toSource[i].do = "capture"
  /\ \A i \in 1..Len(fromSource) : fromSource[i].do \in {"moved", "captured"}
ShareUnderWay ==
  \/ \E i \in 1..Len(toGemini) : toGemini[i].live /\ toGemini[i].do = "share"
  \/ \E i \in 1..Len(fromGemini) : fromGemini[i].do \in Shared
SharesFirst ==
  /\ session.state = "ready" =>
       /\ session.prompt = session.req /\ ~session.timer
       /\ \A i \in 1..Len(toGemini) : toGemini[i].live => toGemini[i].do = "share"
       /\ \A i \in 1..Len(fromGemini) : fromGemini[i].do \in Shared
  /\ session.state = "ready" \/ ShareUnderWay => Quiet
  /\ \A i, j \in 1..Len(fromGemini) :
       i < j /\ fromGemini[j].do \in Shared => fromGemini[i].do \in Shared
  /\ \A i \in 1..Len(toGemini) :
       toGemini[i].live /\ toGemini[i].do = "share" =>
         /\ \A j \in 1..Len(fromGemini) : fromGemini[j].do \in Shared
         /\ \A j \in 1..Len(toGemini) : j < i /\ toGemini[j].live => toGemini[j].do = "share"

\* What was put on its way is sent, is still under way, lies in the composer or is lost.
IsShareOf(q, i, r) == Len(q) >= i /\ q[i].do = "share" /\ q[i].req = r
OnItsWay(q, r) == (IF IsShareOf(q, 1, r) THEN 1 ELSE 0) + (IF IsShareOf(q, 2, r) THEN 1 ELSE 0)
SentAsShared ==
  /\ \A i \in 1..Len(toGemini) : toGemini[i].req \in Requests
  /\ \A r \in Requests :
       sends[r] + OnItsWay(toGemini, r) + (IF gemini.box = r THEN 1 ELSE 0) <= shares[r]

AssistanceInv ==
  /\ AssistanceTyped /\ CapturesInOrder /\ ResultsFit /\ NothingAsked /\ CapturedOnce
  /\ SharesFirst /\ SentAsShared

\* What is taken of a queue is in it, in its order.
LEMMA ThoseFacts ==
  ASSUME NEW S, NEW q \in Seq(S), Len(q) <= 2, NEW dos
  PROVE  /\ Those(q, dos) \in Seq(S) /\ Len(Those(q, dos)) <= Len(q)
         /\ \A i \in 1..Len(Those(q, dos)) :
              /\ Those(q, dos)[i].do \in dos
              /\ \E j \in 1..Len(q) : i <= j /\ Those(q, dos)[i] = q[j]
         /\ Len(Those(q, dos)) = 2 => Those(q, dos) = q
<1> DEFINE at == {i \in DOMAIN q : q[i].do \in dos}
           rank(i) == Cardinality({j \in at : j < i})
           nth(n) == CHOOSE i \in at : rank(i) = n - 1
           s == [n \in 1..Cardinality(at) |-> q[nth(n)]]
<1>1. Those(q, dos) = s
  BY DEF Those
<1>2. DOMAIN q = 1..Len(q) /\ Len(q) \in Nat /\ \A i \in 1..Len(q) : q[i] \in S
  BY LenProperties, ElementOfSeq
<1>3. at = {} \/ at = {1} \/ at = {2} \/ at = {1, 2}
  BY <1>2
<1>4. /\ Cardinality({}) = 0 /\ Cardinality({1}) = 1 /\ Cardinality({2}) = 1
      /\ Cardinality({1, 2}) = 2
  <2>1. Cardinality({}) = 0
    BY FS_EmptySet
  <2>2. \A x : IsFiniteSet({x}) /\ Cardinality({x}) = 1
    BY FS_Singleton
  <2>3. Cardinality({1} \cup {2}) = IF 2 \in {1} THEN Cardinality({1}) ELSE Cardinality({1}) + 1
    BY <2>2, FS_AddElement
  <2>4. {1} \cup {2} = {1, 2}
    OBVIOUS
  <2>5. Cardinality({1} \cup {2}) = 2
    <3>1. Cardinality({1}) = 1
      BY <2>2
    <3>2. 2 \notin {1}
      OBVIOUS
    <3> QED
      BY <2>3, <3>1, <3>2
  <2> QED
    BY <2>1, <2>2, <2>4, <2>5
<1>5. \A i \in at : i \in 1..Len(q) /\ q[i].do \in dos
  BY <1>2
<1> HIDE DEF nth
<1>6. CASE at = {}
  <2>1. Cardinality(at) = 0
    BY <1>4, <1>6
  <2> HIDE DEF at
  <2>2. s = <<>>
    BY <2>1
  <2> HIDE DEF s
  <2> QED
    BY <1>1, <1>2, <2>2
<1>7. CASE \E k \in {1, 2} : at = {k}
  <2> PICK k \in {1, 2} : at = {k}
    BY <1>7
  <2>1. {j \in at : j < k} = {} /\ k \in at
    OBVIOUS
  <2>2. rank(k) = 0 /\ Cardinality(at) = 1
    BY <1>4, <2>1
  <2> HIDE DEF rank
  <2>3. nth(1) = k
    BY <2>2 DEF nth
  <2>4. k \in 1..Len(q) /\ q[k].do \in dos
    BY <1>5, <2>1
  <2> HIDE DEF at
  <2>5. s = [n \in 1..1 |-> q[nth(n)]]
    BY <2>2
  <2> HIDE DEF s
  <2>6. s \in [1..1 -> S] /\ s[1] = q[k]
    BY <1>2, <2>3, <2>4, <2>5
  <2> QED
    <3> DEFINE one == <<q[k]>>
    <3>1. one \in Seq(S) /\ Len(one) = 1 /\ one \in [1..1 -> S] /\ one[1] = q[k]
      BY <1>2, <2>4
    <3> HIDE DEF one
    <3>2. s = one
      BY <2>6, <3>1
    <3>3. s \in Seq(S) /\ Len(s) = 1
      BY <3>1, <3>2
    <3>4. \A i \in 1..Len(s) : s[i] = q[k] /\ i <= k
      BY <2>6, <3>3
    <3>5. \A i \in 1..Len(s) : s[i].do \in dos /\ \E j \in 1..Len(q) : i <= j /\ s[i] = q[j]
      BY <2>4, <3>4
    <3>6. Len(s) <= Len(q) /\ Len(s) # 2
      BY <1>2, <2>4, <3>3
    <3> QED
      BY <1>1, <3>3, <3>5, <3>6
<1>8. CASE at = {1, 2}
  <2>1. {j \in at : j < 1} = {} /\ {j \in at : j < 2} = {1} /\ 1 \in at /\ 2 \in at
    BY <1>8
  <2>2. rank(1) = 0 /\ rank(2) = 1 /\ Cardinality(at) = 2
    BY <1>4, <1>8, <2>1
  <2> HIDE DEF rank
  <2>3. nth(1) = 1 /\ nth(2) = 2
    BY <1>8, <2>2 DEF nth
  <2>4. Len(q) = 2 /\ q[1].do \in dos /\ q[2].do \in dos
    BY <1>2, <1>5, <2>1
  <2> HIDE DEF at
  <2>5. s = [n \in 1..2 |-> q[nth(n)]]
    BY <2>2
  <2>6. q = [n \in 1..2 |-> q[n]]
    BY <1>2, <2>4
  <2>7. \A n \in 1..2 : nth(n) = n
    BY <2>3
  <2>8. s = [n \in 1..2 |-> q[n]]
    BY <2>5, <2>7
  <2> HIDE DEF s
  <2>9. Those(q, dos) = q
    BY <1>1, <2>6, <2>8
  <2> QED
    <3>1. \A i \in 1..Len(q) : q[i].do \in dos
      BY <2>4
    <3>2. \A i \in 1..Len(q) : \E j \in 1..Len(q) : i <= j /\ q[i] = q[j]
      BY <1>2
    <3>3. \A i \in 1..Len(q) : q[i].do \in dos /\ \E j \in 1..Len(q) : i <= j /\ q[i] = q[j]
      BY <3>1, <3>2
    <3> QED
      BY <1>2, <2>9, <3>3
<1> QED
  BY <1>3, <1>6, <1>7, <1>8

\* The scripts in u are some of those in q, in their order, and nobody is to hear of them.
Dying(u, q) ==
  /\ Len(u) <= Len(q)
  /\ \A i \in 1..Len(u) :
       /\ ~u[i].live
       /\ \E j \in 1..Len(q) : i <= j /\ u[i].do = q[j].do /\ u[i].req = q[j].req
  /\ Len(u) = 2 => \A i \in 1..2 : u[i].do = q[i].do /\ u[i].req = q[i].req

LEMMA UnheardFacts ==
  ASSUME NEW dos, NEW q \in Seq(MessageType(dos)), Len(q) <= 2
  PROVE  Unheard(q) \in Seq(MessageType(dos)) /\ Dying(Unheard(q), q)
<1> DEFINE run == Those(q, {"capture", "share"})
           s == [i \in DOMAIN run |-> [run[i] EXCEPT !.live = FALSE]]
<1>1. /\ run \in Seq(MessageType(dos)) /\ Len(run) <= Len(q)
      /\ \A i \in 1..Len(run) : \E j \in 1..Len(q) : i <= j /\ run[i] = q[j]
      /\ Len(run) = 2 => run = q
  BY ThoseFacts
<1>2. Unheard(q) = s
  BY DEF Unheard
<1> HIDE DEF run
<1>3. \A i \in 1..Len(run) : run[i] \in MessageType(dos)
  BY <1>1, ElementOfSeq
<1>4. DOMAIN run = 1..Len(run) /\ Len(run) \in Nat
  BY <1>1, LenProperties
<1>5. \A i \in 1..Len(run) :
        /\ [run[i] EXCEPT !.live = FALSE] \in MessageType(dos)
        /\ [run[i] EXCEPT !.live = FALSE].live = FALSE
        /\ [run[i] EXCEPT !.live = FALSE].do = run[i].do
        /\ [run[i] EXCEPT !.live = FALSE].req = run[i].req
  BY <1>3 DEF MessageType
<1>6. s \in [1..Len(run) -> MessageType(dos)]
  BY <1>4, <1>5
<1>7. \A i \in 1..Len(run) : ~s[i].live /\ s[i].do = run[i].do /\ s[i].req = run[i].req
  BY <1>4, <1>5
<1> HIDE DEF s
<1>8. s \in Seq(MessageType(dos)) /\ Len(s) = Len(run)
  BY <1>4, <1>6
<1>9. \A i \in 1..Len(s) : \E j \in 1..Len(q) : i <= j /\ s[i].do = q[j].do /\ s[i].req = q[j].req
  BY <1>1, <1>7, <1>8
<1>10. Len(s) = 2 => \A i \in 1..2 : s[i].do = q[i].do /\ s[i].req = q[i].req
  BY <1>1, <1>7, <1>8
<1> QED
  BY <1>1, <1>2, <1>4, <1>7, <1>8, <1>9, <1>10 DEF Dying

LEMMA DyingOnItsWay ==
  ASSUME NEW S, NEW q \in Seq(S), Len(q) <= 2, NEW u \in Seq(S), Dying(u, q), NEW r
  PROVE  /\ OnItsWay(u, r) \in Nat /\ OnItsWay(q, r) \in Nat
         /\ OnItsWay(u, r) <= OnItsWay(q, r)
<1>1. /\ Len(u) <= Len(q)
      /\ \A i \in 1..Len(u) : \E j \in 1..Len(q) :
           i <= j /\ u[i].do = q[j].do /\ u[i].req = q[j].req
      /\ Len(u) = 2 => \A i \in 1..2 : u[i].do = q[i].do /\ u[i].req = q[i].req
  BY DEF Dying
<1>2. Len(u) \in Nat /\ Len(q) \in Nat
  BY <1>1
<1>3. OnItsWay(u, r) \in Nat /\ OnItsWay(q, r) \in Nat
  BY DEF OnItsWay
<1>4. ASSUME Len(u) = 0 PROVE OnItsWay(u, r) <= OnItsWay(q, r)
  <2>1. ~IsShareOf(u, 1, r) /\ ~IsShareOf(u, 2, r)
    BY <1>4 DEF IsShareOf
  <2>2. OnItsWay(u, r) = 0
    BY <2>1 DEF OnItsWay
  <2> QED
    BY <1>3, <2>2
<1>5. ASSUME Len(u) = 1 PROVE OnItsWay(u, r) <= OnItsWay(q, r)
  <2>1. IsShareOf(u, 1, r) => IsShareOf(q, 1, r) \/ IsShareOf(q, 2, r)
    BY <1>1, <1>2, <1>5 DEF IsShareOf
  <2>2. ~IsShareOf(u, 2, r)
    BY <1>5 DEF IsShareOf
  <2>3. OnItsWay(u, r) = IF IsShareOf(u, 1, r) THEN 1 ELSE 0
    BY <2>2 DEF OnItsWay
  <2>4. IsShareOf(q, 1, r) \/ IsShareOf(q, 2, r) => OnItsWay(q, r) >= 1
    BY DEF OnItsWay
  <2> QED
    BY <1>3, <2>1, <2>3, <2>4
<1>6. ASSUME Len(u) = 2 PROVE OnItsWay(u, r) <= OnItsWay(q, r)
  <2>1. (IsShareOf(u, 1, r) <=> IsShareOf(q, 1, r)) /\ (IsShareOf(u, 2, r) <=> IsShareOf(q, 2, r))
    BY <1>1, <1>2, <1>6 DEF IsShareOf
  <2>2. OnItsWay(u, r) = OnItsWay(q, r)
    BY <2>1 DEF OnItsWay
  <2> QED
    BY <1>3, <2>2
<1>7. OnItsWay(u, r) <= OnItsWay(q, r)
  <2> DEFINE n == Len(u)
  <2>1. n \in Nat /\ n <= 2
    BY <1>1, <1>2
  <2> HIDE DEF n
  <2>2. n = 0 \/ n = 1 \/ n = 2
    BY <2>1
  <2> QED
    BY <1>4, <1>5, <1>6, <2>2 DEF n
<1> QED
  BY <1>3, <1>7

LEMMA TailFacts ==
  ASSUME NEW S, NEW q \in Seq(S), Len(q) <= 2, q # <<>>
  PROVE  /\ Head(q) = q[1] /\ q[1] \in S /\ 1 \in 1..Len(q)
         /\ Tail(q) \in Seq(S) /\ Len(Tail(q)) = Len(q) - 1 /\ Len(q) \in 1..2
         /\ \A i \in 1..Len(Tail(q)) : Tail(q)[i] = q[i + 1] /\ i + 1 \in 1..Len(q)
<1>1. Head(q) \in S /\ Tail(q) \in Seq(S) /\ Len(Tail(q)) = Len(q) - 1
      /\ \A i \in 1..Len(Tail(q)) : Tail(q)[i] = q[i + 1]
  BY HeadTailProperties
<1>2. Len(q) \in 1..2
  <2> DEFINE n == Len(q)
  <2>1. n \in Nat /\ n # 0 /\ n <= 2
    BY EmptySeq, LenProperties
  <2> HIDE DEF n
  <2>2. n \in 1..2
    BY <2>1
  <2> QED
    BY <2>2 DEF n
<1>3. Head(q) = q[1]
  OBVIOUS
<1> QED
  BY <1>1, <1>2, <1>3

LEMMA AppendFacts ==
  ASSUME NEW S, NEW q \in Seq(S), NEW m \in S, Len(q) < 2
  PROVE  /\ Append(q, m) \in Seq(S) /\ Len(Append(q, m)) = Len(q) + 1
         /\ Len(q) \in Nat /\ Len(Append(q, m)) <= 2
         /\ \A i \in 1..Len(q) : Append(q, m)[i] = q[i]
         /\ Append(q, m)[Len(q) + 1] = m
BY AppendProperties

LEMMA AssistanceFacts ==
  /\ MaxRequests \in Nat /\ 0 \in Maybe /\ Requests \subseteq Maybe
  /\ Draft \notin Maybe /\ \A r \in Maybe : r # 0 => r \in Requests
  /\ \A do, dos, r \in Maybe, n \in Maybe :
       do \in dos => /\ Script(do, r, n) \in MessageType(dos)
                     /\ Script(do, r, n).do = do /\ Script(do, r, n).live
                     /\ Script(do, r, n).req = r /\ Script(do, r, n).named = n
BY AssistanceAssumption DEF Maybe, Requests, Draft, Script, MessageType

LEMMA EmptyQueue == \A S : Queue(<<>>, S) /\ Len(<<>>) = 0
BY EmptySeq DEF Queue

LEMMA AssistanceInvInit == AssistanceInit => AssistanceInv
<1> SUFFICES ASSUME AssistanceInit PROVE AssistanceInv
  OBVIOUS
<1> USE DEF AssistanceInit
<1>1. session \in SessionType /\ source \in SourceType
  BY AssistanceFacts DEF SessionType, SourceType, Phases
<1>2. gemini \in GeminiType /\ Len(gemini.fresh) <= 2 /\ gemini.box = 0
  BY AssistanceFacts, EmptyQueue DEF GeminiType, AdapterType, NoAdapter, Queue
<1>3. AssistanceTyped
  BY <1>1, <1>2, EmptyQueue DEF AssistanceTyped
<1>4. CapturesInOrder
  BY EmptyQueue DEF CapturesInOrder
<1>5. ResultsFit
  BY EmptyQueue DEF ResultsFit
<1>6. NothingAsked
  BY EmptyQueue DEF NothingAsked
<1>7. CapturedOnce
  BY EmptyQueue DEF CapturedOnce, CaptureUnderWay
<1>8. SharesFirst
  BY EmptyQueue DEF SharesFirst, ShareUnderWay
<1>9. SentAsShared
  BY <1>2, EmptyQueue DEF SentAsShared, OnItsWay, IsShareOf, Requests
<1> QED
  BY <1>3, <1>4, <1>5, <1>6, <1>7, <1>8, <1>9 DEF AssistanceInv

\* What is cut off is not sent again.
LEMMA CutOffSent ==
  ASSUME AssistanceInv, toGemini' \in Seq(GeminiScripts), Dying(toGemini', toGemini),
         UNCHANGED <<gemini, shares, sends>>
  PROVE  SentAsShared'
<1>1. AssistanceTyped
  BY DEF AssistanceInv
<1>2. \A i \in 1..Len(toGemini') : toGemini'[i].req \in Requests
  BY DEF AssistanceInv, SentAsShared, Dying
<1>3. \A q \in Requests : /\ OnItsWay(toGemini', q) \in Nat /\ OnItsWay(toGemini, q) \in Nat
                          /\ OnItsWay(toGemini', q) <= OnItsWay(toGemini, q)
  BY <1>1, DyingOnItsWay DEF AssistanceTyped, Queue
<1>4. \A q \in Requests : shares[q] \in Nat /\ sends[q] \in Nat
  BY <1>1 DEF AssistanceTyped
<1> QED
  BY <1>2, <1>3, <1>4 DEF AssistanceInv, SentAsShared

\* Everything is cut off, and no answer is shown.
LEMMA Resting ==
  ASSUME AssistanceInv,
         session' \in SessionType, session'.req = session.req, session'.candidate = 0,
         ~session'.timer, session'.prompt \in {0, session.req},
         session'.state \in {"failed", "stale", "answered"},
         session.req = 0 => session'.state = "failed",
         source' \in SourceType, source'.snapshot \in {source.snapshot, 0},
         toSource' \in Seq(SourceScripts), Dying(toSource', toSource),
         Queue(fromSource', SourceResults),
         \A i \in 1..Len(fromSource') : fromSource'[i].do = "moved",
         toGemini' \in Seq(GeminiScripts), Dying(toGemini', toGemini), fromGemini' = <<>>,
         UNCHANGED <<pressSend, gemini, shares, sends>>
  PROVE  AssistanceInv'
<1>1. AssistanceTyped /\ AssistanceTyped'
  <2>1. AssistanceTyped
    BY DEF AssistanceInv
  <2>2. Len(toSource') <= 2 /\ Len(toGemini') <= 2
    BY <2>1 DEF AssistanceTyped, Queue, Dying
  <2> QED
    BY <2>1, <2>2, EmptyQueue DEF AssistanceTyped, Queue
<1>2. CapturesInOrder'
  <2>1. CapturesInOrder /\ (session.req = 0 => toSource = <<>>)
    BY DEF AssistanceInv, NothingAsked
  <2>2. \A i \in 1..Len(toSource') :
          /\ toSource'[i].req <= session'.req /\ ~toSource'[i].live
          /\ toSource'[i].do = "capture" => source'.snapshot # session'.req
    BY <2>1, EmptyQueue DEF CapturesInOrder, Dying
  <2>3. \A i, j \in 1..Len(toSource') :
          i < j /\ toSource'[i].do = "capture" /\ toSource'[j].do = "capture"
            => toSource'[i].req < toSource'[j].req
    <3> SUFFICES ASSUME NEW i \in 1..Len(toSource'), NEW j \in 1..Len(toSource'), i < j,
                        toSource'[i].do = "capture", toSource'[j].do = "capture"
                 PROVE  toSource'[i].req < toSource'[j].req
      OBVIOUS
    <3>1. Len(toSource') \in Nat /\ Len(toSource') <= 2 /\ Len(toSource) \in Nat
          /\ Len(toSource) <= 2 /\ Len(toSource') <= Len(toSource)
      BY <1>1 DEF AssistanceTyped, Queue, Dying
    <3>2. i = 1 /\ j = 2 /\ Len(toSource') = 2 /\ Len(toSource) = 2
      <4> DEFINE n == Len(toSource')
                 m == Len(toSource)
      <4>1. n \in Nat /\ n <= 2 /\ m \in Nat /\ m <= 2 /\ n <= m /\ i \in 1..n /\ j \in 1..n /\ i < j
        BY <3>1
      <4> HIDE DEF n, m
      <4>2. i = 1 /\ j = 2 /\ n = 2 /\ m = 2
        BY <4>1
      <4> QED
        BY <4>2 DEF n, m
    <3> QED
      BY <2>1, <3>2 DEF Dying, CapturesInOrder
  <2>4. source'.snapshot <= session'.req
    <3>1. session.req \in Nat
      BY <1>1, AssistanceFacts DEF AssistanceTyped, SessionType, Maybe
    <3>2. source.snapshot <= session.req /\ session'.req = session.req
      BY <2>1 DEF CapturesInOrder
    <3>3. CASE source'.snapshot = 0
      BY <3>1, <3>2, <3>3
    <3> QED
      BY <3>2, <3>3
  <2> QED
    BY <2>2, <2>3, <2>4 DEF CapturesInOrder
<1>3. ResultsFit'
  BY DEF ResultsFit
<1>4. NothingAsked'
  <2>1. session.req = 0 => toSource = <<>> /\ toGemini = <<>>
    BY DEF AssistanceInv, NothingAsked
  <2>2. session.req = 0 => toSource' = <<>> /\ toGemini' = <<>>
    BY <2>1, EmptySeq, EmptyQueue DEF Dying
  <2> QED
    BY <2>2 DEF NothingAsked
<1>5. CapturedOnce'
  BY DEF CapturedOnce, CaptureUnderWay, Dying
<1>6. SharesFirst'
  BY EmptyQueue DEF SharesFirst, ShareUnderWay, Dying
<1>7. SentAsShared'
  BY <1>1, CutOffSent DEF AssistanceTyped
<1> QED
  BY <1>1, <1>2, <1>3, <1>4, <1>5, <1>6, <1>7 DEF AssistanceInv

\* What InvalidateWeakPtrs() leaves of what is under way.
LEMMA CutOffFacts ==
  ASSUME AssistanceTyped, NEW fs, Queue(fs, SourceResults), NEW fg, NEW next, CutOff(fs, fg, next)
  PROVE  /\ \E u \in Seq(SourceScripts) : Dying(u, toSource) /\ toSource' = u \o next
         /\ Queue(fromSource', SourceResults)
         /\ \A i \in 1..Len(fromSource') : fromSource'[i].do = "moved"
         /\ toGemini' \in Seq(GeminiScripts) /\ Dying(toGemini', toGemini) /\ fromGemini' = <<>>
<1>1. \E u \in Seq(SourceScripts) : Dying(u, toSource) /\ toSource' = u \o next
  <2>1. /\ Unheard(toSource) \in Seq(SourceScripts) /\ Dying(Unheard(toSource), toSource)
    BY UnheardFacts DEF AssistanceTyped, Queue, SourceScripts
  <2> QED
    BY <2>1 DEF CutOff
<1>2. toGemini' \in Seq(GeminiScripts) /\ Dying(toGemini', toGemini) /\ fromGemini' = <<>>
  BY UnheardFacts DEF AssistanceTyped, Queue, GeminiScripts, CutOff
<1>3. /\ Queue(fromSource', SourceResults)
      /\ \A i \in 1..Len(fromSource') : fromSource'[i].do = "moved"
  <2>1. fromSource' = Those(fs, {"moved"})
    BY DEF CutOff
  <2>2. fs \in Seq(SourceResults) /\ Len(fs) <= 2 /\ Len(fs) \in Nat
    BY DEF Queue
  <2>3. /\ Those(fs, {"moved"}) \in Seq(SourceResults)
        /\ Len(Those(fs, {"moved"})) <= Len(fs)
        /\ \A i \in 1..Len(Those(fs, {"moved"})) : Those(fs, {"moved"})[i].do \in {"moved"}
    BY <2>2, ThoseFacts
  <2>4. Len(fromSource') \in Nat
    BY <2>1, <2>3
  <2> QED
    BY <2>1, <2>2, <2>3, <2>4 DEF Queue
<1> QED
  BY <1>1, <1>2, <1>3

\* Stop(), whatever of the results of the page was looked at.
LEMMA StopKeeps ==
  ASSUME AssistanceInv, NEW state \in {"failed", "stale", "answered"},
         session.req = 0 => state = "failed",
         NEW fs, Queue(fs, SourceResults), NEW fg, Stop(state, fs, fg),
         UNCHANGED <<pressSend, source, gemini, shares, sends>>
  PROVE  AssistanceInv'
<1>1. AssistanceTyped /\ ResultsFit
  BY DEF AssistanceInv
<1>2. /\ session' \in SessionType /\ session'.req = session.req /\ session'.candidate = 0
      /\ ~session'.timer /\ session'.prompt \in {0, session.req} /\ session'.state = state
  BY <1>1, AssistanceFacts DEF AssistanceTyped, ResultsFit, SessionType, Stop, Stopped, Phases
<1>3. CutOff(fs, fg, <<>>)
  BY DEF Stop
<1>4. /\ Queue(fromSource', SourceResults)
      /\ \A i \in 1..Len(fromSource') : fromSource'[i].do = "moved"
      /\ toGemini' \in Seq(GeminiScripts) /\ Dying(toGemini', toGemini) /\ fromGemini' = <<>>
  BY <1>1, <1>3, CutOffFacts
<1>5. toSource' \in Seq(SourceScripts) /\ Dying(toSource', toSource)
  BY <1>1, <1>3, CutOffFacts, ConcatEmptySeq
<1> QED
  BY <1>1, <1>2, <1>4, <1>5, Resting DEF AssistanceTyped

\* No queue has changed, nor anything a result or a script is compared with.
LEMMA Elsewhere ==
  ASSUME AssistanceInv, AssistanceTyped', UNCHANGED <<session, queues>>,
         source'.snapshot = source.snapshot, SentAsShared'
  PROVE  AssistanceInv'
BY DEF AssistanceInv, CapturesInOrder, ResultsFit, NothingAsked, CapturedOnce, CaptureUnderWay,
       SharesFirst, Quiet, ShareUnderWay, queues

LEMMA SharesCount ==
  ASSUME AssistanceInv
  PROVE  \A r \in Requests :
           /\ shares[r] \in Nat /\ sends[r] \in Nat /\ OnItsWay(toGemini, r) \in Nat
           /\ sends[r] + OnItsWay(toGemini, r) + (IF gemini.box = r THEN 1 ELSE 0) <= shares[r]
BY DEF AssistanceInv, AssistanceTyped, SentAsShared, OnItsWay

LEMMA PersonSendsKeeps == ASSUME AssistanceInv, PersonSends PROVE AssistanceInv'
<1> USE DEF PersonSends
<1>1. AssistanceTyped
  BY DEF AssistanceInv
<1>2. gemini' \in GeminiType /\ gemini'.fresh = gemini.fresh /\ gemini'.box = 0
  BY <1>1, AssistanceFacts DEF AssistanceTyped, GeminiType
<1>3. gemini.box # Draft => gemini.box \in Requests
  BY <1>1, AssistanceFacts DEF AssistanceTyped, GeminiType
<1>4. sends' \in [Requests -> Nat]
  BY <1>1, <1>3 DEF AssistanceTyped
<1>5. AssistanceTyped'
  BY <1>1, <1>2, <1>4 DEF AssistanceTyped, Queue, queues
<1>6. SentAsShared'
  <2> SUFFICES ASSUME NEW r \in Requests
               PROVE  sends'[r] + OnItsWay(toGemini, r) + (IF gemini'.box = r THEN 1 ELSE 0)
                        <= shares[r]
    BY DEF SentAsShared, AssistanceInv, queues
  <2>1. gemini'.box # r
    BY <1>2 DEF Requests
  <2>2. sends'[r] = IF gemini.box = r THEN sends[r] + 1 ELSE sends[r]
    BY <1>1, <1>3, AssistanceFacts DEF AssistanceTyped
  <2> QED
    BY <2>1, <2>2, SharesCount
<1> QED
  BY <1>1, <1>5, <1>6, Elsewhere

LEMMA PersonTypesKeeps == ASSUME AssistanceInv, PersonTypes PROVE AssistanceInv'
<1> USE DEF PersonTypes
<1>1. AssistanceTyped
  BY DEF AssistanceInv
<1>2. gemini' \in GeminiType /\ gemini'.fresh = gemini.fresh /\ gemini'.box = Draft
  BY <1>1, AssistanceFacts DEF AssistanceTyped, GeminiType
<1>3. AssistanceTyped'
  BY <1>1, <1>2 DEF AssistanceTyped, Queue, queues
<1>4. SentAsShared'
  <2> SUFFICES ASSUME NEW r \in Requests
               PROVE  sends[r] + OnItsWay(toGemini, r) + (IF gemini'.box = r THEN 1 ELSE 0)
                        <= shares[r]
    BY DEF SentAsShared, AssistanceInv, queues
  <2>1. gemini'.box # r
    BY <1>2, AssistanceFacts
  <2> QED
    BY <2>1, SharesCount
<1> QED
  BY <1>1, <1>3, <1>4, Elsewhere

LEMMA GeminiAnswersKeeps ==
  ASSUME AssistanceInv, NEW named \in Maybe, GeminiAnswers(named) PROVE AssistanceInv'
<1> USE DEF GeminiAnswers
<1>1. AssistanceTyped
  BY DEF AssistanceInv
<1>2. Append(gemini.fresh, named) \in Seq(Maybe) /\ Len(Append(gemini.fresh, named)) <= 2
  BY <1>1, AppendFacts DEF AssistanceTyped, GeminiType
<1> DEFINE f == IF gemini.adapter.attempted \/ gemini.adapter.prepared # 0
                THEN Append(gemini.fresh, named) ELSE gemini.fresh
<1>3. gemini' = [gemini EXCEPT !.busy = FALSE, !.fresh = f]
  OBVIOUS
<1>4. f \in Seq(Maybe) /\ Len(f) <= 2
  BY <1>1, <1>2 DEF AssistanceTyped, GeminiType
<1> HIDE DEF f
<1>5. gemini' \in GeminiType /\ gemini'.fresh = f /\ gemini'.box = gemini.box
  BY <1>1, <1>3, <1>4 DEF AssistanceTyped, GeminiType
<1>6. AssistanceTyped'
  BY <1>1, <1>4, <1>5 DEF AssistanceTyped, Queue, queues
<1>7. SentAsShared'
  BY <1>5 DEF SentAsShared, AssistanceInv, queues
<1> QED
  BY <1>1, <1>6, <1>7, Elsewhere

LEMMA GeminiLoadsKeeps ==
  ASSUME AssistanceInv, NEW home \in BOOLEAN, GeminiLoads(home) PROVE AssistanceInv'
<1> USE DEF GeminiLoads
<1>1. AssistanceTyped
  BY DEF AssistanceInv
<1>2. gemini' \in GeminiType /\ gemini'.fresh = <<>> /\ gemini'.box = 0
  BY <1>1, AssistanceFacts, EmptyQueue DEF AssistanceTyped, GeminiType, AdapterType, NoAdapter, Queue
<1>3. AssistanceTyped'
  BY <1>1, <1>2, EmptyQueue DEF AssistanceTyped, Queue
<1>4. SentAsShared'
  <2>1. \A r \in Requests : gemini'.box # r /\ OnItsWay(toGemini', r) = 0
    BY <1>2, EmptyQueue DEF Requests, OnItsWay, IsShareOf
  <2>2. \A r \in Requests : sends[r] <= shares[r]
    <3> TAKE r \in Requests
    <3> DEFINE b == IF gemini.box = r THEN 1 ELSE 0
    <3>1. b \in Nat
      OBVIOUS
    <3>2. sends[r] + OnItsWay(toGemini, r) + b <= shares[r]
      BY SharesCount
    <3> HIDE DEF b
    <3> QED
      BY <3>1, <3>2, SharesCount
  <2> QED
    BY <2>1, <2>2, SharesCount, EmptyQueue DEF SentAsShared
<1>5. CapturesInOrder' /\ ResultsFit' /\ NothingAsked'
  BY DEF AssistanceInv, CapturesInOrder, ResultsFit, NothingAsked
<1>6. CapturedOnce'
  BY EmptyQueue DEF AssistanceInv, CapturedOnce, CaptureUnderWay
<1>7. SharesFirst'
  BY EmptyQueue DEF AssistanceInv, SharesFirst, ShareUnderWay, Quiet
<1> QED
  BY <1>3, <1>4, <1>5, <1>6, <1>7 DEF AssistanceInv

LEMMA SourceMovesKeeps == ASSUME AssistanceInv, SourceMoves PROVE AssistanceInv'
<1> USE DEF SourceMoves
<1>1. AssistanceTyped
  BY DEF AssistanceInv
<1>2. source' \in SourceType /\ source'.snapshot = source.snapshot
  BY <1>1, AssistanceFacts DEF AssistanceTyped, SourceType
<1> DEFINE m == Script("moved", 0, 0)
<1>3. m \in SourceResults /\ m.do = "moved" /\ m.named = 0
  <2>1. 0 \in Maybe
    BY AssistanceFacts
  <2> QED
    BY <2>1 DEF SourceResults, Script, MessageType
<1> HIDE DEF m
<1>4. /\ fromSource \in Seq(SourceResults) /\ Len(fromSource) < 2
      /\ fromSource' = Append(fromSource, m)
  BY <1>1 DEF AssistanceTyped, Queue, m
<1>5. /\ Queue(fromSource', SourceResults) /\ Len(fromSource) \in Nat
      /\ Len(fromSource') = Len(fromSource) + 1
      /\ \A i \in 1..Len(fromSource') :
           (i \in 1..Len(fromSource) /\ fromSource'[i] = fromSource[i])
             \/ (i = Len(fromSource) + 1 /\ fromSource'[i] = m)
  BY <1>3, <1>4, AppendFacts DEF Queue
<1>6. AssistanceTyped'
  BY <1>1, <1>2, <1>5 DEF AssistanceTyped, Queue
<1>7. CapturesInOrder' /\ SentAsShared'
  BY <1>2 DEF AssistanceInv, CapturesInOrder, SentAsShared
<1>8. ResultsFit'
  BY <1>2, <1>3, <1>5 DEF AssistanceInv, ResultsFit
<1>9. NothingAsked'
  BY <1>3, <1>5 DEF AssistanceInv, NothingAsked
<1>10. CapturedOnce'
  BY <1>3, <1>5 DEF AssistanceInv, CapturedOnce, CaptureUnderWay
<1>11. SharesFirst'
  BY <1>3, <1>5 DEF AssistanceInv, SharesFirst, ShareUnderWay, Quiet
<1> QED
  BY <1>6, <1>7, <1>8, <1>9, <1>10, <1>11 DEF AssistanceInv

LEMMA SourceLeftKeeps ==
  ASSUME AssistanceInv, NEW closes \in BOOLEAN, SourceLeft(closes) PROVE AssistanceInv'
<1>1. AssistanceTyped /\ ResultsFit
  BY DEF AssistanceInv
<1>2. source' \in SourceType /\ source'.snapshot = 0
  BY AssistanceFacts DEF SourceType, SourceLeft
<1>3. toSource' = <<>> /\ fromSource' = <<>> /\ UNCHANGED <<pressSend, gemini, shares, sends>>
  BY DEF SourceLeft
<1>4. ASSUME Untroubled, ~closes PROVE AssistanceInv'
  <2>1. UNCHANGED <<session, toGemini, fromGemini>>
    BY <1>4 DEF SourceLeft
  <2>2. session.candidate = 0 /\ session.state # "capturing" /\ session.state # "ready"
    BY <1>1, <1>4 DEF ResultsFit, Untroubled
  <2>3. AssistanceTyped'
    BY <1>1, <1>2, <1>3, <2>1, EmptyQueue DEF AssistanceTyped, Queue
  <2>4. session.req \in Nat
    BY <1>1, AssistanceFacts DEF AssistanceTyped, SessionType, Maybe
  <2>5. CapturesInOrder'
    BY <1>2, <1>3, <2>1, <2>4, EmptyQueue DEF CapturesInOrder
  <2>6. ResultsFit' /\ NothingAsked'
    BY <1>1, <1>2, <1>3, <2>1, <2>2, EmptyQueue DEF ResultsFit, NothingAsked, AssistanceInv
  <2>7. CapturedOnce'
    BY <1>3, <2>1, <2>2, EmptyQueue DEF CapturedOnce, CaptureUnderWay
  <2>8. SharesFirst'
    BY <1>3, <2>1, <2>2, EmptyQueue DEF AssistanceInv, SharesFirst, ShareUnderWay, Quiet
  <2>9. SentAsShared'
    BY <1>3, <2>1 DEF AssistanceInv, SentAsShared
  <2> QED
    BY <2>3, <2>5, <2>6, <2>7, <2>8, <2>9 DEF AssistanceInv
<1>5. ASSUME ~(Untroubled /\ ~closes) PROVE AssistanceInv'
  <2>1. /\ session' = Stopped(IF closes THEN "failed" ELSE "stale")
        /\ toGemini' = Unheard(toGemini) /\ fromGemini' = <<>>
    BY <1>5 DEF SourceLeft
  <2>2. session.req = 0 => closes
    BY <1>5 DEF AssistanceInv, NothingAsked, Untroubled
  <2>3. /\ session' \in SessionType /\ session'.req = session.req /\ session'.candidate = 0
        /\ ~session'.timer /\ session'.prompt \in {0, session.req}
        /\ session'.state = IF closes THEN "failed" ELSE "stale"
    BY <1>1, <2>1, AssistanceFacts DEF AssistanceTyped, ResultsFit, SessionType, Stopped, Phases
  <2>4. toGemini' \in Seq(GeminiScripts) /\ Dying(toGemini', toGemini)
    BY <1>1, <2>1, UnheardFacts DEF AssistanceTyped, Queue, GeminiScripts
  <2>5. toSource' \in Seq(SourceScripts) /\ Dying(toSource', toSource)
    BY <1>1, <1>3, EmptyQueue DEF AssistanceTyped, Queue, Dying
  <2> QED
    BY <1>2, <1>3, <2>1, <2>2, <2>3, <2>4, <2>5, EmptyQueue, Resting
<1> QED
  BY <1>4, <1>5

\* A script has been taken from its queue, and its result put behind the others.
Took(q, q1, r, r1, do, named) ==
  /\ Len(q1) = Len(q) - 1 /\ Len(q) \in 1..2
  /\ \A i \in 1..Len(q1) : q1[i] = q[i + 1] /\ i + 1 \in 1..Len(q)
  /\ \/ ~q[1].live /\ r1 = r
     \/ /\ q[1].live /\ Len(r1) = Len(r) + 1
        /\ \A i \in 1..Len(r1) :
             \/ i \in 1..Len(r) /\ r1[i] = r[i]
             \/ i = Len(r1) /\ r1[i].do = do /\ r1[i].named = named

LEMMA TookFacts ==
  ASSUME NEW dos, NEW q \in Seq(MessageType(dos)), Len(q) <= 2, q # <<>>, NEW q1, q1 = Tail(q),
         NEW results, NEW r \in Seq(MessageType(results)), Len(r) < 2,
         NEW do \in results, NEW named \in Maybe,
         NEW r1, r1 = Behind(r, Head(q), do, named)
  PROVE  /\ Queue(q1, MessageType(dos)) /\ Queue(r1, MessageType(results))
         /\ q[1] = Head(q) /\ q[1] \in MessageType(dos)
         /\ Took(q, q1, r, r1, do, named)
<1>1. /\ Head(q) = q[1] /\ q[1] \in MessageType(dos) /\ Queue(q1, MessageType(dos))
      /\ Len(q1) = Len(q) - 1 /\ Len(q) \in 1..2
      /\ \A i \in 1..Len(q1) : q1[i] = q[i + 1] /\ i + 1 \in 1..Len(q)
  BY TailFacts DEF Queue
<1> DEFINE m == [q[1] EXCEPT !.do = do, !.named = named]
<1>2. m \in MessageType(results) /\ m.do = do /\ m.named = named
  BY <1>1 DEF MessageType
<1>3. r1 = IF q[1].live THEN Append(r, m) ELSE r
  BY <1>1 DEF Behind
<1> HIDE DEF m
<1>4. /\ Append(r, m) \in Seq(MessageType(results)) /\ Len(Append(r, m)) = Len(r) + 1
      /\ Len(r) \in Nat /\ Len(Append(r, m)) <= 2
      /\ \A i \in 1..Len(r) : Append(r, m)[i] = r[i]
      /\ Append(r, m)[Len(r) + 1] = m
  BY <1>2, AppendFacts
<1>5. CASE ~q[1].live
  BY <1>1, <1>3, <1>4, <1>5 DEF Queue, Took
<1>6. CASE q[1].live
  <2>1. r1 = Append(r, m)
    BY <1>3, <1>6
  <2>2. \A i \in 1..Len(r1) :
          \/ i \in 1..Len(r) /\ r1[i] = r[i]
          \/ i = Len(r1) /\ r1[i].do = do /\ r1[i].named = named
    BY <1>2, <1>4, <2>1
  <2> QED
    BY <1>1, <1>4, <1>6, <2>1, <2>2 DEF Queue, Took
<1> QED
  BY <1>5, <1>6

LEMMA TailOnItsWay ==
  ASSUME NEW S, NEW q \in Seq(S), Len(q) \in 1..2, NEW q1 \in Seq(S), Len(q1) = Len(q) - 1,
         \A i \in 1..Len(q1) : q1[i] = q[i + 1], NEW r
  PROVE  /\ OnItsWay(q1, r) \in Nat
         /\ OnItsWay(q, r) = OnItsWay(q1, r) + (IF q[1].do = "share" /\ q[1].req = r THEN 1 ELSE 0)
<1>1. IsShareOf(q, 1, r) <=> q[1].do = "share" /\ q[1].req = r
  BY DEF IsShareOf
<1>2. IsShareOf(q, 2, r) <=> IsShareOf(q1, 1, r)
  BY DEF IsShareOf
<1>3. ~IsShareOf(q1, 2, r)
  BY DEF IsShareOf
<1> QED
  BY <1>1, <1>2, <1>3 DEF OnItsWay

\* A script of Gemini's tab has run, with a result of its kind or, if lost, none.
LEMMA Backed ==
  ASSUME AssistanceInv, AssistanceTyped', NEW do, NEW named,
         \/ Took(toGemini, toGemini', fromGemini, fromGemini', do, named)
         \/ /\ Len(toGemini') = Len(toGemini) - 1 /\ Len(toGemini) \in 1..2
            /\ \A i \in 1..Len(toGemini') :
                 toGemini'[i] = toGemini[i + 1] /\ i + 1 \in 1..Len(toGemini)
            /\ fromGemini' = fromGemini,
         (toGemini[1].do = "share") <=> (do \in Shared),
         UNCHANGED <<session, source, toSource, fromSource>>
  PROVE  /\ CapturesInOrder' /\ ResultsFit' /\ NothingAsked' /\ CapturedOnce' /\ SharesFirst'
         /\ \A i \in 1..Len(toGemini') : toGemini'[i].req \in Requests
<1>1. CapturesInOrder' /\ ResultsFit'
  BY DEF AssistanceInv, CapturesInOrder, ResultsFit
<1>2. Len(toGemini) \in 1..2 /\ Len(toGemini') = Len(toGemini) - 1
      /\ \A i \in 1..Len(toGemini') :
           toGemini'[i] = toGemini[i + 1] /\ i + 1 \in 1..Len(toGemini)
  BY DEF Took
<1>3. \/ fromGemini' = fromGemini
      \/ /\ toGemini[1].live /\ Len(fromGemini') = Len(fromGemini) + 1
         /\ \A i \in 1..Len(fromGemini') :
              \/ i \in 1..Len(fromGemini) /\ fromGemini'[i] = fromGemini[i]
              \/ i = Len(fromGemini') /\ fromGemini'[i].do = do
  BY DEF Took
<1>4. NothingAsked'
  <2>1. toGemini # <<>>
    BY <1>2, EmptyQueue
  <2> QED
    BY <2>1 DEF AssistanceInv, NothingAsked
<1>5. CapturedOnce'
  <2>1. CapturedOnce
    BY DEF AssistanceInv
  <2>2. CaptureUnderWay' <=> CaptureUnderWay
    BY DEF CaptureUnderWay
  <2>3. ASSUME session.state = "capturing" PROVE fromGemini' = <<>>
    BY <1>2, <1>3, <2>1, <2>3 DEF CapturedOnce
  <2>4. ASSUME session.state = "capturing" PROVE \A i \in 1..Len(toGemini') : ~toGemini'[i].live
    BY <1>2, <2>1, <2>4 DEF CapturedOnce
  <2> QED
    BY <2>1, <2>2, <2>3, <2>4 DEF CapturedOnce
<1>6. SharesFirst'
  <2>1. SharesFirst
    BY DEF AssistanceInv
  <2>2. \A i \in 1..Len(toGemini') : toGemini'[i].live /\ toGemini'[i].do = "share" =>
          /\ \A j \in 1..Len(fromGemini) : fromGemini[j].do \in Shared
          /\ \A j \in 1..Len(toGemini) : j < i + 1 /\ toGemini[j].live => toGemini[j].do = "share"
    BY <1>2, <2>1 DEF SharesFirst
  <2>3. ASSUME session'.state = "ready"
        PROVE  /\ session'.prompt = session'.req /\ ~session'.timer
               /\ \A i \in 1..Len(toGemini') : toGemini'[i].live => toGemini'[i].do = "share"
               /\ \A i \in 1..Len(fromGemini') : fromGemini'[i].do \in Shared
    BY <1>2, <1>3, <2>1, <2>3 DEF SharesFirst
  <2>4. ShareUnderWay' => ShareUnderWay
    BY <1>2, <1>3 DEF ShareUnderWay
  <2>5. session'.state = "ready" \/ ShareUnderWay' => Quiet'
    BY <2>1, <2>4 DEF SharesFirst, Quiet
  <2>6. \A i, j \in 1..Len(fromGemini') :
          i < j /\ fromGemini'[j].do \in Shared => fromGemini'[i].do \in Shared
    <3>1. CASE fromGemini' = fromGemini
      BY <2>1, <3>1 DEF SharesFirst
    <3>2. CASE toGemini[1].do = "share" /\ toGemini[1].live
      <4>1. \A j \in 1..Len(fromGemini) : fromGemini[j].do \in Shared
        BY <1>2, <2>1, <3>2 DEF SharesFirst
      <4> QED
        BY <1>3, <3>2, <4>1
    <3>3. CASE toGemini[1].do # "share" /\ fromGemini' # fromGemini
      <4>1. do \notin Shared
        BY <3>3
      <4>2. Len(fromGemini) \in Nat
        BY DEF AssistanceInv, AssistanceTyped, Queue
      <4> QED
        BY <1>3, <2>1, <3>3, <4>1, <4>2 DEF SharesFirst
    <3> QED
      BY <1>3, <3>1, <3>2, <3>3
  <2>7. \A i \in 1..Len(toGemini') : toGemini'[i].live /\ toGemini'[i].do = "share" =>
          \A j \in 1..Len(fromGemini') : fromGemini'[j].do \in Shared
    BY <1>2, <1>3, <2>2
  <2>8. \A i \in 1..Len(toGemini') : toGemini'[i].live /\ toGemini'[i].do = "share" =>
          \A j \in 1..Len(toGemini') : j < i /\ toGemini'[j].live => toGemini'[j].do = "share"
    <3>1. Len(toGemini') \in 0..1
      BY <1>2
    <3> QED
      BY <3>1
  <2> QED
    BY <2>3, <2>5, <2>6, <2>7, <2>8 DEF SharesFirst
<1>7. \A i \in 1..Len(toGemini') : toGemini'[i].req \in Requests
  BY <1>2 DEF AssistanceInv, SentAsShared
<1> QED
  BY <1>1, <1>4, <1>5, <1>6, <1>7

LEMMA RanInGemini ==
  ASSUME AssistanceInv, toGemini # <<>>, Len(fromGemini) < 2, toGemini' = Tail(toGemini),
         NEW do \in Shared \cup Polled, NEW named \in Maybe,
         fromGemini' = Behind(fromGemini, Head(toGemini), do, named)
  PROVE  /\ Queue(toGemini', GeminiScripts) /\ Queue(fromGemini', GeminiResults)
         /\ toGemini[1] = Head(toGemini) /\ toGemini[1] \in GeminiScripts
         /\ Took(toGemini, toGemini', fromGemini, fromGemini', do, named)
<1> DEFINE dos == {"share", "poll"}
           results == Shared \cup Polled
<1>1. /\ toGemini \in Seq(MessageType(dos)) /\ Len(toGemini) <= 2
      /\ fromGemini \in Seq(MessageType(results)) /\ do \in results
  BY DEF AssistanceInv, AssistanceTyped, Queue, GeminiScripts, GeminiResults
<1> HIDE DEF dos, results
<1>2. /\ Queue(toGemini', MessageType(dos)) /\ Queue(fromGemini', MessageType(results))
      /\ toGemini[1] = Head(toGemini) /\ toGemini[1] \in MessageType(dos)
      /\ Took(toGemini, toGemini', fromGemini, fromGemini', do, named)
  BY <1>1, TookFacts
<1> QED
  BY <1>2 DEF GeminiScripts, GeminiResults, dos, results

LEMMA RanInSource ==
  ASSUME AssistanceInv, toSource # <<>>, Len(fromSource) < 2, toSource' = Tail(toSource),
         NEW do \in {"moved", "captured", "parsed", "shown"}, NEW named \in Maybe,
         fromSource' = Behind(fromSource, Head(toSource), do, named)
  PROVE  /\ Queue(toSource', SourceScripts) /\ Queue(fromSource', SourceResults)
         /\ toSource[1] = Head(toSource) /\ toSource[1] \in SourceScripts
         /\ Took(toSource, toSource', fromSource, fromSource', do, named)
<1> DEFINE dos == {"capture", "parse", "show"}
           results == {"moved", "captured", "parsed", "shown"}
<1>1. /\ toSource \in Seq(MessageType(dos)) /\ Len(toSource) <= 2
      /\ fromSource \in Seq(MessageType(results)) /\ do \in results
  BY DEF AssistanceInv, AssistanceTyped, Queue, SourceScripts, SourceResults
<1> HIDE DEF dos, results
<1>2. /\ Queue(toSource', MessageType(dos)) /\ Queue(fromSource', MessageType(results))
      /\ toSource[1] = Head(toSource) /\ toSource[1] \in MessageType(dos)
      /\ Took(toSource, toSource', fromSource, fromSource', do, named)
  BY <1>1, TookFacts
<1> QED
  BY <1>2 DEF SourceScripts, SourceResults, dos, results

LEMMA RunShareKeeps ==
  ASSUME AssistanceInv, NEW ready \in BOOLEAN, NEW pressed \in BOOLEAN, RunShare(ready, pressed)
  PROVE  AssistanceInv'
<1> DEFINE r == Head(toGemini).req
           prepared == ready /\ gemini.home /\ ~gemini.busy /\ gemini.box = 0
           submitted == prepared /\ pressSend /\ pressed
           adapter == [NoAdapter EXCEPT !.there = TRUE]
           do == IF submitted \/ (prepared /\ ~pressSend) THEN "shared" ELSE "notShared"
<1>1. AssistanceTyped
  BY DEF AssistanceInv
<1>2. /\ toGemini # <<>> /\ Head(toGemini).do = "share" /\ Len(fromGemini) < 2
      /\ toGemini' = Tail(toGemini)
      /\ fromGemini' = Behind(fromGemini, Head(toGemini), do, 0)
      /\ sends' = IF submitted THEN [sends EXCEPT ![r] = @ + 1] ELSE sends
      /\ UNCHANGED <<session, pressSend, source, toSource, fromSource, moves, shares>>
  BY DEF RunShare, Back
<1>3. IF ~prepared THEN gemini' = [gemini EXCEPT !.adapter = adapter]
      ELSE IF ~submitted
      THEN gemini' = [gemini EXCEPT !.box = r, !.fresh = <<>>,
                        !.adapter = [adapter EXCEPT !.prepared = r]]
      ELSE gemini' = [gemini EXCEPT !.busy = TRUE, !.fresh = <<>>,
                        !.adapter = [adapter EXCEPT !.attempted = TRUE]]
  BY DEF RunShare
<1>4. do \in Shared /\ do \in Shared \cup Polled
  BY DEF Shared
<1> HIDE DEF do
<1>5. /\ Queue(toGemini', GeminiScripts) /\ Queue(fromGemini', GeminiResults)
      /\ toGemini[1] = Head(toGemini) /\ toGemini[1] \in GeminiScripts
      /\ Took(toGemini, toGemini', fromGemini, fromGemini', do, 0)
  <2>1. 0 \in Maybe
    BY AssistanceFacts
  <2> QED
    BY <1>2, <1>4, <2>1, RanInGemini
<1>6. r \in Requests /\ r \in Maybe
  BY <1>5, AssistanceFacts DEF AssistanceInv, SentAsShared, Took
<1> HIDE DEF r
<1>7. gemini' \in GeminiType /\ Len(gemini'.fresh) <= 2
  <2>1. /\ adapter \in AdapterType /\ [adapter EXCEPT !.prepared = r] \in AdapterType
        /\ [adapter EXCEPT !.attempted = TRUE] \in AdapterType
    BY <1>6, AssistanceFacts DEF AdapterType, NoAdapter
  <2> HIDE DEF adapter
  <2>2. <<>> \in Seq(Maybe) /\ Len(<<>>) <= 2
    BY EmptyQueue DEF Queue
  <2>3. gemini \in GeminiType /\ Len(gemini.fresh) <= 2
    BY <1>1 DEF AssistanceTyped
  <2>4. CASE ~prepared
    <3>1. gemini' = [gemini EXCEPT !.adapter = adapter]
      BY <1>3, <2>4
    <3> QED
      BY <2>1, <2>3, <3>1 DEF GeminiType
  <2>5. CASE prepared /\ ~submitted
    <3>1. gemini' = [gemini EXCEPT !.box = r, !.fresh = <<>>,
                       !.adapter = [adapter EXCEPT !.prepared = r]]
      BY <1>3, <2>5
    <3> HIDE DEF prepared
    <3> QED
      BY <1>6, <2>1, <2>2, <2>3, <3>1 DEF GeminiType
  <2>6. CASE submitted
    <3>1. gemini' = [gemini EXCEPT !.busy = TRUE, !.fresh = <<>>,
                       !.adapter = [adapter EXCEPT !.attempted = TRUE]]
      BY <1>3, <2>6
    <3> HIDE DEF submitted
    <3> QED
      BY <1>6, <2>1, <2>2, <2>3, <3>1 DEF GeminiType
  <2> QED
    BY <2>4, <2>5, <2>6
<1>8. /\ submitted => gemini'.box = gemini.box
      /\ ~submitted => gemini'.box = gemini.box \/ (gemini.box = 0 /\ gemini'.box = r)
  <2>1. gemini \in GeminiType
    BY <1>1 DEF AssistanceTyped
  <2> QED
    BY <1>3, <2>1 DEF GeminiType
<1> HIDE DEF submitted
<1>9. sends' \in [Requests -> Nat]
      /\ \A s \in Requests : sends'[s] = IF submitted /\ s = r THEN sends[s] + 1 ELSE sends[s]
  BY <1>1, <1>2, <1>6 DEF AssistanceTyped
<1>10. AssistanceTyped'
  BY <1>1, <1>2, <1>5, <1>7, <1>9 DEF AssistanceTyped
<1>11. CapturesInOrder' /\ ResultsFit' /\ NothingAsked' /\ CapturedOnce' /\ SharesFirst'
       /\ \A i \in 1..Len(toGemini') : toGemini'[i].req \in Requests
  BY <1>2, <1>4, <1>5, <1>10, Backed
<1>12. SentAsShared'
  <2> SUFFICES ASSUME NEW s \in Requests
               PROVE  sends'[s] + OnItsWay(toGemini', s) + (IF gemini'.box = s THEN 1 ELSE 0)
                        <= shares[s]
    BY <1>2, <1>11 DEF SentAsShared
  <2>1. /\ OnItsWay(toGemini', s) \in Nat
        /\ OnItsWay(toGemini, s) = OnItsWay(toGemini', s) + (IF r = s THEN 1 ELSE 0)
    <3> DEFINE S == GeminiScripts
    <3>1. toGemini \in Seq(S) /\ toGemini' \in Seq(S)
      BY <1>1, <1>5 DEF AssistanceTyped, Queue
    <3> HIDE DEF S
    <3>2. /\ Len(toGemini) \in 1..2 /\ Len(toGemini') = Len(toGemini) - 1
          /\ \A i \in 1..Len(toGemini') : toGemini'[i] = toGemini[i + 1]
      BY <1>5 DEF Took
    <3>3. toGemini[1].do = "share" /\ toGemini[1].req = r
      BY <1>2, <1>5 DEF r
    <3> QED
      BY <3>1, <3>2, <3>3, TailOnItsWay
  <2>2. s # 0
    BY DEF Requests
  <2> QED
    BY <1>8, <1>9, <2>1, <2>2, SharesCount
<1> QED
  BY <1>10, <1>11, <1>12 DEF AssistanceInv

\* No poll changes what was shared.
LEMMA RunPollKeeps ==
  ASSUME AssistanceInv, NEW how \in {"lost", "other", "tooLong", "reply"}, RunPoll(how)
  PROVE  AssistanceInv'
<1>1. AssistanceTyped
  BY DEF AssistanceInv
<1>2. /\ toGemini # <<>> /\ Head(toGemini).do = "poll" /\ Len(fromGemini) < 2
      /\ toGemini' = Tail(toGemini)
      /\ UNCHANGED <<session, pressSend, source, gemini, toSource, fromSource, shares, sends>>
  BY DEF RunPoll, Back
<1>3. /\ toGemini[1] = Head(toGemini) /\ Queue(toGemini', GeminiScripts)
      /\ Len(toGemini) \in 1..2 /\ Len(toGemini') = Len(toGemini) - 1
      /\ \A i \in 1..Len(toGemini') :
           toGemini'[i] = toGemini[i + 1] /\ i + 1 \in 1..Len(toGemini)
  BY <1>1, <1>2, TailFacts DEF AssistanceTyped, Queue
<1>4. \/ fromGemini' = fromGemini
      \/ \E do \in Polled, named \in Maybe :
           fromGemini' = Behind(fromGemini, Head(toGemini), do, named)
  <2>1. Len(gemini.fresh) = 1 => Head(gemini.fresh) \in Maybe
    <3>1. gemini.fresh \in Seq(Maybe)
      BY <1>1 DEF AssistanceTyped, GeminiType
    <3> QED
      BY <3>1, EmptySeq, HeadTailProperties
  <2>2. "gone" \in Polled /\ "other" \in Polled /\ "waiting" \in Polled /\ 0 \in Maybe
        /\ (how = "lost" \/ how \in Polled)
    BY AssistanceFacts DEF Polled
  <2> QED
    BY <2>1, <2>2 DEF RunPoll, Back
<1>5. PICK do \in Polled :
        /\ Queue(fromGemini', GeminiResults)
        /\ \/ fromGemini' = fromGemini
           \/ \E named : Took(toGemini, toGemini', fromGemini, fromGemini', do, named)
  <2>1. "gone" \in Polled
    BY DEF Polled
  <2>2. CASE fromGemini' = fromGemini
    BY <1>1, <2>1, <2>2 DEF AssistanceTyped
  <2>3. ASSUME NEW do \in Polled, NEW named \in Maybe,
               fromGemini' = Behind(fromGemini, Head(toGemini), do, named)
        PROVE  /\ Queue(fromGemini', GeminiResults)
               /\ Took(toGemini, toGemini', fromGemini, fromGemini', do, named)
    BY <1>2, <2>3, RanInGemini
  <2> QED
    BY <1>4, <2>2, <2>3
<1>6. AssistanceTyped'
  BY <1>1, <1>2, <1>3, <1>5 DEF AssistanceTyped
<1>7. toGemini[1].do # "share" /\ do \notin Shared
  BY <1>2, <1>3, <1>5 DEF Shared, Polled
<1>8. CapturesInOrder' /\ ResultsFit' /\ NothingAsked' /\ CapturedOnce' /\ SharesFirst'
      /\ \A i \in 1..Len(toGemini') : toGemini'[i].req \in Requests
  BY <1>2, <1>3, <1>5, <1>6, <1>7, Backed
<1>9. SentAsShared'
  <2>1. \A r \in Requests : /\ OnItsWay(toGemini', r) \in Nat
                            /\ OnItsWay(toGemini, r) = OnItsWay(toGemini', r)
    <3> TAKE r \in Requests
    <3> DEFINE S == GeminiScripts
    <3>1. toGemini \in Seq(S) /\ toGemini' \in Seq(S)
      BY <1>1, <1>3 DEF AssistanceTyped, Queue
    <3> HIDE DEF S
    <3>2. /\ OnItsWay(toGemini', r) \in Nat
          /\ OnItsWay(toGemini, r) = OnItsWay(toGemini', r)
               + (IF toGemini[1].do = "share" /\ toGemini[1].req = r THEN 1 ELSE 0)
      BY <1>3, <3>1, TailOnItsWay
    <3> QED
      BY <1>7, <3>2
  <2> QED
    BY <1>2, <1>8, <2>1, SharesCount DEF SentAsShared
<1> QED
  BY <1>6, <1>8, <1>9 DEF AssistanceInv

\* A script of the page that read the snapshot has run.
LEMMA AnsweredInSource ==
  ASSUME AssistanceInv, AssistanceTyped', NEW do \in {"parsed", "shown"}, NEW named,
         Took(toSource, toSource', fromSource, fromSource', do, named),
         toSource[1].do # "capture",
         named # 0 => named = toSource[1].req /\ (do = "shown" \/ named = source.snapshot),
         UNCHANGED <<session, pressSend, source, gemini, toGemini, fromGemini, shares, sends>>
  PROVE  AssistanceInv'
<1>1. CapturesInOrder /\ ResultsFit /\ CapturedOnce /\ SharesFirst
  BY DEF AssistanceInv
<1>2. /\ Len(toSource) \in 1..2 /\ Len(toSource') = Len(toSource) - 1
      /\ \A i \in 1..Len(toSource') : toSource'[i] = toSource[i + 1] /\ i + 1 \in 1..Len(toSource)
  BY DEF Took
<1>3. \/ ~toSource[1].live /\ fromSource' = fromSource
      \/ /\ toSource[1].live /\ Len(fromSource') = Len(fromSource) + 1
         /\ \A i \in 1..Len(fromSource') :
              \/ i \in 1..Len(fromSource) /\ fromSource'[i] = fromSource[i]
              \/ i = Len(fromSource') /\ fromSource'[i].do = do /\ fromSource'[i].named = named
  BY DEF Took
<1>4. do # "captured" /\ do # "moved"
  OBVIOUS
<1>5. toSource[1].live => toSource[1].req = session.req
  BY <1>1, <1>2 DEF CapturesInOrder
<1>6. CapturesInOrder'
  <2>1. \A i \in 1..Len(toSource') :
          /\ toSource'[i].req <= session.req
          /\ toSource'[i].live => toSource'[i].req = session.req
          /\ toSource'[i].do = "capture" => source.snapshot # session.req
    BY <1>1, <1>2 DEF CapturesInOrder
  <2>2. \A i, j \in 1..Len(toSource') :
          i < j /\ toSource'[i].do = "capture" /\ toSource'[j].do = "capture"
            => toSource'[i].req < toSource'[j].req
    BY <1>1, <1>2 DEF CapturesInOrder
  <2> QED
    BY <1>1, <2>1, <2>2 DEF CapturesInOrder
<1>7. ResultsFit'
  <2>1. toSource[1].live => named \in {0, session.req}
    BY <1>5
  <2>2. toSource[1].live /\ do = "parsed" /\ named # 0 => source.snapshot = session.req
    BY <1>5
  <2>3. \A i \in 1..Len(fromSource') :
          fromSource'[i].do # "moved" => fromSource'[i].named \in {0, session.req}
    BY <1>1, <1>3, <2>1 DEF ResultsFit
  <2>4. \A i \in 1..Len(fromSource') :
          fromSource'[i].do = "parsed" /\ fromSource'[i].named # 0
            => source.snapshot = session.req
    BY <1>1, <1>3, <2>2 DEF ResultsFit
  <2> QED
    BY <1>1, <2>3, <2>4 DEF ResultsFit
<1>8. toSource # <<>>
  BY <1>2, EmptyQueue
<1>9. NothingAsked'
  BY <1>8 DEF AssistanceInv, NothingAsked
<1>10. (CaptureUnderWay' => CaptureUnderWay) /\ (session.state = "capturing" => ~toSource[1].live)
  BY <1>1, <1>2, <1>3, <1>4 DEF CaptureUnderWay, CapturedOnce
<1>11. Len(fromSource) \in Nat
  BY DEF AssistanceInv, AssistanceTyped, Queue
<1>12. CapturedOnce'
  <2>1. CaptureUnderWay' => session'.state = "capturing"
    BY <1>1, <1>10 DEF CapturedOnce
  <2>2. ASSUME session'.state = "capturing"
        PROVE  /\ session'.candidate = 0 /\ ~session'.timer
               /\ \A i \in 1..Len(toSource') : toSource'[i].live => toSource'[i].do = "capture"
               /\ \A i \in 1..Len(fromSource') : fromSource'[i].do \in {"moved", "captured"}
               /\ \A i \in 1..Len(toGemini') : ~toGemini'[i].live
               /\ fromGemini' = <<>>
    BY <1>1, <1>2, <1>3, <1>10, <2>2 DEF CapturedOnce
  <2>3. \A i, j \in 1..Len(fromSource') :
          i < j => ~(fromSource'[i].do = "captured" /\ fromSource'[j].do = "captured")
    BY <1>1, <1>3, <1>4, <1>11 DEF CapturedOnce
  <2>4. ~(/\ \E i \in 1..Len(toSource') : toSource'[i].live /\ toSource'[i].do = "capture"
          /\ \E i \in 1..Len(fromSource') : fromSource'[i].do = "captured")
    BY <1>1, <1>2, <1>3, <1>4 DEF CapturedOnce
  <2> QED
    BY <2>1, <2>2, <2>3, <2>4 DEF CapturedOnce
<1>13. SharesFirst'
  <2>1. (ShareUnderWay' => ShareUnderWay) /\ (Quiet => Quiet')
    BY <1>2, <1>3 DEF ShareUnderWay, Quiet
  <2> QED
    BY <1>1, <2>1 DEF SharesFirst
<1>14. SentAsShared'
  BY DEF AssistanceInv, SentAsShared
<1> QED
  BY <1>6, <1>7, <1>9, <1>12, <1>13, <1>14 DEF AssistanceInv

\* The page has been captured: of the question of now, or for nobody.
LEMMA CapturedInSource ==
  ASSUME AssistanceInv, AssistanceTyped', NEW named,
         Took(toSource, toSource', fromSource, fromSource', "captured", named),
         toSource[1].do = "capture",
         \/ named = 0 /\ source'.snapshot = source.snapshot
         \/ named = toSource[1].req /\ source'.snapshot = toSource[1].req,
         UNCHANGED <<session, pressSend, gemini, toGemini, fromGemini, shares, sends>>
  PROVE  AssistanceInv'
<1>1. AssistanceTyped /\ CapturesInOrder /\ ResultsFit /\ CapturedOnce /\ SharesFirst
  BY DEF AssistanceInv
<1>2. /\ Len(toSource) \in 1..2 /\ Len(toSource') = Len(toSource) - 1
      /\ \A i \in 1..Len(toSource') : toSource'[i] = toSource[i + 1] /\ i + 1 \in 1..Len(toSource)
  BY DEF Took
<1>3. \/ ~toSource[1].live /\ fromSource' = fromSource
      \/ /\ toSource[1].live /\ Len(fromSource') = Len(fromSource) + 1
         /\ \A i \in 1..Len(fromSource') :
              \/ i \in 1..Len(fromSource) /\ fromSource'[i] = fromSource[i]
              \/ i = Len(fromSource') /\ fromSource'[i].do = "captured" /\ fromSource'[i].named = named
  BY DEF Took
<1>4. /\ toSource[1].live => toSource[1].req = session.req
      /\ toSource[1].req <= session.req /\ source.snapshot # session.req
  BY <1>1, <1>2 DEF CapturesInOrder
<1>5. /\ session.req \in Nat /\ session.candidate = 0
      /\ \A i \in 1..Len(toSource) : toSource[i].req \in Nat
  <2>1. session.req \in Nat
    BY <1>1, AssistanceFacts DEF AssistanceTyped, SessionType, Maybe
  <2>2. session.candidate = 0
    BY <1>1, <1>4 DEF ResultsFit
  <2>3. \A i \in 1..Len(toSource) : toSource[i].req \in Nat
    <3> TAKE i \in 1..Len(toSource)
    <3>1. toSource[i] \in SourceScripts
      BY <1>1, ElementOfSeq DEF AssistanceTyped, Queue
    <3> QED
      BY <3>1, AssistanceFacts DEF SourceScripts, MessageType, Maybe
  <2> QED
    BY <2>1, <2>2, <2>3
<1>6. \A i \in 1..Len(toSource') : toSource'[i].do = "capture" => toSource[1].req < toSource'[i].req
  BY <1>1, <1>2 DEF CapturesInOrder
<1>7. CapturesInOrder'
  <2>1. \A i \in 1..Len(toSource') :
          /\ toSource'[i].req <= session.req
          /\ toSource'[i].live => toSource'[i].req = session.req
    BY <1>1, <1>2 DEF CapturesInOrder
  <2>2. \A i \in 1..Len(toSource') :
          toSource'[i].do = "capture" => source'.snapshot # session.req
    <3> TAKE i \in 1..Len(toSource')
    <3>1. CASE source'.snapshot = source.snapshot
      BY <1>4, <3>1
    <3>2. CASE source'.snapshot = toSource[1].req
      BY <1>2, <1>5, <1>6, <2>1, <3>2
    <3> QED
      BY <3>1, <3>2
  <2>3. \A i, j \in 1..Len(toSource') :
          i < j /\ toSource'[i].do = "capture" /\ toSource'[j].do = "capture"
            => toSource'[i].req < toSource'[j].req
    BY <1>1, <1>2 DEF CapturesInOrder
  <2>4. source'.snapshot <= session.req
    BY <1>1, <1>4 DEF CapturesInOrder
  <2> QED
    BY <2>1, <2>2, <2>3, <2>4 DEF CapturesInOrder
<1>8. toSource[1].live => session.state = "capturing" /\ \A i \in 1..Len(fromSource) : fromSource[i].do = "moved"
  <2>1. toSource[1].live => CaptureUnderWay
    BY <1>2 DEF CaptureUnderWay
  <2> QED
    BY <1>1, <1>2, <2>1 DEF CapturedOnce
<1>9. ResultsFit'
  <2>1. \A i \in 1..Len(fromSource') :
          fromSource'[i].do # "moved" => fromSource'[i].named \in {0, session.req}
    BY <1>1, <1>3, <1>4 DEF ResultsFit
  <2>2. \A i \in 1..Len(fromSource') :
          fromSource'[i].do = "parsed" /\ fromSource'[i].named # 0 => FALSE
    BY <1>1, <1>3, <1>4 DEF ResultsFit
  <2> QED
    BY <1>1, <1>5, <2>1, <2>2 DEF ResultsFit
<1>10. toSource # <<>>
  BY <1>2, EmptyQueue
<1>11. NothingAsked'
  BY <1>10 DEF AssistanceInv, NothingAsked
<1>12. \A i \in 1..Len(toSource') :
         toSource[1].live => ~(toSource'[i].live /\ toSource'[i].do = "capture")
  <2>1. \A i \in 1..Len(toSource') : toSource'[i].live => toSource'[i].req = session.req
    BY <1>1, <1>2 DEF CapturesInOrder
  <2> QED
    BY <1>4, <1>5, <1>6, <2>1
<1>13. Len(fromSource) \in Nat
  BY <1>1 DEF AssistanceTyped, Queue
<1>14. CapturedOnce'
  <2>1. CaptureUnderWay' => session'.state = "capturing"
    BY <1>1, <1>2, <1>3, <1>8 DEF CapturedOnce, CaptureUnderWay
  <2>2. ASSUME session'.state = "capturing"
        PROVE  /\ session'.candidate = 0 /\ ~session'.timer
               /\ \A i \in 1..Len(toSource') : toSource'[i].live => toSource'[i].do = "capture"
               /\ \A i \in 1..Len(fromSource') : fromSource'[i].do \in {"moved", "captured"}
               /\ \A i \in 1..Len(toGemini') : ~toGemini'[i].live
               /\ fromGemini' = <<>>
    BY <1>1, <1>2, <1>3, <2>2 DEF CapturedOnce
  <2>3. \A i, j \in 1..Len(fromSource') :
          i < j => ~(fromSource'[i].do = "captured" /\ fromSource'[j].do = "captured")
    BY <1>1, <1>3, <1>8, <1>13 DEF CapturedOnce
  <2>4. ~(/\ \E i \in 1..Len(toSource') : toSource'[i].live /\ toSource'[i].do = "capture"
          /\ \E i \in 1..Len(fromSource') : fromSource'[i].do = "captured")
    BY <1>1, <1>2, <1>3, <1>12 DEF CapturedOnce
  <2> QED
    BY <2>1, <2>2, <2>3, <2>4 DEF CapturedOnce
<1>15. SharesFirst'
  <2>1. (ShareUnderWay' => ShareUnderWay) /\ (Quiet => Quiet')
    BY <1>2, <1>3 DEF ShareUnderWay, Quiet
  <2> QED
    BY <1>1, <2>1 DEF SharesFirst
<1>16. SentAsShared'
  BY DEF AssistanceInv, SentAsShared
<1> QED
  BY <1>7, <1>9, <1>11, <1>14, <1>15, <1>16 DEF AssistanceInv

LEMMA RunInSourceKeeps ==
  ASSUME AssistanceInv, NEW good \in BOOLEAN, RunInSource(good) PROVE AssistanceInv'
<1> DEFINE script == Head(toSource)
<1>1. AssistanceTyped
  BY DEF AssistanceInv
<1>2. /\ toSource # <<>> /\ Len(fromSource) < 2 /\ toSource' = Tail(toSource)
      /\ UNCHANGED <<session, pressSend, gemini, toGemini, fromGemini, shares, sends>>
  BY DEF RunInSource
<1>3. toSource[1] = script /\ script.req \in Maybe /\ script.named \in Maybe
  <2>1. toSource[1] = script /\ toSource[1] \in SourceScripts
    BY <1>1, <1>2, TailFacts DEF AssistanceTyped, Queue
  <2> QED
    BY <2>1 DEF SourceScripts, MessageType
<1> HIDE DEF script
<1>4. ASSUME NEW do \in {"moved", "captured", "parsed", "shown"}, NEW named \in Maybe,
             fromSource' = Behind(fromSource, script, do, named), source' \in SourceType
      PROVE  /\ AssistanceTyped'
             /\ Took(toSource, toSource', fromSource, fromSource', do, named)
  <2>1. /\ Queue(toSource', SourceScripts) /\ Queue(fromSource', SourceResults)
        /\ Took(toSource, toSource', fromSource, fromSource', do, named)
    BY <1>2, <1>4, RanInSource DEF script
  <2> QED
    BY <1>1, <1>2, <1>4, <2>1 DEF AssistanceTyped
<1>5. ASSUME script.do = "capture", Capture(script, good) PROVE AssistanceInv'
  <2> DEFINE named == IF good THEN script.req ELSE 0
  <2>1. named \in Maybe
    BY <1>3, AssistanceFacts
  <2>2. /\ source' \in SourceType
        /\ source'.snapshot = IF good THEN script.req ELSE source.snapshot
    BY <1>1, <1>3, <1>5, AssistanceFacts DEF Capture, AssistanceTyped, SourceType
  <2>3. /\ AssistanceTyped'
        /\ Took(toSource, toSource', fromSource, fromSource', "captured", named)
    BY <1>4, <1>5, <2>1, <2>2 DEF Capture
  <2> QED
    BY <1>2, <1>3, <1>5, <2>2, <2>3, CapturedInSource
<1>6. ASSUME script.do = "parse", ParseGuidance(script, good) PROVE AssistanceInv'
  <2> DEFINE fits == good /\ source.snapshot = script.req /\ script.named = source.snapshot
             named == IF fits THEN script.named ELSE 0
  <2>1. named \in Maybe /\ (named # 0 => named = source.snapshot /\ named = script.req)
    BY <1>3, AssistanceFacts
  <2>2. fromSource' = Behind(fromSource, script, "parsed", named) /\ source' = source
    BY <1>6 DEF ParseGuidance
  <2> HIDE DEF named
  <2>3. /\ AssistanceTyped'
        /\ Took(toSource, toSource', fromSource, fromSource', "parsed", named)
    BY <1>1, <1>4, <2>1, <2>2 DEF AssistanceTyped
  <2> QED
    BY <1>2, <1>3, <1>6, <2>1, <2>2, <2>3, AnsweredInSource
<1>7. ASSUME script.do = "show", Highlight(script, good) PROVE AssistanceInv'
  <2> DEFINE fits == good /\ source.active = script.req
             named == IF fits THEN script.req ELSE 0
  <2>1. named \in Maybe /\ (named # 0 => named = script.req)
    BY <1>3, AssistanceFacts
  <2>2. fromSource' = Behind(fromSource, script, "shown", named) /\ source' = source
    BY <1>7 DEF Highlight
  <2> HIDE DEF named
  <2>3. /\ AssistanceTyped'
        /\ Took(toSource, toSource', fromSource, fromSource', "shown", named)
    BY <1>1, <1>4, <2>1, <2>2 DEF AssistanceTyped
  <2> QED
    BY <1>2, <1>3, <1>7, <2>1, <2>2, <2>3, AnsweredInSource
<1> QED
  BY <1>5, <1>6, <1>7 DEF RunInSource, script

\* A result of Gemini's tab has been heard of, and the session goes on.
LEMMA HeardOfGemini ==
  ASSUME AssistanceInv, AssistanceTyped', fromGemini # <<>>, fromGemini' = Tail(fromGemini),
         session'.req = session.req, session'.prompt = session.prompt,
         session'.candidate = session.candidate,
         session'.state \notin {"idle", "capturing", "ready"},
         fromGemini[1].do \in Shared
           \/ session'.state \in {session.state, "waitingForReply"},
         \/ toSource' = toSource
         \/ /\ fromGemini[1].do \notin Shared
            /\ Len(toSource') = Len(toSource) + 1
            /\ \A i \in 1..Len(toSource') :
                 \/ i \in 1..Len(toSource) /\ toSource'[i] = toSource[i]
                 \/ /\ i = Len(toSource') /\ toSource'[i].do = "parse"
                    /\ toSource'[i].req = session.req,
         UNCHANGED <<pressSend, source, gemini, fromSource, toGemini, shares, sends>>
  PROVE  AssistanceInv'
<1>1. AssistanceTyped /\ CapturesInOrder /\ ResultsFit /\ NothingAsked /\ CapturedOnce /\ SharesFirst
  BY DEF AssistanceInv
<1>2. /\ Len(fromGemini) \in 1..2 /\ Len(fromGemini') = Len(fromGemini) - 1
      /\ \A i \in 1..Len(fromGemini') :
           fromGemini'[i] = fromGemini[i + 1] /\ i + 1 \in 1..Len(fromGemini)
  BY <1>1, TailFacts DEF AssistanceTyped, Queue
<1>3. session.req # 0 /\ session.req \in Nat /\ Len(toSource) \in Nat
  BY <1>1, AssistanceFacts DEF NothingAsked, AssistanceTyped, SessionType, Maybe, Queue
<1>4. session.state # "capturing" /\ ~CaptureUnderWay
  BY <1>1 DEF CapturedOnce
<1>5. CapturesInOrder'
  BY <1>1, <1>3 DEF CapturesInOrder
<1>6. fromGemini[1].do \in Shared => ShareUnderWay
  BY <1>2 DEF ShareUnderWay
<1>7. ResultsFit'
  <2>1. session.candidate # 0 => session'.state \in {"answered", "waitingForReply"}
    BY <1>1, <1>6 DEF ResultsFit, SharesFirst, Quiet
  <2> QED
    BY <1>1, <2>1 DEF ResultsFit
<1>8. NothingAsked'
  BY <1>3 DEF NothingAsked
<1>9. CapturedOnce'
  <2>1. ~CaptureUnderWay'
    BY <1>4 DEF CaptureUnderWay
  <2>2. \A i, j \in 1..Len(fromSource') :
          i < j => ~(fromSource'[i].do = "captured" /\ fromSource'[j].do = "captured")
    BY <1>1 DEF CapturedOnce
  <2> QED
    BY <2>1, <2>2 DEF CapturedOnce, CaptureUnderWay
<1>10. SharesFirst'
  <2>1. CASE fromGemini[1].do \in Shared
    <3>1. Quiet'
      BY <1>1, <1>6, <2>1 DEF SharesFirst, Quiet
    <3>2. \A i, j \in 1..Len(fromGemini') :
            i < j /\ fromGemini'[j].do \in Shared => fromGemini'[i].do \in Shared
      BY <1>1, <1>2 DEF SharesFirst
    <3>3. \A i \in 1..Len(toGemini') :
            toGemini'[i].live /\ toGemini'[i].do = "share" =>
              /\ \A j \in 1..Len(fromGemini') : fromGemini'[j].do \in Shared
              /\ \A j \in 1..Len(toGemini') :
                   j < i /\ toGemini'[j].live => toGemini'[j].do = "share"
      BY <1>1, <1>2 DEF SharesFirst
    <3> QED
      BY <3>1, <3>2, <3>3 DEF SharesFirst
  <2>2. CASE fromGemini[1].do \notin Shared
    <3>1. \A i \in 1..Len(fromGemini') : fromGemini'[i].do \notin Shared
      BY <1>1, <1>2, <2>2 DEF SharesFirst
    <3>2. \A i \in 1..Len(toGemini') : ~(toGemini'[i].live /\ toGemini'[i].do = "share")
      BY <1>1, <1>2, <2>2 DEF SharesFirst
    <3>3. ~ShareUnderWay'
      BY <3>1, <3>2 DEF ShareUnderWay
    <3> QED
      BY <3>1, <3>2, <3>3 DEF SharesFirst
  <2> QED
    BY <2>1, <2>2
<1>11. SentAsShared'
  BY DEF AssistanceInv, SentAsShared
<1> QED
  BY <1>5, <1>7, <1>8, <1>9, <1>10, <1>11 DEF AssistanceInv

LEMMA FromGeminiKeeps == ASSUME AssistanceInv, FromGemini PROVE AssistanceInv'
<1> DEFINE got == Head(fromGemini)
<1>1. AssistanceTyped /\ NothingAsked /\ CapturedOnce /\ SharesFirst
  BY DEF AssistanceInv
<1>2. /\ fromGemini # <<>> /\ Len(toSource) < 2
      /\ UNCHANGED <<pressSend, source, gemini, moves, shares, sends>>
      /\ \/ got.do = "tooLong" /\ Stop("answered", fromSource, Tail(fromGemini))
         \/ got.do = "gone" /\ Stop("failed", fromSource, Tail(fromGemini))
         \/ /\ fromGemini' = Tail(fromGemini) /\ UNCHANGED <<fromSource, toGemini>>
            /\ \/ got.do \in {"shared", "notShared"} /\ OnShared(got) /\ UNCHANGED toSource
               \/ got.do \in {"reply", "waiting", "other"} /\ OnPolled(got)
  BY DEF FromGemini
<1>3. /\ got = fromGemini[1] /\ got \in GeminiResults /\ Len(fromGemini) \in 1..2
      /\ Queue(Tail(fromGemini), GeminiResults) /\ Queue(fromSource, SourceResults)
  BY <1>1, <1>2, TailFacts DEF AssistanceTyped, Queue
<1> HIDE DEF got
<1>4. session.req # 0 /\ session.state # "capturing" /\ session \in SessionType
  BY <1>1, <1>2 DEF NothingAsked, CapturedOnce, AssistanceTyped
<1>5. session.state # "idle"
  BY <1>1, <1>4 DEF NothingAsked
<1>6. ASSUME NEW state \in {"answered", "failed"}, Stop(state, fromSource, Tail(fromGemini))
      PROVE  AssistanceInv'
  <2>1. state \in {"failed", "stale", "answered"}
    OBVIOUS
  <2> QED
    BY <1>2, <1>3, <1>4, <1>6, <2>1, StopKeeps
<1>7. ASSUME got.do \in {"shared", "notShared"}, OnShared(got), UNCHANGED toSource,
             fromGemini' = Tail(fromGemini), UNCHANGED <<fromSource, toGemini>>
      PROVE  AssistanceInv'
  <2>1. got.do \in Shared
    BY <1>7 DEF Shared
  <2>2. /\ session' \in SessionType /\ session'.req = session.req
        /\ session'.prompt = session.prompt /\ session'.candidate = session.candidate
        /\ session'.state \in {"failed", "waitingForReply", "waitingForSend"}
    BY <1>4, <1>7 DEF OnShared, Enters, SessionType, Phases
  <2>3. AssistanceTyped'
    BY <1>1, <1>2, <1>3, <1>7, <2>2 DEF AssistanceTyped
  <2> QED
    BY <1>2, <1>3, <1>7, <2>1, <2>2, <2>3, HeardOfGemini
<1>8. ASSUME got.do \in {"reply", "waiting", "other"}, OnPolled(got),
             fromGemini' = Tail(fromGemini), UNCHANGED <<fromSource, toGemini>>
      PROVE  AssistanceInv'
  <2>1. got.do \notin Shared
    BY <1>8 DEF Shared
  <2>2. session.state # "ready"
    BY <1>1, <1>3, <2>1 DEF SharesFirst
  <2>3. CASE UNCHANGED toSource
    <3>1. /\ session' \in SessionType /\ session'.req = session.req
          /\ session'.prompt = session.prompt /\ session'.candidate = session.candidate
          /\ session'.state \in {session.state, "waitingForReply"}
      BY <1>4, <1>8 DEF OnPolled, Enters, SessionType, Phases
    <3>2. AssistanceTyped'
      BY <1>1, <1>2, <1>3, <1>8, <2>3, <3>1 DEF AssistanceTyped
    <3> QED
      BY <1>2, <1>3, <1>4, <1>5, <1>8, <2>1, <2>2, <2>3, <3>1, <3>2, HeardOfGemini
  <2>4. CASE toSource' # toSource
    <3> DEFINE m == Script("parse", session.req, got.named)
    <3>1. session' = [session EXCEPT !.timer = FALSE] /\ toSource' = Append(toSource, m)
      BY <1>8, <2>4 DEF OnPolled
    <3>2. m \in SourceScripts /\ m.do = "parse" /\ m.req = session.req
      BY <1>3, <1>4 DEF GeminiResults, SourceScripts, MessageType, Script, SessionType
    <3> HIDE DEF m
    <3>3. /\ session' \in SessionType /\ session'.req = session.req
          /\ session'.prompt = session.prompt /\ session'.candidate = session.candidate
          /\ session'.state = session.state
      BY <1>4, <3>1 DEF SessionType
    <3>4. /\ toSource' \in Seq(SourceScripts) /\ Len(toSource') = Len(toSource) + 1
          /\ Len(toSource') <= 2 /\ Len(toSource) \in Nat
          /\ \A i \in 1..Len(toSource) : toSource'[i] = toSource[i]
          /\ toSource'[Len(toSource) + 1] = m
      BY <1>1, <1>2, <3>1, <3>2, AppendFacts DEF AssistanceTyped, Queue
    <3>5. \A i \in 1..Len(toSource') :
            \/ i \in 1..Len(toSource) /\ toSource'[i] = toSource[i]
            \/ /\ i = Len(toSource') /\ toSource'[i].do = "parse"
               /\ toSource'[i].req = session.req
      BY <3>2, <3>4
    <3>6. AssistanceTyped'
      BY <1>1, <1>2, <1>3, <1>8, <3>3, <3>4 DEF AssistanceTyped, Queue
    <3> QED
      BY <1>2, <1>3, <1>4, <1>5, <1>8, <2>1, <2>2, <3>3, <3>4, <3>5, <3>6, HeardOfGemini
  <2> QED
    BY <2>3, <2>4
<1> QED
  BY <1>2, <1>6, <1>7, <1>8

LEMMA StartCaptureKeeps ==
  ASSUME AssistanceInv, NEW thenShare \in BOOLEAN, NEW fit \in BOOLEAN, StartCapture(thenShare, fit)
  PROVE  AssistanceInv'
<1> DEFINE stopped == [Stopped("failed") EXCEPT !.prompt = 0, !.share = thenShare]
           r == session.req + 1
           m == Script("capture", r, 0)
<1>1. AssistanceTyped /\ CapturesInOrder
  BY DEF AssistanceInv
<1>2. /\ session.req < MaxRequests /\ Len(toSource) < 2
      /\ UNCHANGED <<pressSend, source, gemini, moves, shares, sends>>
      /\ \/ session' = stopped /\ CutOff(fromSource, fromGemini, <<>>)
         \/ /\ session' = [stopped EXCEPT !.state = "capturing", !.req = r]
            /\ CutOff(fromSource, fromGemini, <<m>>)
  BY DEF StartCapture
<1>3. session.req \in Nat /\ r \in Maybe /\ r \in Nat /\ r > session.req
  BY <1>1, <1>2, AssistanceFacts DEF AssistanceTyped, SessionType, Maybe
<1>4. /\ stopped \in SessionType /\ stopped.req = session.req /\ stopped.candidate = 0
      /\ ~stopped.timer /\ stopped.prompt = 0 /\ stopped.state = "failed"
  BY <1>1, AssistanceFacts DEF AssistanceTyped, SessionType, Stopped, Phases
<1> HIDE DEF stopped
<1>5. Queue(fromSource, SourceResults)
  BY <1>1 DEF AssistanceTyped
<1>6. ASSUME session' = stopped, CutOff(fromSource, fromGemini, <<>>) PROVE AssistanceInv'
  <2>1. /\ Queue(fromSource', SourceResults)
        /\ \A i \in 1..Len(fromSource') : fromSource'[i].do = "moved"
        /\ toGemini' \in Seq(GeminiScripts) /\ Dying(toGemini', toGemini) /\ fromGemini' = <<>>
    BY <1>1, <1>5, <1>6, CutOffFacts
  <2>2. toSource' \in Seq(SourceScripts) /\ Dying(toSource', toSource)
    BY <1>1, <1>5, <1>6, CutOffFacts, ConcatEmptySeq
  <2> QED
    BY <1>1, <1>2, <1>4, <1>6, <2>1, <2>2, Resting DEF AssistanceTyped
<1>7. ASSUME session' = [stopped EXCEPT !.state = "capturing", !.req = r],
             CutOff(fromSource, fromGemini, <<m>>)
      PROVE  AssistanceInv'
  <2>1. /\ Queue(fromSource', SourceResults)
        /\ \A i \in 1..Len(fromSource') : fromSource'[i].do = "moved"
        /\ toGemini' \in Seq(GeminiScripts) /\ Dying(toGemini', toGemini) /\ fromGemini' = <<>>
    BY <1>1, <1>5, <1>7, CutOffFacts
  <2>2. PICK u \in Seq(SourceScripts) : Dying(u, toSource) /\ toSource' = u \o <<m>>
    BY <1>1, <1>5, <1>7, CutOffFacts
  <2>3. m \in SourceScripts /\ m.do = "capture" /\ m.req = r /\ m.live
    BY <1>3, AssistanceFacts DEF SourceScripts, MessageType, Script
  <2> HIDE DEF m
  <2>4. /\ session' \in SessionType /\ session'.req = r /\ session'.candidate = 0
        /\ ~session'.timer /\ session'.prompt = 0 /\ session'.state = "capturing"
    BY <1>3, <1>4, <1>7 DEF SessionType, Phases
  <2>5. Len(u) \in Nat /\ Len(u) <= Len(toSource) /\ Len(toSource) \in Nat /\ Len(toSource) < 2
    BY <1>1, <1>2, <2>2 DEF Dying, AssistanceTyped, Queue
  <2>6. toSource' = Append(u, m)
    BY <2>2, <2>3, AppendIsConcat
  <2>7. /\ toSource' \in Seq(SourceScripts) /\ Len(toSource') = Len(u) + 1 /\ Len(toSource') <= 2
        /\ \A i \in 1..Len(u) : toSource'[i] = u[i]
        /\ toSource'[Len(u) + 1] = m
    BY <2>3, <2>5, <2>6, AppendFacts
  <2>8. \A i \in 1..Len(toSource') :
          \/ i \in 1..Len(u) /\ ~toSource'[i].live /\ toSource'[i].req <= session.req
          \/ i = Len(u) + 1 /\ toSource'[i] = m
    <3>1. \A i \in 1..Len(u) : ~u[i].live /\ u[i].req <= session.req
      BY <1>1, <2>2 DEF Dying, CapturesInOrder
    <3> QED
      BY <2>5, <2>7, <3>1
  <2>9. AssistanceTyped'
    <3>1. Len(toGemini') <= 2
      BY <1>1, <2>1 DEF AssistanceTyped, Queue, Dying
    <3> QED
      BY <1>1, <1>2, <2>1, <2>4, <2>7, <3>1, EmptyQueue DEF AssistanceTyped, Queue
  <2>10. CapturesInOrder'
    <3>1. source'.snapshot < r /\ source'.snapshot \in Nat
      BY <1>1, <1>2, <1>3 DEF CapturesInOrder, AssistanceTyped, SourceType, Maybe
    <3>2. \A i \in 1..Len(toSource') : toSource'[i].req \in Nat
      <4> TAKE i \in 1..Len(toSource')
      <4>1. toSource'[i] \in SourceScripts
        BY <2>7, ElementOfSeq
      <4> QED
        BY <4>1, AssistanceFacts DEF SourceScripts, MessageType, Maybe
    <3>3. \A i \in 1..Len(toSource') :
            /\ toSource'[i].req <= r
            /\ toSource'[i].live => toSource'[i].req = r
            /\ i \in 1..Len(u) => toSource'[i].req < r
      BY <1>3, <2>3, <2>5, <2>8, <3>2
    <3>4. \A i, j \in 1..Len(toSource') :
            i < j => i \in 1..Len(u) /\ (j \in 1..Len(u) => FALSE) /\ toSource'[j].req = r
      <4> DEFINE n == Len(u)
      <4>1. n \in Nat /\ n < 2
        BY <2>5
      <4>2. Len(toSource') = n + 1 /\ toSource'[n + 1] = m
        BY <2>7
      <4> HIDE DEF n
      <4>3. \A i, j \in 1..(n + 1) : i < j => i \in 1..n /\ j \notin 1..n /\ j = n + 1
        BY <4>1
      <4>4. \A i, j \in 1..Len(toSource') : i < j => i \in 1..n /\ j \notin 1..n /\ toSource'[j].req = r
        BY <2>3, <4>2, <4>3
      <4> QED
        BY <4>4 DEF n
    <3>5. \A i, j \in 1..Len(toSource') : i < j => toSource'[i].req < toSource'[j].req
      BY <3>3, <3>4
    <3> QED
      BY <1>3, <2>4, <3>1, <3>3, <3>5 DEF CapturesInOrder
  <2>11. ResultsFit' /\ NothingAsked'
    BY <1>3, <2>1, <2>4 DEF ResultsFit, NothingAsked
  <2>12. CapturedOnce'
    <3>1. \A i \in 1..Len(toGemini') : ~toGemini'[i].live
      BY <2>1 DEF Dying
    <3>2. \A i \in 1..Len(toSource') : toSource'[i].live => toSource'[i].do = "capture"
      BY <2>3, <2>8
    <3> QED
      BY <2>1, <2>4, <3>1, <3>2 DEF CapturedOnce
  <2>13. SharesFirst'
    <3>1. (\A i \in 1..Len(toGemini') : ~toGemini'[i].live) /\ Len(fromGemini') = 0
      BY <2>1, EmptyQueue DEF Dying
    <3>2. ~ShareUnderWay'
      BY <3>1 DEF ShareUnderWay
    <3> QED
      BY <2>4, <3>1, <3>2 DEF SharesFirst
  <2>14. SentAsShared'
    BY <1>2, <2>1, CutOffSent
  <2> QED
    BY <2>9, <2>10, <2>11, <2>12, <2>13, <2>14 DEF AssistanceInv
<1> QED
  BY <1>2, <1>6, <1>7

\* A script has been put behind those under way.
Put(q, q1, m) ==
  /\ Len(q1) = Len(q) + 1 /\ Len(q) \in Nat
  /\ \A i \in 1..Len(q1) : (i \in 1..Len(q) /\ q1[i] = q[i]) \/ (i = Len(q1) /\ q1[i] = m)

LEMMA PutFacts ==
  ASSUME NEW S, NEW q \in Seq(S), NEW m \in S, Len(q) < 2, NEW q1, q1 = Append(q, m)
  PROVE  Queue(q1, S) /\ Put(q, q1, m)
BY AppendFacts DEF Queue, Put

LEMMA PutOnItsWay ==
  ASSUME NEW S, NEW q \in Seq(S), Len(q) < 2, NEW m \in S, NEW r
  PROVE  /\ OnItsWay(q, r) \in Nat
         /\ OnItsWay(Append(q, m), r)
              = OnItsWay(q, r) + (IF m.do = "share" /\ m.req = r THEN 1 ELSE 0)
<1> DEFINE n == Len(q)
           s == Append(q, m)
<1>1. n \in Nat /\ n < 2 /\ Len(s) = n + 1 /\ (\A i \in 1..n : s[i] = q[i]) /\ s[n + 1] = m
  BY AppendFacts
<1> HIDE DEF s
<1>2. ASSUME n = 0 PROVE OnItsWay(s, r) = OnItsWay(q, r) + (IF m.do = "share" /\ m.req = r THEN 1 ELSE 0)
  <2>1. ~IsShareOf(q, 1, r) /\ ~IsShareOf(q, 2, r) /\ ~IsShareOf(s, 2, r)
    BY <1>1, <1>2 DEF IsShareOf
  <2>2. IsShareOf(s, 1, r) <=> m.do = "share" /\ m.req = r
    BY <1>1, <1>2 DEF IsShareOf
  <2> QED
    BY <2>1, <2>2 DEF OnItsWay
<1>3. ASSUME n = 1 PROVE OnItsWay(s, r) = OnItsWay(q, r) + (IF m.do = "share" /\ m.req = r THEN 1 ELSE 0)
  <2>1. ~IsShareOf(q, 2, r) /\ (IsShareOf(s, 1, r) <=> IsShareOf(q, 1, r))
    BY <1>1, <1>3 DEF IsShareOf
  <2>2. IsShareOf(s, 2, r) <=> m.do = "share" /\ m.req = r
    BY <1>1, <1>3 DEF IsShareOf
  <2> QED
    BY <2>1, <2>2 DEF OnItsWay
<1> HIDE DEF n
<1>4. n = 0 \/ n = 1
  BY <1>1
<1>5. OnItsWay(q, r) \in Nat
  BY DEF OnItsWay
<1> QED
  BY <1>2, <1>3, <1>4, <1>5 DEF s

\* Share() of a question has its prompt on its way, or fails.
LEMMA PutPromptFacts ==
  ASSUME AssistanceInv, Len(toGemini) < 2, NEW s, s.prompt \in Requests, PutPrompt(s),
         UNCHANGED <<gemini, sends>>
  PROVE  /\ Queue(toGemini', GeminiScripts) /\ shares' \in [Requests -> Nat] /\ SentAsShared'
         /\ \/ session' = [s EXCEPT !.state = "failed"] /\ UNCHANGED <<toGemini, shares>>
            \/ session' = s /\ Put(toGemini, toGemini', Script("share", s.prompt, 0))
<1>1. AssistanceTyped /\ SentAsShared
  BY DEF AssistanceInv
<1>2. CASE ~gemini.home
  BY <1>1, <1>2 DEF PutPrompt, AssistanceTyped, SentAsShared
<1>3. CASE gemini.home
  <2> DEFINE r == s.prompt
             m == Script("share", r, 0)
  <2>1. /\ session' = s /\ toGemini' = Append(toGemini, m)
        /\ shares' = [shares EXCEPT ![r] = @ + 1]
    BY <1>3 DEF PutPrompt
  <2>2. r \in Requests
    OBVIOUS
  <2> HIDE DEF r
  <2>3. m \in GeminiScripts /\ m.do = "share" /\ m.req = r
    BY <2>2, AssistanceFacts DEF GeminiScripts, MessageType, Script
  <2> HIDE DEF m
  <2>4. toGemini \in Seq(GeminiScripts)
    BY <1>1 DEF AssistanceTyped, Queue
  <2>5. Queue(toGemini', GeminiScripts) /\ Put(toGemini, toGemini', m)
    BY <2>1, <2>3, <2>4, PutFacts
  <2>6. /\ shares' \in [Requests -> Nat]
        /\ \A q \in Requests : shares'[q] = IF q = r THEN shares[q] + 1 ELSE shares[q]
    BY <1>1, <2>1, <2>2 DEF AssistanceTyped
  <2>7. \A i \in 1..Len(toGemini') : toGemini'[i].req \in Requests
    BY <1>1, <2>2, <2>3, <2>5 DEF SentAsShared, Put
  <2>8. \A q \in Requests : /\ OnItsWay(toGemini, q) \in Nat
                            /\ OnItsWay(toGemini', q) = OnItsWay(toGemini, q) + (IF r = q THEN 1 ELSE 0)
    <3> TAKE q \in Requests
    <3>1. /\ OnItsWay(toGemini, q) \in Nat
          /\ OnItsWay(toGemini', q)
               = OnItsWay(toGemini, q) + (IF m.do = "share" /\ m.req = q THEN 1 ELSE 0)
      <4> HIDE DEF OnItsWay
      <4> DEFINE S == GeminiScripts
      <4>1. toGemini \in Seq(S) /\ m \in S
        BY <2>3, <2>4
      <4> HIDE DEF S
      <4> QED
        BY <2>1, <4>1, PutOnItsWay
    <3> QED
      BY <2>3, <3>1
  <2>9. SentAsShared'
    BY <2>6, <2>7, <2>8, SharesCount DEF SentAsShared
  <2> QED
    BY <2>1, <2>5, <2>6, <2>9 DEF m, r
<1> QED
  BY <1>2, <1>3

LEMMA ShareKeeps == ASSUME AssistanceInv, Share PROVE AssistanceInv'
<1>1. AssistanceTyped /\ ResultsFit /\ NothingAsked /\ CapturedOnce /\ SharesFirst /\ CapturesInOrder
  BY DEF AssistanceInv
<1>2. /\ session.state = "ready" /\ Len(toGemini) < 2 /\ PutPrompt(session)
      /\ UNCHANGED <<pressSend, source, gemini, toSource, fromSource, fromGemini, moves, sends>>
  BY DEF Share
<1>3. session \in SessionType /\ session.req # 0 /\ session.prompt = session.req
  BY <1>1, <1>2 DEF AssistanceTyped, NothingAsked, SharesFirst
<1>4. session.prompt \in Requests
  BY <1>3, AssistanceFacts DEF SessionType
<1> DEFINE m == Script("share", session.prompt, 0)
<1>5. /\ Queue(toGemini', GeminiScripts) /\ shares' \in [Requests -> Nat] /\ SentAsShared'
      /\ \/ session' = [session EXCEPT !.state = "failed"] /\ UNCHANGED <<toGemini, shares>>
         \/ session' = session /\ Put(toGemini, toGemini', m)
  BY <1>2, <1>4, PutPromptFacts
<1>6. m.do = "share"
  BY DEF Script
<1> HIDE DEF m
<1>7. /\ session' \in SessionType /\ session'.req = session.req
      /\ session'.prompt = session.prompt /\ session'.candidate = session.candidate
      /\ session'.timer = session.timer /\ session'.state \in {"failed", "ready"}
  BY <1>2, <1>3, <1>5 DEF SessionType, Phases
<1>8. Quiet /\ ~session.timer
  BY <1>1, <1>2 DEF SharesFirst
<1>9. AssistanceTyped'
  BY <1>1, <1>2, <1>5, <1>7 DEF AssistanceTyped
<1>10. CapturesInOrder' /\ ResultsFit' /\ NothingAsked'
  BY <1>1, <1>2, <1>3, <1>7, <1>8 DEF CapturesInOrder, ResultsFit, NothingAsked, Quiet
<1>11. CapturedOnce'
  <2>1. ~CaptureUnderWay /\ (CaptureUnderWay' <=> CaptureUnderWay)
    BY <1>1, <1>2 DEF CapturedOnce, CaptureUnderWay
  <2>2. session'.state # "capturing"
    BY <1>7
  <2> QED
    BY <1>1, <1>2, <2>1, <2>2 DEF CapturedOnce
<1>12. SharesFirst'
  <2>1. Quiet'
    BY <1>2, <1>7, <1>8 DEF Quiet
  <2>2. \A i \in 1..Len(toGemini') : toGemini'[i].live => toGemini'[i].do = "share"
    BY <1>1, <1>2, <1>5, <1>6 DEF SharesFirst, Put
  <2>3. \A i \in 1..Len(fromGemini') : fromGemini'[i].do \in Shared
    BY <1>1, <1>2 DEF SharesFirst
  <2> QED
    BY <1>3, <1>7, <1>8, <2>1, <2>2, <2>3 DEF SharesFirst
<1> QED
  BY <1>5, <1>9, <1>10, <1>11, <1>12 DEF AssistanceInv

LEMMA PollKeeps == ASSUME AssistanceInv, Poll PROVE AssistanceInv'
<1>1. AssistanceTyped /\ NothingAsked /\ CapturedOnce /\ SharesFirst
  BY DEF AssistanceInv
<1>2. session.timer /\ UNCHANGED <<pressSend, source, gemini, moves, shares, sends>>
  BY DEF Poll
<1>3. session.req # 0 /\ session.state # "capturing" /\ session.state # "ready" /\ session.req \in Requests
  <2>1. session.req # 0 /\ session.state # "capturing" /\ session.state # "ready"
    BY <1>1, <1>2 DEF NothingAsked, CapturedOnce, SharesFirst
  <2> QED
    BY <1>1, <2>1, AssistanceFacts DEF AssistanceTyped, SessionType
<1>4. ASSUME ~gemini.home PROVE AssistanceInv'
  <2>1. Stop("failed", fromSource, fromGemini)
    BY <1>4 DEF Poll
  <2>2. Queue(fromSource, SourceResults)
    BY <1>1 DEF AssistanceTyped
  <2> QED
    BY <1>2, <2>1, <2>2, StopKeeps
<1>5. ASSUME gemini.home PROVE AssistanceInv'
  <2> DEFINE m == Script("poll", session.req, 0)
  <2>1. /\ Len(toGemini) + Len(fromGemini) < 2 /\ toGemini' = Append(toGemini, m)
        /\ UNCHANGED <<session, toSource, fromSource, fromGemini>>
    BY <1>5 DEF Poll
  <2>2. m \in GeminiScripts /\ m.do = "poll" /\ m.req = session.req
    BY <1>3, AssistanceFacts DEF GeminiScripts, MessageType, Script
  <2> HIDE DEF m
  <2>3. toGemini \in Seq(GeminiScripts) /\ Len(toGemini) < 2
    BY <1>1, <2>1 DEF AssistanceTyped, Queue
  <2>4. Queue(toGemini', GeminiScripts) /\ Put(toGemini, toGemini', m)
    BY <2>1, <2>2, <2>3, PutFacts
  <2>5. AssistanceTyped'
    BY <1>1, <1>2, <2>1, <2>4 DEF AssistanceTyped
  <2>6. CapturesInOrder' /\ ResultsFit' /\ NothingAsked'
    BY <1>2, <1>3, <2>1 DEF AssistanceInv, CapturesInOrder, ResultsFit, NothingAsked
  <2>7. CapturedOnce'
    <3>1. ~CaptureUnderWay'
      BY <1>1, <1>3, <2>1 DEF CapturedOnce, CaptureUnderWay
    <3> QED
      BY <1>1, <1>3, <2>1, <3>1 DEF CapturedOnce
  <2>8. SharesFirst'
    <3>1. ShareUnderWay' => ShareUnderWay
      BY <2>1, <2>2, <2>4 DEF ShareUnderWay, Put
    <3>2. ShareUnderWay' => Quiet'
      BY <1>1, <2>1, <3>1 DEF SharesFirst, Quiet
    <3>3. \A i \in 1..Len(toGemini') :
            toGemini'[i].live /\ toGemini'[i].do = "share" =>
              /\ \A j \in 1..Len(fromGemini') : fromGemini'[j].do \in Shared
              /\ \A j \in 1..Len(toGemini') :
                   j < i /\ toGemini'[j].live => toGemini'[j].do = "share"
      BY <1>1, <2>1, <2>2, <2>4 DEF SharesFirst, Put
    <3> QED
      BY <1>1, <1>3, <2>1, <3>2, <3>3 DEF SharesFirst
  <2>9. SentAsShared'
    <3>1. \A q \in Requests : OnItsWay(toGemini', q) = OnItsWay(toGemini, q)
      <4> TAKE q \in Requests
      <4> DEFINE S == GeminiScripts
      <4>1. toGemini \in Seq(S) /\ m \in S
        BY <2>2, <2>3
      <4> HIDE DEF S
      <4>2. /\ OnItsWay(toGemini, q) \in Nat
            /\ OnItsWay(toGemini', q)
                 = OnItsWay(toGemini, q) + (IF m.do = "share" /\ m.req = q THEN 1 ELSE 0)
        BY <2>1, <2>3, <4>1, PutOnItsWay
      <4> QED
        BY <2>2, <4>2
    <3>2. \A i \in 1..Len(toGemini') : toGemini'[i].req \in Requests
      BY <1>3, <2>2, <2>4 DEF AssistanceInv, SentAsShared, Put
    <3> QED
      BY <1>2, <3>1, <3>2 DEF AssistanceInv, SentAsShared
  <2> QED
    BY <2>5, <2>6, <2>7, <2>8, <2>9 DEF AssistanceInv
<1> QED
  BY <1>4, <1>5

LEMMA ShowMeKeeps == ASSUME AssistanceInv, ShowMe PROVE AssistanceInv'
<1> DEFINE m == Script("show", session.req, session.candidate)
<1>1. AssistanceTyped /\ ResultsFit /\ NothingAsked /\ CapturedOnce /\ SharesFirst
  BY DEF AssistanceInv
<1>2. /\ session.state = "answered" /\ session.candidate # 0 /\ toSource' = <<m>>
      /\ UNCHANGED <<session, pressSend, source, gemini, fromSource, toGemini, fromGemini,
                     moves, shares, sends>>
  BY DEF ShowMe
<1>3. m \in SourceScripts /\ m.do = "show" /\ m.req = session.req
  BY <1>1 DEF AssistanceTyped, SessionType, SourceScripts, MessageType, Script
<1> HIDE DEF m
<1>4. Queue(<<m>>, SourceScripts) /\ Len(<<m>>) = 1 /\ <<m>>[1] = m
  BY <1>3 DEF Queue
<1>5. /\ Queue(toSource', SourceScripts)
      /\ \A i \in 1..Len(toSource') : i = 1 /\ toSource'[i] = m
  BY <1>2, <1>4
<1>6. /\ session.req # 0 /\ session.req \in Nat /\ source.snapshot = session.req
  BY <1>1, <1>2, AssistanceFacts DEF NothingAsked, ResultsFit, AssistanceTyped, SessionType, Maybe
<1>7. AssistanceTyped'
  BY <1>1, <1>2, <1>5 DEF AssistanceTyped
<1>8. CapturesInOrder' /\ ResultsFit' /\ NothingAsked'
  BY <1>1, <1>2, <1>3, <1>5, <1>6 DEF CapturesInOrder, ResultsFit, NothingAsked
<1>9. CapturedOnce'
  <2>1. ~CaptureUnderWay'
    BY <1>1, <1>2, <1>3, <1>5 DEF CapturedOnce, CaptureUnderWay
  <2>2. session'.state # "capturing"
    BY <1>2
  <2> QED
    BY <1>1, <1>2, <2>1, <2>2 DEF CapturedOnce, CaptureUnderWay
<1>10. SharesFirst'
  <2>1. ~ShareUnderWay' /\ session'.state # "ready"
    BY <1>1, <1>2 DEF SharesFirst, Quiet, ShareUnderWay
  <2> QED
    BY <1>1, <1>2, <2>1 DEF SharesFirst
<1>11. SentAsShared'
  BY <1>2 DEF AssistanceInv, SentAsShared
<1> QED
  BY <1>7, <1>8, <1>9, <1>10, <1>11 DEF AssistanceInv

\* What came from the page changed nothing of the session.
LEMMA HeardOfPage ==
  ASSUME AssistanceInv, fromSource # <<>>, fromSource' = Tail(fromSource),
         UNCHANGED <<session, pressSend, source, gemini, toSource, toGemini, fromGemini,
                     shares, sends>>
  PROVE  AssistanceInv'
<1>1. AssistanceTyped
  BY DEF AssistanceInv
<1>2. /\ Queue(fromSource', SourceResults) /\ Len(fromSource') = Len(fromSource) - 1
      /\ \A i \in 1..Len(fromSource') :
           fromSource'[i] = fromSource[i + 1] /\ i + 1 \in 1..Len(fromSource)
  BY <1>1, TailFacts DEF AssistanceTyped, Queue
<1>3. AssistanceTyped'
  BY <1>1, <1>2 DEF AssistanceTyped
<1>4. CapturesInOrder' /\ ResultsFit' /\ NothingAsked' /\ SentAsShared'
  BY <1>2 DEF AssistanceInv, CapturesInOrder, ResultsFit, NothingAsked, SentAsShared
<1>5. CapturedOnce'
  <2>1. CaptureUnderWay' => CaptureUnderWay
    BY <1>2 DEF CaptureUnderWay
  <2> QED
    BY <1>2, <2>1 DEF AssistanceInv, CapturedOnce
<1>6. SharesFirst'
  <2>1. (ShareUnderWay' <=> ShareUnderWay) /\ (Quiet => Quiet')
    BY <1>2 DEF ShareUnderWay, Quiet
  <2> QED
    BY <2>1 DEF AssistanceInv, SharesFirst
<1> QED
  BY <1>3, <1>4, <1>5, <1>6 DEF AssistanceInv

\* The page answered: what it says to be listed there is of the question of now.
LEMMA AnswerHeard ==
  ASSUME AssistanceInv, fromSource # <<>>, fromSource' = Tail(fromSource),
         fromSource[1].do \in {"parsed", "shown"},
         NEW candidate \in {0, session.req}, candidate # 0 => source.snapshot = session.req,
         session' = [session EXCEPT !.state = "answered", !.candidate = candidate],
         UNCHANGED <<pressSend, source, gemini, toSource, toGemini, fromGemini, shares, sends>>
  PROVE  AssistanceInv'
<1>1. AssistanceTyped /\ ResultsFit /\ NothingAsked /\ CapturedOnce /\ SharesFirst
  BY DEF AssistanceInv
<1>2. /\ Queue(fromSource', SourceResults) /\ Len(fromSource') = Len(fromSource) - 1
      /\ Len(fromSource) \in 1..2
      /\ \A i \in 1..Len(fromSource') :
           fromSource'[i] = fromSource[i + 1] /\ i + 1 \in 1..Len(fromSource)
  BY <1>1, TailFacts DEF AssistanceTyped, Queue
<1>3. session \in SessionType /\ candidate \in Maybe
  BY <1>1, AssistanceFacts DEF AssistanceTyped, SessionType
<1>4. /\ session' \in SessionType /\ session'.req = session.req /\ session'.state = "answered"
      /\ session'.prompt = session.prompt /\ session'.candidate = candidate
      /\ session'.timer = session.timer
  BY <1>3 DEF SessionType, Phases
<1>5. ~(fromSource[1].do \in {"moved", "captured"})
  OBVIOUS
<1>6. session.req # 0 /\ session.state # "capturing" /\ session.state # "ready" /\ ~ShareUnderWay
  BY <1>1, <1>2, <1>5 DEF NothingAsked, CapturedOnce, SharesFirst, Quiet
<1>7. AssistanceTyped'
  BY <1>1, <1>2, <1>4 DEF AssistanceTyped
<1>8. CapturesInOrder'
  BY <1>4 DEF AssistanceInv, CapturesInOrder
<1>9. ResultsFit'
  BY <1>1, <1>2, <1>4 DEF ResultsFit
<1>10. NothingAsked'
  BY <1>4, <1>6 DEF NothingAsked
<1>11. CapturedOnce'
  <2>1. ~CaptureUnderWay
    BY <1>1, <1>6 DEF CapturedOnce
  <2>2. ~CaptureUnderWay'
    BY <1>2, <2>1 DEF CaptureUnderWay
  <2> QED
    BY <1>1, <1>2, <1>4, <2>2 DEF CapturedOnce, CaptureUnderWay
<1>12. SharesFirst'
  <2>1. ~ShareUnderWay'
    BY <1>6 DEF ShareUnderWay
  <2> QED
    BY <1>1, <1>4, <2>1 DEF SharesFirst
<1>13. SentAsShared'
  BY DEF AssistanceInv, SentAsShared
<1> QED
  BY <1>7, <1>8, <1>9, <1>10, <1>11, <1>12, <1>13 DEF AssistanceInv

\* The page was captured, and nothing else is under way: the prompt is shown, or shared.
LEMMA CaptureHeard ==
  ASSUME AssistanceInv, fromSource # <<>>, fromSource' = Tail(fromSource), Len(toGemini) < 2,
         fromSource[1].do = "captured", OnCaptured(fromSource[1]),
         UNCHANGED <<pressSend, source, gemini, toSource, fromGemini, sends>>
  PROVE  AssistanceInv'
<1> DEFINE got == fromSource[1]
           ready == [session EXCEPT !.state = "ready", !.share = FALSE, !.prompt = got.named]
           m == Script("share", ready.prompt, 0)
<1>1. AssistanceTyped /\ ResultsFit /\ NothingAsked /\ CapturedOnce /\ CapturesInOrder
  BY DEF AssistanceInv
<1>2. /\ Queue(fromSource', SourceResults) /\ Len(fromSource') = Len(fromSource) - 1
      /\ Len(fromSource) \in 1..2
      /\ \A i \in 1..Len(fromSource') :
           fromSource'[i] = fromSource[i + 1] /\ i + 1 \in 1..Len(fromSource)
  BY <1>1, TailFacts DEF AssistanceTyped, Queue
<1>3. CaptureUnderWay
  BY <1>2 DEF CaptureUnderWay
<1>4. /\ session.state = "capturing" /\ session.candidate = 0 /\ ~session.timer
      /\ \A i \in 1..Len(toSource) : ~toSource[i].live
      /\ \A i \in 1..Len(fromSource') : fromSource'[i].do = "moved"
      /\ \A i \in 1..Len(toGemini) : ~toGemini[i].live
      /\ fromGemini = <<>>
  <2>1. session.state = "capturing"
    BY <1>1, <1>3 DEF CapturedOnce
  <2>2. \A i \in 1..Len(fromSource') : fromSource'[i].do = "moved"
    BY <1>1, <1>2, <2>1 DEF CapturedOnce
  <2>3. \A i \in 1..Len(toSource) : ~toSource[i].live
    BY <1>1, <1>2, <2>1 DEF CapturedOnce
  <2> QED
    BY <1>1, <2>1, <2>2, <2>3 DEF CapturedOnce
<1>5. session \in SessionType /\ got.named \in {0, session.req} /\ session.req # 0
  <2>1. got.named \in {0, session.req}
    BY <1>1, <1>2 DEF ResultsFit
  <2> QED
    BY <1>1, <1>2, <2>1 DEF AssistanceTyped, NothingAsked
<1> HIDE DEF got
<1>6. /\ ready.prompt = got.named /\ ready.req = session.req /\ ready.candidate = 0
      /\ ~ready.timer /\ ready.state = "ready"
      /\ (got.named # 0 => ready \in SessionType)
      /\ [ready EXCEPT !.state = "failed"].prompt = got.named
      /\ [ready EXCEPT !.state = "failed"].req = session.req
      /\ [ready EXCEPT !.state = "failed"].candidate = 0
      /\ ~[ready EXCEPT !.state = "failed"].timer
      /\ [ready EXCEPT !.state = "failed"].state = "failed"
      /\ (got.named # 0 => [ready EXCEPT !.state = "failed"] \in SessionType)
  BY <1>4, <1>5 DEF SessionType, Phases
<1>7. m.do = "share"
  BY DEF Script
<1> HIDE DEF m, ready
<1>8. /\ Queue(toGemini', GeminiScripts) /\ shares' \in [Requests -> Nat] /\ SentAsShared'
      /\ session' \in SessionType /\ session'.req = session.req /\ session'.candidate = 0
      /\ ~session'.timer /\ session'.prompt \in {0, session.req}
      /\ session'.state \in {"ready", "failed"}
      /\ (session'.state = "ready" => session'.prompt = session.req)
      /\ (toGemini' = toGemini \/ Put(toGemini, toGemini', m))
  <2>1. CASE got.named = 0
    <3>1. session' = [session EXCEPT !.state = "failed"] /\ UNCHANGED <<toGemini, shares>>
      BY <2>1 DEF OnCaptured, Enters, got
    <3>2. SentAsShared'
      BY <3>1 DEF AssistanceInv, SentAsShared
    <3>3. /\ session' \in SessionType /\ session'.req = session.req /\ session'.candidate = 0
          /\ ~session'.timer /\ session'.prompt = session.prompt /\ session'.state = "failed"
      BY <1>4, <1>5, <3>1 DEF SessionType, Phases
    <3>4. session.prompt \in {0, session.req}
      BY <1>1 DEF ResultsFit
    <3> QED
      BY <1>1, <3>1, <3>2, <3>3, <3>4 DEF AssistanceTyped
  <2>2. CASE got.named # 0 /\ session.share
    <3>1. PutPrompt(ready)
      BY <2>2 DEF OnCaptured, got, ready
    <3>2. ready.prompt \in Requests
      BY <1>5, <1>6, <2>2, AssistanceFacts DEF SessionType
    <3>3. /\ Queue(toGemini', GeminiScripts) /\ shares' \in [Requests -> Nat] /\ SentAsShared'
          /\ \/ session' = [ready EXCEPT !.state = "failed"] /\ UNCHANGED <<toGemini, shares>>
             \/ session' = ready /\ Put(toGemini, toGemini', m)
      BY <3>1, <3>2, PutPromptFacts DEF m
    <3>4. got.named = session.req
      BY <1>5, <2>2
    <3> QED
      BY <1>6, <2>2, <3>3, <3>4
  <2>3. CASE got.named # 0 /\ ~session.share
    <3>1. session' = ready /\ UNCHANGED <<toGemini, shares>>
      BY <2>3 DEF OnCaptured, got, ready
    <3>2. SentAsShared'
      BY <3>1 DEF AssistanceInv, SentAsShared
    <3> QED
      BY <1>1, <1>5, <1>6, <2>3, <3>1, <3>2 DEF AssistanceTyped
  <2> QED
    BY <2>1, <2>2, <2>3
<1>9. AssistanceTyped'
  BY <1>1, <1>2, <1>8 DEF AssistanceTyped
<1>10. CapturesInOrder' /\ NothingAsked'
  BY <1>1, <1>5, <1>8 DEF CapturesInOrder, NothingAsked
<1>11. ResultsFit'
  BY <1>4, <1>8 DEF ResultsFit
<1>12. CapturedOnce'
  <2>1. ~CaptureUnderWay'
    BY <1>4 DEF CaptureUnderWay
  <2>2. session'.state # "capturing"
    BY <1>8
  <2> QED
    BY <1>4, <2>1, <2>2 DEF CapturedOnce
<1>13. SharesFirst'
  <2>1. Quiet'
    BY <1>4, <1>8 DEF Quiet
  <2>2. \A i \in 1..Len(toGemini') : toGemini'[i].live => toGemini'[i].do = "share"
    BY <1>4, <1>7, <1>8 DEF Put
  <2>3. Len(fromGemini') = 0
    BY <1>4, EmptyQueue
  <2> QED
    BY <1>8, <2>1, <2>2, <2>3 DEF SharesFirst
<1> QED
  BY <1>8, <1>9, <1>10, <1>11, <1>12, <1>13 DEF AssistanceInv

LEMMA FromSourceKeeps == ASSUME AssistanceInv, FromSource PROVE AssistanceInv'
<1> DEFINE got == Head(fromSource)
<1>1. AssistanceTyped /\ ResultsFit /\ NothingAsked
  BY DEF AssistanceInv
<1>2. /\ fromSource # <<>> /\ Len(toGemini) < 2
      /\ \/ got.do = "moved" /\ OnMoved /\ UNCHANGED shares
         \/ /\ got.do # "moved"
            /\ fromSource' = Tail(fromSource) /\ UNCHANGED <<toSource, fromGemini>>
            /\ \/ got.do = "captured" /\ OnCaptured(got)
               \/ got.do = "parsed" /\ OnParsed(got) /\ UNCHANGED <<toGemini, shares>>
               \/ got.do = "shown" /\ OnHighlighted(got) /\ UNCHANGED <<toGemini, shares>>
      /\ UNCHANGED <<pressSend, source, gemini, moves, sends>>
  BY DEF FromSource
<1>3. /\ got = fromSource[1] /\ Queue(Tail(fromSource), SourceResults)
      /\ 1 \in 1..Len(fromSource)
  BY <1>1, <1>2, TailFacts DEF AssistanceTyped, Queue
<1> HIDE DEF got
<1>4. ASSUME got.do = "moved", OnMoved, UNCHANGED shares PROVE AssistanceInv'
  <2>1. CASE Untroubled
    BY <1>2, <1>4, <2>1, HeardOfPage DEF OnMoved
  <2>2. CASE ~Untroubled
    <3>1. session.req # 0
      BY <1>1, <2>2 DEF NothingAsked, Untroubled
    <3>2. Stop("stale", Tail(fromSource), fromGemini)
      BY <1>4, <2>2 DEF OnMoved
    <3> QED
      BY <1>2, <1>3, <1>4, <3>1, <3>2, StopKeeps
  <2> QED
    BY <2>1, <2>2
<1>5. ASSUME got.do = "captured", OnCaptured(got), fromSource' = Tail(fromSource),
             UNCHANGED <<toSource, fromGemini>>
      PROVE  AssistanceInv'
  BY <1>2, <1>3, <1>5, CaptureHeard
<1>6. ASSUME got.do = "parsed", OnParsed(got), fromSource' = Tail(fromSource),
             UNCHANGED <<toSource, fromGemini, toGemini, shares>>
      PROVE  AssistanceInv'
  <2>1. got.named \in {0, session.req} /\ (got.named # 0 => source.snapshot = session.req)
    BY <1>1, <1>3, <1>6 DEF ResultsFit
  <2>2. session' = [session EXCEPT !.state = "answered", !.candidate = got.named]
    BY <1>6 DEF OnParsed
  <2>3. fromSource[1].do \in {"parsed", "shown"}
    BY <1>3, <1>6
  <2> QED
    BY <1>2, <1>6, <2>1, <2>2, <2>3, AnswerHeard
<1>7. ASSUME got.do = "shown", OnHighlighted(got), fromSource' = Tail(fromSource),
             UNCHANGED <<toSource, fromGemini, toGemini, shares>>
      PROVE  AssistanceInv'
  <2>1. fromSource[1].do \in {"parsed", "shown"}
    BY <1>3, <1>7
  <2>2. CASE got.named # 0
    BY <1>2, <1>7, <2>2, HeardOfPage DEF OnHighlighted
  <2>3. CASE got.named = 0
    <3> DEFINE candidate == 0
    <3>1. session' = [session EXCEPT !.state = "answered", !.candidate = candidate]
      BY <1>7, <2>3 DEF OnHighlighted
    <3>2. candidate \in {0, session.req} /\ (candidate # 0 => source.snapshot = session.req)
      OBVIOUS
    <3> HIDE DEF candidate
    <3> QED
      BY <1>2, <1>7, <2>1, <3>1, <3>2, AnswerHeard
  <2> QED
    BY <2>2, <2>3
<1> QED
  BY <1>2, <1>4, <1>5, <1>6, <1>7

LEMMA AssistanceInvNext ==
  ASSUME AssistanceInv, [AssistanceNext]_assistanceVars PROVE AssistanceInv'
<1>1. CASE \E b, c \in BOOLEAN : StartCapture(b, c) \/ RunShare(b, c)
  BY <1>1, StartCaptureKeeps, RunShareKeeps
<1>2. CASE Share \/ Poll \/ ShowMe \/ FromSource \/ FromGemini
  BY <1>2, ShareKeeps, PollKeeps, ShowMeKeeps, FromSourceKeeps, FromGeminiKeeps
<1>3. CASE \E b \in BOOLEAN : RunInSource(b) \/ SourceLeft(b) \/ GeminiLoads(b)
  BY <1>3, RunInSourceKeeps, SourceLeftKeeps, GeminiLoadsKeeps
<1>4. CASE SourceMoves \/ PersonSends \/ PersonTypes
  BY <1>4, SourceMovesKeeps, PersonSendsKeeps, PersonTypesKeeps
<1>5. CASE \E how \in {"lost", "other", "tooLong", "reply"} : RunPoll(how)
  BY <1>5, RunPollKeeps
<1>6. CASE \E r \in Maybe : GeminiAnswers(r)
  BY <1>6, GeminiAnswersKeeps
<1>7. CASE UNCHANGED assistanceVars
  BY <1>7 DEF assistanceVars, queues, AssistanceInv, AssistanceTyped, CapturesInOrder, ResultsFit,
              NothingAsked, CapturedOnce, CaptureUnderWay, SharesFirst, Quiet, ShareUnderWay,
              SentAsShared
<1> QED
  BY <1>1, <1>2, <1>3, <1>4, <1>5, <1>6, <1>7 DEF AssistanceNext

LEMMA AssistanceAlways == AssistanceSpec => []AssistanceInv
<1>1. AssistanceInit => AssistanceInv
  BY AssistanceInvInit
<1>2. AssistanceInv /\ [AssistanceNext]_assistanceVars => AssistanceInv'
  BY AssistanceInvNext
<1> QED
  BY <1>1, <1>2, PTL DEF AssistanceSpec

LEMMA InvIsTyped == AssistanceInv => AssistanceTypeOK
BY DEF AssistanceInv, AssistanceTyped, AssistanceTypeOK, SessionType, SourceType, GeminiType,
       AdapterType, Queue, NothingAsked

\* The session, the page, Gemini's tab and what is under way between them are always of their types.
THEOREM AssistanceTypeCorrect == AssistanceSpec => []AssistanceTypeOK
BY AssistanceAlways, InvIsTyped, PTL

LEMMA InvFits == AssistanceInv => GuidanceFits
<1> SUFFICES ASSUME AssistanceInv PROVE GuidanceFits
  OBVIOUS
<1>1. session.candidate # 0 =>
        session.candidate = session.req /\ source.snapshot = session.req
  BY DEF AssistanceInv, ResultsFit
<1>2. session.prompt \in {0, session.req}
  BY DEF AssistanceInv, ResultsFit
<1>3. session.state = "ready" => session.prompt = session.req
  BY DEF AssistanceInv, SharesFirst
<1>4. \A r \in Requests : sends[r] <= shares[r]
  <2> TAKE r \in Requests
  <2> DEFINE b == IF gemini.box = r THEN 1 ELSE 0
  <2>1. b \in Nat
    OBVIOUS
  <2>2. sends[r] + OnItsWay(toGemini, r) + b <= shares[r]
    BY SharesCount
  <2> HIDE DEF b
  <2> QED
    BY <2>1, <2>2, SharesCount
<1> QED
  BY <1>1, <1>2, <1>3, <1>4 DEF GuidanceFits

\* Guidance is of the page that was asked about, and sent no more often than it was shared.
THEOREM GuidanceFitsAlways == AssistanceSpec => []GuidanceFits
BY AssistanceAlways, InvFits, PTL

-----------------------------------------------------------------------------
(* The summaries. *)

\* A state of the service whose summary, if there is one, is of its page.
FittingHeld == {h \in Held : h.state = "done" => h.of = h.page}
FittingViews == {v \in Views : v.says \in FittingHeld}
AskType == [do : {"state", "send", "forget", "save"}, saw : Views,
            to : Providers \cup {"off"}]

\* The loader works on the page put aside; a page that waits was never sent.
LoaderFits ==
  /\ (held.state = "working") = (loader # 0) /\ loader \in {0, held.page}
  /\ held.state = "waiting" => held.page # 0
SentOnce ==
  \A p \in Pages :
    /\ sent[p] <= 1
    /\ p > held.page \/ (p = held.page /\ held.state = "waiting") => sent[p] = 0

ServiceInv ==
  /\ held \in FittingHeld /\ loader \in 0..MaxHolds
  /\ sent \in [Pages -> Nat]
  /\ LoaderFits /\ SentOnce
ProviderTyped == provider \in Providers \cup {"off"}
\* What the tabs show or are about to show fits.
TabsInv ==
  /\ views \in [Tabs -> FittingViews]
  /\ asks \in [Tabs -> Seq(AskType)] /\ \A t \in Tabs : Len(asks[t]) <= 2
  /\ answers \in [Tabs -> Seq(FittingViews)] /\ \A t \in Tabs : Len(answers[t]) <= 1

SummaryInv == ServiceInv /\ ProviderTyped /\ TabsInv

LEMMA SummaryFacts ==
  /\ MaxHolds \in Nat
  /\ NoPage \in FittingHeld /\ NoView \in FittingViews
  /\ NoPage.page = 0 /\ NoPage.state = "nothing"
  /\ State \in AskType
<1>1. MaxHolds \in Nat
  BY SummaryAssumption
<1>2. NoPage \in FittingHeld /\ NoPage.page = 0 /\ NoPage.state = "nothing"
  BY <1>1 DEF NoPage, FittingHeld, Held, States
<1>3. NoView \in FittingViews /\ NoView \in Views
  BY <1>2 DEF NoView, FittingViews, Views, FittingHeld
<1>4. State \in AskType
  BY <1>3 DEF State, AskType
<1> QED
  BY <1>1, <1>2, <1>3, <1>4

LEMMA SummaryInvInit == SummaryInit => SummaryInv
<1> SUFFICES ASSUME SummaryInit PROVE SummaryInv
  OBVIOUS
<1> USE DEF SummaryInit
<1>1. held \in FittingHeld /\ loader \in 0..MaxHolds /\ sent \in [Pages -> Nat]
  BY SummaryFacts
<1>2. LoaderFits /\ SentOnce
  BY SummaryFacts DEF LoaderFits, SentOnce, Pages
<1>3. TabsInv
  BY SummaryFacts, EmptySeq DEF TabsInv
<1> QED
  BY <1>1, <1>2, <1>3 DEF SummaryInv, ServiceInv, ProviderTyped

LEMMA HoldPageKeeps ==
  ASSUME SummaryInv, NEW b \in BOOLEAN, HoldPage(b)
  PROVE  SummaryInv'
<1> USE DEF HoldPage, LastHold, DropLoader
<1>1. /\ held \in Held /\ held.page \in 0..MaxHolds /\ held.page < MaxHolds
      /\ sent \in [Pages -> Nat] /\ SentOnce
  BY DEF SummaryInv, ServiceInv, FittingHeld, Held
<1>2. held' \in FittingHeld /\ held'.page = held.page + 1 /\ held'.state \in {"nothing", "waiting"}
  BY <1>1, SummaryFacts DEF FittingHeld, Held, States
<1>3. LoaderFits'
  BY <1>1, <1>2 DEF LoaderFits
<1>4. SentOnce'
  BY <1>1, <1>2 DEF SentOnce, Pages
<1> QED
  BY <1>1, <1>2, <1>3, <1>4, SummaryFacts DEF SummaryInv, ServiceInv, ProviderTyped, TabsInv

LEMMA OnResponseKeeps ==
  ASSUME SummaryInv, NEW good \in BOOLEAN, OnResponse(good)
  PROVE  SummaryInv'
<1> USE DEF OnResponse
<1>1. /\ held \in Held /\ held.page \in 0..MaxHolds /\ loader = held.page
      /\ held.state = "working" /\ sent \in [Pages -> Nat] /\ SentOnce
  BY DEF SummaryInv, ServiceInv, FittingHeld, Held, LoaderFits
<1>2. held' \in FittingHeld /\ held'.page = held.page /\ held'.state \in {"done", "failed"}
  BY <1>1 DEF FittingHeld, Held, States
<1>3. LoaderFits'
  BY <1>1, <1>2 DEF LoaderFits
<1>4. SentOnce'
  BY <1>1, <1>2 DEF SentOnce, Pages
<1> QED
  BY <1>1, <1>2, <1>3, <1>4, SummaryFacts DEF SummaryInv, ServiceInv, ProviderTyped, TabsInv

LEMMA SendKeeps ==
  ASSUME ServiceInv, NEW saw \in Views, Send(saw), UNCHANGED provider
  PROVE  ServiceInv'
<1>1. CASE held.state # "waiting"
  BY <1>1 DEF Send, ServiceInv, LoaderFits, SentOnce
<1>2. CASE held.state = "waiting" /\ provider = "off"
  <2>1. held' \in FittingHeld /\ held'.page = held.page /\ held'.state = "failed"
    BY <1>2 DEF Send, ServiceInv, FittingHeld, Held, States
  <2> QED
    BY <1>2, <2>1 DEF Send, ServiceInv, LoaderFits, SentOnce
<1>3. CASE held.state = "waiting" /\ provider # "off"
  <2>1. held' \in FittingHeld /\ held'.page = held.page /\ held'.state = "working"
    BY <1>3 DEF Send, ServiceInv, FittingHeld, Held, States
  <2>2. held.page \in Pages /\ loader' = held.page /\ sent[held.page] = 0
    BY <1>3, SummaryFacts DEF Send, ServiceInv, FittingHeld, Held, LoaderFits, Pages, SentOnce
  <2>3. sent' = [sent EXCEPT ![held.page] = @ + 1]
    BY <1>3 DEF Send
  <2>4. sent' \in [Pages -> Nat]
    BY <2>2, <2>3 DEF ServiceInv
  <2>5. SentOnce'
    BY <2>1, <2>2, <2>3 DEF ServiceInv, SentOnce, Pages
  <2>6. LoaderFits'
    BY <2>1, <2>2 DEF LoaderFits, Pages
  <2> QED
    BY <2>1, <2>2, <2>4, <2>5, <2>6 DEF ServiceInv, Pages
<1> QED
  BY <1>1, <1>2, <1>3

LEMMA ForgetKeeps ==
  ASSUME ServiceInv, held' = [NoPage EXCEPT !.page = held.page], DropLoader, UNCHANGED sent
  PROVE  ServiceInv'
<1>1. held.page \in 0..MaxHolds
  BY DEF ServiceInv, FittingHeld, Held
<1>2. held' = [page |-> held.page, state |-> "nothing", of |-> 0]
  BY DEF NoPage
<1>3. held' \in FittingHeld /\ held'.page = held.page /\ held'.state = "nothing"
  BY <1>1, <1>2, SummaryFacts DEF FittingHeld, Held, States
<1> QED
  BY <1>3, SummaryFacts DEF DropLoader, ServiceInv, LoaderFits, SentOnce

\* An answer is the state that the service is in.
LEMMA SummaryStateKeeps ==
  ASSUME TabsInv, held' \in FittingHeld, ProviderTyped',
         NEW t \in Tabs, answers[t] = <<>>, SummaryState(t)
  PROVE  /\ answers' \in [Tabs -> Seq(FittingViews)]
         /\ \A u \in Tabs : Len(answers'[u]) <= 1
<1> DEFINE v == [says |-> held', to |-> provider']
<1>1. v \in FittingViews
  BY DEF FittingViews, Views, FittingHeld, ProviderTyped
<1>2. answers' = [answers EXCEPT ![t] = Append(@, v)]
  BY DEF SummaryState
<1> HIDE DEF v
<1>3. Append(<<>>, v) \in Seq(FittingViews) /\ Len(Append(<<>>, v)) = 1
  BY <1>1
<1> QED
  BY <1>2, <1>3 DEF TabsInv

LEMMA HandleKeeps ==
  ASSUME SummaryInv, NEW t \in Tabs, Handle(t)
  PROVE  SummaryInv'
<1> DEFINE ask == Head(asks[t])
<1>1. ask \in AskType /\ Tail(asks[t]) \in Seq(AskType) /\ Len(Tail(asks[t])) <= 2
  <2>1. asks[t] \in Seq(AskType) /\ asks[t] # <<>> /\ Len(asks[t]) <= 2
    BY DEF SummaryInv, TabsInv, Handle
  <2> QED
    BY <2>1, HeadTailProperties, LenProperties
<1>2. /\ asks' \in [Tabs -> Seq(AskType)] /\ \A u \in Tabs : Len(asks'[u]) <= 2
  BY <1>1 DEF SummaryInv, TabsInv, Handle
<1>3. answers[t] = <<>> /\ views' = views /\ TabsInv
  BY DEF Handle, SummaryInv
<1>4. CASE ask.do = "state" /\ UNCHANGED <<held, loader, provider, sent>> /\ SummaryState(t)
  <2>1. ServiceInv' /\ ProviderTyped'
    BY <1>4 DEF SummaryInv, ServiceInv, ProviderTyped, LoaderFits, SentOnce
  <2> QED
    BY <1>2, <1>3, <1>4, <2>1, SummaryStateKeeps DEF SummaryInv, TabsInv, ServiceInv
<1>5. CASE ask.do = "send" /\ Send(ask.saw) /\ UNCHANGED <<provider, answers>>
  <2>1. ask.saw \in Views
    BY <1>1 DEF AskType
  <2>2. ServiceInv'
    BY <1>5, <2>1, SendKeeps DEF SummaryInv
  <2> QED
    BY <1>2, <1>3, <1>5, <2>2 DEF SummaryInv, TabsInv, ProviderTyped
<1>6. CASE /\ ask.do = "forget" /\ held' = [NoPage EXCEPT !.page = held.page] /\ DropLoader
           /\ UNCHANGED <<provider, sent>> /\ SummaryState(t)
  <2>1. ServiceInv' /\ ProviderTyped'
    BY <1>6, ForgetKeeps DEF SummaryInv, ProviderTyped
  <2> QED
    BY <1>2, <1>3, <1>6, <2>1, SummaryStateKeeps DEF SummaryInv, TabsInv, ServiceInv
<1>7. CASE /\ ask.do = "save" /\ provider' = ask.to
           /\ UNCHANGED <<held, loader, answers, sent>>
  <2>1. ProviderTyped'
    BY <1>1, <1>7 DEF AskType, ProviderTyped
  <2> QED
    BY <1>2, <1>3, <1>7, <2>1 DEF SummaryInv, ServiceInv, TabsInv, LoaderFits, SentOnce
<1> QED
  BY <1>4, <1>5, <1>6, <1>7 DEF Handle

\* The tabs ask one after another, two messages at most.
LEMMA AskKeeps ==
  ASSUME SummaryInv, Idle, NEW t \in Tabs, NEW do \in Seq(AskType), Len(do) <= 2, Ask(t, do)
  PROVE  asks' \in [Tabs -> Seq(AskType)] /\ \A u \in Tabs : Len(asks'[u]) <= 2
<1>1. asks[t] \o do = do
  BY ConcatEmptySeq DEF Idle
<1> QED
  BY <1>1 DEF Ask, SummaryInv, TabsInv

LEMMA OpenKeeps ==
  ASSUME SummaryInv, NEW t \in Tabs, Open(t)
  PROVE  SummaryInv'
<1>1. <<State>> \in Seq(AskType) /\ Len(<<State>>) <= 2 /\ Idle /\ Ask(t, <<State>>)
  BY SummaryFacts DEF Open
<1>2. asks' \in [Tabs -> Seq(AskType)] /\ \A u \in Tabs : Len(asks'[u]) <= 2
  BY <1>1, AskKeeps
<1>3. views' \in [Tabs -> FittingViews]
  BY SummaryFacts DEF Open, SummaryInv, TabsInv
<1>4. answers' \in [Tabs -> Seq(FittingViews)] /\ \A u \in Tabs : Len(answers'[u]) <= 1
  BY EmptySeq DEF Open, SummaryInv, TabsInv
<1> QED
  BY <1>2, <1>3, <1>4
     DEF Open, SummaryInv, ServiceInv, ProviderTyped, TabsInv, LoaderFits, SentOnce

LEMMA DrawKeeps ==
  ASSUME SummaryInv, NEW t \in Tabs, Draw(t)
  PROVE  SummaryInv'
<1>1. /\ Head(answers[t]) \in FittingViews /\ Tail(answers[t]) \in Seq(FittingViews)
      /\ Len(Tail(answers[t])) <= 1
  <2>1. answers[t] \in Seq(FittingViews) /\ answers[t] # <<>> /\ Len(answers[t]) <= 1
    BY DEF SummaryInv, TabsInv, Draw
  <2> QED
    BY <2>1, HeadTailProperties, LenProperties
<1>2. views' \in [Tabs -> FittingViews]
  BY <1>1 DEF Draw, SummaryInv, TabsInv
<1>3. answers' \in [Tabs -> Seq(FittingViews)] /\ \A u \in Tabs : Len(answers'[u]) <= 1
  BY <1>1 DEF Draw, SummaryInv, TabsInv
<1> QED
  BY <1>2, <1>3
     DEF Draw, SummaryInv, ServiceInv, ProviderTyped, TabsInv, LoaderFits, SentOnce

\* What a person asks for in a tab changes nothing else.
LEMMA OnlyAsksKeeps ==
  ASSUME SummaryInv, Idle, OnlyAsks,
         NEW t \in Tabs, NEW do \in Seq(AskType), Len(do) <= 2, Ask(t, do)
  PROVE  SummaryInv'
<1>1. asks' \in [Tabs -> Seq(AskType)] /\ \A u \in Tabs : Len(asks'[u]) <= 2
  BY AskKeeps
<1> QED
  BY <1>1 DEF OnlyAsks, SummaryInv, ServiceInv, ProviderTyped, TabsInv, LoaderFits, SentOnce

LEMMA PressKeeps ==
  ASSUME SummaryInv, NEW t \in Tabs,
         \/ PollSummary(t) \/ PressSend(t) \/ PressCancel(t)
         \/ \E p \in Providers : PressSave(t, p)
  PROVE  SummaryInv'
<1>1. CASE PollSummary(t)
  <2>1. <<State>> \in Seq(AskType) /\ Len(<<State>>) <= 2
    BY SummaryFacts
  <2>2. Idle /\ OnlyAsks /\ Ask(t, <<State>>)
    BY <1>1 DEF PollSummary
  <2> QED
    BY <2>1, <2>2, OnlyAsksKeeps
<1>2. CASE PressSend(t)
  <2> DEFINE ask == [State EXCEPT !.do = "send", !.saw = views[t]]
  <2>1. ask \in AskType
    BY SummaryFacts DEF AskType, SummaryInv, TabsInv, FittingViews
  <2> HIDE DEF ask
  <2>2. <<ask, State>> \in Seq(AskType) /\ Len(<<ask, State>>) <= 2
    BY <2>1, SummaryFacts
  <2>3. Idle /\ OnlyAsks /\ Ask(t, <<ask, State>>)
    BY <1>2 DEF PressSend, ask
  <2> QED
    BY <2>2, <2>3, OnlyAsksKeeps
<1>3. CASE PressCancel(t)
  <2> DEFINE ask == [State EXCEPT !.do = "forget"]
  <2>1. ask \in AskType
    BY SummaryFacts DEF AskType
  <2> HIDE DEF ask
  <2>2. <<ask>> \in Seq(AskType) /\ Len(<<ask>>) <= 2
    BY <2>1
  <2>3. Idle /\ OnlyAsks /\ Ask(t, <<ask>>)
    BY <1>3 DEF PressCancel, ask
  <2> QED
    BY <2>2, <2>3, OnlyAsksKeeps
<1>4. CASE \E p \in Providers : PressSave(t, p)
  <2> PICK p \in Providers : PressSave(t, p)
    BY <1>4
  <2> DEFINE ask == [State EXCEPT !.do = "save", !.to = p]
  <2>1. ask \in AskType
    BY SummaryFacts DEF AskType
  <2> HIDE DEF ask
  <2>2. <<ask>> \in Seq(AskType) /\ Len(<<ask>>) <= 2
    BY <2>1
  <2>3. Idle /\ OnlyAsks /\ Ask(t, <<ask>>)
    BY DEF PressSave, ask
  <2> QED
    BY <2>2, <2>3, OnlyAsksKeeps
<1> QED
  BY <1>1, <1>2, <1>3, <1>4

LEMMA SummaryInvNext == SummaryInv /\ [SummaryNext]_summaryVars => SummaryInv'
<1> SUFFICES ASSUME SummaryInv, [SummaryNext]_summaryVars PROVE SummaryInv'
  OBVIOUS
<1>1. CASE SummaryNext
  BY <1>1, HoldPageKeeps, OnResponseKeeps, HandleKeeps, OpenKeeps, DrawKeeps, PressKeeps
     DEF SummaryNext
<1>2. CASE UNCHANGED summaryVars
  BY <1>2
     DEF summaryVars, SummaryInv, ServiceInv, ProviderTyped, TabsInv, LoaderFits, SentOnce
<1> QED
  BY <1>1, <1>2

\* The variables of the summary keep their types.
THEOREM SummaryTypeCorrect == SummarySpec => []SummaryTypeOK
<1>1. SummaryInv => SummaryTypeOK
  BY DEF SummaryInv, ServiceInv, ProviderTyped, TabsInv, FittingHeld, FittingViews, SummaryTypeOK
<1> QED
  BY <1>1, SummaryInvInit, SummaryInvNext, PTL DEF SummarySpec

\* A summary is of the page it stands under, and a page is sent once at most.
THEOREM SummariesFit == SummarySpec => []SummaryFits
<1>1. SummaryInv => SummaryFits
  BY DEF SummaryInv, ServiceInv, LoaderFits, SentOnce, TabsInv, FittingHeld, FittingViews,
         SummaryFits
<1> QED
  BY <1>1, SummaryInvInit, SummaryInvNext, PTL DEF SummarySpec
=============================================================================
