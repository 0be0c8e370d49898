--------------------------- MODULE BrowserProofs ----------------------------
(***************************************************************************)
(* Proofs about the parts of the running browser, for any number of changes *)
(* of the lists and the settings: the decisions on a request, the loads of *)
(* the engines and of the list of scam sites, and all parts of MCBrowser   *)
(* together with those AssistanceProofs is about.                          *)
(***************************************************************************)
EXTENDS MCBrowser, AssistanceProofs

-----------------------------------------------------------------------------
(* The decisions on a request. *)

\* What lets a request through.
LetThrough == {"off", "unready", "allow"}

\* The lists are loaded for all URLs or for none, and the pipe breaks once.
Lists ==
  /\ (verdict["first"] = "unready") = (verdict["second"] = "unready")
  /\ ~bound => torn

\* The URL asked for follows the request: the second is behind a redirect.
Order ==
  /\ request.at \in {"new", "proxy"} => Url = "first"
  /\ request.at # "answered" => Url \notin reached
  /\ Url = "first" => "second" \notin reached

\* What is remembered of the lists holds what they say now.
Remembered ==
  /\ request.at # "new" => Now(Url) \in seen[Url]
  /\ \A c \in cloak : ~off /\ BlocksAlias(Url, c)

\* As long as there is a pipe, the browser works on the request that waits, and on
\* its aliases only when the lists had nothing against the URL itself, with the
\* lists that were enabled then.
Asked ==
  /\ bound /\ question.at # "none" => waiting /\ ~reply.there
  /\ bound /\ question.at \in {"ui", "lookup", "aliases"} => "allow" \in seen[Url]
  /\ bound /\ question.at \in {"ui", "lookup", "aliases"} => cloak \subseteq {question.lists}
  /\ bound /\ question.at = "aliases" /\ ~question.found => cloak = {}
  /\ question.at \in {"check", "ui", "lookup"} => ~question.found

\* An answer on its way is about the request that waits.
Answered ==
  reply.there =>
    /\ bound /\ waiting
    /\ ~reply.block => seen[Url] \cap LetThrough # {} /\ cloak = {}
    /\ reply.stub => covered /\ "stub" \in seen[Url]

\* What is before the proxy was let through, or left to it.
Passed ==
  request.at = "proxy" =>
    \/ torn
    \/ seen[Url] \cap LetThrough # {} /\ cloak = {}
    \/ covered /\ "stub" \in seen[Url]

\* A URL is asked for once, and noted once at most.
Counted ==
  /\ noted \in Nat
  /\ noted + (IF question.at = "none" THEN 0 ELSE 1) <=
       IF request.at = "new" THEN 0 ELSE IF Url = "first" THEN 1 ELSE 2

RequestType == [at : {"new", "checking", "proxy", "answered", "over"}, url : Urls]
QuestionType == [at : {"none", "check", "ui", "lookup", "aliases"}, found : BOOLEAN,
                 lists : Choices]

\* The types of RequestTypeOK, in full.
Values ==
  /\ verdict \in [Urls -> Verdicts]
  /\ request \in RequestType /\ question \in QuestionType /\ reply \in Says
  /\ lookups \in 0..1
  /\ seen \in [Urls -> SUBSET (Verdicts \cup {"off"})]
  /\ cloaked \in [Choices -> BOOLEAN] /\ enabled \in Choices
  /\ cloak \subseteq Choices
  /\ reached \subseteq Urls

Flags ==
  /\ off \in BOOLEAN /\ covered \in BOOLEAN
  /\ bound \in BOOLEAN /\ waiting \in BOOLEAN
  /\ torn \in BOOLEAN

Ties ==
  /\ waiting <=> request.at = "checking"
  /\ lookups = 1 <=> question.at = "lookup"

Typed == Values /\ Flags /\ Ties

RequestInv ==
  /\ Typed /\ Counted
  /\ Lists /\ Order /\ Remembered /\ Asked /\ Answered /\ Passed
  /\ SentWasAllowed

-----------------------------------------------------------------------------

LEMMA TwoUrls == Cardinality(Urls) = 2
<1>1. IsFiniteSet({"first"}) /\ Cardinality({"first"}) = 1
  BY FS_Singleton
<1>2. Urls = {"first"} \cup {"second"} /\ "second" \notin {"first"}
  BY DEF Urls
<1> QED
  BY <1>1, <1>2, FS_AddElement

Stages == {"none", "check", "ui", "lookup", "aliases"}

LEMMA NoQuestionFields ==
  /\ NoQuestion \in QuestionType
  /\ NoQuestion.at = "none" /\ NoQuestion.found = FALSE
  /\ LET q == [NoQuestion EXCEPT !.at = "check"]
     IN  q \in QuestionType /\ q.at = "check" /\ q.found = FALSE
  BY DEF NoQuestion, QuestionType, Choices

LEMMA QuestionFields ==
  ASSUME NEW q \in QuestionType
  PROVE  /\ q.at \in Stages /\ q.found \in BOOLEAN /\ q.lists \in Choices
         /\ \A c \in Choices :
              [at |-> "ui", found |-> FALSE, lists |-> c] \in QuestionType
         /\ \A b \in BOOLEAN :
              [at |-> "aliases", found |-> b, lists |-> q.lists] \in QuestionType
BY DEF QuestionType, Stages

LEMMA QuestionMoves ==
  ASSUME NEW q \in QuestionType, NEW a \in Stages
  PROVE  /\ [q EXCEPT !.at = a] \in QuestionType
         /\ [q EXCEPT !.at = a].at = a
         /\ [q EXCEPT !.at = a].found = q.found
         /\ [q EXCEPT !.at = a].lists = q.lists
BY DEF QuestionType, Stages

LEMMA RequestInvInit == RequestInit => RequestInv
<1> SUFFICES ASSUME RequestInit PROVE RequestInv
  OBVIOUS
<1>1. Values
  <2>1. question \in QuestionType
    BY NoQuestionFields DEF RequestInit
  <2>2. /\ cloaked \in [Choices -> BOOLEAN] /\ enabled \in Choices
        /\ cloak \subseteq Choices
    BY DEF RequestInit, Choices
  <2> QED
    BY <2>1, <2>2 DEF RequestInit, Values, Urls, Verdicts, RequestType, Says, NoReply
<1>2. Flags
  BY DEF RequestInit, Flags
<1>3. Ties
  BY DEF RequestInit, Ties, NoQuestion
<1>4. Counted /\ Order /\ Remembered /\ Asked /\ Answered /\ Passed /\ SentWasAllowed
  BY DEF RequestInit, Counted, Order, Remembered, Asked, Answered, Passed, SentWasAllowed,
     NoQuestion, NoReply, Url
<1>5. Lists
  BY DEF RequestInit, Lists, Urls
<1> QED
  BY <1>1, <1>2, <1>3, <1>4, <1>5 DEF RequestInv, Typed

LEMMA RequestRestInv == RequestInv /\ UNCHANGED requestVars => RequestInv'
BY DEF RequestInv, requestVars, listVars, checkVars, pastVars, Typed, Values, Flags, Ties,
   Counted, Lists, Order, Remembered, Asked, Answered, Passed, SentWasAllowed, Url, Now,
   Blocks, BlocksAlias

LEMMA StartInv == RequestInv /\ WillStartRequest => RequestInv'
<1> SUFFICES ASSUME RequestInv, WillStartRequest PROVE RequestInv'
  OBVIOUS
<1> USE DEF RequestInv, Typed, RequestType, WillStartRequest, Defer,
            listVars, Url
<1>0. /\ waiting' = TRUE /\ request'.at = "checking"
      /\ question' \in QuestionType /\ question'.at = "check" /\ ~question'.found
  BY NoQuestionFields
<1>1. Values'
  <2>1. cloak' \subseteq Choices
    OBVIOUS
  <2>2. seen' \in [Urls -> SUBSET (Verdicts \cup {"off"})]
    BY DEF Values, Urls, Verdicts, Now
  <2>3. UNCHANGED <<verdict, cloaked, enabled, reply, lookups>>
    OBVIOUS
  <2>4. request' \in RequestType /\ reached' \subseteq Urls
    BY DEF Values, Urls
  <2> QED
    BY <1>0, <2>1, <2>2, <2>3, <2>4 DEF Values
<1>2. Flags'
  BY DEF Flags, Values, BlocksAlias
<1>3. Ties'
  BY <1>0 DEF Ties, Values, Counted
<1>4. Counted'
  BY DEF Counted, NoQuestion, Asked, Values, Flags, Ties
<1>5. Lists' /\ Order'
  BY DEF Lists, Order, Values, Flags, Ties
<1>6. Remembered'
  BY DEF Remembered, Values, Flags, Ties, Urls, Now, BlocksAlias
<1>7. Asked'
  BY <1>0 DEF Asked, Answered, Ties
<1>8. Answered' /\ Passed'
  BY DEF Asked, Answered, Passed, Lists, Order, NoQuestion, NoReply, Values, Flags,
     Ties, Urls
<1>9. SentWasAllowed'
  BY DEF SentWasAllowed, Lists, Order, Passed, Answered, Remembered, Values, Flags,
     Ties, Urls, Verdicts, LetThrough
<1> QED
  BY <1>1, <1>2, <1>3, <1>4, <1>5, <1>6, <1>7, <1>8, <1>9

LEMMA RedirectInv == RequestInv /\ WillRedirectRequest => RequestInv'
<1> SUFFICES ASSUME RequestInv, WillRedirectRequest PROVE RequestInv'
  OBVIOUS
<1> USE DEF RequestInv, Typed, RequestType, WillRedirectRequest, Defer,
            listVars, Url
<1>0. /\ ~waiting /\ ~reply.there
      /\ IF bound
         THEN /\ waiting' = TRUE /\ request'.at = "checking"
              /\ question.at = "none"
              /\ question'.at = "check" /\ ~question'.found
         ELSE waiting' = FALSE /\ request'.at = "answered" /\ question' = question
      /\ question' \in QuestionType
  <2>1. ~waiting /\ ~reply.there /\ (bound => question.at = "none")
    BY DEF Ties, Asked, Answered
  <2>2. question \in QuestionType
    BY DEF Values
  <2> QED
    BY <2>1, <2>2, NoQuestionFields
<1>1. Values'
  <2>1. cloak' \subseteq Choices
    OBVIOUS
  <2>2. seen' \in [Urls -> SUBSET (Verdicts \cup {"off"})]
    BY DEF Values, Urls, Verdicts, Now
  <2>3. UNCHANGED <<verdict, cloaked, enabled, reply, lookups>>
    OBVIOUS
  <2>4. request' \in RequestType /\ reached' \subseteq Urls
    BY DEF Values, Urls
  <2> QED
    BY <1>0, <2>1, <2>2, <2>3, <2>4 DEF Values
<1>2. Flags'
  BY DEF Flags, Values, BlocksAlias
<1>3. Ties'
  BY <1>0 DEF Ties, Values
<1>4. Counted'
  BY DEF Counted, NoQuestion, Asked, Values, Flags, Ties
<1>5. Lists' /\ Order'
  BY DEF Lists, Order, Values, Flags, Ties
<1>6. Remembered'
  BY DEF Remembered, Values, Flags, Ties, Urls, Now, BlocksAlias
<1>7. Asked'
  BY <1>0 DEF Asked, Answered, Ties
<1>8. Answered' /\ Passed'
  BY DEF Asked, Answered, Passed, Lists, Order, NoQuestion, NoReply, Values, Flags,
     Ties, Urls
<1>9. SentWasAllowed'
  BY DEF SentWasAllowed, Lists, Order, Passed, Answered, Remembered, Values, Flags,
     Ties, Urls, Verdicts, LetThrough
<1> QED
  BY <1>1, <1>2, <1>3, <1>4, <1>5, <1>6, <1>7, <1>8, <1>9

LEMMA OnResultInv == RequestInv /\ OnResult => RequestInv'
<1> SUFFICES ASSUME RequestInv, OnResult PROVE RequestInv'
  OBVIOUS
<1> USE DEF RequestInv, Typed, RequestType, OnResult, LetsPass, Resume,
            Cancel, listVars, Url
<1>1. Values'
  BY DEF Values, Ties, Urls, Verdicts, NoQuestion, NoReply, Says
<1>2. Flags'
  BY DEF Flags, Values, BlocksAlias
<1>3. Ties'
  BY DEF Ties, Values, NoQuestion
<1>4. Counted'
  BY DEF Counted, NoQuestion, Asked, Values, Flags, Ties
<1>5. Lists' /\ Order'
  BY DEF Lists, Order, Values, Flags, Ties
<1>6. Remembered'
  BY DEF Remembered, Values, Flags, Ties, Urls, Now, BlocksAlias
<1>7. Asked'
  BY DEF Asked, Lists, Order, NoQuestion, NoReply, Values, Flags, Ties, Urls
<1>8. Answered' /\ Passed'
  BY DEF Asked, Answered, Passed, Lists, Order, NoQuestion, NoReply, Values, Flags,
     Ties, Urls
<1>9. SentWasAllowed'
  BY DEF SentWasAllowed, Lists, Order, Passed, Answered, Remembered, Values, Flags,
     Ties, Urls, Verdicts, LetThrough
<1> QED
  BY <1>1, <1>2, <1>3, <1>4, <1>5, <1>6, <1>7, <1>8, <1>9

LEMMA OnDisconnectInv == RequestInv /\ OnDisconnect => RequestInv'
<1> SUFFICES ASSUME RequestInv, OnDisconnect PROVE RequestInv'
  OBVIOUS
<1> USE DEF RequestInv, Typed, RequestType, OnDisconnect, Resume, listVars, Url
<1>1. Values'
  BY DEF Values, Ties, Urls, Verdicts, NoQuestion, NoReply, Says
<1>2. Flags'
  BY DEF Flags, Values, BlocksAlias
<1>3. Ties'
  BY DEF Ties, Values, NoQuestion
<1>4. Counted'
  BY DEF Counted, NoQuestion, Asked, Values, Flags, Ties
<1>5. Lists' /\ Order'
  BY DEF Lists, Order, Values, Flags, Ties
<1>6. Remembered'
  BY DEF Remembered, Values, Flags, Ties, Urls, Now, BlocksAlias
<1>7. Asked'
  BY DEF Asked, Lists, Order, NoQuestion, NoReply, Values, Flags, Ties, Urls
<1>8. Answered' /\ Passed'
  BY DEF Asked, Answered, Passed, Lists, Order, NoQuestion, NoReply, Values, Flags,
     Ties, Urls
<1>9. SentWasAllowed'
  BY DEF SentWasAllowed, Lists, Order, Passed, Answered, Remembered, Values, Flags,
     Ties, Urls, Verdicts, LetThrough
<1> QED
  BY <1>1, <1>2, <1>3, <1>4, <1>5, <1>6, <1>7, <1>8, <1>9

LEMMA CheckInv == RequestInv /\ Check => RequestInv'
<1> SUFFICES ASSUME RequestInv, Check PROVE RequestInv'
  OBVIOUS
<1> USE DEF RequestInv, Typed, RequestType, Check, Answers, pastVars,
            listVars, Url
<1>0. reply' \in Says /\ question.at = "check"
  <2>1. \A b, c \in BOOLEAN : [block |-> b, stub |-> c, there |-> TRUE] \in Says
    BY DEF Says
  <2>2. (verdict[Url] = "stub" /\ covered) \in BOOLEAN
    OBVIOUS
  <2> QED
    BY <2>1, <2>2 DEF Values
<1>1. Values'
  <2>1. question' \in QuestionType
    <3>1. /\ question \in QuestionType /\ enabled \in Choices
          /\ question' \in {NoQuestion, [at |-> "ui", found |-> FALSE, lists |-> enabled]}
      BY DEF Values
    <3> QED
      BY <3>1, NoQuestionFields, QuestionFields
  <2>2. lookups' \in 0..1
    BY DEF Values
  <2>3. UNCHANGED <<verdict, cloaked, enabled, request, seen, reached>>
    OBVIOUS
  <2>4. cloak' \subseteq Choices
    BY DEF Values
  <2> QED
    BY <1>0, <2>1, <2>2, <2>3, <2>4 DEF Values
<1>2. Flags'
  BY DEF Flags, Values, BlocksAlias
<1>3. Ties'
  BY DEF Ties, Values, NoQuestion
<1>4. Counted'
  BY DEF Counted, NoQuestion, Asked, Values, Flags, Ties
<1>5. Lists' /\ Order'
  BY DEF Lists, Order, Values, Flags, Ties
<1>6. Remembered'
  BY DEF Remembered, Values, Flags, Ties, Urls, Now, BlocksAlias
<1>7. Asked'
  BY DEF Asked, Lists, Order, NoQuestion, NoReply, Values, Flags, Ties, Urls,
     Remembered, Now, Blocks, Verdicts
<1>8. Answered' /\ Passed'
  BY DEF Asked, Answered, Passed, Lists, Order, NoQuestion, NoReply, Values, Flags,
     Ties, Urls, Remembered, Now, Blocks, BlocksAlias, LetThrough, Verdicts
<1>9. SentWasAllowed'
  BY DEF SentWasAllowed, Lists, Order, Passed, Answered, Remembered, Values, Flags,
     Ties, Urls, Verdicts, LetThrough
<1> QED
  BY <1>1, <1>2, <1>3, <1>4, <1>5, <1>6, <1>7, <1>8, <1>9

LEMMA AskAliasesInv == RequestInv /\ (SkipLookup \/ StartLookup) => RequestInv'
<1> SUFFICES ASSUME RequestInv, SkipLookup \/ StartLookup PROVE RequestInv'
  OBVIOUS
<1> USE DEF RequestInv, Typed, RequestType, SkipLookup, StartLookup,
            pastVars, listVars, Url
<1>0. /\ lookups = 0 /\ question.at = "ui"
      /\ question'.at = IF lookups' = 0 THEN "aliases" ELSE "lookup"
      /\ question'.found = question.found /\ question'.lists = question.lists
      /\ lookups' = 0 \/ cloak' = cloak
      /\ lookups' = 0 => cloak' = {}
      /\ question' \in QuestionType
  <2>1. question \in QuestionType /\ lookups = 0 /\ question.at = "ui"
    BY DEF Values, Ties
  <2>2. CASE SkipLookup
    <3>1. /\ question' = [question EXCEPT !.at = "aliases"]
          /\ lookups' = 0 /\ cloak' = {}
      BY <2>1, <2>2
    <3>2. "aliases" \in Stages
      BY DEF Stages
    <3> QED
      BY <2>1, <3>1, <3>2, QuestionMoves
  <2>3. CASE StartLookup
    <3>1. /\ question' = [question EXCEPT !.at = "lookup"]
          /\ lookups' = 1 /\ cloak' = cloak
      BY <2>1, <2>3
    <3>2. "lookup" \in Stages
      BY DEF Stages
    <3> QED
      BY <2>1, <3>1, <3>2, QuestionMoves
  <2> QED
    BY <2>2, <2>3
<1>1. Values'
  <2>1. question' \in QuestionType
    BY <1>0
  <2>2. lookups' \in 0..1
    BY <1>0 DEF Values
  <2>3. UNCHANGED <<verdict, cloaked, enabled, request, seen, reached>> /\ UNCHANGED reply
    OBVIOUS
  <2>4. cloak' \subseteq Choices
    BY DEF Values
  <2> QED
    BY <2>1, <2>2, <2>3, <2>4 DEF Values
<1>2. Flags'
  BY DEF Flags, Values, BlocksAlias
<1>3. Ties'
  BY <1>0 DEF Ties, Values
<1>4. Counted'
  BY <1>0 DEF Counted, NoQuestion, Asked, Values, Flags, Ties
<1>5. Lists' /\ Order'
  BY DEF Lists, Order, Values, Flags, Ties
<1>6. Remembered'
  BY DEF Remembered, Values, Flags, Ties, Urls, Now, BlocksAlias
<1>7. Asked'
  BY <1>0 DEF Asked, Lists, Order, NoQuestion, NoReply, Values, Flags, Ties, Urls
<1>8. Answered' /\ Passed'
  BY DEF Asked, Answered, Passed, Lists, Order, NoQuestion, NoReply, Values, Flags,
     Ties, Urls
<1>9. SentWasAllowed'
  BY DEF SentWasAllowed, Lists, Order, Passed, Answered, Remembered, Values, Flags,
     Ties, Urls, Verdicts, LetThrough
<1> QED
  BY <1>1, <1>2, <1>3, <1>4, <1>5, <1>6, <1>7, <1>8, <1>9

LEMMA LookupInv ==
  RequestInv /\ (OnComplete \/ LookupTimesOut \/ LookupBreaks) => RequestInv'
<1> SUFFICES ASSUME RequestInv, OnComplete \/ LookupTimesOut \/ LookupBreaks
             PROVE  RequestInv'
  OBVIOUS
<1> USE DEF RequestInv, Typed, RequestType, OnComplete, LookupTimesOut,
            LookupBreaks, LookupEnds, IsOverdue, Finish, pastVars, listVars, Url
<1>0. lookups = 1 /\ question.at = "lookup"
  BY DEF Values, Ties
<1>1. Values'
  <2>1. question' \in QuestionType
    <3>1. /\ question \in QuestionType
          /\ \E x \in BOOLEAN :
               question' = [at |-> "aliases", found |-> x, lists |-> question.lists]
      BY DEF Values
    <3> QED
      BY <3>1, QuestionFields
  <2>2. lookups' \in 0..1
    BY <1>0 DEF Values
  <2>3. UNCHANGED <<verdict, cloaked, enabled, request, seen, reached>> /\ UNCHANGED reply
    OBVIOUS
  <2>4. cloak' \subseteq Choices
    BY DEF Values
  <2> QED
    BY <2>1, <2>2, <2>3, <2>4 DEF Values
<1>2. Flags'
  BY DEF Flags, Values, BlocksAlias
<1>3. Ties'
  BY <1>0 DEF Ties, Values, NoQuestion
<1>4. Counted'
  BY <1>0 DEF Counted, NoQuestion, Asked, Values, Flags, Ties
<1>5. Lists' /\ Order'
  BY DEF Lists, Order, Values, Flags, Ties
<1>6. Remembered'
  BY DEF Remembered, Values, Flags, Ties, Urls, Now, BlocksAlias
<1>7. Asked'
  BY <1>0 DEF Asked, Lists, Order, NoQuestion, NoReply, Values, Flags, Ties, Urls
<1>8. Answered' /\ Passed'
  BY <1>0 DEF Asked, Answered, Passed, Lists, Order, NoQuestion, NoReply, Values, Flags,
     Ties, Urls
<1>9. SentWasAllowed'
  BY DEF SentWasAllowed, Lists, Order, Passed, Answered, Remembered, Values, Flags,
     Ties, Urls, Verdicts, LetThrough
<1> QED
  BY <1>1, <1>2, <1>3, <1>4, <1>5, <1>6, <1>7, <1>8, <1>9

LEMMA AliasesInv == RequestInv /\ CheckAliases => RequestInv'
<1> SUFFICES ASSUME RequestInv, CheckAliases PROVE RequestInv'
  OBVIOUS
<1> USE DEF RequestInv, Typed, RequestType, CheckAliases, Answers, pastVars,
            listVars, Url
<1>1. Values'
  <2>1. question' \in QuestionType
    BY NoQuestionFields
  <2>2. reply' \in Says
    <3>1. \A b, c \in BOOLEAN : [block |-> b, stub |-> c, there |-> TRUE] \in Says
      BY DEF Says
    <3>2. (question.found /\ BlocksAlias(Url, question.lists)) \in BOOLEAN
      OBVIOUS
    <3> QED
      BY <3>1, <3>2 DEF Values
  <2> QED
    BY <2>1, <2>2 DEF Values
<1>2. Flags'
  BY DEF Flags, Values, BlocksAlias
<1>3. Ties'
  BY DEF Ties, Values, NoQuestion
<1>4. Counted'
  BY DEF Counted, NoQuestion, Asked, Values, Flags, Ties
<1>5. Lists' /\ Order'
  BY DEF Lists, Order, Values, Flags, Ties
<1>6. Remembered'
  BY DEF Remembered, Values, Flags, Ties, Urls, Now, BlocksAlias
<1>7. Asked'
  BY DEF Asked, Lists, Order, NoQuestion, NoReply, Values, Flags, Ties, Urls
<1>8. Answered' /\ Passed'
  BY DEF Asked, Answered, Passed, Lists, Order, NoQuestion, NoReply, Values, Flags,
     Ties, Urls, Remembered, LetThrough, BlocksAlias
<1>9. SentWasAllowed'
  BY DEF SentWasAllowed, Lists, Order, Passed, Answered, Remembered, Values, Flags,
     Ties, Urls, Verdicts, LetThrough
<1> QED
  BY <1>1, <1>2, <1>3, <1>4, <1>5, <1>6, <1>7, <1>8, <1>9

LEMMA ProxyInv == RequestInv /\ CreateLoaderAndStart => RequestInv'
<1> SUFFICES ASSUME RequestInv, CreateLoaderAndStart PROVE RequestInv'
  OBVIOUS
<1> USE DEF RequestInv, Typed, RequestType, CreateLoaderAndStart, listVars, Url
<1>1. Values'
  BY DEF Values, Ties, Urls, Verdicts, NoQuestion, NoReply, Says
<1>2. Flags'
  BY DEF Flags, Values, BlocksAlias
<1>3. Ties'
  BY DEF Ties, Values, NoQuestion
<1>4. Counted'
  BY DEF Counted, NoQuestion, Asked, Values, Flags, Ties
<1>5. Lists' /\ Order'
  BY DEF Lists, Order, Values, Flags, Ties
<1>6. Remembered'
  BY DEF Remembered, Values, Flags, Ties, Urls, Now, BlocksAlias
<1>7. Asked'
  BY DEF Asked, Lists, Order, NoQuestion, NoReply, Values, Flags, Ties, Urls
<1>8. Answered' /\ Passed'
  BY DEF Asked, Answered, Passed, Lists, Order, NoQuestion, NoReply, Values, Flags,
     Ties, Urls
<1>9. SentWasAllowed'
  BY DEF SentWasAllowed, Lists, Order, Passed, Answered, Remembered, Values, Flags,
     Ties, Urls, Verdicts, LetThrough, Now, Blocks, BlocksAlias
<1> QED
  BY <1>1, <1>2, <1>3, <1>4, <1>5, <1>6, <1>7, <1>8, <1>9

LEMMA ListsChangeInv == RequestInv /\ (ListsLoaded \/ SettingsChange) => RequestInv'
<1> SUFFICES ASSUME RequestInv, ListsLoaded \/ SettingsChange PROVE RequestInv'
  OBVIOUS
<1> USE DEF RequestInv, Typed, RequestType, Noticed, checkVars, Url
<1>0. /\ verdict' \in [Urls -> Verdicts] /\ cloaked' \in [Choices -> BOOLEAN]
      /\ enabled' \in Choices /\ off' \in BOOLEAN
      /\ \/ \A u \in Urls : verdict'[u] # "unready"
         \/ \A u \in Urls : verdict'[u] = "unready" <=> verdict[u] = "unready"
      /\ Noticed
  <2>1. CASE ListsLoaded
    BY <2>1 DEF ListsLoaded, Values, Flags, Verdicts, Lists, Urls
  <2>2. CASE SettingsChange
    BY <2>2 DEF SettingsChange, Values, Flags, Verdicts, Lists, Urls
  <2> QED
    BY <2>1, <2>2
<1>1. Values'
  BY <1>0 DEF Values, Ties, Urls, Verdicts, NoQuestion, NoReply, Says
<1>2. Flags'
  BY <1>0 DEF Flags
<1>3. Ties'
  BY <1>0 DEF Ties, Values, NoQuestion
<1>4. Counted'
  BY <1>0 DEF Counted, NoQuestion, Asked, Values, Flags, Ties
<1>5. Lists' /\ Order'
  BY <1>0 DEF Lists, Order, Urls
<1>6. Remembered'
  BY <1>0 DEF Remembered, Values, Flags, Ties, Urls, Now, BlocksAlias
<1>7. Asked'
  BY <1>0 DEF Asked, Lists, Order, NoQuestion, NoReply, Values, Flags, Ties, Urls
<1>8. Answered' /\ Passed'
  BY <1>0 DEF Asked, Answered, Passed, Lists, Order, NoQuestion, NoReply, Values, Flags,
     Ties, Urls, LetThrough
<1>9. SentWasAllowed'
  BY <1>0 DEF SentWasAllowed, Lists, Order, Passed, Answered, Remembered, Values, Flags,
     Ties, Urls, Verdicts, LetThrough
<1> QED
  BY <1>1, <1>2, <1>3, <1>4, <1>5, <1>6, <1>7, <1>8, <1>9

LEMMA RequestInvNext == RequestInv /\ [RequestNext]_requestVars => RequestInv'
BY RequestRestInv, StartInv, RedirectInv, OnResultInv, OnDisconnectInv, CheckInv,
   AskAliasesInv, LookupInv, AliasesInv, ProxyInv, ListsChangeInv
   DEF RequestNext, BrowserProceeds

\* The types of the decision on a request: one lookup at most, and a URL is counted
\* as blocked once at most.
THEOREM RequestTypeCorrect == RequestSpec => []RequestTypeOK
<1>1. RequestInv => RequestTypeOK
  <2> SUFFICES ASSUME RequestInv PROVE RequestTypeOK
    OBVIOUS
  <2>1. waiting = (request.at = "checking") /\ (lookups = 1) = (question.at = "lookup")
    BY DEF RequestInv, Typed, Flags, Ties
  <2>2. noted \in 0..2
    BY DEF RequestInv, Counted
  <2> QED
    BY <2>1, <2>2, TwoUrls DEF RequestInv, Typed, Values, Flags, RequestType, QuestionType,
       RequestTypeOK
<1> QED
  BY <1>1, RequestInvInit, RequestInvNext, PTL DEF RequestSpec

\* However often the lists and the settings change, a resolver stays silent or the
\* pipe breaks, a request that reaches a server was let through (the exceptions are
\* those of SentWasAllowed).
THEOREM SentIsAllowed == RequestSpec => []SentWasAllowed
<1>1. RequestInv => SentWasAllowed
  BY DEF RequestInv
<1> QED
  BY <1>1, RequestInvInit, RequestInvNext, PTL DEF RequestSpec

-----------------------------------------------------------------------------
(* The engines. *)

LoadType ==
  [at : {"none", "look", "time", "text", "wishes", "next"}, of : AllEngines,
   todo : SUBSET Optional, left : SUBSET ListFiles,
   time : [ListFiles -> Versions], text : [ListFiles -> Versions]]

\* The types of EnginesTypeOK, in full.
EnginesTyped ==
  /\ written \in [ListFiles -> Versions]
  /\ writes \in 0..MaxWrites /\ \A f \in ListFiles : written[f] <= writes + 1
  /\ engine \in [AllEngines -> EngineType]
  /\ wanted \subseteq Optional /\ tried \subseteq wanted
  /\ posted \in Nat
  /\ load \in LoadType
  /\ resources \in [seen : BOOLEAN, read : BOOLEAN]
  /\ started \in BOOLEAN /\ due \in BOOLEAN

\* Every wish still to come posts one load at most, and so does the next caller of
\* EnsureLoading().
PostsToCome == posted + Cardinality(Optional \ wanted) + (IF started /\ ~due THEN 0 ELSE 1)
PostsBounded == PostsToCome <= MaxPosts

\* Before the first caller there is nothing.
NothingYet == ~started => posted = 0 /\ load = NoLoad /\ wanted = {} /\ ~engine["main"].there

EnginesInv == EnginesTyped /\ PostsBounded /\ NothingYet /\ WishIsHeard

LEMMA EngineFacts ==
  /\ \A e \in AllEngines : FilesOf(e) \subseteq ListFiles
  /\ Nothing \in [ListFiles -> Versions] /\ NoEngine \in EngineType
  /\ NoLoad \in LoadType /\ NoLoad.at = "none"
  /\ IsFiniteSet(Optional) /\ MaxWrites \in Nat /\ MaxPosts \in Nat
  /\ Cardinality(Optional) \in Nat /\ Cardinality(Optional) < MaxPosts
<1>1. /\ IsFiniteSet(Optional) /\ MaxWrites \in Nat /\ MaxPosts \in Nat
      /\ MaxPosts > Cardinality(Optional)
  BY EnginesAssumption
<1>2. \A e \in AllEngines : FilesOf(e) \subseteq ListFiles
  BY DEF AllEngines, FilesOf, ListFiles
<1>3. Nothing \in [ListFiles -> Versions]
  BY <1>1 DEF Nothing, Versions
<1>4. NoEngine \in EngineType
  BY <1>3 DEF NoEngine, EngineType
<1>5. NoLoad \in LoadType /\ NoLoad.at = "none"
  BY <1>3 DEF NoLoad, LoadType, AllEngines
<1>6. Cardinality(Optional) \in Nat
  BY <1>1, FS_CardinalityType
<1> QED
  BY <1>1, <1>2, <1>3, <1>4, <1>5, <1>6

\* What is left of the optional engines when more of them are wanted.
LEMMA WantedLess ==
  ASSUME NEW old \in SUBSET Optional, NEW fresh \in SUBSET (Optional \ old)
  PROVE  /\ Cardinality(Optional \ old) \in Nat
         /\ Cardinality(Optional \ (old \cup fresh)) \in Nat
         /\ fresh # {} =>
              Cardinality(Optional \ (old \cup fresh)) + 1 <= Cardinality(Optional \ old)
<1>1. IsFiniteSet(Optional \ old) /\ IsFiniteSet(Optional \ (old \cup fresh))
  BY EngineFacts, FS_Subset
<1>2. Cardinality(Optional \ old) \in Nat /\ Cardinality(Optional \ (old \cup fresh)) \in Nat
  BY <1>1, FS_CardinalityType
<1>3. fresh # {} =>
        Cardinality(Optional \ (old \cup fresh)) < Cardinality(Optional \ old)
  <2> SUFFICES ASSUME fresh # {}
               PROVE  Cardinality(Optional \ (old \cup fresh)) < Cardinality(Optional \ old)
    OBVIOUS
  <2> DEFINE less == Optional \ (old \cup fresh)
             more == Optional \ old
  <2>1. less \in SUBSET more /\ less # more /\ IsFiniteSet(more)
    BY <1>1
  <2> HIDE DEF less, more
  <2>2. /\ Cardinality(less) <= Cardinality(more)
        /\ Cardinality(less) = Cardinality(more) => less = more
    BY <2>1, FS_Subset
  <2>3. Cardinality(less) \in Nat /\ Cardinality(more) \in Nat
    BY <1>2 DEF less, more
  <2>4. Cardinality(less) < Cardinality(more)
    BY <2>1, <2>2, <2>3
  <2> QED
    BY <2>4 DEF less, more
<1> QED
  BY <1>2, <1>3

LEMMA EnginesInvInit == EnginesInit => EnginesInv
<1> SUFFICES ASSUME EnginesInit PROVE EnginesInv
  OBVIOUS
<1> USE DEF EnginesInit
<1>1. /\ written \in [ListFiles -> Versions] /\ \A f \in ListFiles : written[f] <= writes + 1
      /\ writes \in 0..MaxWrites
  BY EngineFacts DEF Versions
<1>2. engine \in [AllEngines -> EngineType]
  BY EngineFacts
<1>3. resources \in [seen : BOOLEAN, read : BOOLEAN]
  OBVIOUS
<1>4. load \in LoadType
  BY EngineFacts
<1>5. EnginesTyped
  BY <1>1, <1>2, <1>3, <1>4 DEF EnginesTyped
<1>6. PostsBounded
  <2>1. Optional \ wanted = Optional
    OBVIOUS
  <2> QED
    BY <2>1, EngineFacts DEF PostsBounded, PostsToCome
<1>7. NothingYet
  BY DEF NothingYet, NoEngine, AllEngines
<1>8. WishIsHeard
  BY DEF WishIsHeard
<1> QED
  BY <1>5, <1>6, <1>7, <1>8 DEF EnginesInv

LEMMA EnginesRest == EnginesInv /\ UNCHANGED engineVars => EnginesInv'
<1> SUFFICES ASSUME EnginesInv, UNCHANGED engineVars PROVE EnginesInv'
  OBVIOUS
<1> QED
  BY DEF EnginesInv, engineVars, EnginesTyped, PostsBounded, PostsToCome, NothingYet, WishIsHeard

\* A step of the load that runs, as far as it may go.
LEMMA LoadSteps ==
  ASSUME EnginesInv, load.at # "none",
         load' \in LoadType, engine' \in [AllEngines -> EngineType], tried' \subseteq wanted,
         UNCHANGED <<writes, written, wanted, started, due, posted, resources>>
  PROVE  EnginesTyped' /\ PostsBounded' /\ NothingYet'
<1>1. started
  BY EngineFacts DEF EnginesInv, NothingYet
<1>2. EnginesTyped'
  BY DEF EnginesInv, EnginesTyped
<1>3. PostsBounded'
  BY DEF EnginesInv, PostsBounded, PostsToCome
<1>4. NothingYet'
  BY <1>1 DEF NothingYet
<1> QED
  BY <1>2, <1>3, <1>4

LEMMA LookKeeps == EnginesInv /\ Look => EnginesInv'
<1> SUFFICES ASSUME EnginesInv, Look PROVE EnginesInv'
  OBVIOUS
<1> USE DEF Look
<1>1. load \in LoadType /\ load.of \in AllEngines /\ FilesOf(load.of) \subseteq ListFiles
  BY EngineFacts DEF EnginesInv, EnginesTyped, LoadType
<1>2. \/ load' = [load EXCEPT !.at = After(load.of)]
      \/ load' = [load EXCEPT !.at = "time", !.left = FilesOf(load.of),
                     !.time = Nothing, !.text = Nothing]
  OBVIOUS
<1>3. load' \in LoadType /\ load'.of = load.of /\ load'.todo = load.todo
      /\ load'.at \in {After(load.of), "time"}
  BY <1>1, <1>2, EngineFacts DEF LoadType, After
<1>4. tried' \subseteq wanted /\ tried \subseteq tried'
      /\ (load.of \in wanted => load.of \in tried')
  BY DEF EnginesInv, EnginesTyped
<1>5. EnginesTyped' /\ PostsBounded' /\ NothingYet'
  BY <1>3, <1>4, LoadSteps DEF EnginesInv, EnginesTyped
<1>6. WishIsHeard'
  BY <1>3, <1>4 DEF EnginesInv, WishIsHeard, After
<1> QED
  BY <1>5, <1>6 DEF EnginesInv

LEMMA NoteTimeKeeps == EnginesInv /\ NoteTime => EnginesInv'
<1> SUFFICES ASSUME EnginesInv, NoteTime PROVE EnginesInv'
  OBVIOUS
<1> USE DEF NoteTime
<1> DEFINE f == CHOOSE g \in load.left : TRUE
<1>1. load \in LoadType /\ written \in [ListFiles -> Versions]
  BY DEF EnginesInv, EnginesTyped
<1>2. f \in load.left /\ f \in ListFiles
  BY <1>1 DEF LoadType
<1>3. \/ load' = [load EXCEPT !.left = @ \ {f}]
      \/ load' = [load EXCEPT !.at = "text", !.time[f] = written[f]]
  OBVIOUS
<1> HIDE DEF f
<1>4. [load.time EXCEPT ![f] = written[f]] \in [ListFiles -> Versions]
  BY <1>1, <1>2 DEF LoadType
<1>5. load' \in LoadType /\ load'.of = load.of /\ load'.todo = load.todo
      /\ load'.at \in {"time", "text"}
  BY <1>1, <1>3, <1>4 DEF LoadType, NoteTime
<1>6. EnginesTyped' /\ PostsBounded' /\ NothingYet'
  BY <1>5, LoadSteps DEF EnginesInv, EnginesTyped
<1>7. WishIsHeard'
  BY <1>5 DEF EnginesInv, WishIsHeard
<1> QED
  BY <1>6, <1>7 DEF EnginesInv

LEMMA ReadTextKeeps ==
  ASSUME EnginesInv, NEW f \in ListFiles, NEW r \in BOOLEAN, ReadText(f, r)
  PROVE  EnginesInv'
<1> USE DEF ReadText
<1>1. load \in LoadType /\ written \in [ListFiles -> Versions]
  BY DEF EnginesInv, EnginesTyped
<1>2. \/ load' = [load EXCEPT !.at = "time", !.left = @ \ {f}, !.text[f] = written[f]]
      \/ load' = [load EXCEPT !.at = "time", !.left = @ \ {f}, !.time[f] = 0]
  BY DEF TimeUnread
<1>3. /\ [load.text EXCEPT ![f] = written[f]] \in [ListFiles -> Versions]
      /\ [load.time EXCEPT ![f] = 0] \in [ListFiles -> Versions]
  BY <1>1, EngineFacts DEF LoadType, Versions
<1>4. load' \in LoadType /\ load'.of = load.of /\ load'.todo = load.todo /\ load'.at = "time"
  BY <1>1, <1>2, <1>3 DEF LoadType
<1>5. EnginesTyped' /\ PostsBounded' /\ NothingYet'
  BY <1>4, LoadSteps DEF EnginesInv, EnginesTyped
<1>6. WishIsHeard'
  BY <1>4 DEF EnginesInv, WishIsHeard
<1> QED
  BY <1>5, <1>6 DEF EnginesInv

LEMMA PutEngineKeeps == EnginesInv /\ PutEngine => EnginesInv'
<1> SUFFICES ASSUME EnginesInv, PutEngine PROVE EnginesInv'
  OBVIOUS
<1> USE DEF PutEngine
<1>1. /\ load \in LoadType /\ engine \in [AllEngines -> EngineType]
      /\ resources.read \in BOOLEAN /\ load.of \in AllEngines
  BY DEF EnginesInv, EnginesTyped, LoadType
<1>2. [there |-> TRUE, time |-> load.time, text |-> load.text, stubs |-> resources.read]
        \in EngineType
  BY <1>1 DEF LoadType, EngineType
<1>3. engine' \in [AllEngines -> EngineType]
  BY <1>1, <1>2
<1>4. load' \in LoadType /\ load'.of = load.of /\ load'.todo = load.todo
      /\ load'.at = After(load.of)
  BY <1>1, EngineFacts DEF LoadType, After
<1>5. EnginesTyped' /\ PostsBounded' /\ NothingYet'
  BY <1>3, <1>4, LoadSteps DEF EnginesInv, EnginesTyped
<1>6. WishIsHeard'
  BY <1>4 DEF EnginesInv, WishIsHeard, After
<1> QED
  BY <1>5, <1>6 DEF EnginesInv

LEMMA TakeWishesKeeps == EnginesInv /\ TakeWishes => EnginesInv'
<1> SUFFICES ASSUME EnginesInv, TakeWishes PROVE EnginesInv'
  OBVIOUS
<1> USE DEF TakeWishes
<1>1. load' \in LoadType /\ load'.todo = wanted /\ wanted' = wanted
  BY DEF EnginesInv, EnginesTyped, LoadType
<1>2. EnginesTyped' /\ PostsBounded' /\ NothingYet'
  BY <1>1, LoadSteps DEF EnginesInv, EnginesTyped
<1>3. WishIsHeard'
  BY <1>1 DEF WishIsHeard
<1> QED
  BY <1>2, <1>3 DEF EnginesInv

LEMMA NextEngineKeeps == EnginesInv /\ NextEngine => EnginesInv'
<1> SUFFICES ASSUME EnginesInv, NextEngine PROVE EnginesInv'
  OBVIOUS
<1> DEFINE e == CHOOSE x \in load.todo : TRUE
<1>1. load \in LoadType /\ e \in load.todo /\ load.at = "next"
  BY DEF EnginesInv, EnginesTyped, NextEngine
<1>2. /\ load' = [load EXCEPT !.at = "look", !.of = e, !.todo = @ \ {e}]
      /\ UNCHANGED <<writes, written, faults, engine, wanted, started, due, posted,
                     resources, tried>>
  BY DEF NextEngine
<1> HIDE DEF e
<1>3. load' \in LoadType /\ load'.of = e /\ load'.todo = load.todo \ {e} /\ load'.at = "look"
  BY <1>1, <1>2 DEF LoadType, AllEngines
<1>4. EnginesTyped' /\ PostsBounded' /\ NothingYet'
  BY <1>1, <1>2, <1>3, LoadSteps DEF EnginesInv, EnginesTyped
<1>5. WishIsHeard'
  BY <1>1, <1>2, <1>3 DEF EnginesInv, WishIsHeard
<1> QED
  BY <1>4, <1>5 DEF EnginesInv

LEMMA EndLoadKeeps == EnginesInv /\ EndLoad => EnginesInv'
<1> SUFFICES ASSUME EnginesInv, EndLoad PROVE EnginesInv'
  OBVIOUS
<1> USE DEF EndLoad
<1>1. EnginesTyped' /\ PostsBounded' /\ NothingYet'
  BY EngineFacts, LoadSteps DEF EnginesInv, EnginesTyped
<1>2. WishIsHeard'
  BY DEF EnginesInv, WishIsHeard
<1> QED
  BY <1>1, <1>2 DEF EnginesInv

LEMMA BeginLoadKeeps ==
  ASSUME EnginesInv, NEW readable \in BOOLEAN, BeginLoad(readable)
  PROVE  EnginesInv'
<1> USE DEF BeginLoad
<1>1. /\ load = NoLoad /\ load \in LoadType /\ posted \in Nat /\ posted > 0
      /\ engine \in [AllEngines -> EngineType] /\ started
  BY DEF EnginesInv, EnginesTyped, NothingYet
<1>2. engine' \in [AllEngines -> EngineType]
  <2>1. \A e \in AllEngines : [engine[e] EXCEPT !.stubs = @ \/ readable] \in EngineType
    BY <1>1 DEF EngineType
  <2> QED
    BY <1>1, <2>1 DEF LoadResources
<1>3. resources' \in [seen : BOOLEAN, read : BOOLEAN]
  <2>1. resources' = resources \/ resources' = [seen |-> TRUE, read |-> readable]
    BY DEF LoadResources
  <2>2. [seen |-> TRUE, read |-> readable] \in [seen : BOOLEAN, read : BOOLEAN]
    BY Zenon
  <2> QED
    BY <2>1, <2>2 DEF EnginesInv, EnginesTyped
<1>4. load' \in LoadType /\ load'.at = "look" /\ load'.of = "main"
  BY <1>1 DEF LoadType, NoLoad
<1>5. posted' \in Nat /\ posted' = posted - 1
  BY <1>1
<1>6. EnginesTyped'
  BY <1>2, <1>3, <1>4, <1>5 DEF EnginesInv, EnginesTyped
<1>7. PostsBounded'
  <2>1. Cardinality(Optional \ wanted) \in Nat /\ wanted' = wanted
    BY WantedLess DEF EnginesInv, EnginesTyped
  <2> QED
    BY <1>5, <2>1, <1>1, EngineFacts DEF EnginesInv, PostsBounded, PostsToCome
<1>8. NothingYet'
  BY <1>1 DEF NothingYet
<1>9. WishIsHeard'
  BY <1>4 DEF WishIsHeard
<1> QED
  BY <1>6, <1>7, <1>8, <1>9 DEF EnginesInv

LEMMA EnsureLoadingKeeps == EnginesInv /\ EnsureLoading => EnginesInv'
<1> SUFFICES ASSUME EnginesInv, EnsureLoading PROVE EnginesInv'
  OBVIOUS
<1> USE DEF EnsureLoading
<1>1. posted \in Nat /\ posted' = posted + 1 /\ started' /\ ~due' /\ ~(started /\ ~due)
  BY DEF EnginesInv, EnginesTyped
<1>2. EnginesTyped'
  <2>1. started' \in BOOLEAN /\ due' \in BOOLEAN
    BY Zenon
  <2> QED
    BY <1>1, <2>1 DEF EnginesInv, EnginesTyped
<1>3. PostsBounded'
  <2>1. Cardinality(Optional \ wanted) \in Nat /\ wanted' = wanted
    BY WantedLess DEF EnginesInv, EnginesTyped
  <2> QED
    BY <1>1, <2>1, EngineFacts DEF EnginesInv, PostsBounded, PostsToCome
<1>4. NothingYet'
  BY DEF NothingYet
<1>5. WishIsHeard'
  BY <1>1 DEF WishIsHeard
<1> QED
  BY <1>2, <1>3, <1>4, <1>5 DEF EnginesInv

LEMMA WantsKeeps ==
  ASSUME EnginesInv, NEW es \in SUBSET Optional, WantLists(es) \/ EnginesFor(es)
  PROVE  EnginesInv'
<1> DEFINE fresh == {e \in es \ wanted : ~engine[e].there}
<1>1. /\ fresh # {} /\ fresh \in SUBSET (Optional \ wanted) /\ wanted' = wanted \cup fresh
      /\ posted' = posted + 1 /\ started'
      /\ UNCHANGED <<writes, written, faults, engine, due, load, resources, tried>>
  BY DEF WantLists, EnginesFor, Wants, PostForWish, EnginesInv, NothingYet
<1> HIDE DEF fresh
<1>2. posted \in Nat /\ wanted \subseteq Optional
  BY DEF EnginesInv, EnginesTyped
<1>3. EnginesTyped'
  <2>1. started' \in BOOLEAN
    BY DEF WantLists, EnginesFor, EnginesInv, EnginesTyped
  <2> QED
    BY <1>1, <2>1 DEF EnginesInv, EnginesTyped
<1>4. PostsBounded'
  <2>1. /\ Cardinality(Optional \ wanted) \in Nat /\ Cardinality(Optional \ wanted') \in Nat
        /\ Cardinality(Optional \ wanted') + 1 <= Cardinality(Optional \ wanted)
    BY <1>1, <1>2, WantedLess
  <2> QED
    BY <1>1, <1>2, <2>1, EngineFacts DEF EnginesInv, PostsBounded, PostsToCome
<1>5. NothingYet'
  BY <1>1 DEF NothingYet
<1>6. WishIsHeard'
  BY <1>1, <1>2 DEF WishIsHeard
<1> QED
  BY <1>3, <1>4, <1>5, <1>6 DEF EnginesInv

LEMMA FileWrittenKeeps ==
  ASSUME EnginesInv, NEW f \in ListFiles, FileWritten(f)
  PROVE  EnginesInv'
<1> USE DEF FileWritten
<1>1. /\ written \in [ListFiles -> Versions] /\ writes \in 0..MaxWrites
      /\ \A g \in ListFiles : written[g] <= writes + 1
  BY DEF EnginesInv, EnginesTyped
<1>2. /\ written' \in [ListFiles -> Versions] /\ writes' \in 0..MaxWrites
      /\ \A g \in ListFiles : written'[g] <= writes' + 1
  BY <1>1, EngineFacts DEF Versions
<1>3. EnginesTyped'
  BY <1>2 DEF EnginesInv, EnginesTyped
<1> QED
  BY <1>3 DEF EnginesInv, PostsBounded, PostsToCome, NothingYet, WishIsHeard

LEMMA EnginesIntervalKeeps == EnginesInv /\ IntervalEnds => EnginesInv'
<1> SUFFICES ASSUME EnginesInv, IntervalEnds PROVE EnginesInv'
  OBVIOUS
<1> USE DEF IntervalEnds
<1>1. EnginesTyped'
  BY DEF EnginesInv, EnginesTyped
<1>2. PostsBounded'
  <2>1. Cardinality(Optional \ wanted) \in Nat /\ wanted' = wanted /\ posted \in Nat
    BY WantedLess DEF EnginesInv, EnginesTyped
  <2> QED
    BY <2>1, EngineFacts DEF EnginesInv, PostsBounded, PostsToCome
<1> QED
  BY <1>1, <1>2 DEF EnginesInv, NothingYet, WishIsHeard

LEMMA EnginesInvNext == EnginesInv /\ [EnginesNext]_engineVars => EnginesInv'
<1> SUFFICES ASSUME EnginesInv, [EnginesNext]_engineVars PROVE EnginesInv'
  OBVIOUS
<1>1. CASE EnginesNext
  BY <1>1, LookKeeps, NoteTimeKeeps, ReadTextKeeps, PutEngineKeeps, TakeWishesKeeps,
     NextEngineKeeps, EndLoadKeeps, BeginLoadKeeps, EnsureLoadingKeeps, WantsKeeps,
     FileWrittenKeeps, EnginesIntervalKeeps DEF EnginesNext, LoadProceeds
<1>2. CASE UNCHANGED engineVars
  BY <1>2, EnginesRest
<1> QED
  BY <1>1, <1>2

\* The engines' variables keep their types.
LEMMA EnginesTypes == EnginesInv => EnginesTypeOK
<1> SUFFICES ASSUME EnginesInv PROVE EnginesTypeOK
  OBVIOUS
<1>1. posted \in 0..MaxPosts
  <2>1. Cardinality(Optional \ wanted) \in Nat /\ posted \in Nat
    BY WantedLess DEF EnginesInv, EnginesTyped
  <2> QED
    BY <2>1, EngineFacts DEF EnginesInv, PostsBounded, PostsToCome
<1>2. load.at \in {"none", "look", "time", "text", "wishes", "next"}
      /\ load.todo \subseteq Optional /\ load.left \subseteq ListFiles
  BY DEF EnginesInv, EnginesTyped, LoadType
<1> QED
  BY <1>1, <1>2 DEF EnginesInv, EnginesTyped, EnginesTypeOK, NothingYet

\* The engines keep their types, and the loads posted stay within their bound.
THEOREM EnginesTypeCorrect == EnginesSpec => []EnginesTypeOK
BY EnginesTypes, EnginesInvInit, EnginesInvNext, PTL DEF EnginesSpec

\* While an engine that somebody asked for has not been tried, a load that will try it
\* is posted or running.
THEOREM WishesAreHeard == EnginesSpec => []WishIsHeard
<1>1. EnginesInv => WishIsHeard
  BY DEF EnginesInv
<1> QED
  BY <1>1, EnginesInvInit, EnginesInvNext, PTL DEF EnginesSpec

-----------------------------------------------------------------------------
(* The list of scam sites. *)

\* A load that reads has seen a file; one that puts has read a list that parses.
ScamLoadType ==
  [at : {"none", "posted", "read", "put"}, time : {0} \cup ScamVersions,
   text : {0} \cup ScamVersions]
ScamHeld ==
  \A j \in ScamJobs :
    /\ scamLoad[j].at \in {"read", "put"} => scamLoad[j].time # 0
    /\ scamLoad[j].at = "put" => scamLoad[j].text \in scamGood

ScamInv == ScamTypeOK /\ ScamHeld

LEMMA NoScamLoadTyped ==
  /\ NoScamLoad \in ScamLoadType /\ NoScamLoad.at = "none"
  /\ MaxScamWrites \in Nat
  /\ \A n \in 1..(MaxScamWrites + 1) : n \in ScamVersions
BY ScamAssumption DEF NoScamLoad, ScamLoadType, ScamVersions

LEMMA ScamInvInit == ScamInit => ScamInv
BY NoScamLoadTyped DEF ScamInit, ScamInv, ScamTypeOK, ScamHeld, ScamLoadType, ScamVersions

\* A load that ends, which may have failed.
LEMMA ScamLoadEnds ==
  ASSUME ScamInv, NEW j \in ScamJobs, EndScamLoad(j),
         UNCHANGED <<scamFile, scamGood, scamList, scamTime>>,
         UNCHANGED scamFailed \/ ScamFails(j)
  PROVE  ScamInv'
<1>1. scamLoad' \in [ScamJobs -> ScamLoadType]
  BY NoScamLoadTyped DEF ScamInv, ScamTypeOK, EndScamLoad, ScamLoadType
<1>2. ScamHeld'
  BY NoScamLoadTyped DEF ScamInv, ScamTypeOK, ScamHeld, EndScamLoad
<1>3. scamFailed' => scamList = 0
  BY DEF ScamFails, ScamInv, ScamTypeOK
<1> QED
  BY <1>1, <1>2, <1>3 DEF ScamInv, ScamTypeOK, ScamLoadType

\* A load that goes on, with what it has seen and read.
LEMMA ScamLoadGoes ==
  ASSUME ScamInv, NEW j \in ScamJobs, NEW l \in ScamLoadType,
         scamLoad' = [scamLoad EXCEPT ![j] = l],
         l.at \in {"read", "put"} => l.time # 0, l.at = "put" => l.text \in scamGood,
         UNCHANGED <<scamFile, scamGood, scamList, scamTime, scamFailed>>
  PROVE  ScamInv'
<1>1. scamLoad' \in [ScamJobs -> ScamLoadType]
  BY DEF ScamInv, ScamTypeOK, ScamLoadType
<1>2. ScamHeld'
  BY DEF ScamInv, ScamTypeOK, ScamHeld
<1> QED
  BY <1>1, <1>2 DEF ScamInv, ScamTypeOK, ScamLoadType

LEMMA EnsureScamLoadingKeeps ==
  ASSUME ScamInv, NEW j \in ScamJobs, EnsureScamLoading(j)
  PROVE  ScamInv'
<1> DEFINE l == [scamLoad[j] EXCEPT !.at = "posted"]
<1>1. l \in ScamLoadType /\ l.at = "posted"
  BY DEF ScamInv, ScamTypeOK, ScamLoadType
<1>2. scamLoad' = [scamLoad EXCEPT ![j] = l]
  BY DEF EnsureScamLoading
<1> HIDE DEF l
<1> QED
  BY <1>1, <1>2, ScamLoadGoes DEF EnsureScamLoading

LEMMA ScamLookKeeps ==
  ASSUME ScamInv, NEW j \in ScamJobs, ScamLook(j)
  PROVE  ScamInv'
<1>1. CASE scamFile = 0
  BY <1>1, ScamLoadEnds DEF ScamLook, ScamFails
<1>2. CASE scamFile # 0 /\ scamList # 0 /\ scamTime = scamFile
  BY <1>2, ScamLoadEnds DEF ScamLook
<1>3. CASE scamFile # 0 /\ ~(scamList # 0 /\ scamTime = scamFile)
  <2> DEFINE l == [at |-> "read", time |-> scamFile, text |-> 0]
  <2>1. scamFile \in ScamVersions
    BY <1>3, NoScamLoadTyped DEF ScamInv, ScamTypeOK
  <2>2. l \in ScamLoadType /\ l.at = "read" /\ l.time # 0
    BY <1>3, <2>1 DEF ScamLoadType
  <2>3. scamLoad' = [scamLoad EXCEPT ![j] = l]
    BY <1>3 DEF ScamLook
  <2> HIDE DEF l
  <2> QED
    BY <1>3, <2>2, <2>3, ScamLoadGoes DEF ScamLook
<1> QED
  BY <1>1, <1>2, <1>3

LEMMA ScamReadKeeps ==
  ASSUME ScamInv, NEW j \in ScamJobs, NEW readable \in BOOLEAN, ScamRead(j, readable)
  PROVE  ScamInv'
<1>1. CASE readable /\ scamFile \in scamGood
  <2> DEFINE l == [scamLoad[j] EXCEPT !.at = "put", !.text = scamFile]
  <2>1. l \in ScamLoadType /\ l.at = "put" /\ l.text = scamFile /\ l.time = scamLoad[j].time
    BY <1>1 DEF ScamInv, ScamTypeOK, ScamLoadType
  <2>2. scamLoad' = [scamLoad EXCEPT ![j] = l]
    BY <1>1 DEF ScamRead, ScamInv, ScamTypeOK
  <2>3. scamLoad[j].time # 0
    BY DEF ScamRead, ScamInv, ScamHeld
  <2> HIDE DEF l
  <2> QED
    BY <1>1, <2>1, <2>2, <2>3, ScamLoadGoes DEF ScamRead
<1>2. CASE ~(readable /\ scamFile \in scamGood)
  BY <1>2, ScamLoadEnds DEF ScamRead, ScamFails
<1> QED
  BY <1>1, <1>2

LEMMA ScamPutKeeps ==
  ASSUME ScamInv, NEW j \in ScamJobs, ScamPut(j)
  PROVE  ScamInv'
<1> USE DEF ScamPut, ScamInv
<1>1. /\ scamLoad[j].text \in scamGood /\ scamLoad[j].time # 0
      /\ scamLoad[j].time \in ScamVersions
  BY DEF ScamHeld, ScamTypeOK
<1>2. /\ scamList' \in scamGood /\ scamTime' # 0 /\ scamTime' \in ScamVersions
      /\ scamList' \in ScamVersions /\ scamFailed' = FALSE
  BY <1>1 DEF ScamTimeSeen, ScamTypeOK
<1>3. scamLoad' \in [ScamJobs -> ScamLoadType]
  BY NoScamLoadTyped DEF ScamTypeOK, EndScamLoad, ScamLoadType
<1>4. ScamHeld'
  BY NoScamLoadTyped DEF ScamTypeOK, ScamHeld, EndScamLoad
<1>5. scamList' # 0 /\ {scamFile', scamList', scamTime'} \subseteq 0..(MaxScamWrites + 1)
  BY <1>2, NoScamLoadTyped DEF ScamTypeOK, ScamVersions
<1> QED
  BY <1>2, <1>3, <1>4, <1>5 DEF ScamTypeOK, ScamLoadType

LEMMA ScamInvNext == ScamInv /\ [ScamNext]_scamVars => ScamInv'
<1> SUFFICES ASSUME ScamInv, [ScamNext]_scamVars PROVE ScamInv'
  OBVIOUS
<1>1. CASE ScamFileWritten
  BY <1>1, NoScamLoadTyped DEF ScamFileWritten, ScamInv, ScamTypeOK, ScamHeld
<1>2. CASE ScamIntervalEnds \/ UNCHANGED scamVars
  BY <1>2 DEF ScamIntervalEnds, scamVars, ScamInv, ScamTypeOK, ScamHeld
<1> QED
  BY <1>1, <1>2, EnsureScamLoadingKeeps, ScamLookKeeps, ScamReadKeeps, ScamPutKeeps
     DEF ScamNext, ScamAsked, ScamLoadProceeds

\* The list in use is none, or one that parses.
THEOREM ScamTypeCorrect == ScamSpec => []ScamTypeOK
<1>1. ScamInv => ScamTypeOK
  BY DEF ScamInv
<1> QED
  BY <1>1, ScamInvInit, ScamInvNext, PTL DEF ScamSpec

-----------------------------------------------------------------------------
(* The parts together: in every behaviour of the run one of them moves. *)

\* Every part behaves as it does on its own, or rests.
LEMMA PartsBehave ==
  MCSpec => RequestSpec /\ EnginesSpec /\ ScamSpec /\ AssistanceSpec /\ SummarySpec
<1>1. MCInit => RequestInit /\ EnginesInit /\ ScamInit /\ AssistanceInit /\ SummaryInit
  BY DEF MCInit
<1>2. [MCNext]_vars =>
        /\ [RequestNext]_requestVars /\ [EnginesNext]_engineVars /\ [ScamNext]_scamVars
        /\ [AssistanceNext]_assistanceVars /\ [SummaryNext]_summaryVars
  BY DEF MCNext, vars, RequestAlone, EnginesAlone, ScamAlone, AssistanceAlone, SummaryAlone, Alone
<1> QED
  BY <1>1, <1>2, PTL DEF MCSpec, RequestSpec, EnginesSpec, ScamSpec, AssistanceSpec, SummarySpec

\* All parts of the browser keep their types.
THEOREM BrowserTypeCorrect == MCSpec => []TypeOK
BY PartsBehave, RequestTypeCorrect, EnginesTypeCorrect, ScamTypeCorrect, AssistanceTypeCorrect,
   SummaryTypeCorrect, PTL DEF TypeOK

\* What is shown as an answer is an answer to what was asked: the guidance for a
\* question is of the page that was asked about, a summary is of its page, and neither
\* a prompt nor a page is sent more often than it was released.
THEOREM AnswersFitAlways == MCSpec => []AnswersFit
BY PartsBehave, GuidanceFitsAlways, SummariesFit, PTL DEF AnswersFit
=============================================================================
