-------------------------- MODULE AssistanceSession --------------------------
(***************************************************************************)
(* A question about the page of one tab, put to Gemini in another:         *)
(* assistance_session.cc in the browser, page_context.js and protocol.js   *)
(* in the page's isolated world, gemini_adapter.js in Gemini's.  Scripts   *)
(* and their results travel in order, one queue each way for each tab;     *)
(* meanwhile the page moves on, the person types or sends in Gemini's tab, *)
(* asks again, reloads or closes.  Stop() cuts off every result that is    *)
(* still to come.                                                          *)
(***************************************************************************)
EXTENDS Naturals, Sequences, FiniteSets

CONSTANTS
  MaxRequests, \* bound on the questions
  MaxMoves     \* bound on what the page, Gemini's tab and the person there do

ASSUME AssistanceAssumption == {MaxRequests, MaxMoves} \subseteq Nat

VARIABLES
  session,  \* the members of the session; numbers name requests, 0 is none
  pressSend, \* press_send_
  source,   \* the page: its snapshot, what highlight() answers for, closed or not
  gemini,   \* Gemini's tab: the adapter, the composer, the replies since prepare()
  toSource, fromSource, toGemini, fromGemini, \* scripts and results under way
  moves,
  \* History, for the properties only.
  shares,   \* how often Share() has put every request on its way
  sends     \* how often its prompt was sent

queues == <<toSource, fromSource, toGemini, fromGemini>>
assistanceVars == <<session, pressSend, source, gemini, queues, moves, shares, sends>>

Requests == 1..MaxRequests
Maybe == 0..MaxRequests
Phases == {"idle", "capturing", "ready", "waitingForSend", "waitingForReply",
           "answered", "stale", "failed"}
NoAdapter == [there |-> FALSE, prepared |-> 0, attempted |-> FALSE]
Draft == MaxRequests + 1 \* in the composer: text of the person's own

AssistanceTypeOK ==
  /\ session \in [state : Phases, req : Maybe, prompt : Maybe, candidate : Maybe,
                  share : BOOLEAN, timer : BOOLEAN]
  /\ source \in [snapshot : Maybe, active : Maybe, closed : BOOLEAN]
  /\ gemini.box \in Maybe \cup {Draft} /\ gemini.home \in BOOLEAN
  /\ gemini.adapter.prepared \in Maybe
  /\ Len(gemini.fresh) <= 2
  /\ \A q \in {toSource, fromSource, toGemini, fromGemini} : Len(q) <= 2
  /\ session.state = "idle" => session.req = 0

AssistanceInit ==
  /\ session = [state |-> "idle", req |-> 0, prompt |-> 0, candidate |-> 0,
                share |-> FALSE, timer |-> FALSE]
  /\ pressSend \in BOOLEAN
  /\ source = [snapshot |-> 0, active |-> 0, closed |-> FALSE]
  /\ gemini = [home |-> TRUE, adapter |-> NoAdapter, box |-> 0, busy |-> FALSE, fresh |-> <<>>]
  /\ toSource = <<>> /\ fromSource = <<>> /\ toGemini = <<>> /\ fromGemini = <<>>
  /\ moves = 0
  /\ shares = [r \in Requests |-> 0] /\ sends = [r \in Requests |-> 0]

-----------------------------------------------------------------------------
(* Stop(), SetState(). *)

\* What of a queue does one of these things, in its order.
Those(q, dos) ==
  LET at == {i \in DOMAIN q : q[i].do \in dos} IN
  [n \in 1..Cardinality(at) |-> q[CHOOSE i \in at : Cardinality({j \in at : j < i}) = n - 1]]

\* A bug for the checks: results of before still come in.
NothingCut(fs, fg, next) ==
  /\ toSource' = toSource \o next /\ fromSource' = fs
  /\ toGemini' = toGemini /\ fromGemini' = fg
\* InvalidateWeakPtrs(): the results in fs and fg are nobody's, a notice of the page is
\* none.  A script under way still runs; of those that only read, the result was all.
\* Next is what the session does to the page after that.
Unheard(q) ==
  LET run == Those(q, {"capture", "share"}) IN
  [i \in DOMAIN run |-> [run[i] EXCEPT !.live = FALSE]]
CutOff(fs, fg, next) ==
  /\ toSource' = Unheard(toSource) \o next
  /\ fromSource' = Those(fs, {"moved"})
  /\ toGemini' = Unheard(toGemini)
  /\ fromGemini' = <<>>

Stopped(state) ==
  [session EXCEPT !.state = state, !.timer = FALSE, !.candidate = 0, !.share = FALSE]
Stop(state, fs, fg) == session' = Stopped(state) /\ CutOff(fs, fg, <<>>)
Enters(state) == session' = [session EXCEPT !.state = state]

Script(do, r, named) == [do |-> do, req |-> r, named |-> named, live |-> TRUE]
\* The result of a script goes behind those under way, if somebody is to hear of it.
Behind(q, script, do, named) ==
  IF script.live THEN Append(q, [script EXCEPT !.do = do, !.named = named]) ELSE q

-----------------------------------------------------------------------------
(* The browser. *)

\* Prepare(), Ask(): StartCapture().  A page or a question may be unfit.
StartCapture(thenShare, fit) ==
  /\ session.state # "capturing"
  /\ session.req < MaxRequests /\ Len(toSource) < 2
  /\ LET stopped == [Stopped("failed") EXCEPT !.prompt = 0, !.share = thenShare]
         r == session.req + 1 IN
     IF source.closed \/ ~fit THEN session' = stopped /\ CutOff(fromSource, fromGemini, <<>>)
     ELSE /\ session' = [stopped EXCEPT !.state = "capturing", !.req = r]
          /\ CutOff(fromSource, fromGemini, <<Script("capture", r, 0)>>)
  /\ UNCHANGED <<pressSend, source, gemini, moves, shares, sends>>

\* What Share() does, the session being s and ready: only to Gemini's own page.
PutPrompt(s) ==
  IF ~gemini.home
  THEN session' = [s EXCEPT !.state = "failed"] /\ UNCHANGED <<toGemini, shares>>
  ELSE /\ session' = s
       /\ toGemini' = Append(toGemini, Script("share", s.prompt, 0))
       /\ shares' = [shares EXCEPT ![s.prompt] = @ + 1]

Share ==
  /\ session.state = "ready"
  /\ Len(toGemini) < 2 /\ shares[session.req] < 2
  /\ PutPrompt(session)
  /\ UNCHANGED <<pressSend, source, gemini, toSource, fromSource, fromGemini, moves, sends>>

\* Poll(), every second while the timer runs.
Poll ==
  /\ session.timer
  /\ IF ~gemini.home THEN Stop("failed", fromSource, fromGemini)
     ELSE /\ Len(toGemini) + Len(fromGemini) < 2
          /\ toGemini' = Append(toGemini, Script("poll", session.req, 0))
          /\ UNCHANGED <<session, toSource, fromSource, fromGemini>>
  /\ UNCHANGED <<pressSend, source, gemini, moves, shares, sends>>

ShowMe ==
  /\ session.state = "answered" /\ session.candidate # 0
  /\ toSource = <<>>
  /\ toSource' = <<Script("show", session.req, session.candidate)>>
  /\ UNCHANGED <<session, pressSend, source, gemini, fromSource, toGemini, fromGemini,
                 moves, shares, sends>>

Untroubled == session.state \in {"idle", "failed"}

\* DidFinishNavigation().
OnMoved ==
  IF Untroubled
  THEN fromSource' = Tail(fromSource) /\ UNCHANGED <<session, toSource, toGemini, fromGemini>>
  ELSE Stop("stale", Tail(fromSource), fromGemini)

OnCaptured(got) ==
  LET ready == [session EXCEPT !.state = "ready", !.share = FALSE, !.prompt = got.named] IN
  IF got.named = 0 THEN Enters("failed") /\ UNCHANGED <<toGemini, shares>>
  ELSE IF session.share THEN PutPrompt(ready)
  ELSE session' = ready /\ UNCHANGED <<toGemini, shares>>

OnParsed(got) == session' = [session EXCEPT !.state = "answered", !.candidate = got.named]

OnHighlighted(got) ==
  session' = IF got.named # 0 THEN session
             ELSE [session EXCEPT !.state = "answered", !.candidate = 0]

\* What comes from the page, in order.
FromSource ==
  /\ fromSource # <<>> /\ Len(toGemini) < 2
  /\ LET got == Head(fromSource) IN
     \/ got.do = "moved" /\ OnMoved /\ UNCHANGED shares
     \/ /\ got.do # "moved"
        /\ fromSource' = Tail(fromSource) /\ UNCHANGED <<toSource, fromGemini>>
        /\ \/ got.do = "captured" /\ OnCaptured(got)
           \/ got.do = "parsed" /\ OnParsed(got) /\ UNCHANGED <<toGemini, shares>>
           \/ got.do = "shown" /\ OnHighlighted(got) /\ UNCHANGED <<toGemini, shares>>
  /\ UNCHANGED <<pressSend, source, gemini, moves, sends>>

\* OnShared().
OnShared(got) ==
  IF got.do = "notShared" THEN Enters("failed")
  ELSE session' = [session EXCEPT !.timer = TRUE,
                     !.state = IF pressSend THEN "waitingForReply" ELSE "waitingForSend"]

\* OnPolled(), of a reply or of none yet: what the reply names is for the page to say.
\* Other reasons mean that Gemini is answering, which after a while is said to be slow.
OnPolled(got) ==
  LET waitsForSend == session.state = "waitingForSend" IN
  \/ /\ got.do = "reply"
     /\ session' = [session EXCEPT !.timer = FALSE]
     /\ toSource' = Append(toSource, Script("parse", session.req, got.named))
  \/ /\ got.do = "waiting" /\ waitsForSend
     /\ UNCHANGED <<session, toSource>>
  \/ /\ got.do = "other" \/ (got.do = "waiting" /\ ~waitsForSend)
     /\ Enters("waitingForReply") \/ (~waitsForSend /\ UNCHANGED session)
     /\ UNCHANGED toSource

\* What comes from Gemini's tab, in order.
FromGemini ==
  /\ fromGemini # <<>> /\ Len(toSource) < 2
  /\ LET got == Head(fromGemini) IN
     \/ got.do = "tooLong" /\ Stop("answered", fromSource, Tail(fromGemini))
     \/ got.do = "gone" /\ Stop("failed", fromSource, Tail(fromGemini))
     \/ /\ fromGemini' = Tail(fromGemini) /\ UNCHANGED <<fromSource, toGemini>>
        /\ \/ got.do \in {"shared", "notShared"} /\ OnShared(got) /\ UNCHANGED toSource
           \/ got.do \in {"reply", "waiting", "other"} /\ OnPolled(got)
  /\ UNCHANGED <<pressSend, source, gemini, moves, shares, sends>>

-----------------------------------------------------------------------------
(* The page. *)

\* capture(), and the snapshot kept in the isolated world.
Capture(script, good) ==
  /\ source' = IF good THEN [source EXCEPT !.snapshot = script.req, !.active = script.req]
               ELSE [source EXCEPT !.active = 0]
  /\ fromSource' = Behind(fromSource, script, "captured", IF good THEN script.req ELSE 0)

\* parseGuidance(): of the snapshot of this request, if the reply is about it.  A good
\* reply names a candidate that was listed.
ParseGuidance(script, good) ==
  /\ LET fits == good /\ source.snapshot = script.req /\ script.named = source.snapshot IN
     fromSource' = Behind(fromSource, script, "parsed", IF fits THEN script.named ELSE 0)
  /\ UNCHANGED source

\* highlight(): nothing is outlined when the page is not the one captured.
Highlight(script, good) ==
  /\ LET fits == good /\ source.active = script.req IN
     fromSource' = Behind(fromSource, script, "shown", IF fits THEN script.req ELSE 0)
  /\ UNCHANGED source

RunInSource(good) ==
  /\ toSource # <<>> /\ Len(fromSource) < 2
  /\ toSource' = Tail(toSource)
  /\ LET script == Head(toSource) IN
     \/ script.do = "capture" /\ Capture(script, good)
     \/ script.do = "parse" /\ ParseGuidance(script, good)
     \/ script.do = "show" /\ Highlight(script, good)
  /\ UNCHANGED <<session, pressSend, gemini, toGemini, fromGemini, moves, shares, sends>>

Moves == moves < MaxMoves /\ moves' = moves + 1

\* pushState() or a fragment: the notice comes behind the results.
SourceMoves ==
  /\ Moves
  /\ ~source.closed /\ Len(fromSource) < 2
  /\ source' = [source EXCEPT !.active = 0]
  /\ fromSource' = Append(fromSource, Script("moved", 0, 0))
  /\ UNCHANGED <<session, pressSend, gemini, toSource, toGemini, fromGemini, shares, sends>>

\* PrimaryPageChanged(), WebContentsDestroyed(): the isolated world is gone, with the
\* scripts and results of it.
SourceLeft(closes) ==
  /\ Moves
  /\ ~source.closed
  /\ source' = [snapshot |-> 0, active |-> 0, closed |-> closes]
  /\ toSource' = <<>> /\ fromSource' = <<>>
  /\ IF Untroubled /\ ~closes THEN UNCHANGED <<session, toGemini, fromGemini>>
     ELSE /\ session' = Stopped(IF closes THEN "failed" ELSE "stale")
          /\ toGemini' = Unheard(toGemini) /\ fromGemini' = <<>>
  /\ UNCHANGED <<pressSend, gemini, shares, sends>>

-----------------------------------------------------------------------------
(* Gemini's tab. *)

Back(do, named) ==
  /\ toGemini' = Tail(toGemini)
  /\ fromGemini' = Behind(fromGemini, Head(toGemini), do, named)

\* Share()'s script: a new adapter, prepare(), submit().  Gemini's controls may not be
\* as they should; a prompt that could not be submitted stays in the composer.
RunShare(ready, pressed) ==
  /\ toGemini # <<>> /\ Head(toGemini).do = "share" /\ Len(fromGemini) < 2
  /\ LET r == Head(toGemini).req
         prepared == ready /\ gemini.home /\ ~gemini.busy /\ gemini.box = 0
         submitted == prepared /\ pressSend /\ pressed
         adapter == [NoAdapter EXCEPT !.there = TRUE] IN
     /\ IF ~prepared THEN gemini' = [gemini EXCEPT !.adapter = adapter]
        ELSE IF ~submitted
        THEN gemini' = [gemini EXCEPT !.box = r, !.fresh = <<>>,
                          !.adapter = [adapter EXCEPT !.prepared = r]]
        ELSE gemini' = [gemini EXCEPT !.busy = TRUE, !.fresh = <<>>,
                          !.adapter = [adapter EXCEPT !.attempted = TRUE]]
     /\ sends' = IF submitted THEN [sends EXCEPT ![r] = @ + 1] ELSE sends
     /\ Back(IF submitted \/ (prepared /\ ~pressSend) THEN "shared" ELSE "notShared", 0)
  /\ UNCHANGED <<session, pressSend, source, toSource, fromSource, moves, shares>>

\* sentByPerson(): the prompt has left the composer.
SentByPerson == gemini.adapter.prepared # 0 /\ gemini.box # gemini.adapter.prepared

\* Poll()'s script: readReply(), status().  A reply can be incomplete or too long; a
\* frame that is swapped gives no result.
RunPoll(how) ==
  /\ toGemini # <<>> /\ Head(toGemini).do = "poll" /\ Len(fromGemini) < 2
  /\ IF how = "lost" THEN toGemini' = Tail(toGemini) /\ UNCHANGED fromGemini
     ELSE IF ~gemini.adapter.there \/ ~gemini.home THEN Back("gone", 0)
     ELSE IF gemini.busy THEN Back("other", 0)
     ELSE IF ~(gemini.adapter.attempted \/ SentByPerson) THEN Back("waiting", 0)
     ELSE IF Len(gemini.fresh) # 1 THEN Back("other", 0)
     ELSE Back(how, Head(gemini.fresh))
  /\ UNCHANGED <<session, pressSend, source, gemini, toSource, fromSource, moves, shares, sends>>

\* The person sends what is in the composer, types or edits there.
PersonSends ==
  /\ gemini.box # 0 /\ ~gemini.busy /\ Len(gemini.fresh) < 2
  /\ sends' = IF gemini.box = Draft THEN sends ELSE [sends EXCEPT ![gemini.box] = @ + 1]
  /\ gemini' = [gemini EXCEPT !.box = 0, !.busy = TRUE]
  /\ UNCHANGED <<session, pressSend, source, queues, moves, shares>>

PersonTypes ==
  /\ Moves
  /\ gemini.home /\ gemini.box # Draft
  /\ gemini' = [gemini EXCEPT !.box = Draft]
  /\ UNCHANGED <<session, pressSend, source, queues, shares, sends>>

\* A reply may name any request that Gemini was told of in this conversation.  Without
\* a prompt of the adapter it will be in the baseline of the next.
GeminiAnswers(named) ==
  /\ gemini.busy /\ Len(gemini.fresh) < 2
  /\ named \in {0} \cup {r \in Requests : sends[r] > 0}
  /\ gemini' = [gemini EXCEPT !.busy = FALSE, !.fresh =
       IF gemini.adapter.attempted \/ gemini.adapter.prepared # 0 THEN Append(@, named) ELSE @]
  /\ UNCHANGED <<session, pressSend, source, queues, moves, shares, sends>>

\* A reload or another page: the adapter is gone, and the scripts under way.
GeminiLoads(home) ==
  /\ Moves
  /\ gemini' = [home |-> home, adapter |-> NoAdapter, box |-> 0, busy |-> FALSE, fresh |-> <<>>]
  /\ toGemini' = <<>>
  /\ UNCHANGED <<session, pressSend, source, toSource, fromSource, fromGemini, shares, sends>>

AssistanceNext ==
  \/ \E b, c \in BOOLEAN : StartCapture(b, c) \/ RunShare(b, c)
  \/ Share \/ Poll \/ ShowMe \/ FromSource \/ FromGemini
  \/ \E b \in BOOLEAN : RunInSource(b) \/ SourceLeft(b) \/ GeminiLoads(b)
  \/ SourceMoves \/ PersonSends \/ PersonTypes
  \/ \E how \in {"lost", "other", "tooLong", "reply"} : RunPoll(how)
  \/ \E r \in Maybe : GeminiAnswers(r)

AssistanceSpec == AssistanceInit /\ [][AssistanceNext]_assistanceVars

-----------------------------------------------------------------------------
(* Properties *)

\* What Show me would outline was named in a reply about the question of now, and
\* listed in the snapshot that is in the page; the prompt shown is the one of this
\* question; and a prompt is sent no more often than Share() put it on its way: twice, if
\* it is called again before its script has answered, for the adapter, which sends at
\* most once, is made anew by every call.
GuidanceFits ==
  /\ session.candidate # 0 =>
       session.candidate = session.req /\ source.snapshot = session.req
  /\ session.prompt \in {0, session.req}
  /\ session.state = "ready" => session.prompt = session.req
  /\ \A r \in Requests : sends[r] <= shares[r]
=============================================================================
