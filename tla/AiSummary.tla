------------------------------ MODULE AiSummary ------------------------------
(***************************************************************************)
(* The summary of a page: ai_summary_service.cc, and the page that shows   *)
(* what would be sent and asks for it (ai_ui.cc, script and handlers).     *)
(* There is one service for a profile and as many of these pages as the    *)
(* person has opened; they talk to it in messages, and draw what it said   *)
(* last.                                                                   *)
(***************************************************************************)
EXTENDS Naturals, Sequences

CONSTANTS
  Tabs,      \* tabs that show the page
  Providers, \* services there are settings for; without any it is "off"
  MaxHolds   \* bound on the pages put aside

ASSUME SummaryAssumption == "off" \notin Providers /\ MaxHolds \in Nat

VARIABLES
  held,     \* the page put aside (0 for none), and the state_ and summary_ of it
  loader,   \* loader_: the page it has sent, 0 for none
  provider, \* prefs::kProvider
  views,    \* what every tab shows
  asks,     \* chrome.send() of every tab, under way
  answers,  \* loadSummaryState() to every tab, under way
  \* History, for the properties only.
  sent,     \* how often the text of every page went out
  misled    \* text went elsewhere than the tab that was pressed had shown

summaryVars == <<held, loader, provider, views, asks, answers, sent, misled>>

Pages == 1..MaxHolds
NoPage == [page |-> 0, state |-> "nothing", of |-> 0]
States == {"nothing", "waiting", "working", "done", "failed"}
Held == [page : 0..MaxHolds, state : States, of : 0..MaxHolds]
NoView == [says |-> NoPage, to |-> "off"]
Views == [says : Held, to : Providers \cup {"off"}]

SummaryTypeOK ==
  /\ held \in Held /\ loader \in 0..MaxHolds
  /\ provider \in Providers \cup {"off"}
  /\ views \in [Tabs -> Views]
  /\ \A t \in Tabs : Len(asks[t]) <= 2 /\ Len(answers[t]) <= 1
  /\ sent \in [Pages -> Nat]

SummaryInit ==
  /\ held = NoPage /\ loader = 0
  /\ provider \in Providers \cup {"off"}
  /\ views = [t \in Tabs |-> NoView]
  /\ asks = [t \in Tabs |-> <<>>] /\ answers = [t \in Tabs |-> <<>>]
  /\ sent = [p \in Pages |-> 0]
  /\ misled = FALSE

-----------------------------------------------------------------------------
(* The service. *)

\* A bug for the checks: the answer to the page before is still waited for.
LoaderKept == UNCHANGED loader
DropLoader == loader' = 0

\* The pages put aside so far; a new one replaces what is there.
LastHold == held.page
\* HoldPage(), from the menu of a tab that shows a web page.  A page without text
\* leaves nothing to send.
HoldPage(empty) ==
  /\ LastHold < MaxHolds
  /\ DropLoader
  /\ held' = [page |-> LastHold + 1, state |-> IF empty THEN "nothing" ELSE "waiting", of |-> 0]
  /\ UNCHANGED <<provider, views, asks, answers, sent, misled>>

\* Send(), only of a page that waits, to the service set now.
Send(saw) ==
  IF held.state # "waiting" THEN UNCHANGED <<held, loader, sent, misled>>
  ELSE IF provider = "off"
       THEN held' = [held EXCEPT !.state = "failed"] /\ UNCHANGED <<loader, sent, misled>>
       ELSE /\ held' = [held EXCEPT !.state = "working"]
            /\ loader' = held.page
            /\ sent' = [sent EXCEPT ![held.page] = @ + 1]
            /\ misled' = (misled \/ saw.says.page # held.page \/ saw.to # provider)

\* OnResponse(), Finish().
OnResponse(good) ==
  /\ loader # 0
  /\ held' = IF good THEN [held EXCEPT !.state = "done", !.of = loader]
             ELSE [held EXCEPT !.state = "failed"]
  /\ loader' = 0
  /\ UNCHANGED <<provider, views, asks, answers, sent, misled>>

-----------------------------------------------------------------------------
(* The handlers of the page's messages, in the order they were sent. *)

Ask(t, do) == asks' = [asks EXCEPT ![t] = @ \o do]
State == [do |-> "state", saw |-> NoView, to |-> "off"]

SummaryState(t) ==
  answers' = [answers EXCEPT ![t] = Append(@, [says |-> held', to |-> provider'])]

Handle(t) ==
  /\ asks[t] # <<>>
  /\ answers[t] = <<>>
  /\ asks' = [asks EXCEPT ![t] = Tail(@)]
  /\ LET ask == Head(asks[t]) IN
     \/ /\ ask.do = "state"
        /\ UNCHANGED <<held, loader, provider, sent, misled>>
        /\ SummaryState(t)
     \/ /\ ask.do = "send" /\ Send(ask.saw)
        /\ UNCHANGED <<provider, answers>>
     \/ /\ ask.do = "forget"
        /\ held' = [NoPage EXCEPT !.page = held.page] /\ DropLoader
        /\ UNCHANGED <<provider, sent, misled>>
        /\ SummaryState(t)
     \/ /\ ask.do = "save" /\ provider' = ask.to
        /\ UNCHANGED <<held, loader, answers, sent, misled>>
  /\ UNCHANGED views

-----------------------------------------------------------------------------
(* The script of the page, and the person at it.  Bound: one tab at a time has   *)
(* messages under way to the browser, two at most, and a tab has one answer      *)
(* under way, which is drawn at any time later.                                  *)

Idle == \A t \in Tabs : asks[t] = <<>>
OnlyAsks == UNCHANGED <<held, loader, provider, views, answers, sent, misled>>

\* The tab is opened, or loaded again.
Open(t) ==
  /\ Idle
  /\ views' = [views EXCEPT ![t] = NoView]
  /\ answers' = [answers EXCEPT ![t] = <<>>]
  /\ Ask(t, <<State>>)
  /\ UNCHANGED <<held, loader, provider, sent, misled>>

\* loadSummaryState().
Draw(t) ==
  /\ answers[t] # <<>>
  /\ views' = [views EXCEPT ![t] = Head(answers[t])]
  /\ answers' = [answers EXCEPT ![t] = Tail(@)]
  /\ UNCHANGED <<held, loader, provider, asks, sent, misled>>

\* keepUpToDate(): once a second while an answer is on its way.
PollSummary(t) ==
  /\ Idle
  /\ views[t].says.state = "working"
  /\ Ask(t, <<State>>)
  /\ OnlyAsks

PressSend(t) ==
  /\ Idle
  /\ views[t].says.state = "waiting"
  /\ Ask(t, <<[State EXCEPT !.do = "send", !.saw = views[t]], State>>)
  /\ OnlyAsks

PressCancel(t) ==
  /\ Idle
  /\ views[t].says.state \in {"waiting", "done", "failed"}
  /\ Ask(t, <<[State EXCEPT !.do = "forget"]>>)
  /\ OnlyAsks

\* What the tab shows of the summary is not drawn again.
PressSave(t, p) ==
  /\ Idle /\ p # provider
  /\ Ask(t, <<[State EXCEPT !.do = "save", !.to = p]>>)
  /\ OnlyAsks

SummaryNext ==
  \/ \E b \in BOOLEAN : HoldPage(b) \/ OnResponse(b)
  \/ \E t \in Tabs : Handle(t) \/ Open(t) \/ Draw(t) \/ PollSummary(t)
                       \/ PressSend(t) \/ PressCancel(t) \/ \E p \in Providers : PressSave(t, p)

SummarySpec == SummaryInit /\ [][SummaryNext]_summaryVars

-----------------------------------------------------------------------------
(* Properties *)

\* A summary is of the page it stands under, in the service and in every tab, and
\* a page is sent once at most, from whichever tabs the person says so; the answer
\* that is waited for is the one of the page put aside.
SummaryFits ==
  /\ held.state = "done" => held.of = held.page
  /\ (held.state = "working") = (loader # 0) /\ loader \in {0, held.page}
  /\ \A t \in Tabs : views[t].says.state = "done" => views[t].says.of = views[t].says.page
  /\ \A p \in Pages : sent[p] <= 1

\* "Nothing is sent anywhere until the person looks at where it would go and says
\* send" (ai_summary_service.h:31): the text that goes out is of the page, and goes
\* to the service, that the tab in which they said so had shown.
SentWhereShown == ~misled
=============================================================================
