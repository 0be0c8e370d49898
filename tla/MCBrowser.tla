------------------------------ MODULE MCBrowser ------------------------------
(***************************************************************************)
(* The parts of the running browser, in one run: whether a request may go  *)
(* out, how the engines and the list of scam sites are loaded, how a       *)
(* question about a page is answered and how a page is summed up.  They    *)
(* share no state in these models, so one of them, the subject, moves in a *)
(* behaviour and the others rest; fairness is asked of the subject.        *)
(***************************************************************************)
EXTENDS RequestCheck, Engines, ScamList, AssistanceSession, AiSummary

CONSTANT Subjects

VARIABLE subject

vars == <<requestVars, engineVars, scamVars, assistanceVars, summaryVars, subject>>

\* What rests is in one certain initial state, which keeps the states few.
Rests ==
  /\ subject # "request" => /\ covered /\ ~off
                           /\ \A u \in Urls : verdict[u] = "unready"
                           /\ \A c \in Choices : ~cloaked[c]
  /\ subject # "engines" => \A f \in ListFiles : written[f] = 1
  /\ subject # "scam" => scamFile = 0 /\ scamGood = {}
  /\ subject # "assistance" => pressSend
  /\ subject # "summary" => provider = "off"

MCInit ==
  /\ subject \in Subjects
  /\ RequestInit /\ EnginesInit /\ ScamInit /\ AssistanceInit /\ SummaryInit
  /\ Rests

Alone(part, others) == subject = part /\ UNCHANGED <<others, subject>>
RequestAlone == Alone("request", <<engineVars, scamVars, assistanceVars, summaryVars>>)
EnginesAlone == Alone("engines", <<requestVars, scamVars, assistanceVars, summaryVars>>)
ScamAlone == Alone("scam", <<requestVars, engineVars, assistanceVars, summaryVars>>)
AssistanceAlone == Alone("assistance", <<requestVars, engineVars, scamVars, summaryVars>>)
SummaryAlone == Alone("summary", <<requestVars, engineVars, scamVars, assistanceVars>>)

MCNext ==
  \/ RequestAlone /\ RequestNext
  \/ EnginesAlone /\ EnginesNext
  \/ ScamAlone /\ ScamNext
  \/ AssistanceAlone /\ AssistanceNext
  \/ SummaryAlone /\ SummaryNext

MCSpec == MCInit /\ [][MCNext]_vars

\* Posted tasks and messages arrive, timers fire and posted loads run; half an hour
\* goes by, and the person goes on browsing, which is what calls EnsureLoading().  A
\* resolver may stay silent, and a read may fail.  The subject never changes, so a
\* disjunction asks each part for its own.
TasksRun ==
  WF_vars(\/ RequestAlone /\ BrowserProceeds
          \/ EnginesAlone /\ LoadProceeds
          \/ ScamAlone /\ ScamLoadProceeds("first"))
PoolRuns == WF_vars(ScamAlone /\ ScamLoadProceeds("later"))
TimeGoesBy == WF_vars((EnginesAlone /\ IntervalEnds) \/ (ScamAlone /\ ScamIntervalEnds))
PersonBrowses == WF_vars((EnginesAlone /\ EnsureLoading) \/ (ScamAlone /\ ScamAsked))

MCFairSpec == MCSpec /\ TasksRun /\ PoolRuns /\ TimeGoesBy /\ PersonBrowses

TypeOK ==
  /\ RequestTypeOK /\ EnginesTypeOK /\ ScamTypeOK /\ AssistanceTypeOK /\ SummaryTypeOK

\* When the files stay as they are, the lists in use come to be those on the disk, in
\* every engine and for scam sites: though files are replaced while they are read,
\* reads fail, and loads of the scam list overtake each other.
ListsComeCurrent ==
  <>[]((subject = "engines" => EnginesCurrent) /\ (subject = "scam" => ScamListCurrent))

\* What is shown as an answer is an answer to what was asked: guidance and summary.
AnswersFit == GuidanceFits /\ SummaryFits
=============================================================================
