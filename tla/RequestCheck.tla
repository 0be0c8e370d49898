---------------------------- MODULE RequestCheck ----------------------------
(***************************************************************************)
(* Whether a request of a page may go out: the throttle in the renderer    *)
(* (adblock_renderer_throttle.cc), the checker in the browser              *)
(* (adblock_checker_impl.cc), the lookup of the names a host is an alias   *)
(* of (cname_uncloaker.cc) and the proxy before the network                *)
(* (adblock_redirect_proxy.cc).  They answer on four sequences, while the  *)
(* lists and the person's settings change, the resolver may never answer   *)
(* and the browser's end of the pipe may go away.  One request is          *)
(* followed, from its start through one redirect of the server.            *)
(***************************************************************************)
EXTENDS Naturals, FiniteSets

CONSTANT MaxChanges \* bound on the changes of the lists and the settings

Urls == {"first", "second"}
Verdicts == {"unready", "allow", "block", "stub"}
\* Two EnabledLists a profile may have, with a custom engine of its own each.
Choices == {"these", "others"}

VARIABLES
  verdict,  \* what the enabled lists say of every URL now; unready until loaded
  cloaked,  \* whether the engines of now block a name that its host is an alias of,
            \* with either choice of lists
  enabled,  \* ProfileLists: the choice of now
  off,      \* blocking is off for the site
  covered,  \* the proxy is before the network
  changes,
  request,  \* the request
  bound,    \* the renderer has its end of the pipe
  waiting,  \* waiting_
  question, \* what the browser does for it
  lookups,  \* the alias lookups that exist
  reply,    \* the answer under way to the renderer
  noted,    \* BlockedCounts
  \* History, for the properties only.
  reached,  \* the URLs whose servers got the request
  seen,     \* the verdicts since a URL was asked for, "off" among them
  cloak,    \* the choices with which its alias was blocked all that time, by
            \* name; once it is checked, of these only the one it is checked with
  torn      \* the browser's end went away

listVars == <<verdict, cloaked, enabled, off, covered, changes>>
checkVars == <<request, bound, waiting, question, lookups, reply, noted>>
pastVars == <<reached, seen, cloak, torn>>
requestVars == <<listVars, checkVars, pastVars>>

\* `lists': the EnabledLists that Check() binds for CheckAliases().
NoQuestion == [at |-> "none", found |-> FALSE, lists |-> "these"]
NoReply == [block |-> FALSE, stub |-> FALSE, there |-> FALSE]
Says == [block : BOOLEAN, stub : BOOLEAN, there : BOOLEAN]

RequestTypeOK ==
  /\ verdict \in [Urls -> Verdicts] /\ off \in BOOLEAN
  /\ cloaked \in [Choices -> BOOLEAN] /\ enabled \in Choices
  /\ request.at \in {"new", "checking", "proxy", "answered", "over"}
  /\ request.url \in Urls
  /\ bound \in BOOLEAN /\ waiting \in BOOLEAN
  /\ question.at \in {"none", "check", "ui", "lookup", "aliases"}
  /\ question.lists \in Choices /\ cloak \subseteq Choices
  /\ lookups \in 0..1 /\ (lookups = 1) = (question.at = "lookup")
  /\ reply \in Says
  /\ noted \in 0..Cardinality(Urls)
  /\ waiting = (request.at = "checking")

RequestInit ==
  /\ verdict \in {[u \in Urls |-> "unready"]} \cup [Urls -> Verdicts \ {"unready"}]
  /\ cloaked \in [Choices -> BOOLEAN]
  /\ enabled = "these"
  /\ off \in BOOLEAN
  /\ covered \in BOOLEAN
  /\ changes = 0
  /\ request = [at |-> "new", url |-> "first"]
  /\ bound = TRUE
  /\ waiting = FALSE
  /\ question = NoQuestion
  /\ lookups = 0
  /\ reply = NoReply
  /\ noted = 0
  /\ reached = {}
  /\ seen = [u \in Urls |-> {}]
  /\ cloak = {}
  /\ torn = FALSE

Url == request.url
Blocks(u) == verdict[u] \in {"block", "stub"}
BlocksAlias(u, lists) == verdict[u] # "unready" /\ cloaked[lists]
Now(u) == IF off THEN "off" ELSE verdict[u]

-----------------------------------------------------------------------------
(* The renderer. *)

\* WillStartRequest(), WillRedirectRequest().
Defer(u, at) ==
  /\ request' = [at |-> at, url |-> u]
  /\ seen' = [seen EXCEPT ![u] = {Now(u)}]
  /\ cloak' = {c \in Choices : ~off /\ BlocksAlias(u, c)}
  /\ waiting' = (at = "checking")
  /\ question' = IF at = "checking" THEN [NoQuestion EXCEPT !.at = "check"] ELSE question
  /\ UNCHANGED <<listVars, bound, lookups, reply, noted, torn>>

WillStartRequest ==
  /\ request.at = "new"
  /\ bound
  /\ Defer("first", "checking")
  /\ UNCHANGED reached

\* The server answers with a redirect; without a pipe it is followed as it is.
WillRedirectRequest ==
  /\ request.at = "answered" /\ Url = "first"
  /\ Defer("second", IF bound THEN "checking" ELSE "answered")
  /\ reached' = IF bound THEN reached ELSE reached \cup {"second"}

Resume ==
  /\ waiting' = FALSE
  /\ IF Url = "first"
     THEN request' = [request EXCEPT !.at = "proxy"] /\ UNCHANGED reached
     ELSE request' = [request EXCEPT !.at = "answered"] /\ reached' = reached \cup {Url}

Cancel ==
  /\ waiting' = FALSE
  /\ request' = [request EXCEPT !.at = "over"]
  /\ UNCHANGED reached

\* A bug for the checks: a stub is taken for an answer behind a redirect too.
LetsPassAnyStub == ~reply.block \/ reply.stub
\* A stub is left to the proxy, which only sees a request that starts.
LetsPass == ~reply.block \/ (reply.stub /\ Url = "first")

OnResult ==
  /\ reply.there
  /\ reply' = NoReply
  /\ IF ~waiting THEN UNCHANGED <<waiting, request, reached>>
     ELSE IF LetsPass THEN Resume ELSE Cancel
  /\ UNCHANGED <<listVars, bound, question, lookups, noted, seen, cloak, torn>>

\* "Never leave a request hanging if the browser end goes away."
OnDisconnect ==
  /\ bound
  /\ bound' = FALSE
  /\ torn' = TRUE
  /\ reply' = NoReply
  /\ IF waiting THEN Resume ELSE UNCHANGED <<waiting, request, reached>>
  /\ UNCHANGED <<listVars, question, lookups, noted, seen, cloak>>

-----------------------------------------------------------------------------
(* The browser. *)

Answers(block, stub) ==
  /\ question' = NoQuestion
  /\ reply' = IF bound THEN [block |-> block, stub |-> stub, there |-> TRUE] ELSE reply
  /\ noted' = IF block THEN noted + 1 ELSE noted

\* AdblockCheckerImpl::Check().  A stub is only offered with a proxy in place.
Check ==
  /\ question.at = "check"
  /\ IF off \/ verdict[Url] = "unready" THEN Answers(FALSE, FALSE)
     ELSE IF Blocks(Url) THEN Answers(TRUE, verdict[Url] = "stub" /\ covered)
     ELSE /\ question' = [at |-> "ui", found |-> FALSE, lists |-> enabled]
          /\ UNCHANGED <<reply, noted>>
  /\ cloak' = cloak \cap {enabled}
  /\ UNCHANGED <<listVars, request, bound, waiting, lookups, reached, seen, torn>>

\* GetAliasesOnUI(): names are looked up with strict secure DNS only.
SkipLookup ==
  /\ question.at = "ui"
  /\ question' = [question EXCEPT !.at = "aliases"]
  /\ cloak' = {}
  /\ UNCHANGED <<listVars, request, bound, waiting, lookups, reply, noted,
                 reached, seen, torn>>

StartLookup ==
  /\ question.at = "ui"
  /\ question' = [question EXCEPT !.at = "lookup"]
  /\ lookups' = lookups + 1
  /\ UNCHANGED <<listVars, request, bound, waiting, reply, noted, pastVars>>

\* A bug for the checks: the lookup outlives its answer.
FinishKept(found) ==
  /\ question' = [at |-> "aliases", found |-> found, lists |-> question.lists]
  /\ UNCHANGED lookups
\* AliasLookup::Finish(): the callback runs, and the lookup deletes itself, its
\* timer and its end of the pipe with it.
Finish(found) ==
  /\ question' = [at |-> "aliases", found |-> found, lists |-> question.lists]
  /\ lookups' = lookups - 1

OnComplete ==
  /\ lookups > 0
  /\ Finish(TRUE)
  /\ UNCHANGED <<listVars, request, bound, waiting, reply, noted, pastVars>>

\* A bug for the checks: only a broken pipe ends a lookup that nobody answers.
NeverOver == FALSE
\* kTimeout.
IsOverdue == lookups > 0

LookupEnds ==
  /\ Finish(FALSE)
  /\ cloak' = {}
  /\ UNCHANGED <<listVars, request, bound, waiting, reply, noted, reached, seen, torn>>

LookupTimesOut == IsOverdue /\ LookupEnds
LookupBreaks == lookups > 0 /\ LookupEnds

\* CheckAliases(): by name, never stubbed, by the engines of now and the lists that
\* were enabled when the request was checked.
CheckAliases ==
  /\ question.at = "aliases"
  /\ Answers(question.found /\ BlocksAlias(Url, question.lists), FALSE)
  /\ UNCHANGED <<listVars, request, bound, waiting, lookups, pastVars>>

-----------------------------------------------------------------------------
(* The proxy: the same question once more, for a request that starts. *)

CreateLoaderAndStart ==
  /\ request.at = "proxy"
  /\ IF covered /\ ~off /\ Blocks(Url)
     THEN request' = [request EXCEPT !.at = "over"] /\ UNCHANGED reached
     ELSE request' = [request EXCEPT !.at = "answered"] /\ reached' = reached \cup {Url}
  /\ UNCHANGED <<listVars, bound, waiting, question, lookups, reply, noted,
                 seen, cloak, torn>>

\* The URL asked for gets its verdict of now, and the site its switch of now.
Noticed ==
  /\ changes < MaxChanges
  /\ changes' = changes + 1
  /\ seen' = [seen EXCEPT ![Url] = @ \cup {IF off' THEN "off" ELSE verdict'[Url]}]
  /\ cloak' = {c \in cloak : ~off' /\ cloaked'[c]}
  /\ UNCHANGED <<covered, checkVars, reached, torn>>

\* The lists are loaded or reloaded.  Bound: lists that are reloaded change their
\* mind on the URL asked for.
ListsLoaded ==
  /\ verdict' \in IF verdict[Url] = "unready" THEN [Urls -> Verdicts \ {"unready"}]
                  ELSE {[verdict EXCEPT ![Url] = v] : v \in Verdicts \ {"unready"}}
  /\ cloaked' \in [Choices -> BOOLEAN]
  /\ UNCHANGED <<enabled, off>>
  /\ Noticed

\* The person turns lists or the site's blocking on or off.
SettingsChange ==
  /\ enabled' \in Choices
  /\ off' \in BOOLEAN
  /\ IF enabled' = enabled \/ verdict[Url] = "unready" THEN UNCHANGED verdict
     ELSE verdict' \in {[verdict EXCEPT ![Url] = v] : v \in Verdicts \ {"unready"}}
  /\ UNCHANGED cloaked
  /\ Noticed

BrowserProceeds ==
  \/ OnResult \/ Check \/ SkipLookup \/ StartLookup \/ LookupTimesOut
  \/ CheckAliases \/ CreateLoaderAndStart

RequestNext ==
  \/ WillStartRequest \/ WillRedirectRequest \/ BrowserProceeds
  \/ OnComplete \/ LookupBreaks \/ OnDisconnect
  \/ ListsLoaded \/ SettingsChange

RequestSpec == RequestInit /\ [][RequestNext]_requestVars

-----------------------------------------------------------------------------
(* Properties *)

\* A request that reaches a server was let through by the lists at some moment
\* since it was asked for; and when at every moment the lists that were enabled as it
\* was checked blocked a name that its host was found to be an alias of, it reaches
\* nobody, though other lists are enabled by then.  The exceptions are what a pipe
\* that broke let go on, and a request whose own verdict was a stub before the lists
\* came to allow it, which is not looked up again.
SentWasAllowed ==
  \A u \in reached :
    \/ torn /\ (u = "second" \/ ~covered)
    \/ /\ seen[u] \cap {"off", "unready", "allow"} # {}
       /\ u = Url /\ request.at = "answered" /\ cloak # {} =>
            torn \/ "stub" \in seen[u]

\* A request that is held back is let go or cancelled, though the resolver never
\* answers and the pipe may break.
DeferredEnds == waiting ~> ~waiting
=============================================================================
