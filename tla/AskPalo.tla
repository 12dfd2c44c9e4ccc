------------------------------ MODULE AskPalo ------------------------------
(***************************************************************************)
(* Sessions of the Knowledge copilot (palo-knowledge-copilot: app.js,      *)
(* store.js; governance-hub: copilotClient.js, AskPaloView.jsx).  The tabs *)
(* of a browser share one cookie, and a request carries the cookie of the  *)
(* moment it was sent.  Each page keeps the session it was told of, whose  *)
(* CSRF token its questions must carry.  Requests are served and answered  *)
(* in any order; the client gives up on those that take too long, which    *)
(* may be served all the same.                                             *)
(***************************************************************************)
EXTENDS Integers, Sequences, Functions

CONSTANTS
  CopilotPage,
  Logins,       \* the people who sign in, in turn: a bound on the sessions
  CopilotCall   \* requests in flight at one time

Asker == Range(Logins)

ASSUME CopilotAssumption == Logins \in Seq(Asker) /\ CopilotCall # {}

VARIABLES
  cpCookie,     \* the session whose token the browser holds
  cpCreated,    \* the number of sessions created: Logins[s] is that of s
  cpLive,       \* the sessions in the store that have not expired
  cpPage,
  cpCall

cpVars == <<cpCookie, cpCreated, cpLive, cpPage, cpCall>>

SignedOut == "signed out"
NoSession == 0
CopilotSession == DOMAIN Logins
Unused == [kind |-> "unused"]

\* A token is named by its session.  "shown" is also what a request recalls of
\* the page that sent it.  Pages without a question, with an answer and with an
\* error other than AUTH_REQUIRED let people do the same: they are "done".
PageState ==
  [state : {"loading", "ready", "unavailable"}, shown : Asker \cup {SignedOut},
   csrf : CopilotSession \cup {NoSession}, retry : BOOLEAN,
   request : {"done", "loading", "refused"}]
CallState ==
  [page : CopilotPage, kind : {"session", "ask", "logout"},
   cookie : CopilotSession \cup {NoSession}, csrf : CopilotSession \cup {NoSession},
   shown : Asker \cup {SignedOut}, found : CopilotSession \cup {NoSession},
   answer : {"none", "ok", "401", "403"}, awaited : BOOLEAN]

CopilotTypeOK ==
  /\ cpCookie \in CopilotSession \cup {NoSession}
  /\ cpCreated \in 0..Len(Logins)
  /\ cpLive \subseteq 1..cpCreated
  /\ cpPage \in [CopilotPage -> PageState]
  /\ \A c \in CopilotCall : cpCall[c] \in CallState \cup {Unused}
-----------------------------------------------------------------------------
FreshPage ==
  [state |-> "loading", shown |-> SignedOut, csrf |-> NoSession, retry |-> FALSE,
   request |-> "done"]

SessionRequest(p, cookie) ==
  [page |-> p, kind |-> "session", cookie |-> cookie, csrf |-> NoSession, shown |-> SignedOut,
   found |-> NoSession, answer |-> "none", awaited |-> TRUE]

\* With the page's token, and what the page shows.
TokenRequest(p, kind) ==
  [SessionRequest(p, cpCookie) EXCEPT !.kind = kind, !.csrf = cpPage[p].csrf,
                                      !.shown = cpPage[p].shown]

FreeCalls == {c \in CopilotCall : cpCall[c] = Unused}

Send(request) == \E c \in FreeCalls : cpCall' = [cpCall EXCEPT ![c] = request]

Shows(p, page) == cpPage' = [cpPage EXCEPT ![p] = page]

\* Of a session request nobody awaits nothing is left but that its answer may
\* delete the cookie, as that of a page that is still there may.
Abandoned(call) ==
  IF call.kind = "session" THEN Unused
  ELSE [call EXCEPT !.awaited = FALSE]

\* A page that is left no longer awaits anything; the next one asks for its
\* session at once.
Reopened(p, cookie) ==
  /\ Shows(p, FreshPage)
  /\ \E free \in FreeCalls : cpCall' = [c \in CopilotCall |->
       IF c = free THEN SessionRequest(p, cookie)
       ELSE IF cpCall[c] # Unused /\ cpCall[c].page = p
            THEN Abandoned(cpCall[c])
       ELSE cpCall[c]]

SessionInvalidated(page) ==
  [page EXCEPT !.state = "ready", !.shown = SignedOut, !.csrf = NoSession, !.retry = FALSE]

CopilotInit ==
  /\ cpCookie = NoSession
  /\ cpCreated = 0
  /\ cpLive = {}
  /\ cpPage = [p \in CopilotPage |-> [FreshPage EXCEPT !.state = "ready"]]
  /\ cpCall = [c \in CopilotCall |-> Unused]
-----------------------------------------------------------------------------
(* What people do *)

OpenPage(p) == Reopened(p, cpCookie) /\ UNCHANGED <<cpCookie, cpCreated, cpLive>>

\* Over the identity provider and back: a session, its cookie and a new page.
SignIn(p) ==
  LET s == cpCreated + 1 IN
  /\ s \in CopilotSession
  /\ cpPage[p].state = "ready"
  /\ cpPage[p].shown = SignedOut \/ cpPage[p].request = "refused"
  /\ cpCreated' = s
  /\ cpLive' = cpLive \cup {s}
  /\ cpCookie' = s
  /\ Reopened(p, s)

RetrySession(p) ==
  /\ cpPage[p].retry
  /\ Shows(p, [cpPage[p] EXCEPT !.state = "loading", !.retry = FALSE])
  /\ Send(SessionRequest(p, cpCookie))
  /\ UNCHANGED <<cpCookie, cpCreated, cpLive>>

Submit(p) ==
  /\ cpPage[p].shown # SignedOut /\ cpPage[p].state = "ready"
  /\ cpPage[p].request # "loading"
  /\ IF cpPage[p].csrf = NoSession
     THEN /\ Shows(p, [SessionInvalidated(cpPage[p]) EXCEPT !.request = "refused"])
          /\ UNCHANGED cpCall
     ELSE /\ Shows(p, [cpPage[p] EXCEPT !.request = "loading"])
          /\ Send(TokenRequest(p, "ask"))
  /\ UNCHANGED <<cpCookie, cpCreated, cpLive>>

\* Sign out is offered while the session is refreshed, too.
SignOut(p) ==
  /\ cpPage[p].shown # SignedOut
  /\ IF cpPage[p].csrf = NoSession
     THEN Shows(p, SessionInvalidated(cpPage[p])) /\ UNCHANGED cpCall
     ELSE Send(TokenRequest(p, "logout")) /\ UNCHANGED cpPage
  /\ UNCHANGED <<cpCookie, cpCreated, cpLive>>
-----------------------------------------------------------------------------
(* The service *)

FoundSession(call) == IF call.cookie \in cpLive THEN call.cookie ELSE NoSession

\* A mutation: any token will do.
AnyToken(call) == TRUE

TokenFits(call) == call.csrf = FoundSession(call)

\* "ok" is any answer behind the checks, of a service that fails as well.
AnswerOf(call) ==
  IF call.kind = "session" THEN "ok"
  ELSE IF FoundSession(call) = NoSession THEN "401"
  ELSE IF TokenFits(call) THEN "ok"
  ELSE "403"

ServeCall(c) ==
  LET call == cpCall[c] IN
  /\ call # Unused /\ call.answer = "none"
  /\ cpCall' = [cpCall EXCEPT ![c].answer = AnswerOf(call), ![c].found = FoundSession(call)]
  /\ cpLive' = IF call.kind = "logout" /\ AnswerOf(call) = "ok"
               THEN cpLive \ {FoundSession(call)} ELSE cpLive
  /\ UNCHANGED <<cpCookie, cpCreated, cpPage>>

ExpireSession(s) ==
  /\ s \in cpLive
  /\ cpLive' = cpLive \ {s}
  /\ UNCHANGED <<cpCookie, cpCreated, cpPage, cpCall>>

\* A session ends no later than its cookie.
ExpireCookie ==
  /\ cpCookie # NoSession /\ cpCookie \notin cpLive
  /\ cpCookie' = NoSession
  /\ UNCHANGED <<cpCreated, cpLive, cpPage, cpCall>>
-----------------------------------------------------------------------------
(* Answers in the browser *)

\* A sign-out, and an answer to a cookie without a session, delete the cookie.
CookieAfter(call) ==
  IF \/ call.kind = "logout" /\ call.answer = "ok"
     \/ call.kind = "session" /\ call.found = NoSession /\ call.cookie # NoSession
  THEN NoSession ELSE cpCookie

ReceiveSession(c) ==
  LET call == cpCall[c]
      owner == IF call.found = NoSession THEN SignedOut ELSE Logins[call.found]
  IN /\ call.kind = "session"
     /\ Shows(call.page, [cpPage[call.page] EXCEPT !.state = "ready", !.shown = owner,
                                                   !.csrf = call.found, !.retry = FALSE])
     /\ cpCall' = [cpCall EXCEPT ![c] = Unused]

ReceiveAnswer(c) ==
  LET call == cpCall[c]
      page == cpPage[call.page]
  IN /\ call.kind = "ask"
     /\ Shows(call.page,
          IF call.answer = "401" THEN [SessionInvalidated(page) EXCEPT !.request = "refused"]
                                 ELSE [page EXCEPT !.request = "done"])
     /\ cpCall' = [cpCall EXCEPT ![c] = Unused]

\* A page that has signed out asks who it is now.
ReceiveSignOut(c) ==
  LET call == cpCall[c]
      page == cpPage[call.page]
  IN /\ call.kind = "logout"
     /\ Shows(call.page,
          CASE call.answer = "ok" -> [page EXCEPT !.csrf = NoSession, !.request = "done",
                                                  !.state = "loading", !.retry = FALSE]
            [] call.answer = "401" -> SessionInvalidated(page)
            [] OTHER -> [page EXCEPT !.retry = TRUE])
     /\ cpCall' = [cpCall EXCEPT ![c] =
          IF call.answer = "ok"
          THEN SessionRequest(call.page, NoSession) ELSE Unused]

Receive(c) ==
  /\ cpCall[c] # Unused /\ cpCall[c].answer # "none" /\ cpCall[c].awaited
  /\ ReceiveSession(c) \/ ReceiveAnswer(c) \/ ReceiveSignOut(c)
  /\ cpCookie' = CookieAfter(cpCall[c])
  /\ UNCHANGED <<cpCreated, cpLive>>

\* The request was aborted after its time, or failed.
GiveUp(c) ==
  LET call == cpCall[c]
      page == cpPage[call.page]
  IN /\ call # Unused /\ call.awaited
     /\ Shows(call.page,
          CASE call.kind = "session" -> [page EXCEPT !.state = "unavailable",
                                                     !.shown = SignedOut, !.retry = TRUE]
            [] call.kind = "ask" -> [page EXCEPT !.request = "done"]
            [] OTHER -> [page EXCEPT !.retry = TRUE])
     /\ cpCall' = [cpCall EXCEPT ![c] = Abandoned(call)]
     /\ UNCHANGED <<cpCookie, cpCreated, cpLive>>

\* What nobody awaits is lost, or its answer reaches the browser at least.
DropCall(c) ==
  /\ cpCall[c] # Unused /\ ~cpCall[c].awaited
  /\ cpCookie' \in {cpCookie} \cup (IF cpCall[c].answer = "none" THEN {}
                                    ELSE {CookieAfter(cpCall[c])})
  /\ cpCall' = [cpCall EXCEPT ![c] = Unused]
  /\ UNCHANGED <<cpCreated, cpLive, cpPage>>

CopilotNext ==
  \/ \E p \in CopilotPage :
       OpenPage(p) \/ SignIn(p) \/ RetrySession(p) \/ Submit(p) \/ SignOut(p)
  \/ \E c \in CopilotCall : ServeCall(c) \/ Receive(c) \/ GiveUp(c) \/ DropCall(c)
  \/ \E s \in CopilotSession : ExpireSession(s)
  \/ ExpireCookie

CopilotSpec == CopilotInit /\ [][CopilotNext]_cpVars
-----------------------------------------------------------------------------
(* Properties *)

\* Every question that is served, late or abandoned ones included, is served
\* for the person its page showed as signed in when it was asked, and every
\* sign-out ends the session of that person, although another tab may have
\* signed in as somebody else meanwhile (requireCsrf, app.js:141).
AskedAsShown ==
  \A c \in CopilotCall :
    cpCall[c] # Unused /\ cpCall[c].kind # "session" /\ cpCall[c].answer = "ok"
      => cpCall[c].found # NoSession /\ Logins[cpCall[c].found] = cpCall[c].shown
=============================================================================
