--------------------------- MODULE Knowledge_proofs ---------------------------
(* Theorems about what answers questions: the sessions of the Knowledge     *)
(* copilot and the Knowledge Reader's admission of requests.                *)
EXTENDS MCHub, Hub_proofs

-----------------------------------------------------------------------------
(* The copilot's sessions.                                                  *)

\* A page that shows somebody and has a token has the token of that person.
Pages == {page \in PageState :
            page.shown # SignedOut /\ page.csrf # NoSession => Logins[page.csrf] = page.shown}

\* A request with a token has that of the person its page showed, and it is
\* served for the session of its token or not at all.
Calls == {call \in CallState :
            call.kind # "session" =>
              /\ call.csrf # NoSession /\ Logins[call.csrf] = call.shown
              /\ call.answer = "ok" => call.found = call.csrf}

CopilotInv ==
  /\ cpCookie \in CopilotSession \cup {NoSession}
  /\ cpCreated \in 0..Len(Logins)
  /\ cpLive \subseteq 1..cpCreated
  /\ cpPage \in [CopilotPage -> Pages]
  /\ cpCall \in [CopilotCall -> Calls \cup {Unused}]

LEMMA SessionsAre ==
  /\ CopilotSession = 1..Len(Logins) /\ Len(Logins) \in Nat /\ NoSession \notin CopilotSession
  /\ \A s \in CopilotSession : Logins[s] \in Asker
BY CopilotAssumption DEF CopilotSession, NoSession, Asker, Range

LEMMA PageFields ==
  ASSUME NEW page \in Pages
  PROVE  /\ page \in PageState
         /\ page.state \in {"loading", "ready", "unavailable"}
         /\ page.shown \in Asker \cup {SignedOut}
         /\ page.csrf \in CopilotSession \cup {NoSession} /\ page.retry \in BOOLEAN
         /\ page.request \in {"done", "loading", "refused"}
         /\ page.shown # SignedOut /\ page.csrf # NoSession => Logins[page.csrf] = page.shown
BY DEF Pages, PageState

LEMMA CopilotCallFields ==
  ASSUME NEW call \in CallState
  PROVE  /\ call # Unused /\ call.page \in CopilotPage
         /\ call.kind \in {"session", "ask", "logout"}
         /\ {call.cookie, call.csrf, call.found} \subseteq CopilotSession \cup {NoSession}
         /\ call.shown \in Asker \cup {SignedOut} /\ call.awaited \in BOOLEAN
         /\ call.answer \in {"none", "ok", "401", "403"}
<1>1. call.kind \in {"session", "ask", "logout"} /\ Unused.kind = "unused"
  BY DEF CallState, Unused
<1> QED
  BY <1>1 DEF CallState

\* A page that keeps its person and its token, or forgets one of them.
LEMMA PageKept ==
  ASSUME NEW page \in Pages, NEW new \in PageState,
         new.csrf \in {page.csrf, NoSession}, new.shown \in {page.shown, SignedOut}
  PROVE  new \in Pages
BY PageFields DEF Pages

\* What the steps make of a page.
PageRefused(page) == [SessionInvalidated(page) EXCEPT !.request = "refused"]
PageRetried(page) == [page EXCEPT !.state = "loading", !.retry = FALSE]
PageAsking(page) == [page EXCEPT !.request = "loading"]
PageAnswered(page) == [page EXCEPT !.request = "done"]
PageToRetry(page) == [page EXCEPT !.retry = TRUE]
PageLeft(page) == [page EXCEPT !.csrf = NoSession, !.request = "done", !.state = "loading",
                               !.retry = FALSE]
PageUnavailable(page) ==
  [page EXCEPT !.state = "unavailable", !.shown = SignedOut, !.retry = TRUE]
PageOf(page, owner, found) ==
  [page EXCEPT !.state = "ready", !.shown = owner, !.csrf = found, !.retry = FALSE]

LEMMA PageChanges ==
  ASSUME NEW page \in Pages
  PROVE  /\ SessionInvalidated(page) \in Pages /\ PageRefused(page) \in Pages
         /\ PageRetried(page) \in Pages /\ PageAsking(page) \in Pages
         /\ PageAnswered(page) \in Pages /\ PageToRetry(page) \in Pages
         /\ PageLeft(page) \in Pages /\ PageUnavailable(page) \in Pages
<1>1. page \in PageState
  BY PageFields
<1>2. SessionInvalidated(page) \in Pages
  <2>1. SessionInvalidated(page) \in PageState
        /\ SessionInvalidated(page).csrf = NoSession
        /\ SessionInvalidated(page).shown = SignedOut
    BY <1>1 DEF SessionInvalidated, PageState
  <2> QED
    BY <2>1 DEF Pages
<1>3. PageRefused(page) \in Pages
  BY <1>2 DEF PageRefused, Pages, PageState
<1>4. PageRetried(page) \in Pages /\ PageAsking(page) \in Pages
      /\ PageAnswered(page) \in Pages /\ PageToRetry(page) \in Pages
  BY DEF PageRetried, PageAsking, PageAnswered, PageToRetry, Pages, PageState
<1>5. PageLeft(page) \in Pages
  BY DEF PageLeft, Pages, PageState
<1>6. PageUnavailable(page) \in Pages
  BY DEF PageUnavailable, Pages, PageState
<1> QED
  BY <1>2, <1>3, <1>4, <1>5, <1>6

\* What a page becomes of the answer to its session request.
LEMMA PageTold ==
  ASSUME NEW page \in Pages, NEW found \in CopilotSession \cup {NoSession}, NEW owner,
         owner = IF found = NoSession THEN SignedOut ELSE Logins[found]
  PROVE  PageOf(page, owner, found) \in Pages
<1>1. owner \in Asker \cup {SignedOut} /\ (found # NoSession => Logins[found] = owner)
  BY SessionsAre
<1>2. page \in PageState
  BY PageFields
<1> QED
  BY <1>1, <1>2 DEF PageOf, Pages, PageState

LEMMA FreshHeld == FreshPage \in Pages /\ [FreshPage EXCEPT !.state = "ready"] \in Pages
<1>1. FreshPage \in PageState /\ FreshPage.csrf = NoSession
  BY DEF FreshPage, PageState
<1>2. [FreshPage EXCEPT !.state = "ready"] \in PageState
      /\ [FreshPage EXCEPT !.state = "ready"].csrf = NoSession
  BY <1>1 DEF PageState
<1> QED
  BY <1>1, <1>2 DEF Pages

LEMMA SessionAsked ==
  ASSUME NEW p \in CopilotPage, NEW cookie \in CopilotSession \cup {NoSession}
  PROVE  SessionRequest(p, cookie) \in Calls
BY DEF SessionRequest, Calls, CallState

\* The steps below change the calls and the pages one at a time.
LEMMA CallPut ==
  ASSUME CopilotInv, NEW c \in CopilotCall, NEW call \in Calls \cup {Unused},
         cpCall' = [cpCall EXCEPT ![c] = call]
  PROVE  cpCall' \in [CopilotCall -> Calls \cup {Unused}]
BY DEF CopilotInv

LEMMA PageShows ==
  ASSUME CopilotInv, NEW p \in CopilotPage, NEW page \in Pages, Shows(p, page)
  PROVE  cpPage' \in [CopilotPage -> Pages]
BY DEF CopilotInv, Shows

LEMMA TokenAsked ==
  ASSUME CopilotInv, NEW p \in CopilotPage, NEW kind \in {"ask", "logout"},
         cpPage[p].shown # SignedOut, cpPage[p].csrf # NoSession
  PROVE  TokenRequest(p, kind) \in Calls
<1> DEFINE r == SessionRequest(p, cpCookie)
           page == cpPage[p]
           q == [r EXCEPT !.kind = kind, !.csrf = page.csrf, !.shown = page.shown]
<1>1. page \in Pages /\ cpCookie \in CopilotSession \cup {NoSession}
  BY DEF CopilotInv
<1>2. r \in CallState /\ r.answer = "none"
  BY <1>1 DEF SessionRequest, CallState
<1>3. page.csrf \in CopilotSession \cup {NoSession} /\ page.shown \in Asker \cup {SignedOut}
      /\ Logins[page.csrf] = page.shown
  BY <1>1, PageFields
<1> HIDE DEF r
<1>4. q \in CallState /\ q.kind = kind /\ q.answer = "none"
      /\ q.csrf = page.csrf /\ q.shown = page.shown
  BY <1>2, <1>3 DEF CallState
<1>5. q \in Calls
  <2> HIDE DEF q
  <2> QED
    BY <1>3, <1>4 DEF Calls
<1> QED
  BY <1>5 DEF TokenRequest, r

LEMMA AbandonedHeld ==
  ASSUME NEW call \in Calls
  PROVE  Abandoned(call) \in Calls \cup {Unused}
<1>1. CASE call.kind = "session"
  BY <1>1 DEF Abandoned
<1>2. CASE call.kind # "session"
  <2> DEFINE new == [call EXCEPT !.awaited = FALSE]
  <2>1. new \in CallState /\ new.kind = call.kind /\ new.csrf = call.csrf
        /\ new.shown = call.shown /\ new.answer = call.answer /\ new.found = call.found
    BY DEF Calls, CallState
  <2>2. Abandoned(call) = new
    BY <1>2 DEF Abandoned
  <2> HIDE DEF new
  <2> QED
    BY <2>1, <2>2 DEF Calls
<1> QED
  BY <1>1, <1>2

LEMMA RequestSent ==
  ASSUME CopilotInv, NEW request \in Calls, Send(request)
  PROVE  cpCall' \in [CopilotCall -> Calls \cup {Unused}]
BY CallPut DEF Send, FreeCalls

LEMMA PageReopened ==
  ASSUME CopilotInv, NEW p \in CopilotPage, NEW cookie \in CopilotSession \cup {NoSession},
         Reopened(p, cookie)
  PROVE  /\ cpPage' \in [CopilotPage -> Pages]
         /\ cpCall' \in [CopilotCall -> Calls \cup {Unused}]
<1>1. cpPage' \in [CopilotPage -> Pages]
  BY FreshHeld, PageShows DEF Reopened
<1>2. PICK free \in FreeCalls : cpCall' = [c \in CopilotCall |->
        IF c = free THEN SessionRequest(p, cookie)
        ELSE IF cpCall[c] # Unused /\ cpCall[c].page = p
             THEN Abandoned(cpCall[c])
        ELSE cpCall[c]]
  BY DEF Reopened
<1>3. \A c \in CopilotCall : cpCall[c] \in Calls \cup {Unused}
  BY DEF CopilotInv
<1> QED
  BY <1>1, <1>2, <1>3, SessionAsked, AbandonedHeld

LEMMA PersonSteps ==
  ASSUME CopilotInv, NEW p \in CopilotPage,
         OpenPage(p) \/ SignIn(p) \/ RetrySession(p) \/ Submit(p) \/ SignOut(p)
  PROVE  CopilotInv'
<1>1. cpPage[p] \in Pages /\ cpCookie \in CopilotSession \cup {NoSession}
  BY DEF CopilotInv
<1>2. CASE OpenPage(p)
  BY <1>1, <1>2, PageReopened DEF OpenPage, CopilotInv
<1>3. CASE SignIn(p)
  <2> DEFINE s == cpCreated + 1
  <2>1. s \in CopilotSession /\ Reopened(p, s)
        /\ cpCreated' = s /\ cpLive' = cpLive \cup {s} /\ cpCookie' = s
    BY <1>3 DEF SignIn
  <2>2. cpCreated' \in 0..Len(Logins) /\ cpLive' \subseteq 1..cpCreated'
    BY <2>1, SessionsAre DEF CopilotInv
  <2> HIDE DEF s
  <2> QED
    BY <2>1, <2>2, PageReopened DEF CopilotInv
<1>4. CASE RetrySession(p)
  <2>1. Shows(p, PageRetried(cpPage[p]))
        /\ Send(SessionRequest(p, cpCookie)) /\ UNCHANGED <<cpCookie, cpCreated, cpLive>>
    BY <1>4 DEF RetrySession, PageRetried
  <2>2. PageRetried(cpPage[p]) \in Pages
    BY <1>1, PageChanges
  <2>3. cpPage' \in [CopilotPage -> Pages]
    BY <2>1, <2>2, PageShows
  <2>4. cpCall' \in [CopilotCall -> Calls \cup {Unused}]
    BY <1>1, <2>1, SessionAsked, RequestSent
  <2> QED
    BY <2>1, <2>3, <2>4 DEF CopilotInv
<1>5. CASE Submit(p) /\ cpPage[p].csrf = NoSession
  <2>1. Shows(p, PageRefused(cpPage[p]))
        /\ UNCHANGED <<cpCall, cpCookie, cpCreated, cpLive>>
    BY <1>5 DEF Submit, PageRefused
  <2>2. PageRefused(cpPage[p]) \in Pages
    BY <1>1, PageChanges
  <2>3. cpPage' \in [CopilotPage -> Pages]
    BY <2>1, <2>2, PageShows
  <2> QED
    BY <2>1, <2>3 DEF CopilotInv
<1>6. CASE Submit(p) /\ cpPage[p].csrf # NoSession
  <2>1. Shows(p, PageAsking(cpPage[p])) /\ Send(TokenRequest(p, "ask"))
        /\ UNCHANGED <<cpCookie, cpCreated, cpLive>>
    BY <1>6 DEF Submit, PageAsking
  <2>2. PageAsking(cpPage[p]) \in Pages
    BY <1>1, PageChanges
  <2>3. TokenRequest(p, "ask") \in Calls
    BY <1>6, TokenAsked DEF Submit
  <2>4. cpPage' \in [CopilotPage -> Pages]
    BY <2>1, <2>2, PageShows
  <2> QED
    BY <2>1, <2>3, <2>4, RequestSent DEF CopilotInv
<1>7. CASE SignOut(p) /\ cpPage[p].csrf = NoSession
  <2>1. Shows(p, SessionInvalidated(cpPage[p])) /\ UNCHANGED <<cpCall, cpCookie, cpCreated, cpLive>>
    BY <1>7 DEF SignOut
  <2>2. SessionInvalidated(cpPage[p]) \in Pages
    BY <1>1, PageChanges
  <2>3. cpPage' \in [CopilotPage -> Pages]
    BY <2>1, <2>2, PageShows
  <2> QED
    BY <2>1, <2>3 DEF CopilotInv
<1>8. CASE SignOut(p) /\ cpPage[p].csrf # NoSession
  <2>1. Send(TokenRequest(p, "logout")) /\ UNCHANGED <<cpPage, cpCookie, cpCreated, cpLive>>
    BY <1>8 DEF SignOut
  <2>2. TokenRequest(p, "logout") \in Calls
    BY <1>8, TokenAsked DEF SignOut
  <2> QED
    BY <2>1, <2>2, RequestSent DEF CopilotInv
<1> QED
  BY <1>2, <1>3, <1>4, <1>5, <1>6, <1>7, <1>8

\* A request is answered for the session of its cookie, and a question or a
\* sign-out only if that is the session of its token.
LEMMA CallServed ==
  ASSUME CopilotInv, NEW c \in CopilotCall, ServeCall(c)
  PROVE  CopilotInv'
<1> DEFINE call == cpCall[c]
           found == FoundSession(call)
           answer == AnswerOf(call)
           new == [call EXCEPT !.answer = answer, !.found = found]
<1>1. /\ call \in Calls /\ call \in CallState
      /\ cpCall' = [cpCall EXCEPT ![c].answer = answer, ![c].found = found]
      /\ cpLive' \subseteq cpLive /\ UNCHANGED <<cpCookie, cpCreated, cpPage>>
  BY DEF ServeCall, CopilotInv, Calls
<1>2. found \in CopilotSession \cup {NoSession}
  BY <1>1, CopilotCallFields DEF FoundSession
<1>3. answer \in {"ok", "401", "403"}
      /\ (call.kind # "session" /\ answer = "ok" => found = call.csrf)
  BY DEF AnswerOf, TokenFits
<1>4. cpCall' = [cpCall EXCEPT ![c] = new]
  BY <1>1
<1> HIDE DEF found, answer
<1>5. /\ new \in CallState /\ new.kind = call.kind /\ new.csrf = call.csrf
      /\ new.shown = call.shown /\ new.answer = answer /\ new.found = found
  BY <1>1, <1>2, <1>3 DEF CallState
<1> HIDE DEF new
<1>6. new \in Calls
  BY <1>1, <1>3, <1>5 DEF Calls
<1>7. cpCall' \in [CopilotCall -> Calls \cup {Unused}]
  BY <1>4, <1>6, CallPut
<1> QED
  BY <1>1, <1>7 DEF CopilotInv

LEMMA CookieStays ==
  ASSUME CopilotInv, NEW call
  PROVE  CookieAfter(call) \in CopilotSession \cup {NoSession}
BY DEF CookieAfter, CopilotInv

LEMMA AnswerReceived ==
  ASSUME CopilotInv, NEW c \in CopilotCall, Receive(c)
  PROVE  CopilotInv'
<1> DEFINE call == cpCall[c]
           page == cpPage[call.page]
<1>1. call \in Calls /\ call \in CallState /\ call.page \in CopilotPage /\ page \in Pages
  <2>1. call \in Calls /\ call \in CallState
    BY DEF Receive, CopilotInv, Calls
  <2>2. call.page \in CopilotPage
    BY <2>1, CopilotCallFields
  <2> QED
    BY <2>1, <2>2 DEF CopilotInv
<1>2. cpCookie' \in CopilotSession \cup {NoSession} /\ UNCHANGED <<cpCreated, cpLive>>
  BY CookieStays DEF Receive
<1>3. CASE ReceiveSession(c)
  <2> DEFINE owner == IF call.found = NoSession THEN SignedOut ELSE Logins[call.found]
             new == PageOf(page, owner, call.found)
  <2>1. Shows(call.page, new) /\ cpCall' = [cpCall EXCEPT ![c] = Unused]
    BY <1>3 DEF ReceiveSession, PageOf
  <2>2. call.found \in CopilotSession \cup {NoSession}
    BY <1>1, CopilotCallFields
  <2>3. new \in Pages
    <3> DEFINE found == call.found
    <3> HIDE DEF found, page
    <3> QED
      BY <1>1, <2>2, PageTold DEF found
  <2> HIDE DEF new
  <2> QED
    BY <1>1, <1>2, <2>1, <2>3, PageShows, CallPut DEF CopilotInv
<1>4. CASE ReceiveAnswer(c)
  <2> DEFINE new == IF call.answer = "401"
                    THEN PageRefused(page) ELSE PageAnswered(page)
  <2>1. Shows(call.page, new) /\ cpCall' = [cpCall EXCEPT ![c] = Unused]
    BY <1>4 DEF ReceiveAnswer, PageRefused, PageAnswered
  <2>2. new \in Pages
    BY <1>1, PageChanges
  <2> HIDE DEF new
  <2> QED
    BY <1>1, <1>2, <2>1, <2>2, PageShows, CallPut DEF CopilotInv
<1>5. CASE ReceiveSignOut(c)
  <2> DEFINE new == CASE call.answer = "ok" -> PageLeft(page)
                      [] call.answer = "401" -> SessionInvalidated(page)
                      [] OTHER -> PageToRetry(page)
             next == IF call.answer = "ok" THEN SessionRequest(call.page, NoSession) ELSE Unused
  <2>1. Shows(call.page, new) /\ cpCall' = [cpCall EXCEPT ![c] = next]
    BY <1>5 DEF ReceiveSignOut, PageLeft, PageToRetry
  <2>2. new \in Pages
    BY <1>1, PageChanges
  <2>3. next \in Calls \cup {Unused}
    BY <1>1, SessionAsked
  <2> HIDE DEF new, next
  <2> QED
    BY <1>1, <1>2, <2>1, <2>2, <2>3, PageShows, CallPut DEF CopilotInv
<1> QED
  BY <1>3, <1>4, <1>5 DEF Receive

LEMMA AnswerNotAwaited ==
  ASSUME CopilotInv, NEW c \in CopilotCall, GiveUp(c) \/ DropCall(c)
  PROVE  CopilotInv'
<1> DEFINE call == cpCall[c]
           page == cpPage[call.page]
<1>1. CASE GiveUp(c)
  <2> DEFINE new == CASE call.kind = "session" -> PageUnavailable(page)
                      [] call.kind = "ask" -> PageAnswered(page)
                      [] OTHER -> PageToRetry(page)
  <2>1. call \in Calls /\ call \in CallState
    BY <1>1 DEF GiveUp, CopilotInv, Calls
  <2>2. call.page \in CopilotPage
    BY <2>1, CopilotCallFields
  <2>3. page \in Pages
    BY <2>2 DEF CopilotInv
  <2>4. Shows(call.page, new) /\ cpCall' = [cpCall EXCEPT ![c] = Abandoned(call)]
        /\ UNCHANGED <<cpCookie, cpCreated, cpLive>>
    BY <1>1 DEF GiveUp, PageUnavailable, PageAnswered, PageToRetry
  <2>5. new \in Pages
    BY <2>3, PageChanges
  <2>6. Abandoned(call) \in Calls \cup {Unused}
    BY <2>1, AbandonedHeld
  <2> HIDE DEF new, call
  <2> QED
    BY <2>2, <2>4, <2>5, <2>6, PageShows, CallPut DEF CopilotInv
<1>2. CASE DropCall(c)
  <2>1. cpCookie' \in CopilotSession \cup {NoSession}
    BY <1>2, CookieStays DEF DropCall, CopilotInv
  <2>2. cpCall' \in [CopilotCall -> Calls \cup {Unused}]
    BY <1>2, CallPut DEF DropCall
  <2> QED
    BY <1>2, <2>1, <2>2 DEF DropCall, CopilotInv
<1> QED
  BY <1>1, <1>2

LEMMA CopilotInvInit == CopilotInit => CopilotInv
BY FreshHeld, SessionsAre DEF CopilotInit, CopilotInv, NoSession

LEMMA CopilotInvNext == CopilotInv /\ [CopilotNext]_cpVars => CopilotInv'
<1> SUFFICES ASSUME CopilotInv, [CopilotNext]_cpVars PROVE CopilotInv'
  OBVIOUS
<1>1. ASSUME NEW p \in CopilotPage,
             OpenPage(p) \/ SignIn(p) \/ RetrySession(p) \/ Submit(p) \/ SignOut(p)
      PROVE  CopilotInv'
  BY <1>1, PersonSteps
<1>2. ASSUME NEW c \in CopilotCall, ServeCall(c) \/ Receive(c) \/ GiveUp(c) \/ DropCall(c)
      PROVE  CopilotInv'
  BY <1>2, CallServed, AnswerReceived, AnswerNotAwaited
<1>3. ASSUME NEW s \in CopilotSession, ExpireSession(s) PROVE CopilotInv'
  BY <1>3 DEF ExpireSession, CopilotInv
<1>4. CASE ExpireCookie
  BY <1>4 DEF ExpireCookie, CopilotInv
<1>5. CASE UNCHANGED cpVars
  BY <1>5 DEF cpVars, CopilotInv
<1> QED
  BY <1>1, <1>2, <1>3, <1>4, <1>5 DEF CopilotNext

\* Cookies, sessions, pages and requests stay well formed.
THEOREM CopilotTyped == CopilotSpec => []CopilotTypeOK
<1>1. CopilotInv => CopilotTypeOK
  <2> SUFFICES ASSUME CopilotInv PROVE CopilotTypeOK
    OBVIOUS
  <2>1. cpPage \in [CopilotPage -> PageState]
    BY DEF CopilotInv, Pages
  <2>2. \A c \in CopilotCall : cpCall[c] \in CallState \cup {Unused}
    BY DEF CopilotInv, Calls
  <2> QED
    BY <2>1, <2>2 DEF CopilotInv, CopilotTypeOK
<1> QED
  BY <1>1, CopilotInvInit, CopilotInvNext, PTL DEF CopilotSpec

\* Whoever else signed in in another tab meanwhile, and however late a request is
\* served, a question is answered for the person its page showed when it was asked,
\* and a sign-out ends that person's session.
THEOREM AnsweredAsShown == CopilotSpec => []AskedAsShown
<1>1. CopilotInv => AskedAsShown
  <2> SUFFICES ASSUME CopilotInv, NEW c \in CopilotCall, cpCall[c] # Unused,
                      cpCall[c].kind # "session", cpCall[c].answer = "ok"
               PROVE  cpCall[c].found # NoSession /\ Logins[cpCall[c].found] = cpCall[c].shown
    BY DEF AskedAsShown
  <2>1. cpCall[c] \in Calls
    BY DEF CopilotInv
  <2> QED
    BY <2>1 DEF Calls
<1> QED
  BY <1>1, CopilotInvInit, CopilotInvNext, PTL DEF CopilotSpec

-----------------------------------------------------------------------------
(* The Reader's quota.                                                      *)

Ticks == 0..LastTick
Windows == [count : 0..(RateLimit + 1), resetAt : 0..(LastTick + Window)]

\* What passed from one tick to another.
SpanSum(f, a, b) == SumFunctionOnSet(f, Ticks \cap (a..b))

\* The spans of one principal, of whom f passed, when the limiter has the entry e.
\* While its window is live, it began with a request, what passed in it was
\* counted, and less than a window's quota passed in the window's length before;
\* when it is over, less than that passed in the length up to now.
QuotaHeld(f, e, now) ==
  /\ f \in [Ticks -> Nat] /\ e \in Windows /\ now \in Ticks
  /\ \A u \in Ticks : u > now => f[u] = 0
  /\ \A t \in Ticks : SpanSum(f, t, t + Window - 1) < 2 * RateLimit
  /\ e.resetAt > now =>
       LET s == e.resetAt - Window IN
       /\ s \in 0..now /\ f[s] >= 1
       /\ SpanSum(f, s, LastTick) <= e.count /\ SpanSum(f, s, LastTick) <= RateLimit
       /\ \A t \in Ticks : t > s - Window => SpanSum(f, t, s - 1) < RateLimit
  /\ e.resetAt <= now =>
       /\ f[now] = 0
       /\ \A t \in Ticks : t > now - Window => SpanSum(f, t, LastTick) < RateLimit

QuotaInv == \A p \in Principal : QuotaHeld(rdPassed[p], rdWindow[p], rdNow)

LEMMA LimitsAre ==
  /\ RateLimit \in Nat /\ RateLimit >= 1 /\ Window \in Nat /\ Window >= 1
  /\ LastTick \in Nat /\ MaxTracked \in Nat
  /\ GlobalLimit \in Nat /\ PerClientLimit \in Nat
  /\ Ticks \subseteq Nat /\ IsFiniteSet(Ticks)
<1>1. /\ RateLimit \in Nat \ {0} /\ Window \in Nat \ {0} /\ LastTick \in Nat \ {0}
      /\ MaxTracked \in Nat \ {0} /\ GlobalLimit \in Nat \ {0} /\ PerClientLimit \in Nat \ {0}
  BY ReaderAssumption
<1>2. IsFiniteSet(0..LastTick)
  BY <1>1, FS_Interval
<1> QED
  BY <1>1, <1>2 DEF Ticks

\* Sums over spans are natural numbers, and a wider span has no smaller sum.
LEMMA SpanWider ==
  ASSUME NEW f \in [Ticks -> Nat], NEW a \in Int, NEW b \in Int, NEW c \in Int, NEW d \in Int,
         c <= a, b <= d
  PROVE  /\ SpanSum(f, a, b) \in Nat /\ SpanSum(f, c, d) \in Nat
         /\ SpanSum(f, a, b) <= SpanSum(f, c, d)
<1>1. /\ IsFiniteSet(Ticks \cap (c..d)) /\ \A x \in Ticks \cap (c..d) : f[x] \in Nat
      /\ Ticks \cap (a..b) \in SUBSET (Ticks \cap (c..d))
  <2>1. Ticks \cap (c..d) \in SUBSET Ticks
    OBVIOUS
  <2>2. a..b \subseteq c..d
    OBVIOUS
  <2> QED
    BY <2>1, <2>2, LimitsAre, FS_Subset
<1> QED
  BY <1>1, SumPart DEF SpanSum

LEMMA SpanNat ==
  ASSUME NEW f \in [Ticks -> Nat], NEW a \in Int, NEW b \in Int
  PROVE  SpanSum(f, a, b) \in Nat
<1>1. a <= a /\ b <= b
  OBVIOUS
<1> QED
  BY <1>1, SpanWider

\* What passed in a span passed before a tick in it or since.
LEMMA SpanSplit ==
  ASSUME NEW f \in [Ticks -> Nat], NEW a \in Int, NEW b \in Int, NEW m \in Int
  PROVE  SpanSum(f, a, b) <= SpanSum(f, a, m - 1) + SpanSum(f, m, LastTick)
<1> DEFINE A == Ticks \cap (a..(m - 1))
           B == Ticks \cap (m..LastTick)
           C == Ticks \cap (a..b)
<1>1. A \in SUBSET Ticks /\ B \in SUBSET Ticks /\ A \cup B \in SUBSET Ticks
  OBVIOUS
<1>2. A \cap B = {} /\ C \in SUBSET (A \cup B)
  BY LimitsAre DEF Ticks
<1> HIDE DEF A, B, C
<1>3. IsFiniteSet(A) /\ IsFiniteSet(B) /\ IsFiniteSet(A \cup B)
  BY <1>1, LimitsAre, FS_Subset
<1>4. \A x \in A \cup B : f[x] \in Nat /\ f[x] \in Int
  BY <1>1
<1>5. SumFunctionOnSet(f, A \cup B) = SumFunctionOnSet(f, A) + SumFunctionOnSet(f, B)
  BY <1>2, <1>3, <1>4, SumUnion
<1>6. SumFunctionOnSet(f, C) <= SumFunctionOnSet(f, A \cup B)
  BY <1>2, <1>3, <1>4, SumPart
<1> QED
  BY <1>5, <1>6 DEF SpanSum, A, B, C

\* Without its first tick, a span has lost what passed there.
LEMMA SpanAfterFirst ==
  ASSUME NEW f \in [Ticks -> Nat], NEW s \in Ticks, f[s] >= 1, NEW t \in Ticks, s < t
  PROVE  SpanSum(f, t, LastTick) < SpanSum(f, s, LastTick)
<1> DEFINE S == Ticks \cap (s..LastTick)
           T == Ticks \cap (t..LastTick)
<1>1. S \in SUBSET Ticks /\ s \in S /\ T \in SUBSET (S \ {s}) /\ S \ {s} \in SUBSET Ticks
  BY LimitsAre DEF Ticks
<1> HIDE DEF S, T
<1>2. /\ IsFiniteSet(S) /\ IsFiniteSet(S \ {s})
      /\ \A x \in S : f[x] \in Nat /\ f[x] \in Int
  <2>1. IsFiniteSet(S) /\ IsFiniteSet(S \ {s})
    BY <1>1, LimitsAre, FS_Subset
  <2>2. \A x \in S : f[x] \in Nat
    BY <1>1
  <2> QED
    BY <2>1, <2>2
<1>3. SumFunctionOnSet(f, S) = f[s] + SumFunctionOnSet(f, S \ {s})
  BY <1>1, <1>2, SumWithout
<1>4. /\ SumFunctionOnSet(f, T) <= SumFunctionOnSet(f, S \ {s})
      /\ SumFunctionOnSet(f, T) \in Nat /\ SumFunctionOnSet(f, S \ {s}) \in Nat
  BY <1>1, <1>2, SumPart
<1>5. f[s] \in Nat
  OBVIOUS
<1>6. SumFunctionOnSet(f, T) < SumFunctionOnSet(f, S)
  BY <1>3, <1>4, <1>5
<1> QED
  BY <1>6 DEF SpanSum, S, T

OneMore(f, n) == [f EXCEPT ![n] = @ + 1]

LEMMA OneMoreIs ==
  ASSUME NEW f \in [Ticks -> Nat], NEW n \in Ticks
  PROVE  /\ OneMore(f, n) \in [Ticks -> Nat] /\ OneMore(f, n)[n] = f[n] + 1
         /\ \A x \in Ticks \ {n} : OneMore(f, n)[x] = f[x]
BY DEF OneMore

\* One more at a tick is one more in the spans that have it.
LEMMA SpanMore ==
  ASSUME NEW f \in [Ticks -> Nat], NEW n \in Ticks, NEW a \in Int, NEW b \in Int
  PROVE  /\ n \in a..b => SpanSum(OneMore(f, n), a, b) = SpanSum(f, a, b) + 1
         /\ n \notin a..b => SpanSum(OneMore(f, n), a, b) = SpanSum(f, a, b)
<1> DEFINE g == OneMore(f, n)
           S == Ticks \cap (a..b)
<1>1. g \in [Ticks -> Nat] /\ g[n] = f[n] + 1 /\ \A x \in Ticks \ {n} : g[x] = f[x]
  BY OneMoreIs
<1> HIDE DEF g
<1>2. IsFiniteSet(S) /\ \A x \in S : f[x] \in Int /\ g[x] \in Int
  <2>1. S \in SUBSET Ticks
    OBVIOUS
  <2> QED
    BY <1>1, <2>1, LimitsAre, FS_Subset
<1>3. CASE n \in a..b
  <2>1. n \in S /\ \A x \in S \ {n} : f[x] = g[x]
    BY <1>1, <1>3
  <2> HIDE DEF S
  <2>2. SumFunctionOnSet(g, S) = SumFunctionOnSet(f, S) + (g[n] - f[n])
    BY <1>2, <2>1, SumChange
  <2>3. f[n] \in Nat /\ g[n] - f[n] = 1
    BY <1>1
  <2> QED
    BY <1>3, <2>2, <2>3 DEF SpanSum, S, g
<1>4. CASE n \notin a..b
  <2>1. \A x \in S : f[x] = g[x]
    BY <1>1, <1>4
  <2> HIDE DEF S
  <2>2. SumFunctionOnSet(f, S) = SumFunctionOnSet(g, S)
    BY <1>2, <2>1, SumSame
  <2> QED
    BY <1>4, <2>2 DEF SpanSum, S, g
<1> QED
  BY <1>3, <1>4

LEMMA WindowFields ==
  ASSUME NEW e \in Windows
  PROVE  /\ e.count \in Nat /\ e.count <= RateLimit + 1
         /\ e.resetAt \in Nat /\ e.resetAt <= LastTick + Window
BY LimitsAre DEF Windows

\* A window that is over can be forgotten.
LEMMA QuotaForgotten ==
  ASSUME NEW f, NEW e, NEW now, QuotaHeld(f, e, now), e.resetAt <= now
  PROVE  QuotaHeld(f, NoEntry, now)
<1>1. NoEntry \in Windows /\ NoEntry.resetAt = 0
  BY LimitsAre DEF NoEntry, Windows
<1>2. now \in Nat
  BY LimitsAre DEF QuotaHeld
<1>3. NoEntry.resetAt <= now /\ ~(NoEntry.resetAt > now)
  BY <1>1, <1>2
<1> QED
  BY <1>1, <1>3 DEF QuotaHeld

\* A refusal only counts.
LEMMA QuotaRefused ==
  ASSUME NEW f, NEW e, NEW new \in Windows, NEW now, QuotaHeld(f, e, now),
         new.resetAt = e.resetAt, e.count <= new.count, e.resetAt > now
  PROVE  QuotaHeld(f, new, now)
<1> DEFINE s == e.resetAt - Window
<1>1. f \in [Ticks -> Nat] /\ e \in Windows /\ now \in Nat
  BY LimitsAre DEF QuotaHeld
<1>2. SpanSum(f, s, LastTick) <= e.count /\ SpanSum(f, s, LastTick) \in Nat
      /\ e.count \in Nat /\ new.count \in Nat
  BY <1>1, WindowFields, LimitsAre, SpanNat DEF QuotaHeld
<1>3. SpanSum(f, s, LastTick) <= new.count
  BY <1>2
<1>4. ~(new.resetAt <= now)
  BY <1>1, WindowFields
<1> QED
  BY <1>3, <1>4 DEF QuotaHeld

LEMMA QuotaTicks ==
  ASSUME NEW f, NEW e, NEW now, QuotaHeld(f, e, now), now < LastTick
  PROVE  QuotaHeld(f, e, now + 1)
<1> DEFINE s == e.resetAt - Window
<1>1. /\ f \in [Ticks -> Nat] /\ e \in Windows /\ now \in Ticks /\ now \in Nat
      /\ e.resetAt \in Nat /\ Window \in Nat /\ LastTick \in Nat /\ RateLimit \in Nat
  BY LimitsAre, WindowFields DEF QuotaHeld
<1>2. now + 1 \in Ticks /\ now + 1 \in Nat
  BY <1>1 DEF Ticks
<1>3. f[now + 1] = 0 /\ \A u \in Ticks : u > now + 1 => f[u] = 0
  BY <1>1, <1>2, LimitsAre DEF QuotaHeld
<1>4. CASE e.resetAt > now + 1
  <2>1. e.resetAt > now /\ ~(e.resetAt <= now + 1) /\ s \in Int
    BY <1>1, <1>4
  <2>2. s \in 0..now
    BY <2>1 DEF QuotaHeld
  <2>3. s \in 0..(now + 1)
    BY <1>1, <2>2
  <2> QED
    BY <1>1, <1>2, <1>3, <2>1, <2>3 DEF QuotaHeld
<1>5. CASE e.resetAt = now + 1
  <2>1. e.resetAt > now /\ ~(e.resetAt > now + 1)
    BY <1>1, <1>5
  <2>2. /\ s \in 0..now /\ f[s] >= 1 /\ SpanSum(f, s, LastTick) <= RateLimit
    BY <2>1 DEF QuotaHeld
  <2>3. s \in Ticks /\ now + 1 - Window = s
    BY <1>1, <1>5, <2>2 DEF Ticks
  <2>4. ASSUME NEW t \in Ticks, t > s PROVE SpanSum(f, t, LastTick) < RateLimit
    <3>1. SpanSum(f, t, LastTick) < SpanSum(f, s, LastTick)
      <4>1. s < t
        BY <2>3, <2>4, LimitsAre
      <4> QED
        BY <1>1, <2>2, <2>3, <4>1, SpanAfterFirst
    <3>2. SpanSum(f, t, LastTick) \in Nat /\ SpanSum(f, s, LastTick) \in Nat
      BY <1>1, <2>3, LimitsAre, SpanNat
    <3> QED
      BY <1>1, <2>2, <3>1, <3>2
  <2> QED
    BY <1>1, <1>2, <1>3, <2>1, <2>3, <2>4 DEF QuotaHeld
<1>6. CASE e.resetAt <= now
  <2>1. e.resetAt <= now + 1 /\ ~(e.resetAt > now + 1)
    BY <1>1, <1>6
  <2>2. ASSUME NEW t \in Ticks, t > now + 1 - Window PROVE SpanSum(f, t, LastTick) < RateLimit
    <3>1. t > now - Window
      BY <1>1, <2>2, LimitsAre
    <3> QED
      BY <1>6, <3>1 DEF QuotaHeld
  <2> QED
    BY <1>1, <1>2, <1>3, <2>1, <2>2 DEF QuotaHeld
<1> QED
  BY <1>1, <1>4, <1>5, <1>6

\* Spans with the current tick, when what passed since a tick s of theirs is within
\* the quota and what passed in the length before it is below.
LEMMA SpansHold ==
  ASSUME NEW f \in [Ticks -> Nat], NEW now \in Ticks,
         \A t \in Ticks : SpanSum(f, t, t + Window - 1) < 2 * RateLimit,
         NEW s \in 0..now,
         SpanSum(OneMore(f, now), s, LastTick) <= RateLimit,
         \A t \in Ticks : t > s - Window => SpanSum(OneMore(f, now), t, s - 1) < RateLimit
  PROVE  \A t \in Ticks :
           SpanSum(OneMore(f, now), t, t + Window - 1) < 2 * RateLimit
<1> DEFINE g == OneMore(f, now)
<1>1. /\ g \in [Ticks -> Nat] /\ now \in Nat /\ s \in Nat /\ s <= now
      /\ Window \in Nat /\ RateLimit \in Nat /\ LastTick \in Nat
  BY LimitsAre, OneMoreIs
<1>2. SUFFICES ASSUME NEW t \in Ticks PROVE SpanSum(g, t, t + Window - 1) < 2 * RateLimit
  OBVIOUS
<1>3. t \in Nat /\ t + Window - 1 \in Int
  BY <1>1, LimitsAre
<1>4. CASE now \in t..(t + Window - 1)
  <2>1. t > s - Window
    BY <1>1, <1>3, <1>4
  <2>2. SpanSum(g, t, s - 1) < RateLimit /\ SpanSum(g, s, LastTick) <= RateLimit
    BY <2>1
  <2> HIDE DEF g
  <2>3. SpanSum(g, t, t + Window - 1) <= SpanSum(g, t, s - 1) + SpanSum(g, s, LastTick)
    BY <1>1, <1>3, SpanSplit
  <2>4. /\ SpanSum(g, t, t + Window - 1) \in Nat /\ SpanSum(g, t, s - 1) \in Nat
        /\ SpanSum(g, s, LastTick) \in Nat
    <3>1. s - 1 \in Int /\ s \in Int /\ LastTick \in Int
      BY <1>1
    <3> QED
      BY <1>1, <1>3, <3>1, SpanNat
  <2> QED
    BY <1>1, <2>2, <2>3, <2>4
<1>5. CASE now \notin t..(t + Window - 1)
  <2>1. SpanSum(g, t, t + Window - 1) = SpanSum(f, t, t + Window - 1)
    BY <1>3, <1>5, SpanMore
  <2> QED
    BY <2>1
<1> QED
  BY <1>4, <1>5

\* A request opens a window.
LEMMA QuotaOpened ==
  ASSUME NEW f, NEW e, NEW now, QuotaHeld(f, e, now), e.resetAt <= now
  PROVE  QuotaHeld(OneMore(f, now), [count |-> 1, resetAt |-> now + Window], now)
<1> DEFINE g == OneMore(f, now)
           new == [count |-> 1, resetAt |-> now + Window]
<1>1. /\ f \in [Ticks -> Nat] /\ now \in Ticks /\ now \in Nat /\ now <= LastTick
      /\ Window \in Nat /\ LastTick \in Nat /\ RateLimit \in Nat
      /\ Window >= 1 /\ RateLimit >= 1
  BY LimitsAre DEF QuotaHeld, Ticks
<1>2. new \in Windows /\ new.resetAt > now /\ ~(new.resetAt <= now)
      /\ new.resetAt - Window = now /\ new.count = 1
  BY <1>1 DEF Windows
<1>3. g \in [Ticks -> Nat] /\ g[now] >= 1 /\ \A u \in Ticks : u > now => g[u] = 0
  <2>1. \A u \in Ticks : u > now => f[u] = 0 /\ u # now
    BY <1>1, LimitsAre DEF QuotaHeld
  <2>2. f[now] \in Nat
    BY <1>1
  <2> QED
    BY <1>1, <2>1, <2>2, OneMoreIs
<1>4. SpanSum(g, now, LastTick) = 1
  <2>1. SpanSum(f, now, LastTick) = 0
    <3> DEFINE S == Ticks \cap (now..LastTick)
    <3>1. \A x \in S : f[x] = 0
      <4>1. f[now] = 0 /\ \A u \in Ticks : u > now => f[u] = 0
        BY DEF QuotaHeld
      <4>2. \A x \in S : x = now \/ x > now
        BY <1>1
      <4> QED
        BY <4>1, <4>2
    <3>2. S \in SUBSET Ticks
      OBVIOUS
    <3>3. IsFiniteSet(S)
      BY <3>2, LimitsAre, FS_Subset
    <3> HIDE DEF S
    <3>4. SumFunctionOnSet(f, S) = 0
      BY <3>1, <3>3, SumZero
    <3> QED
      BY <3>4 DEF SpanSum, S
  <2>2. now \in now..LastTick
    BY <1>1
  <2>3. SpanSum(g, now, LastTick) = SpanSum(f, now, LastTick) + 1
    BY <1>1, <2>2, SpanMore
  <2> QED
    BY <2>1, <2>3
<1>5. ASSUME NEW t \in Ticks, t > now - Window PROVE SpanSum(g, t, now - 1) < RateLimit
  <2>1. t \in Nat /\ now - 1 \in Int /\ now \notin t..(now - 1)
    BY <1>1, LimitsAre
  <2>2. SpanSum(g, t, now - 1) = SpanSum(f, t, now - 1)
    BY <1>1, <2>1, SpanMore
  <2>3. SpanSum(f, t, LastTick) < RateLimit
    BY <1>5 DEF QuotaHeld
  <2>4. /\ SpanSum(f, t, now - 1) <= SpanSum(f, t, LastTick)
        /\ SpanSum(f, t, now - 1) \in Nat /\ SpanSum(f, t, LastTick) \in Nat
    <3>1. t <= t /\ now - 1 <= LastTick
      BY <1>1, <2>1
    <3> QED
      BY <1>1, <2>1, <3>1, SpanWider
  <2> QED
    BY <1>1, <2>2, <2>3, <2>4
<1>6. \A t \in Ticks : SpanSum(g, t, t + Window - 1) < 2 * RateLimit
  <2>1. now \in 0..now /\ SpanSum(g, now, LastTick) <= RateLimit
    BY <1>1, <1>4
  <2>2. \A t \in Ticks : SpanSum(f, t, t + Window - 1) < 2 * RateLimit
    BY DEF QuotaHeld
  <2> QED
    BY <1>1, <1>5, <2>1, <2>2, SpansHold
<1> HIDE DEF g, new
<1>7. QuotaHeld(g, new, now)
  <2>1. /\ now \in 0..now /\ SpanSum(g, now, LastTick) <= new.count
        /\ SpanSum(g, now, LastTick) <= RateLimit
    BY <1>1, <1>2, <1>4
  <2> QED
    BY <1>1, <1>2, <1>3, <1>5, <1>6, <2>1 DEF QuotaHeld
<1> QED
  BY <1>7 DEF g, new

\* A request is counted in the window that is live.
LEMMA QuotaCounted ==
  ASSUME NEW f, NEW e, NEW now, QuotaHeld(f, e, now), e.resetAt > now,
         e.count + 1 <= RateLimit, NEW new \in Windows,
         new.count = e.count + 1, new.resetAt = e.resetAt
  PROVE  QuotaHeld(OneMore(f, now), new, now)
<1> DEFINE g == OneMore(f, now)
           s == e.resetAt - Window
<1>1. /\ f \in [Ticks -> Nat] /\ now \in Ticks /\ now \in Nat /\ now <= LastTick
      /\ e.count \in Nat /\ e.resetAt \in Nat /\ Window \in Nat /\ LastTick \in Nat
      /\ RateLimit \in Nat
  <2>1. f \in [Ticks -> Nat] /\ now \in Ticks /\ e \in Windows
    BY DEF QuotaHeld
  <2>2. e.count \in Nat /\ e.resetAt \in Nat
    BY <2>1, WindowFields
  <2> QED
    BY <2>1, <2>2, LimitsAre DEF Ticks
<1>2. /\ s \in 0..now /\ f[s] >= 1 /\ SpanSum(f, s, LastTick) <= e.count
      /\ \A t \in Ticks : t > s - Window => SpanSum(f, t, s - 1) < RateLimit
  BY DEF QuotaHeld
<1>3. s \in Nat /\ s <= now /\ s \in Ticks
  BY <1>1, <1>2 DEF Ticks
<1> HIDE DEF s
<1>4. g \in [Ticks -> Nat] /\ g[s] >= 1 /\ \A u \in Ticks : u > now => g[u] = 0
  <2>1. \A u \in Ticks : u > now => f[u] = 0 /\ u # now
    BY <1>1, LimitsAre DEF QuotaHeld
  <2>2. f[now] \in Nat /\ f[s] \in Nat
    BY <1>1, <1>3
  <2> QED
    BY <1>1, <1>2, <1>3, <2>1, <2>2, OneMoreIs
<1>5. SpanSum(g, s, LastTick) <= e.count + 1
  <2>1. now \in s..LastTick
    BY <1>1, <1>3
  <2>2. SpanSum(g, s, LastTick) = SpanSum(f, s, LastTick) + 1
    BY <1>1, <1>3, <2>1, SpanMore
  <2>3. SpanSum(f, s, LastTick) \in Nat
    BY <1>1, <1>3, SpanNat
  <2> QED
    BY <1>1, <1>2, <2>2, <2>3
<1>6. SpanSum(g, s, LastTick) \in Nat
  <2> HIDE DEF g
  <2> QED
    BY <1>1, <1>3, <1>4, SpanNat
<1>7. SpanSum(g, s, LastTick) <= RateLimit
  BY <1>1, <1>5, <1>6
<1>8. ASSUME NEW t \in Ticks, t > s - Window PROVE SpanSum(g, t, s - 1) < RateLimit
  <2>1. t \in Int /\ s - 1 \in Int /\ now \notin t..(s - 1)
    BY <1>1, <1>3, LimitsAre
  <2>2. SpanSum(g, t, s - 1) = SpanSum(f, t, s - 1)
    BY <1>1, <2>1, SpanMore
  <2> QED
    BY <1>2, <1>8, <2>2
<1>9. \A t \in Ticks : SpanSum(g, t, t + Window - 1) < 2 * RateLimit
  <2>1. \A t \in Ticks : SpanSum(f, t, t + Window - 1) < 2 * RateLimit
    BY DEF QuotaHeld
  <2> QED
    BY <1>1, <1>2, <1>7, <1>8, <2>1, SpansHold
<1> HIDE DEF g
<1>10. QuotaHeld(g, new, now)
  <2>1. new.resetAt > now /\ ~(new.resetAt <= now) /\ new.resetAt - Window = s
    BY <1>1 DEF s
  <2> QED
    BY <1>1, <1>2, <1>4, <1>5, <1>7, <1>8, <1>9, <2>1 DEF QuotaHeld
<1> QED
  BY <1>10 DEF g

\* The limiter's entries, whichever of them it forgets.
LEMMA SweptHeld ==
  ASSUME QuotaInv, NEW p \in Principal
  PROVE  QuotaHeld(rdPassed[p], Swept[p], rdNow) /\ Swept[p] \in Windows
<1>1. QuotaHeld(rdPassed[p], rdWindow[p], rdNow)
  BY DEF QuotaInv
<1>2. Swept[p] = rdWindow[p] \/ (Swept[p] = NoEntry /\ rdWindow[p].resetAt <= rdNow)
  BY DEF Swept, Lapsed
<1>3. QuotaHeld(rdPassed[p], Swept[p], rdNow)
  BY <1>1, <1>2, QuotaForgotten
<1> QED
  BY <1>3 DEF QuotaHeld

CountedOn(e) == [e EXCEPT !.count = IF @ > RateLimit THEN @ ELSE @ + 1]

LEMMA CountedOnIs ==
  ASSUME NEW e \in Windows
  PROVE  /\ CountedOn(e) \in Windows /\ CountedOn(e).resetAt = e.resetAt
         /\ CountedOn(e).count = IF e.count > RateLimit THEN e.count ELSE e.count + 1
<1> DEFINE n == IF e.count > RateLimit THEN e.count ELSE e.count + 1
<1>1. CountedOn(e) = [e EXCEPT !.count = n]
  BY DEF CountedOn, Windows
<1>2. n \in 0..(RateLimit + 1)
  BY WindowFields, LimitsAre
<1> HIDE DEF n
<1>3. CountedOn(e) \in Windows /\ CountedOn(e).resetAt = e.resetAt /\ CountedOn(e).count = n
  BY <1>1, <1>2 DEF Windows
<1> QED
  BY <1>3 DEF n

LEMMA CountedIs ==
  ASSUME NEW p
  PROVE  Counted(p) = IF Swept[p].resetAt <= rdNow
                      THEN [count |-> 1, resetAt |-> rdNow + Window] ELSE CountedOn(Swept[p])
BY DEF Counted, Lapsed, CountedOn

\* What every principal's entry may become, and what passed.
LEMMA EntryPut ==
  ASSUME QuotaInv, NEW p \in Principal, NEW f, NEW e, UNCHANGED rdNow,
         rdWindow' = [Swept EXCEPT ![p] = e], rdPassed' = [rdPassed EXCEPT ![p] = f],
         rdPassed \in [Principal -> [Ticks -> Nat]], QuotaHeld(f, e, rdNow)
  PROVE  QuotaInv'
<1>1. SUFFICES ASSUME NEW q \in Principal PROVE QuotaHeld(rdPassed'[q], rdWindow'[q], rdNow)
  BY DEF QuotaInv
<1>2. DOMAIN Swept = Principal
  BY DEF Swept
<1>3. CASE q = p
  <2>1. rdPassed'[q] = f /\ rdWindow'[q] = e
    BY <1>2, <1>3
  <2> QED
    BY <2>1
<1>4. CASE q # p
  <2>1. rdPassed'[q] = rdPassed[q] /\ rdWindow'[q] = Swept[q]
    BY <1>2, <1>4
  <2> QED
    BY <2>1, SweptHeld
<1> QED
  BY <1>3, <1>4

ReaderShape == rdPassed \in [Principal -> [Ticks -> Nat]] /\ rdWindow \in [Principal -> Windows]

LEMMA RefusedKeepsQuota ==
  ASSUME QuotaInv, ReaderShape, NEW p \in Principal, QuotaRefuses(p), UNCHANGED rdNow
  PROVE  QuotaInv' /\ ReaderShape'
<1>1. /\ QuotaHeld(rdPassed[p], Swept[p], rdNow) /\ Swept[p] \in Windows
      /\ \A q \in Principal : Swept[q] \in Windows
  BY SweptHeld
<1>2. UNCHANGED <<rdPassed, rdNow>>
  BY DEF QuotaRefuses
<1>3. CASE rdWindow' = Swept
  <2>1. \A q \in Principal : QuotaHeld(rdPassed'[q], rdWindow'[q], rdNow')
    BY <1>2, <1>3, SweptHeld
  <2>2. Swept \in [Principal -> Windows]
    BY <1>1 DEF Swept
  <2> QED
    BY <1>2, <1>3, <2>1, <2>2 DEF QuotaInv, ReaderShape
<1>4. CASE Counted(p).count > RateLimit /\ rdWindow' = [Swept EXCEPT ![p] = Counted(p)]
  <2>1. Swept[p].resetAt > rdNow /\ Counted(p) = CountedOn(Swept[p])
    <3>1. rdNow \in Int /\ Swept[p].resetAt \in Int
      BY <1>1, LimitsAre, WindowFields DEF QuotaHeld
    <3>2. CASE Swept[p].resetAt <= rdNow
      <4>1. Counted(p).count = 1
        BY <3>2, CountedIs
      <4> QED
        BY <1>4, <4>1, LimitsAre
    <3>3. CASE ~(Swept[p].resetAt <= rdNow)
      BY <3>1, <3>3, CountedIs
    <3> QED
      BY <3>2, <3>3
  <2>2. /\ Counted(p) \in Windows /\ Counted(p).resetAt = Swept[p].resetAt
        /\ Swept[p].count <= Counted(p).count
    <3>1. Swept[p].count \in Nat
      BY <1>1, WindowFields
    <3> QED
      BY <1>1, <2>1, <3>1, CountedOnIs
  <2>3. QuotaHeld(rdPassed[p], Counted(p), rdNow)
    BY <1>1, <2>1, <2>2, QuotaRefused
  <2>4. rdPassed' = [rdPassed EXCEPT ![p] = rdPassed[p]]
    BY <1>2 DEF ReaderShape
  <2>5. rdWindow' \in [Principal -> Windows]
    BY <1>1, <1>4, <2>2 DEF Swept
  <2> QED
    BY <1>2, <1>4, <2>3, <2>4, <2>5, EntryPut DEF ReaderShape
<1> QED
  BY <1>3, <1>4 DEF QuotaRefuses

LEMMA AllowedKeepsQuota ==
  ASSUME QuotaInv, ReaderShape, NEW p \in Principal, QuotaAllows(p), UNCHANGED rdNow
  PROVE  QuotaInv' /\ ReaderShape'
<1> DEFINE f == OneMore(rdPassed[p], rdNow)
<1>1. /\ QuotaHeld(rdPassed[p], Swept[p], rdNow) /\ Swept[p] \in Windows
      /\ \A q \in Principal : Swept[q] \in Windows
  BY SweptHeld
<1>2. /\ Counted(p).count <= RateLimit /\ rdWindow' = [Swept EXCEPT ![p] = Counted(p)]
      /\ rdPassed' = [rdPassed EXCEPT ![p] = f]
  BY DEF QuotaAllows, OneMore, ReaderShape
<1>3. rdNow \in Ticks /\ rdNow \in Nat /\ rdPassed[p] \in [Ticks -> Nat]
      /\ Swept[p].resetAt \in Nat /\ Swept[p].count \in Nat
  <2>1. rdNow \in Ticks /\ rdPassed[p] \in [Ticks -> Nat]
    BY <1>1 DEF QuotaHeld
  <2> QED
    BY <1>1, <2>1, LimitsAre, WindowFields
<1>4. f \in [Ticks -> Nat]
  BY <1>3, OneMoreIs
<1> HIDE DEF f
<1>5. QuotaHeld(f, Counted(p), rdNow)
  <2>1. CASE Swept[p].resetAt <= rdNow
    <3>1. Counted(p) = [count |-> 1, resetAt |-> rdNow + Window]
      BY <2>1, CountedIs
    <3> QED
      BY <1>1, <2>1, <3>1, QuotaOpened DEF f
  <2>2. CASE ~(Swept[p].resetAt <= rdNow)
    <3>1. Counted(p) = CountedOn(Swept[p]) /\ Swept[p].resetAt > rdNow
      BY <1>3, <2>2, CountedIs
    <3>2. /\ Counted(p) \in Windows /\ Counted(p).resetAt = Swept[p].resetAt
          /\ Counted(p).count = IF Swept[p].count > RateLimit THEN Swept[p].count
                                ELSE Swept[p].count + 1
      BY <1>1, <3>1, CountedOnIs
    <3>3. Counted(p).count = Swept[p].count + 1 /\ Swept[p].count + 1 <= RateLimit
      BY <1>2, <1>3, <3>2, LimitsAre
    <3> QED
      BY <1>1, <3>1, <3>2, <3>3, QuotaCounted DEF f
  <2> QED
    BY <2>1, <2>2
<1>6. rdWindow' \in [Principal -> Windows] /\ rdPassed' \in [Principal -> [Ticks -> Nat]]
  <2>1. Counted(p) \in Windows
    BY <1>5 DEF QuotaHeld
  <2>2. Swept \in [Principal -> Windows]
    BY <1>1 DEF Swept
  <2> QED
    BY <1>2, <1>4, <2>1, <2>2 DEF ReaderShape
<1> QED
  BY <1>2, <1>5, <1>6, EntryPut DEF ReaderShape

LEMMA TickKeepsQuota ==
  ASSUME QuotaInv, ReaderShape, ReaderTick
  PROVE  QuotaInv' /\ ReaderShape'
<1>1. rdNow < LastTick /\ rdNow' = rdNow + 1 /\ UNCHANGED <<rdWindow, rdPassed>>
  BY DEF ReaderTick
<1>2. \A p \in Principal : QuotaHeld(rdPassed[p], rdWindow[p], rdNow + 1)
  BY <1>1, QuotaTicks DEF QuotaInv
<1> QED
  BY <1>1, <1>2 DEF QuotaInv, ReaderShape

-----------------------------------------------------------------------------
(* The Reader's slots.                                                      *)

RequestState ==
  [of : Principal \cup {NoRequest.of}, stage : {"none", "handler", "body"},
   open : BOOLEAN, pulling : BOOLEAN, cancelling : BOOLEAN, released : BOOLEAN]

\* A request that is handled or whose body is open has its slot; one that has its
\* slot is still to end, by its handler, a pull or a cancellation.
Requests ==
  {q \in RequestState :
     /\ q.stage = "none" => q.released /\ ~q.open /\ ~q.pulling /\ ~q.cancelling
     /\ q.stage = "handler" => ~q.released /\ ~q.open /\ ~q.pulling /\ ~q.cancelling
     /\ ~q.released => q.of \in Principal
     /\ ~q.released /\ q.stage = "body" => q.open \/ q.pulling \/ q.cancelling
     /\ q.open => ~q.released /\ ~q.cancelling}

SlotInv ==
  /\ rdRequest \in [ReaderRequest -> Requests] /\ rdClientActive \in [Client -> Nat]
  /\ rdActive = Cardinality(Holders) /\ rdActive <= GlobalLimit
  /\ \A c \in Client : /\ rdClientActive[c] = Cardinality(OfClient(c, Holders))
                       /\ rdClientActive[c] <= PerClientLimit

LEMMA RequestFields ==
  ASSUME NEW q \in Requests
  PROVE  /\ q \in RequestState
         /\ q.stage \in {"none", "handler", "body"}
         /\ {q.open, q.pulling, q.cancelling, q.released} \subseteq BOOLEAN
         /\ q.of \in Principal \cup {NoRequest.of}
BY DEF Requests, RequestState

LEMMA NoRequestHeld == NoRequest \in Requests /\ NoRequest.released
<1>1. NoRequest \in RequestState
  BY DEF NoRequest, RequestState
<1> QED
  BY <1>1 DEF NoRequest, Requests

LEMMA HoldersFinite ==
  /\ IsFiniteSet(Holders) /\ \A c : IsFiniteSet(OfClient(c, Holders))
  /\ Cardinality(Holders) \in Nat /\ \A c : Cardinality(OfClient(c, Holders)) \in Nat
<1>1. Holders \in SUBSET ReaderRequest /\ \A c : OfClient(c, Holders) \in SUBSET Holders
  BY DEF Holders, OfClient
<1>2. IsFiniteSet(Holders)
  BY <1>1, ReaderAssumption, FS_Subset
<1>3. ASSUME NEW c PROVE IsFiniteSet(OfClient(c, Holders))
  BY <1>1, <1>2, FS_Subset
<1> QED
  BY <1>2, <1>3, FS_CardinalityType

\* A request goes on and keeps its slot, or keeps having none.
LEMMA SlotKept ==
  ASSUME SlotInv, NEW r \in ReaderRequest, NEW q \in Requests,
         rdRequest' = [rdRequest EXCEPT ![r] = q],
         q.released = rdRequest[r].released, ~q.released => q.of = rdRequest[r].of,
         UNCHANGED <<rdActive, rdClientActive>>
  PROVE  SlotInv'
<1>1. /\ rdRequest' \in [ReaderRequest -> Requests] /\ rdRequest'[r] = q
      /\ \A x \in ReaderRequest \ {r} : rdRequest'[x] = rdRequest[x]
  BY DEF SlotInv
<1>2. Holders' = Holders
  BY <1>1 DEF Holders
<1>3. ASSUME NEW c PROVE OfClient(c, Holders)' = OfClient(c, Holders)
  <2>1. \A x \in Holders : rdRequest'[x].of = rdRequest[x].of
    BY <1>1 DEF Holders
  <2> QED
    BY <1>2, <2>1 DEF OfClient
<1> QED
  BY <1>1, <1>2, <1>3 DEF SlotInv

LEMMA SlotTaken ==
  ASSUME SlotInv, NEW r \in ReaderRequest, rdRequest[r].released, NEW p \in Principal,
         NEW q \in Requests, ~q.released, q.of = p, ~Full(ClientOf[p]),
         rdRequest' = [rdRequest EXCEPT ![r] = q], rdActive' = rdActive + 1,
         rdClientActive' = [rdClientActive EXCEPT ![ClientOf[p]] = @ + 1]
  PROVE  SlotInv'
<1>1. /\ rdRequest' \in [ReaderRequest -> Requests] /\ rdRequest'[r] = q
      /\ \A x \in ReaderRequest \ {r} : rdRequest'[x] = rdRequest[x]
  BY DEF SlotInv
<1>2. Holders' = Holders \cup {r} /\ r \notin Holders
  BY <1>1 DEF Holders
<1>3. ClientOf[p] \in Client
  BY ReaderAssumption
<1>4. rdActive' = Cardinality(Holders') /\ rdActive' <= GlobalLimit
  <2>1. Cardinality(Holders \cup {r}) = Cardinality(Holders) + 1 /\ Cardinality(Holders) \in Nat
    BY <1>2, HoldersFinite, FS_AddElement
  <2> QED
    BY <1>2, <2>1, LimitsAre DEF SlotInv, Full
<1>5. ASSUME NEW c \in Client
      PROVE  /\ rdClientActive'[c] \in Nat /\ rdClientActive'[c] = Cardinality(OfClient(c, Holders)')
             /\ rdClientActive'[c] <= PerClientLimit
  <2>1. /\ rdClientActive[c] = Cardinality(OfClient(c, Holders)) /\ rdClientActive[c] \in Nat
        /\ rdClientActive[c] <= PerClientLimit
    BY HoldersFinite DEF SlotInv
  <2>2. CASE c = ClientOf[p]
    <3>1. OfClient(c, Holders)' = OfClient(c, Holders) \cup {r} /\ r \notin OfClient(c, Holders)
      BY <1>1, <1>2, <2>2 DEF OfClient, Holders
    <3>2. Cardinality(OfClient(c, Holders) \cup {r}) = Cardinality(OfClient(c, Holders)) + 1
      BY <3>1, HoldersFinite, FS_AddElement
    <3>3. rdClientActive'[c] = rdClientActive[c] + 1 /\ ~(rdClientActive[c] >= PerClientLimit)
      BY <1>3, <2>2 DEF SlotInv, Full
    <3> QED
      BY <2>1, <3>1, <3>2, <3>3, LimitsAre
  <2>3. CASE c # ClientOf[p]
    <3>1. OfClient(c, Holders)' = OfClient(c, Holders)
      BY <1>1, <1>2, <2>3 DEF OfClient, Holders
    <3>2. rdClientActive'[c] = rdClientActive[c]
      BY <2>3 DEF SlotInv
    <3> QED
      BY <2>1, <3>1, <3>2
  <2> QED
    BY <2>2, <2>3
<1>6. rdClientActive' \in [Client -> Nat]
  BY <1>5 DEF SlotInv
<1> QED
  BY <1>1, <1>4, <1>5, <1>6 DEF SlotInv

LEMMA SlotGiven ==
  ASSUME SlotInv, NEW r \in ReaderRequest, ~rdRequest[r].released,
         NEW q \in Requests, q.released,
         rdRequest' = [rdRequest EXCEPT ![r] = q], rdActive' = rdActive - 1,
         rdClientActive' = [rdClientActive EXCEPT
           ![ClientOf[rdRequest[r].of]] = IF @ > 0 THEN @ - 1 ELSE 0]
  PROVE  SlotInv'
<1> DEFINE p == rdRequest[r].of
<1>1. /\ rdRequest' \in [ReaderRequest -> Requests] /\ rdRequest'[r] = q
      /\ \A x \in ReaderRequest \ {r} : rdRequest'[x] = rdRequest[x]
  BY DEF SlotInv
<1>2. Holders' = Holders \ {r} /\ r \in Holders
  BY <1>1 DEF Holders
<1>3. p \in Principal /\ ClientOf[p] \in Client
  BY ReaderAssumption DEF SlotInv, Requests
<1>4. rdActive' = Cardinality(Holders') /\ rdActive' <= GlobalLimit
  <2>1. Cardinality(Holders \ {r}) = Cardinality(Holders) - 1 /\ Cardinality(Holders) \in Nat
    BY <1>2, HoldersFinite, FS_RemoveElement
  <2> QED
    BY <1>2, <2>1, LimitsAre DEF SlotInv
<1>5. ASSUME NEW c \in Client
      PROVE  /\ rdClientActive'[c] \in Nat /\ rdClientActive'[c] = Cardinality(OfClient(c, Holders)')
             /\ rdClientActive'[c] <= PerClientLimit
  <2>1. /\ rdClientActive[c] = Cardinality(OfClient(c, Holders)) /\ rdClientActive[c] \in Nat
        /\ rdClientActive[c] <= PerClientLimit
    BY HoldersFinite DEF SlotInv
  <2>2. CASE c = ClientOf[p]
    <3>1. OfClient(c, Holders)' = OfClient(c, Holders) \ {r} /\ r \in OfClient(c, Holders)
      BY <1>1, <1>2, <2>2 DEF OfClient, Holders
    <3>2. /\ Cardinality(OfClient(c, Holders) \ {r}) = Cardinality(OfClient(c, Holders)) - 1
          /\ Cardinality(OfClient(c, Holders) \ {r}) \in Nat
      BY <3>1, HoldersFinite, FS_RemoveElement, FS_CardinalityType
    <3>3. rdClientActive'[c] = IF rdClientActive[c] > 0 THEN rdClientActive[c] - 1 ELSE 0
      BY <1>3, <2>2 DEF SlotInv
    <3> QED
      BY <2>1, <3>1, <3>2, <3>3, LimitsAre
  <2>3. CASE c # ClientOf[p]
    <3>1. OfClient(c, Holders)' = OfClient(c, Holders)
      BY <1>1, <1>2, <2>3 DEF OfClient, Holders
    <3>2. rdClientActive'[c] = rdClientActive[c]
      BY <2>3 DEF SlotInv
    <3> QED
      BY <2>1, <3>1, <3>2
  <2> QED
    BY <2>2, <2>3
<1>6. rdClientActive' \in [Client -> Nat]
  BY <1>5 DEF SlotInv
<1> QED
  BY <1>1, <1>4, <1>5, <1>6 DEF SlotInv

\* What the steps make of a request.
Admitted(p) == [NoRequest EXCEPT !.of = p, !.stage = "handler", !.released = FALSE]
InBody(q) == [q EXCEPT !.stage = "body", !.open = TRUE, !.pulling = TRUE]
Pulling(q, b) == [q EXCEPT !.pulling = b]
Pulled(q) == [q EXCEPT !.pulling = FALSE, !.open = FALSE]
Cancelling(q) == [q EXCEPT !.open = FALSE, !.cancelling = TRUE]
CancelledOff(q) == [q EXCEPT !.cancelling = FALSE]
GivenBack(q) == [q EXCEPT !.released = TRUE]

LEMMA AdmittedIs ==
  ASSUME NEW p \in Principal
  PROVE  Admitted(p) \in Requests /\ ~Admitted(p).released /\ Admitted(p).of = p
<1>1. NoRequest \in RequestState
  BY NoRequestHeld, RequestFields
<1>2. /\ Admitted(p) \in RequestState /\ Admitted(p).of = p /\ Admitted(p).stage = "handler"
      /\ Admitted(p).released = FALSE /\ Admitted(p).open = NoRequest.open
      /\ Admitted(p).pulling = NoRequest.pulling
      /\ Admitted(p).cancelling = NoRequest.cancelling
  BY <1>1 DEF Admitted, RequestState
<1>3. ~NoRequest.open /\ ~NoRequest.pulling /\ ~NoRequest.cancelling
  BY DEF NoRequest
<1> QED
  BY <1>2, <1>3 DEF Requests

LEMMA BodyChanges ==
  ASSUME NEW q \in Requests
  PROVE  /\ q.stage = "handler" =>
              InBody(q) \in Requests /\ InBody(q).released = q.released /\ InBody(q).of = q.of
         /\ q.stage = "body" /\ q.open => \A b \in BOOLEAN :
              /\ Pulling(q, b) \in Requests /\ Pulling(q, b).released = q.released
              /\ Pulling(q, b).of = q.of
         /\ q.stage = "body" /\ q.open =>
              /\ Cancelling(q) \in Requests /\ Cancelling(q).released = q.released
              /\ Cancelling(q).of = q.of
<1>1. q \in RequestState
  BY RequestFields
<1>2. /\ InBody(q) \in RequestState /\ InBody(q).stage = "body" /\ InBody(q).open
      /\ InBody(q).released = q.released /\ InBody(q).of = q.of
      /\ InBody(q).cancelling = q.cancelling
  BY <1>1 DEF InBody, RequestState
<1>3. ASSUME NEW b \in BOOLEAN
      PROVE  /\ Pulling(q, b) \in RequestState /\ Pulling(q, b).stage = q.stage
             /\ Pulling(q, b).open = q.open /\ Pulling(q, b).released = q.released
             /\ Pulling(q, b).of = q.of /\ Pulling(q, b).cancelling = q.cancelling
  BY <1>1 DEF Pulling, RequestState
<1>4. /\ Cancelling(q) \in RequestState /\ Cancelling(q).stage = q.stage
      /\ ~Cancelling(q).open /\ Cancelling(q).cancelling
      /\ Cancelling(q).released = q.released /\ Cancelling(q).of = q.of
  BY <1>1 DEF Cancelling, RequestState
<1>5. q.stage = "handler" => InBody(q) \in Requests
  BY <1>2 DEF Requests
<1>6. ASSUME q.stage = "body", q.open, NEW b \in BOOLEAN PROVE Pulling(q, b) \in Requests
  BY <1>3, <1>6 DEF Requests
<1>7. q.stage = "body" /\ q.open => Cancelling(q) \in Requests
  BY <1>4 DEF Requests
<1> QED
  BY <1>2, <1>3, <1>4, <1>5, <1>6, <1>7

\* The end of a body leaves nothing open.
LEMMA BodyEnds ==
  ASSUME NEW q \in Requests, q.stage = "body"
  PROVE  /\ Pulled(q) \in RequestState /\ Pulled(q).stage = "body" /\ ~Pulled(q).open
         /\ q.cancelling => /\ CancelledOff(q) \in RequestState
                            /\ CancelledOff(q).stage = "body" /\ ~CancelledOff(q).open
<1>1. q \in RequestState
  BY RequestFields
<1>2. Pulled(q) \in RequestState /\ Pulled(q).stage = "body" /\ ~Pulled(q).open
  BY <1>1 DEF Pulled, RequestState
<1>3. CancelledOff(q) \in RequestState /\ CancelledOff(q).stage = "body"
      /\ CancelledOff(q).open = q.open
  BY <1>1 DEF CancelledOff, RequestState
<1>4. q.cancelling => ~q.open
  BY DEF Requests
<1> QED
  BY <1>2, <1>3, <1>4

LEMMA SlotReleased ==
  ASSUME SlotInv, NEW r \in ReaderRequest, NEW left \in RequestState, ~left.open,
         left.stage = "body" \/ left = NoRequest, Release(r, left)
  PROVE  SlotInv'
<1> DEFINE q == IF left.pulling \/ left.cancelling THEN GivenBack(left) ELSE NoRequest
<1>1. q \in Requests /\ q.released
  <2>1. CASE left.pulling \/ left.cancelling
    <3>1. left.stage = "body"
      BY <2>1 DEF NoRequest
    <3>2. /\ GivenBack(left) \in RequestState /\ GivenBack(left).released = TRUE
          /\ GivenBack(left).stage = "body" /\ GivenBack(left).open = left.open
      BY <3>1 DEF GivenBack, RequestState
    <3>3. GivenBack(left) \in Requests
      BY <3>2 DEF Requests
    <3> QED
      BY <2>1, <3>2, <3>3
  <2>2. CASE ~(left.pulling \/ left.cancelling)
    BY <2>2, NoRequestHeld
  <2> QED
    BY <2>1, <2>2
<1>2. rdRequest' = [rdRequest EXCEPT ![r] = q]
  BY DEF Release, GivenBack
<1> HIDE DEF q
<1>3. rdRequest[r] \in Requests /\ rdRequest[r].released \in BOOLEAN
  BY RequestFields DEF SlotInv
<1>4. CASE Leased(r)
  BY <1>1, <1>2, <1>4, SlotGiven DEF Release, Leased
<1>5. CASE ~Leased(r)
  <2>1. q.released \in BOOLEAN
    BY <1>1, RequestFields
  <2>2. q.released = rdRequest[r].released
    BY <1>1, <1>3, <1>5, <2>1 DEF Leased
  <2> QED
    BY <1>1, <1>2, <1>5, <2>2, SlotKept DEF Release
<1> QED
  BY <1>4, <1>5

LEMMA RequestSteps ==
  ASSUME SlotInv, NEW r \in ReaderRequest,
         \/ HandlerEnds(r) \/ BodyStarts(r)
         \/ ChunkRead(r) \/ Pull(r) \/ PullEnds(r)
         \/ Cancel(r) \/ CancelEnds(r)
  PROVE  SlotInv' /\ UNCHANGED <<rdNow, rdWindow, rdPassed>>
<1> DEFINE q == rdRequest[r]
<1>1. q \in Requests
  BY DEF SlotInv
<1>2. CASE HandlerEnds(r)
  <2>1. NoRequest \in RequestState /\ ~NoRequest.open
    BY NoRequestHeld, RequestFields DEF NoRequest
  <2> QED
    BY <1>2, <2>1, SlotReleased DEF HandlerEnds, AtStage
<1>3. CASE BodyStarts(r)
  <2>1. rdRequest' = [rdRequest EXCEPT ![r] = InBody(q)] /\ q.stage = "handler"
        /\ UNCHANGED <<rdActive, rdClientActive>> /\ UNCHANGED <<rdNow, rdWindow, rdPassed>>
    BY <1>3 DEF BodyStarts, AtStage, InBody
  <2> QED
    BY <1>1, <2>1, BodyChanges, SlotKept
<1>4. CASE ChunkRead(r) \/ Pull(r)
  <2>1. PICK b \in BOOLEAN : rdRequest' = [rdRequest EXCEPT ![r] = Pulling(q, b)]
    BY <1>4 DEF ChunkRead, Pull, Pulling
  <2>2. q.stage = "body" /\ q.open
        /\ UNCHANGED <<rdActive, rdClientActive>> /\ UNCHANGED <<rdNow, rdWindow, rdPassed>>
    BY <1>4 DEF ChunkRead, Pull, AtStage
  <2> QED
    BY <1>1, <2>1, <2>2, BodyChanges, SlotKept
<1>5. CASE PullEnds(r)
  <2>1. q.stage = "body" /\ Release(r, Pulled(q)) /\ UNCHANGED <<rdNow, rdWindow, rdPassed>>
    BY <1>5 DEF PullEnds, AtStage, Pulled
  <2> QED
    BY <1>1, <2>1, BodyEnds, SlotReleased
<1>6. CASE Cancel(r)
  <2>1. rdRequest' = [rdRequest EXCEPT ![r] = Cancelling(q)] /\ q.stage = "body" /\ q.open
        /\ UNCHANGED <<rdActive, rdClientActive>> /\ UNCHANGED <<rdNow, rdWindow, rdPassed>>
    BY <1>6 DEF Cancel, AtStage, Cancelling
  <2> QED
    BY <1>1, <2>1, BodyChanges, SlotKept
<1>7. CASE CancelEnds(r)
  <2>1. q.stage = "body" /\ q.cancelling /\ Release(r, CancelledOff(q))
        /\ UNCHANGED <<rdNow, rdWindow, rdPassed>>
    BY <1>7 DEF CancelEnds, AtStage, CancelledOff
  <2> QED
    BY <1>1, <2>1, BodyEnds, SlotReleased
<1> QED
  BY <1>2, <1>3, <1>4, <1>5, <1>6, <1>7

LEMMA RequestAdmitted ==
  ASSUME SlotInv, NEW r \in ReaderRequest, NEW p \in Principal, rdRequest[r] = NoRequest,
         ~Full(ClientOf[p]), Acquire(r, p)
  PROVE  SlotInv'
<1>1. rdRequest' = [rdRequest EXCEPT ![r] = Admitted(p)] /\ rdActive' = rdActive + 1
      /\ rdClientActive' = [rdClientActive EXCEPT ![ClientOf[p]] = @ + 1]
  BY DEF Acquire, Admitted
<1> QED
  BY <1>1, NoRequestHeld, AdmittedIs, SlotTaken

-----------------------------------------------------------------------------
(* Both of them.                                                            *)

ReaderInv == rdNow \in Ticks /\ ReaderShape /\ QuotaInv /\ SlotInv

LEMMA ReaderInvInit == ReaderInit => ReaderInv
<1> SUFFICES ASSUME ReaderInit PROVE ReaderInv
  OBVIOUS
<1> DEFINE none == [t \in 0..LastTick |-> 0]
<1>1. rdNow = 0 /\ 0 \in Ticks
  BY LimitsAre DEF ReaderInit, Ticks
<1>2. NoEntry \in Windows /\ NoEntry.resetAt = 0
  BY LimitsAre DEF NoEntry, Windows
<1>3. none \in [Ticks -> Nat] /\ \A t \in Ticks : none[t] = 0
  BY DEF Ticks
<1>4. /\ \A p \in Principal : rdPassed[p] = none /\ rdWindow[p] = NoEntry
      /\ rdPassed = [p \in Principal |-> none]
  BY DEF ReaderInit
<1> HIDE DEF none
<1>5. ReaderShape
  BY <1>2, <1>3, <1>4 DEF ReaderShape, ReaderInit
<1>6. \A a, b \in Int : SpanSum(none, a, b) = 0
  <2> SUFFICES ASSUME NEW a \in Int, NEW b \in Int PROVE SpanSum(none, a, b) = 0
    OBVIOUS
  <2>1. Ticks \cap (a..b) \in SUBSET Ticks
    OBVIOUS
  <2>2. IsFiniteSet(Ticks \cap (a..b)) /\ \A x \in Ticks \cap (a..b) : none[x] = 0
    BY <1>3, <2>1, LimitsAre, FS_Subset
  <2> QED
    BY <2>2, SumZero DEF SpanSum
<1>7. QuotaHeld(none, NoEntry, 0)
  <2>1. \A t \in Ticks : t \in Int /\ t + Window - 1 \in Int /\ LastTick \in Int
    BY LimitsAre
  <2>2. ~(NoEntry.resetAt > 0) /\ NoEntry.resetAt <= 0 /\ 0 < 2 * RateLimit /\ 0 < RateLimit
    BY <1>2, LimitsAre
  <2> QED
    BY <1>1, <1>2, <1>3, <1>6, <2>1, <2>2 DEF QuotaHeld
<1>8. QuotaInv
  BY <1>1, <1>4, <1>7 DEF QuotaInv
<1>9. SlotInv
  <2>1. /\ rdRequest = [r \in ReaderRequest |-> NoRequest] /\ rdActive = 0
        /\ rdClientActive = [c \in Client |-> 0]
    BY DEF ReaderInit
  <2>2. Holders = {} /\ \A c : OfClient(c, Holders) = {}
    BY <2>1, NoRequestHeld DEF Holders, OfClient
  <2> QED
    BY <2>1, <2>2, NoRequestHeld, FS_EmptySet, LimitsAre DEF SlotInv
<1> QED
  BY <1>1, <1>5, <1>8, <1>9 DEF ReaderInv

LEMMA SlotsUndisturbed ==
  ASSUME SlotInv, UNCHANGED <<rdActive, rdClientActive, rdRequest>>
  PROVE  SlotInv'
BY DEF SlotInv, Holders, OfClient

LEMMA QuotaUndisturbed ==
  ASSUME QuotaInv, ReaderShape, UNCHANGED <<rdNow, rdWindow, rdPassed>>
  PROVE  QuotaInv' /\ ReaderShape'
BY DEF QuotaInv, ReaderShape

LEMMA ReaderInvNext == ReaderInv /\ [ReaderNext]_rdVars => ReaderInv'
<1> SUFFICES ASSUME ReaderInv, [ReaderNext]_rdVars PROVE ReaderInv'
  OBVIOUS
<1> USE DEF ReaderInv
<1>1. ASSUME NEW r \in ReaderRequest, NEW p \in Principal, Admit(r, p) PROVE ReaderInv'
  <2>1. rdRequest[r] = NoRequest /\ UNCHANGED rdNow
    BY <1>1 DEF Admit
  <2>2. CASE QuotaRefuses(p) /\ UNCHANGED <<rdActive, rdClientActive, rdRequest>>
    BY <2>1, <2>2, RefusedKeepsQuota, SlotsUndisturbed
  <2>3. CASE QuotaAllows(p) /\ UNCHANGED <<rdActive, rdClientActive, rdRequest>>
    BY <2>1, <2>3, AllowedKeepsQuota, SlotsUndisturbed
  <2>4. CASE QuotaAllows(p) /\ ~Full(ClientOf[p]) /\ Acquire(r, p)
    BY <2>1, <2>4, AllowedKeepsQuota, RequestAdmitted
  <2> QED
    BY <1>1, <2>2, <2>3, <2>4 DEF Admit
<1>2. ASSUME NEW r \in ReaderRequest,
             \/ HandlerEnds(r) \/ BodyStarts(r)
             \/ ChunkRead(r) \/ Pull(r) \/ PullEnds(r)
             \/ Cancel(r) \/ CancelEnds(r)
      PROVE  ReaderInv'
  BY <1>2, RequestSteps, QuotaUndisturbed
<1>3. CASE ReaderTick
  <2>1. rdNow' \in Ticks
    BY <1>3, LimitsAre DEF ReaderTick, Ticks
  <2> QED
    BY <1>3, <2>1, TickKeepsQuota, SlotsUndisturbed DEF ReaderTick
<1>4. CASE UNCHANGED rdVars
  BY <1>4, QuotaUndisturbed, SlotsUndisturbed DEF rdVars
<1> QED
  BY <1>1, <1>2, <1>3, <1>4 DEF ReaderNext

\* The clock, the limiters' maps and the requests stay well formed.
THEOREM ReaderTyped == ReaderSpec => []ReaderTypeOK
<1>1. ReaderInv => ReaderTypeOK
  <2> SUFFICES ASSUME ReaderInv PROVE ReaderTypeOK
    OBVIOUS
  <2>1. rdRequest \in [ReaderRequest -> RequestState]
    BY DEF ReaderInv, SlotInv, Requests
  <2>2. rdActive \in Int
    BY HoldersFinite DEF ReaderInv, SlotInv
  <2> QED
    BY <2>1, <2>2 DEF ReaderInv, ReaderShape, SlotInv, ReaderTypeOK, RequestState, Ticks, Windows
<1> QED
  BY <1>1, ReaderInvInit, ReaderInvNext, PTL DEF ReaderSpec

LEMMA WithinSlots == ReaderInv => SlotsAreHeld /\ AnsweringWithinLimits
<1> SUFFICES ASSUME ReaderInv PROVE SlotsAreHeld /\ AnsweringWithinLimits
  OBVIOUS
<1>1. \A r \in ReaderRequest : rdRequest[r] \in Requests
  BY DEF ReaderInv, SlotInv
<1>2. SlotsAreHeld
  <2>1. \A r \in Holders : rdRequest[r].stage = "body" =>
          rdRequest[r].open \/ rdRequest[r].pulling \/ rdRequest[r].cancelling
    BY <1>1 DEF Holders, Requests
  <2> QED
    BY <2>1 DEF ReaderInv, SlotInv, SlotsAreHeld
<1>3. Answering \in SUBSET Holders
  BY <1>1 DEF Answering, Holders, Requests
<1>4. Cardinality(Answering) <= GlobalLimit
  <2>1. Cardinality(Answering) <= Cardinality(Holders) /\ Cardinality(Answering) \in Nat
    BY <1>3, HoldersFinite, FS_Subset, FS_CardinalityType
  <2>2. Cardinality(Holders) <= GlobalLimit /\ Cardinality(Holders) \in Nat /\ GlobalLimit \in Nat
    BY HoldersFinite, LimitsAre DEF ReaderInv, SlotInv
  <2> QED
    BY <2>1, <2>2
<1>5. ASSUME NEW c \in Client PROVE Cardinality(OfClient(c, Answering)) <= PerClientLimit
  <2>1. OfClient(c, Answering) \in SUBSET OfClient(c, Holders)
    BY <1>3 DEF OfClient
  <2>2. /\ Cardinality(OfClient(c, Answering)) <= Cardinality(OfClient(c, Holders))
        /\ Cardinality(OfClient(c, Answering)) \in Nat
    BY <2>1, HoldersFinite, FS_Subset, FS_CardinalityType
  <2>3. /\ Cardinality(OfClient(c, Holders)) <= PerClientLimit
        /\ Cardinality(OfClient(c, Holders)) \in Nat /\ PerClientLimit \in Nat
    BY HoldersFinite, LimitsAre DEF ReaderInv, SlotInv
  <2> QED
    BY <2>2, <2>3
<1> QED
  BY <1>2, <1>3, <1>4, <1>5 DEF AnsweringWithinLimits

\* Whatever clients do with the bodies of their responses, the limiter counts the
\* slots that are held, what is answered stays within both limits, and in no span of
\* a window's length do twice as many requests pass as one window allows.
THEOREM LimitsHold == ReaderSpec => []ReaderWithinLimits
<1>1. ReaderInv => QuotaKept
  BY DEF ReaderInv, QuotaInv, QuotaHeld, QuotaKept, SpanSum, Ticks
<1>2. ReaderInv => ReaderWithinLimits
  BY <1>1, WithinSlots DEF ReaderWithinLimits
<1> QED
  BY <1>2, ReaderInvInit, ReaderInvNext, PTL DEF ReaderSpec

-----------------------------------------------------------------------------
(* All of the hub, the copilot and the reader beside one another, as MCHub  *)
(* runs them.                                                               *)

\* A behaviour of the composition is one of each of its parts, so what is proved
\* of a part holds there.
THEOREM HubRunsParts ==
  Spec => /\ HubSpec /\ WizardSpec /\ LoginSpec /\ SignalSpec /\ CopilotSpec /\ ReaderSpec
          /\ [](part \in Parts)
<1> DEFINE all == <<part, hubVars, wzVars, hlVars, swVars, cpVars, rdVars>>
<1>1. Init => /\ HubInit /\ WizardInit /\ LoginInit /\ SignalInit /\ CopilotInit
              /\ ReaderInit /\ part \in Parts
  BY DEF Init, WizardIdle, SignalIdle
<1>2. [Next]_all => /\ [HubNext]_hubVars /\ [WizardNext]_wzVars /\ [LoginNext]_hlVars
                    /\ [SignalNext]_swVars /\ [CopilotNext]_cpVars /\ [ReaderNext]_rdVars
  BY DEF Next
<1>3. part \in Parts /\ [Next]_all => (part \in Parts)'
  BY DEF Next
<1>4. Spec <=> Init /\ [][Next]_all
  BY DEF Spec
<1> HIDE DEF all
<1> QED
  BY <1>1, <1>2, <1>3, <1>4, PTL
     DEF HubSpec, WizardSpec, LoginSpec, SignalSpec, CopilotSpec, ReaderSpec

\* Whichever part runs, its records are of the shape they are read with.
THEOREM HubPartsTyped == Spec => []HubTypesOK
<1>1. /\ HubTypeOK /\ WizardTypeOK /\ LoginTypeOK /\ SignalTypeOK /\ CopilotTypeOK
      /\ ReaderTypeOK /\ part \in Parts
      => HubTypesOK
  BY PartsAssumption DEF HubTypesOK
<1> QED
  BY <1>1, HubRunsParts, HubTyped, WizardTyped, LoginTyped, SignalTyped, CopilotTyped,
     ReaderTyped, PTL
=============================================================================
