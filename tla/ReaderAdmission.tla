--------------------------- MODULE ReaderAdmission ---------------------------
(***************************************************************************)
(* Admission of requests to the Knowledge Reader (reader-http.js): a quota *)
(* per principal and window, then a slot of the concurrency limiter, which *)
(* is given back by whichever comes first of the handler's failure, the    *)
(* end or failure of the response body and its cancellation by the client. *)
(* A request is authenticated before Admit; the clock is that of its reads.*)
(***************************************************************************)
EXTENDS Integers, FiniteSetsExt

CONSTANTS
  Principal, Client, ClientOf,  \* a principal is a subject of an OAuth client
  ReaderRequest,
  RateLimit, Window,            \* rateLimitPerMinute, windowMs in ticks
  MaxTracked,                   \* entries the rate limiter keeps: 10_000
  GlobalLimit, PerClientLimit,
  LastTick                      \* bound of the clock

ASSUME ReaderAssumption ==
  /\ ClientOf \in [Principal -> Client] /\ IsFiniteSet(ReaderRequest)
  /\ {RateLimit, Window, MaxTracked, GlobalLimit, PerClientLimit, LastTick} \subseteq Nat \ {0}

VARIABLES
  rdNow,
  rdWindow,        \* the rate limiter's map of entries
  rdPassed,        \* how many requests of each principal passed it at each tick
  rdActive,        \* globalActive
  rdClientActive,  \* the concurrency limiter's map
  rdRequest        \* the requests that passed both limiters

rdVars == <<rdNow, rdWindow, rdPassed, rdActive, rdClientActive, rdRequest>>

NoEntry == [count |-> 0, resetAt |-> 0]
NoRequest == [of |-> "nobody", stage |-> "none", open |-> FALSE, pulling |-> FALSE,
              cancelling |-> FALSE, released |-> TRUE]

ReaderTypeOK ==
  /\ rdNow \in 0..LastTick
  /\ rdWindow \in [Principal -> [count : 0..(RateLimit + 1), resetAt : 0..(LastTick + Window)]]
  /\ rdPassed \in [Principal -> [0..LastTick -> Nat]]
  /\ rdActive \in Int
  /\ rdClientActive \in [Client -> Nat]
  /\ rdRequest \in [ReaderRequest ->
       [of : Principal \cup {NoRequest.of}, stage : {"none", "handler", "body"},
        open : BOOLEAN, pulling : BOOLEAN, cancelling : BOOLEAN, released : BOOLEAN]]

ReaderInit ==
  /\ rdNow = 0
  /\ rdWindow = [p \in Principal |-> NoEntry]
  /\ rdPassed = [p \in Principal |-> [t \in 0..LastTick |-> 0]]
  /\ rdActive = 0
  /\ rdClientActive = [c \in Client |-> 0]
  /\ rdRequest = [r \in ReaderRequest |-> NoRequest]
-----------------------------------------------------------------------------
(* The rate limiter *)

Tracked(window) == {p \in Principal : window[p] # NoEntry}
Lapsed(entry) == entry.resetAt <= rdNow

\* A full map forgets the entries whose window is over.
Swept ==
  [p \in Principal |-> IF Cardinality(Tracked(rdWindow)) >= MaxTracked /\ Lapsed(rdWindow[p])
                       THEN NoEntry ELSE rdWindow[p]]

NoRoom(p) == Swept[p] = NoEntry /\ Cardinality(Tracked(Swept)) >= MaxTracked

\* Counted to one past the limit and no further.
Counted(p) ==
  IF Lapsed(Swept[p]) THEN [count |-> 1, resetAt |-> rdNow + Window]
  ELSE [Swept[p] EXCEPT !.count = IF @ > RateLimit THEN @ ELSE @ + 1]

QuotaRefuses(p) ==
  /\ \/ NoRoom(p) /\ rdWindow' = Swept
     \/ /\ ~NoRoom(p) /\ Counted(p).count > RateLimit
        /\ rdWindow' = [Swept EXCEPT ![p] = Counted(p)]
  /\ UNCHANGED rdPassed

QuotaAllows(p) ==
  /\ ~NoRoom(p) /\ Counted(p).count <= RateLimit
  /\ rdWindow' = [Swept EXCEPT ![p] = Counted(p)]
  /\ rdPassed' = [rdPassed EXCEPT ![p][rdNow] = @ + 1]
-----------------------------------------------------------------------------
(* The concurrency limiter *)

Full(c) == rdActive >= GlobalLimit \/ rdClientActive[c] >= PerClientLimit

Acquire(r, p) ==
  /\ rdActive' = rdActive + 1
  /\ rdClientActive' = [rdClientActive EXCEPT ![ClientOf[p]] = @ + 1]
  /\ rdRequest' = [rdRequest EXCEPT ![r] =
       [NoRequest EXCEPT !.of = p, !.stage = "handler", !.released = FALSE]]

\* A mutation: a lease can be released again.
EveryLease(r) == TRUE

Leased(r) == ~rdRequest[r].released

\* release, and what is left of the request: nothing, once its body is over and
\* neither a pull nor a cancellation of it is under way.
Release(r, left) ==
  /\ IF Leased(r)
     THEN /\ rdActive' = rdActive - 1
          /\ rdClientActive' = [rdClientActive EXCEPT
                                  ![ClientOf[rdRequest[r].of]] = IF @ > 0 THEN @ - 1 ELSE 0]
     ELSE UNCHANGED <<rdActive, rdClientActive>>
  /\ rdRequest' = [rdRequest EXCEPT ![r] = IF left.pulling \/ left.cancelling
                                           THEN [left EXCEPT !.released = TRUE] ELSE NoRequest]
-----------------------------------------------------------------------------
(* The handler of /mcp *)

\* From the answer of authenticate to handler.fetch: nothing waits in between.
\* A batch is refused after it was counted.
Admit(r, p) ==
  /\ rdRequest[r] = NoRequest
  /\ \/ QuotaRefuses(p) /\ UNCHANGED <<rdActive, rdClientActive, rdRequest>>
     \/ QuotaAllows(p) /\ UNCHANGED <<rdActive, rdClientActive, rdRequest>>  \* batch, or Full
     \/ QuotaAllows(p) /\ ~Full(ClientOf[p]) /\ Acquire(r, p)
  /\ UNCHANGED rdNow

AtStage(r, stage) ==
  /\ rdRequest[r].stage = stage
  /\ UNCHANGED <<rdNow, rdWindow, rdPassed>>

\* handler.fetch throws, or answers without a body.
HandlerEnds(r) ==
  /\ AtStage(r, "handler")
  /\ Release(r, NoRequest)

\* The wrapped body is a stream that pulls its first chunk at once.
BodyStarts(r) ==
  /\ AtStage(r, "handler")
  /\ rdRequest' = [rdRequest EXCEPT ![r].stage = "body", ![r].open = TRUE, ![r].pulling = TRUE]
  /\ UNCHANGED <<rdActive, rdClientActive>>

\* A chunk arrives; the client asks for the next one when it has read it.
ChunkRead(r) ==
  /\ AtStage(r, "body")
  /\ rdRequest[r].open /\ rdRequest[r].pulling
  /\ rdRequest' = [rdRequest EXCEPT ![r].pulling = FALSE]
  /\ UNCHANGED <<rdActive, rdClientActive>>

Pull(r) ==
  /\ AtStage(r, "body")
  /\ rdRequest[r].open /\ ~rdRequest[r].pulling
  /\ rdRequest' = [rdRequest EXCEPT ![r].pulling = TRUE]
  /\ UNCHANGED <<rdActive, rdClientActive>>

\* The read ends: the body is done, it failed, or it was cancelled meanwhile (then
\* close throws and the catch clause releases once more).
PullEnds(r) ==
  /\ AtStage(r, "body")
  /\ rdRequest[r].pulling
  /\ Release(r, [rdRequest[r] EXCEPT !.pulling = FALSE, !.open = FALSE])

\* The client goes away: a read that is under way ends, and cancel waits.
Cancel(r) ==
  /\ AtStage(r, "body")
  /\ rdRequest[r].open
  /\ rdRequest' = [rdRequest EXCEPT ![r].open = FALSE, ![r].cancelling = TRUE]
  /\ UNCHANGED <<rdActive, rdClientActive>>

CancelEnds(r) ==
  /\ AtStage(r, "body")
  /\ rdRequest[r].cancelling
  /\ Release(r, [rdRequest[r] EXCEPT !.cancelling = FALSE])

ReaderTick ==
  /\ rdNow < LastTick
  /\ rdNow' = rdNow + 1
  /\ UNCHANGED <<rdWindow, rdPassed, rdActive, rdClientActive, rdRequest>>

ReaderNext ==
  \/ \E r \in ReaderRequest :
       \/ \E p \in Principal : Admit(r, p)
       \/ HandlerEnds(r) \/ BodyStarts(r)
       \/ ChunkRead(r) \/ Pull(r) \/ PullEnds(r)
       \/ Cancel(r) \/ CancelEnds(r)
  \/ ReaderTick

ReaderSpec == ReaderInit /\ [][ReaderNext]_rdVars
-----------------------------------------------------------------------------
(* Properties *)

Holders == {r \in ReaderRequest : ~rdRequest[r].released}
Answering == {r \in ReaderRequest : rdRequest[r].stage = "handler" \/ rdRequest[r].open}
OfClient(c, requests) == {r \in requests : ClientOf[rdRequest[r].of] = c}

\* The limiter counts the slots that are held, each once: none is lost with a body
\* that failed or was cancelled, none is given back twice.
SlotsAreHeld ==
  /\ rdActive = Cardinality(Holders)
  /\ \A c \in Client : rdClientActive[c] = Cardinality(OfClient(c, Holders))
  /\ \A r \in Holders : rdRequest[r].stage = "body" =>
       rdRequest[r].open \/ rdRequest[r].pulling \/ rdRequest[r].cancelling

\* What is still being answered has its slot, so it stays within both limits.
AnsweringWithinLimits ==
  /\ Answering \subseteq Holders
  /\ Cardinality(Answering) <= GlobalLimit
  /\ \A c \in Client : Cardinality(OfClient(c, Answering)) <= PerClientLimit

\* Windows begin with a request, so in no span of that length do twice as many
\* requests of a principal pass as one window allows, even when the limiter forgets.
QuotaKept ==
  \A p \in Principal, t \in 0..LastTick :
    SumFunctionOnSet(rdPassed[p], (0..LastTick) \cap (t..(t + Window - 1))) < 2 * RateLimit

\* The Reader answers no more than its limits allow, whatever clients do with the
\* bodies of their responses (createConcurrencyLimiter, releaseWithResponseBody,
\* createFixedWindowRateLimiter).
ReaderWithinLimits == SlotsAreHeld /\ AnsweringWithinLimits /\ QuotaKept
=============================================================================
