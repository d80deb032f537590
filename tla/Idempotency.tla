---------------------------- MODULE Idempotency -----------------------------
(***************************************************************************)
(* The Idempotency-Key interceptor around an order or payment endpoint:    *)
(* idempotency.interceptor.ts, its repository and the table                *)
(* idempotency_keys.  A client may send any number of requests with the    *)
(* same key, at once or one after the other, with the same or another      *)
(* body; each of them is one element of Requests and runs once.            *)
(*                                                                         *)
(* The endpoint's handler commits its domain operation in one transaction  *)
(* or refuses it.  Faults names the awaited calls that may also fail:      *)
(* the handler's work after its commit (audit rows, building the           *)
(* response), and the interceptor's own statements.                        *)
(***************************************************************************)
EXTENDS Naturals, FiniteSets

CONSTANTS
  Requests,  \* HTTP requests
  Keys,      \* pairs of Idempotency-Key and endpoint
  Bodies,    \* request bodies, by their SHA-256
  MaxPolls,  \* MAX_POLL_ATTEMPTS
  Faults,    \* awaited calls that may fail
  Null       \* SQL NULL

FaultPoints == {"fetch", "afterCommit", "store", "release"}

\* Nothing fails between the handler's commit and the stored response.
CommitIsLast == Faults \cap {"afterCommit", "store"} = {}

\* A row of idempotency_keys; its id is the request that inserted it.
Marker == [owner: Requests, hash: Bodies, response: Requests \cup {Null}]

ASSUME NullAssumption == Null \notin Requests /\ Null \notin Marker

ASSUME PollAssumption == MaxPolls \in Nat /\ Faults \subseteq FaultPoints

VARIABLES
  marker,    \* idempotency_keys: the row of a key, Null if there is none
  key, body, \* what a request was sent with
  pc,        \* where a request is
  polls,     \* polls a waiting request has made
  answer,    \* the request whose response a request was answered with
  executed   \* the requests whose domain operation committed

keyVars == <<marker, key, body, pc, polls, answer, executed>>

\* Where a request waits for its next awaited call.
InHandler == {"executing", "committed"}
Owning    == {"fetching", "releasing"} \cup InHandler
InFlight  == {"looking", "inserting", "polling"} \cup Owning

\* How a request may end: with its own response, with the stored one, with
\* 409 for another body, 409 safe to retry, 409 still in progress, with the
\* error of its handler or of the database, its marker freed or left behind,
\* or with the server.
Ended == {"answered", "replayed", "conflict", "retry", "timeout", "failed", "stranded",
          "lost"}

KeyTypes ==
  /\ marker \in [Keys -> Marker \cup {Null}]
  /\ key \in [Requests -> Keys]
  /\ body \in [Requests -> Bodies]
  /\ pc \in [Requests -> {"unsent"} \cup InFlight \cup Ended]
  /\ polls \in [Requests -> 0 .. MaxPolls]
  /\ answer \in [Requests -> Requests \cup {Null}]
  /\ executed \subseteq Requests

KeyInit ==
  /\ marker = [k \in Keys |-> Null]
  /\ key \in [Requests -> Keys]
  /\ body \in [Requests -> Bodies]
  /\ pc = [r \in Requests |-> "unsent"]
  /\ polls = [r \in Requests |-> 0]
  /\ answer = [r \in Requests |-> Null]
  /\ executed = {}

-----------------------------------------------------------------------------
Free(k)      == marker[k] = Null
Pending(k)   == marker[k] # Null /\ marker[k].response = Null
Completed(k) == marker[k] # Null /\ marker[k].response # Null

\* Mutation: the hash of the body is not compared.
AnyBody(r) == TRUE

SameBody(r) == marker[key[r]].hash = body[r]

Goto(r, place) == pc' = [pc EXCEPT ![r] = place]

\* The client sends a request; nothing is read yet.
Send(r) ==
  /\ pc[r] = "unsent"
  /\ Goto(r, "looking")
  /\ UNCHANGED <<marker, key, body, polls, answer, executed>>

\* handleExisting on a completed row: replay it, or refuse another body.
AnswerFromRow(r) ==
  /\ Completed(key[r])
  /\ IF SameBody(r)
       THEN Goto(r, "replayed") /\ answer' = [answer EXCEPT ![r] = marker[key[r]].response]
       ELSE Goto(r, "conflict") /\ UNCHANGED answer
  /\ UNCHANGED <<marker, key, body, polls, executed>>

\* intercept up to the insert: the first sight of the key, or a twin's row.
LookUp(r) ==
  /\ pc[r] = "looking"
  /\ \/ AnswerFromRow(r)
     \/ /\ ~Completed(key[r])
        /\ Goto(r, IF Free(key[r]) THEN "inserting"
                   ELSE IF SameBody(r) THEN "polling" ELSE "conflict")
        /\ UNCHANGED <<marker, key, body, polls, answer, executed>>

\* Mutation: no unique index on (key, endpoint), the last insert wins.
AlwaysFree(k) == TRUE

\* uq_idempotency_keys_key_endpoint lets the marker in.
InsertSucceeds(k) == Free(k)

\* insertPending: the winner of a race owns the marker, the loser waits.
InsertMarker(r) ==
  /\ pc[r] = "inserting"
  /\ IF InsertSucceeds(key[r])
       THEN /\ marker' = [marker EXCEPT ![key[r]] =
                         [owner |-> r, hash |-> body[r], response |-> Null]]
            /\ Goto(r, "fetching")
       ELSE Goto(r, "polling") /\ UNCHANGED marker
  /\ UNCHANGED <<key, body, polls, answer, executed>>

\* The marker is read back for its id; if that read fails its error leaves the
\* interceptor and the marker stays.
FetchMarker(r) ==
  /\ pc[r] = "fetching"
  /\ \/ Goto(r, "executing")
     \/ "fetch" \in Faults /\ Goto(r, "stranded")
  /\ UNCHANGED <<marker, key, body, polls, answer, executed>>

-----------------------------------------------------------------------------
\* next.handle(): the endpoint's transaction commits, or refuses.
Execute(r) ==
  /\ pc[r] = "executing"
  /\ \/ Goto(r, "committed") /\ executed' = executed \cup {r}
     \/ Goto(r, "releasing") /\ UNCHANGED executed
  /\ UNCHANGED <<marker, key, body, polls, answer>>

\* storeResponse by the marker's id, once the handler's response is there.
StoreResponse(r) ==
  /\ pc[r] = "committed"
  /\ marker' = IF marker[key[r]] # Null /\ marker[key[r]].owner = r
              THEN [marker EXCEPT ![key[r]].response = r] ELSE marker
  /\ answer' = [answer EXCEPT ![r] = r]
  /\ Goto(r, "answered")
  /\ UNCHANGED <<key, body, polls, executed>>

\* The handler, or storeResponse, fails after the transaction committed.
FailAfterCommit(r) ==
  /\ pc[r] = "committed"
  /\ "afterCommit" \in Faults \/ "store" \in Faults
  /\ Goto(r, "releasing")
  /\ UNCHANGED <<marker, key, body, polls, answer, executed>>

\* Mutation: a failed handler leaves its marker behind.
MarkerAlone(k) == UNCHANGED marker

\* deleteIfPending names the key, not the marker's id.
DeleteIfPending(k) ==
  marker' = IF Pending(k) THEN [marker EXCEPT ![k] = Null] ELSE marker

\* catchError: the marker goes, and the handler's error is rethrown whether or
\* not the delete itself failed.
ReleaseKey(r) ==
  /\ pc[r] = "releasing"
  /\ \/ DeleteIfPending(key[r]) /\ Goto(r, "failed")
     \/ "release" \in Faults /\ Goto(r, "stranded") /\ UNCHANGED marker
  /\ UNCHANGED <<key, body, polls, answer, executed>>

-----------------------------------------------------------------------------
\* Mutation: wait until the twin is done.
PollForever(n) == TRUE

MayPoll(n) == n < MaxPolls

\* awaitCompletedResponse: one find and one sleep per poll.
Poll(r) ==
  /\ pc[r] = "polling"
  /\ MayPoll(polls[r])
  /\ \/ AnswerFromRow(r)
     \/ /\ ~Completed(key[r])
        /\ IF Free(key[r])
             THEN Goto(r, "retry") /\ UNCHANGED polls
             ELSE UNCHANGED pc /\ polls' = [polls EXCEPT ![r] =
                                  IF @ < MaxPolls THEN @ + 1 ELSE @]
        /\ UNCHANGED <<marker, key, body, answer, executed>>

\* The ceiling of polls is reached.
GiveUp(r) ==
  /\ pc[r] = "polling"
  /\ ~MayPoll(polls[r])
  /\ Goto(r, "timeout")
  /\ UNCHANGED <<marker, key, body, polls, answer, executed>>

\* A restart: rows stay, requests in flight get no answer.
LoseServer ==
  /\ \E r \in Requests : pc[r] \in InFlight
  /\ pc' = [r \in Requests |-> IF pc[r] \in InFlight THEN "lost" ELSE pc[r]]
  /\ UNCHANGED <<marker, key, body, polls, answer, executed>>

-----------------------------------------------------------------------------
ProceedRequest(r) ==
  \/ LookUp(r) \/ InsertMarker(r) \/ FetchMarker(r)
  \/ Execute(r) \/ StoreResponse(r) \/ FailAfterCommit(r) \/ ReleaseKey(r)
  \/ Poll(r) \/ GiveUp(r)

KeyNext == (\E r \in Requests : Send(r) \/ ProceedRequest(r)) \/ LoseServer

KeySpec == KeyInit /\ [][KeyNext]_keyVars

\* The event loop gets round to every request it has begun to handle; a client
\* need not send, and the server need not restart.
FairKeySpec == KeySpec /\ \A r \in Requests : WF_keyVars(ProceedRequest(r))

-----------------------------------------------------------------------------
\* Ruling Q1: whatever clients retry, and however requests with one key race
\* or the server restarts, the key's operation is executed at most once.
AtMostOnce ==
  \A r, s \in executed : key[r] = key[s] => r = s

\* Executed twice is what a request was whose handler or whose response's store
\* failed after the commit, and which has reported that failure; races, lost
\* markers and restarts never execute an operation again.
TwiceOnlyAfterFailure ==
  \A r, s \in executed :
    key[r] = key[s] /\ r # s =>
      \E t \in {r, s} : pc[t] \in {"releasing", "failed", "stranded"}

\* A replay is the response of an operation that committed for this very key
\* and body, and so is every memo a later retry will be given.
ReplaysAreOriginal ==
  /\ \A r \in Requests :
       pc[r] = "replayed" =>
         answer[r] \in executed /\ key[answer[r]] = key[r] /\ body[answer[r]] = body[r]
  /\ \A k \in Keys :
       Completed(k) =>
         marker[k].response \in executed /\ marker[k].hash = body[marker[k].response]

\* Of requests in their handlers with the same key there is one, and the
\* marker it will store its response in is its own.
HandlersOwnTheirMarker ==
  \A r \in Requests :
    pc[r] \in InHandler => marker[key[r]] # Null /\ marker[key[r]].owner = r /\ Pending(key[r])

\* A client is only told that its key was used with another body when some
\* request used it with another body.
ConflictsAreGenuine ==
  \A r \in Requests :
    pc[r] = "conflict" =>
      \E s \in Requests : pc[s] # "unsent" /\ key[s] = key[r] /\ body[s] # body[r]

\* Ruling Q1, on either side of the hash: what a client is told of its key, by a
\* replay or by a refusal, is so.
AnswersAreTrue == ReplaysAreOriginal /\ ConflictsAreGenuine

\* Every request that reaches the server is answered or lost with it; waiting
\* for a twin that died in a restart ends too.
EveryRequestEnds ==
  \A r \in Requests : pc[r] = "looking" ~> pc[r] \in Ended

\* A marker becomes a memo or disappears, so the key does not stay unusable,
\* unless its owner was lost in a restart, could not read it back or could not
\* delete it: nothing clears such a marker.
MarkersResolve ==
  \A k \in Keys : Pending(k) ~> ~Pending(k) \/ pc[marker[k].owner] \in {"lost", "stranded"}
=============================================================================
