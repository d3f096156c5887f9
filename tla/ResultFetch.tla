----------------------------- MODULE ResultFetch -----------------------------
(***************************************************************************)
(* PREPARE_REQUEST, FETCH_REQUEST and DISCONNECT_MESSAGE at a catalog      *)
(* object (catalog.ts).  A PREPARE stores the chunks of its result and     *)
(* answers the first batch; every FETCH moves the stored offset and        *)
(* answers the next one, so it cannot be repeated.  Requests travel over   *)
(* HTTP through the Worker: a client that waited too long gives a request  *)
(* up, which may still be served later, and its answer is lost.            *)
(*                                                                         *)
(* The object takes one request at a time and prepares without yielding to *)
(* another, so each is served in one step.  A chunk is its number.         *)
(***************************************************************************)
EXTENDS Naturals, Sequences

CONSTANTS Session,
          ChunksPerBatch,
          MaxChunks,      \* bound: chunks of a result
          MaxResults,     \* bound: results stored, and the names they get
          MaxTimeouts     \* bound: requests the client of each session gives up

ASSUME BatchesHoldChunks == ChunksPerBatch \in Nat \ {0}
ASSUME BoundsAreNaturals ==
    /\ {MaxChunks, MaxResults} \subseteq Nat
    /\ MaxTimeouts \in [Session -> Nat]

VARIABLES
    open,       \* rows of __dq_sessions
    results,    \* rows of __dq_results
    issued,     \* result ids created so far
    requests,   \* requests on their way to the object
    client      \* what the client of every session knows

vars == <<open, results, issued, requests, client>>

ResultId == 1..MaxResults
NoId == 0

Result == [session : Session, id : ResultId, size : 0..MaxChunks, next : 0..MaxChunks]

\* try: the client had given up that many requests when it sent this one.
Request == [session : Session, kind : {"prepare", "fetch", "disconnect"},
            id : ResultId \cup {NoId}, try : Nat]

Waiting == {"preparing", "fetching", "leaving"}
Phase == Waiting \cup {"idle", "reading", "complete", "broken", "gone"}

\* size: the chunks of the result it reads, which the client is not told.
Client == [phase : Phase, id : ResultId \cup {NoId}, size : 0..MaxChunks,
           got : Seq(1..MaxChunks), index : 0..MaxChunks, timeouts : Nat]

Smaller(m, n) == IF m < n THEN m ELSE n
Ceiling(n) == (n + ChunksPerBatch - 1) \div ChunksPerBatch

\* Mistaken: the offset goes on by whole batches.
NextOffsetPastEnd(x) == x.next + ChunksPerBatch

\* Mistaken: the index counts full batches only.
BatchIndexRoundedDown(x) == Smaller(x.next + ChunksPerBatch, x.size) \div ChunksPerBatch

\* slice(next, next + chunksPerBatch), and nextOffset after it.
NextOffset(x) == Smaller(x.next + ChunksPerBatch, x.size)
Batch(x) == [i \in 1..(NextOffset(x) - x.next) |-> x.next + i]
BatchIndex(x) == Ceiling(NextOffset(x))

Init ==
    /\ open = Session
    /\ results = {}
    /\ issued = 0
    /\ requests = {}
    /\ client = [s \in Session |-> [phase |-> "idle", id |-> NoId, size |-> 0, got |-> <<>>,
                                    index |-> 0, timeouts |-> 0]]

-----------------------------------------------------------------------------
(* The client (external)                                                   *)

Send(s, kind, id, phase) ==
    /\ requests' = requests \cup
         {[session |-> s, kind |-> kind, id |-> id, try |-> client[s].timeouts]}
    /\ client' = [client EXCEPT ![s].phase = phase]
    /\ UNCHANGED <<open, results, issued>>

SendPrepare(s) ==
    /\ client[s].phase \in {"idle", "complete", "broken"}
    /\ issued < MaxResults
    /\ Send(s, "prepare", NoId, "preparing")

SendFetch(s) ==
    /\ client[s].phase = "reading"
    /\ Send(s, "fetch", client[s].id, "fetching")

SendDisconnect(s) ==
    /\ client[s].phase \in {"idle", "reading", "complete", "broken"}
    /\ Send(s, "disconnect", NoId, "leaving")

\* The client gives up the request it waits for, and may send it again.
TimeOut(s) ==
    /\ client[s].phase \in Waiting
    /\ client[s].timeouts < MaxTimeouts[s]
    /\ client' = [client EXCEPT ![s].timeouts = @ + 1,
                                ![s].phase = CASE @ = "preparing" -> "idle"
                                               [] @ = "fetching"  -> "reading"
                                               [] @ = "leaving"   -> "gone"]
    /\ UNCHANGED <<open, results, issued, requests>>

Awaited(r) == r.try = client[r.session].timeouts

\* The answer reaches the client, which then knows what knowing says, or it is
\* lost: the client is no longer there for it, or it will time out.
Answer(r, knowing) ==
    /\ requests' = requests \ {r}
    /\ \/ /\ Awaited(r)
          /\ client' = [client EXCEPT ![r.session] = knowing]
       \/ /\ Awaited(r) => client[r.session].timeouts < MaxTimeouts[r.session]
          /\ UNCHANGED client

-----------------------------------------------------------------------------
(* The catalog object                                                      *)

\* Mistaken: the offset of the stored result does not count the first batch.
PrepareAtStart(r, size) ==
    LET s == r.session
        id == issued + 1
        x == [session |-> s, id |-> id, size |-> size, next |-> 0]
    IN  /\ r.kind = "prepare"
        /\ s \in open
        /\ id \in ResultId
        /\ issued' = id
        /\ results' = {y \in results : y.session # s} \cup {x}
        /\ Answer(r, [client[s] EXCEPT !.id = id, !.size = size, !.got = Batch(x),
                                       !.index = BatchIndex(x),
                                       !.phase = IF size > NextOffset(x) THEN "reading" ELSE "complete"])
        /\ UNCHANGED open

\* prepare: the result takes the place of the session's former one.
Prepare(r, size) ==
    LET s == r.session
        id == issued + 1
        x == [session |-> s, id |-> id, size |-> size, next |-> 0]
    IN  /\ r.kind = "prepare"
        /\ s \in open
        /\ id \in ResultId
        /\ issued' = id
        /\ results' = {y \in results : y.session # s} \cup {[x EXCEPT !.next = NextOffset(x)]}
        /\ Answer(r, [client[s] EXCEPT !.id = id, !.size = size, !.got = Batch(x),
                                       !.index = BatchIndex(x),
                                       !.phase = IF size > NextOffset(x) THEN "reading" ELSE "complete"])
        /\ UNCHANGED open

\* Denied by the policy, or an SQL error: the former result can still be fetched.
PrepareFails(r) ==
    /\ r.kind = "prepare"
    /\ r.session \in open
    /\ Answer(r, [client[r.session] EXCEPT !.phase = "idle"])
    /\ UNCHANGED <<open, results, issued>>

\* A client reads on while the index of every batch follows the one before.  An
\* empty batch ends the result, and has the index of the batch before it.
AfterBatch(k, x) ==
    IF Batch(x) = <<>>
    THEN [k EXCEPT !.phase = IF BatchIndex(x) = k.index THEN "complete" ELSE "broken"]
    ELSE IF BatchIndex(x) = k.index + 1
         THEN [k EXCEPT !.phase = "reading", !.got = @ \o Batch(x), !.index = BatchIndex(x)]
         ELSE [k EXCEPT !.phase = "broken"]

\* Mistaken: the result is looked up by its session alone.
FetchOfSession(r) ==
    /\ r.kind = "fetch"
    /\ r.session \in open
    /\ \E x \in results :
          /\ x.session = r.session
          /\ results' = (results \ {x}) \cup {[x EXCEPT !.next = NextOffset(x)]}
          /\ Answer(r, AfterBatch(client[r.session], x))
    /\ UNCHANGED <<open, issued>>

Fetch(r) ==
    /\ r.kind = "fetch"
    /\ r.session \in open
    /\ \E x \in results :
          /\ x.session = r.session
          /\ x.id = r.id
          /\ results' = (results \ {x}) \cup {[x EXCEPT !.next = NextOffset(x)]}
          /\ Answer(r, AfterBatch(client[r.session], x))
    /\ UNCHANGED <<open, issued>>

\* Mistaken: no answer is sent.
FetchClosedSilently(r) ==
    /\ r.kind = "fetch"
    /\ r.session \in open
    /\ ~ \E x \in results : x.session = r.session /\ x.id = r.id
    /\ requests' = requests \ {r}
    /\ UNCHANGED <<open, results, issued, client>>

\* "Result has been closed"
FetchClosed(r) ==
    /\ r.kind = "fetch"
    /\ r.session \in open
    /\ ~ \E x \in results : x.session = r.session /\ x.id = r.id
    /\ Answer(r, [client[r.session] EXCEPT !.phase = "broken"])
    /\ UNCHANGED <<open, results, issued>>

\* Mistaken: the stored result stays.
DisconnectKeepsResult(r) ==
    /\ r.kind = "disconnect"
    /\ r.session \in open
    /\ open' = open \ {r.session}
    /\ Answer(r, [client[r.session] EXCEPT !.phase = "gone"])
    /\ UNCHANGED <<results, issued>>

Disconnect(r) ==
    /\ r.kind = "disconnect"
    /\ r.session \in open
    /\ open' = open \ {r.session}
    /\ results' = {x \in results : x.session # r.session}
    /\ Answer(r, [client[r.session] EXCEPT !.phase = "gone"])
    /\ UNCHANGED issued

\* requireSession: "Invalid connection id", for whatever kind of request.
Refuse(r) ==
    /\ r.session \notin open
    /\ Answer(r, [client[r.session] EXCEPT !.phase = "gone"])
    /\ UNCHANGED <<open, results, issued>>

Serve(r) ==
    \/ \E size \in 0..MaxChunks : Prepare(r, size)
    \/ PrepareFails(r)
    \/ Fetch(r)
    \/ FetchClosed(r)
    \/ Disconnect(r)
    \/ Refuse(r)

Next ==
    \/ \E s \in Session : SendPrepare(s) \/ SendFetch(s) \/ SendDisconnect(s) \/ TimeOut(s)
    \/ \E r \in requests : Serve(r)

\* The platform serves what arrives; a client goes on with the result it reads and
\* does not wait for ever.
Fairness ==
    /\ \A s \in Session : WF_vars(\E r \in requests : r.session = s /\ Awaited(r) /\ Serve(r))
    /\ \A s \in Session : WF_vars(SendFetch(s)) /\ WF_vars(TimeOut(s))

Spec == Init /\ [][Next]_vars /\ Fairness

-----------------------------------------------------------------------------
(* Correctness                                                             *)

\* The rows hold what their columns say, an offset is within its result, and a
\* client waits for a request only while that one is the last it sent.
TypeOK ==
    /\ open \subseteq Session
    /\ results \subseteq Result
    /\ \A x \in results : x.next <= x.size
    /\ issued \in 0..MaxResults
    /\ requests \subseteq Request
    /\ DOMAIN client = Session
    /\ \A s \in Session :
          /\ client[s] \in [phase : Phase, id : ResultId \cup {NoId}, size : 0..MaxChunks,
                            got : {client[s].got}, index : 0..MaxChunks, timeouts : Nat]
          /\ \A i \in DOMAIN client[s].got : client[s].got[i] \in 1..MaxChunks

\* A session has at most one stored result, and none once it is disconnected: a
\* PREPARE given up and served after the DISCONNECT stores nothing that no
\* request would ever delete.
ResultsBelongToSessions ==
    /\ \A x \in results : x.session \in open
    /\ \A x, y \in results : x.session = y.session => x = y

\* The chunks a client has put together are the first ones of its result, each
\* once and in order, whatever answers were lost on the way.
ReadsAPrefix == \A s \in Session :
    LET k == client[s] IN
    /\ k.got = [i \in 1..Len(k.got) |-> i]
    /\ Len(k.got) <= k.size

\* A client told that its result has ended has all of it: batchIndex tells the end
\* of a result from an end whose last batch was lost.
CompleteMeansWhole == \A s \in Session :
    client[s].phase = "complete" => Len(client[s].got) = client[s].size

\* A client that never gave a request up meets no gap and no closed result.
OnlyLossBreaks == \A s \in Session :
    client[s].phase = "broken" => client[s].timeouts > 0

\* A client that reads a result comes to its end or is told that it cannot,
\* unless it leaves: no FETCH is left without an answer.
ReadingEnds == \A s \in Session :
    client[s].phase \in {"reading", "fetching"}
        ~> client[s].phase \in {"complete", "broken", "leaving", "gone"}
=============================================================================
