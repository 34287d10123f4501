----------------------------- MODULE HttpServer -----------------------------
(***************************************************************************)
(* The HTTP transport (transport/http.go, telemetry.go) and what the       *)
(* server does behind it (server/server.go): POST requests through the     *)
(* middleware to Handle, Server-Sent Event streams fed by the broker, the  *)
(* registry of spike subscriptions (dispatch/spike_subscriptions.go), and  *)
(* the order of Run's shutdown.                                            *)
(*                                                                         *)
(* The broker is its contract: an accepted event is appended to the log    *)
(* and offered to every open stream, whose queue drops what does not fit;  *)
(* MemoryBroker is the model of its inside.  One tick is the time in which *)
(* a rate limiter regains one token.  A rate limiter is named after the    *)
(* request that made it.                                                   *)
(*                                                                         *)
(* Left out: the request metrics, security headers, request ids, and the   *)
(* bus-backed stream, which runs only without a broker.                    *)
(***************************************************************************)
EXTENDS SpikeKinds, Sequences

CONSTANTS
  Request,        \* goroutines that serve one POST each
  Post,           \* the requests each of them may be given
  Client,         \* goroutines that serve one stream each
  Get,            \* the streams each of them may be asked for
  Load,           \* what there is in one execution: goroutines, time, events
  JobRecord,      \* job-state records the job manager may publish
  SubId,          \* ids that Create may draw
  Agent,          \* sparse agents in the registry
  V6,             \* the addresses that contain colons
  Local,          \* loopback addresses
  Burst,          \* tokens of a fresh limiter
  EvictAfter,     \* idle time after which a limiter is dropped
  MaxConns,       \* maxSSEConnsPerIP
  QueueDepth,     \* records a stream's queue holds
  SnapshotLimit,  \* defaultSpikeSnapshotLimit
  LogWindow, JobWindow,   \* throttle windows of the two throttled topics
  MaxClock, MaxJobEvents  \* bounds

ASSUME LimiterAssumption == Burst \in Nat \ {0} /\ EvictAfter \in Nat /\ EvictAfter >= Burst
ASSUME LoadAssumption ==
  \A l \in Load : /\ l.requests \subseteq Request /\ l.clients \subseteq Client
                  /\ l.clock \in 0..MaxClock /\ l.jobEvents \in 0..MaxJobEvents
ASSUME ClientAssumption == IsFiniteSet(Client)
ASSUME RecordAssumption == \A rec \in JobRecord : "at" \in DOMAIN rec
ASSUME LimitsAssumption ==
  /\ MaxConns \in Nat \ {0} /\ QueueDepth \in Nat \ {0} /\ SnapshotLimit \in Nat \ {0}
  /\ LogWindow \in Nat /\ JobWindow \in Nat /\ MaxClock \in Nat /\ MaxJobEvents \in Nat

VARIABLES
  clock,
  limiters,       \* rateLimiterStore.limiters by address
  buckets,        \* the limiters themselves; one nobody has used is full
  granted,        \* history: when each address was let through in time
  conns,          \* sseConnectionStore.conns by key, without the zero entries
  subs,           \* SpikeSubscriptionRegistry.subs by id
  req, stream,    \* the goroutines
  log,            \* the broker's records
  server,         \* where Run is
  jobEvents       \* events the job manager has published

limitVars == <<limiters, buckets, granted>>
vars == <<clock, limitVars, conns, subs, req, stream, log, server, jobEvents>>

Addr == {p.addr : p \in UNION {Post[q] : q \in Request}}
NoPost == [addr |-> "none"]
NoFilter == [kind |-> "all"]

IdleRequest == [pc |-> "idle", post |-> NoPost, lim |-> "none", got |-> 0,
                status |-> 0, result |-> <<>>]
IdleStream == [pc |-> "idle", get |-> NoPost, filter |-> NoFilter, queue |-> <<>>,
               taken |-> <<>>, frames |-> <<>>, lastEmitAt |-> [t \in {} |-> 0],
               stalled |-> FALSE]

\* What is left of a stream that has returned: its address, for the slot.
Ended(st, pc) == [IdleStream EXCEPT !.pc = pc, !.get = st.get]
ServedRequest == [IdleRequest EXCEPT !.pc = "done"]
ClosedStream == [IdleStream EXCEPT !.pc = "closed"]

Listening == server = "running"
MemoryClosed == server = "memory closed"

---------------------------------------------------------------------------
(* The broker's contract *)

\* The throttle window of a topic; 0 for none.
throttleWindow(topic) ==
  CASE topic = "notifications/log" -> LogWindow
    [] topic = "notifications/job-state" -> JobWindow
    [] OTHER -> 0

\* A stream that has subscribed to the broker: waiting, or writing to its client.
Subscribed(st) == st.pc \in {"stream", "write"}

\* Ingest and append, with the time where a throttle will look at it; every open
\* stream gets the record's number, or drops it.  Ingest refuses a record when the
\* broker is closed or its queue is full.
Publish(rec) ==
  \/ /\ ~MemoryClosed
     /\ log' = Append(log, [rec EXCEPT !.at = IF throttleWindow(rec.topic) > 0 THEN clock ELSE 0])
     /\ stream' = [c \in Client |->
          IF Subscribed(stream[c]) /\ Len(stream[c].queue) < QueueDepth
          THEN [stream[c] EXCEPT !.queue = Append(@, Len(log) + 1)]
          ELSE stream[c]]
  \/ UNCHANGED <<log, stream>>

\* Query with topics and a limit.
Newest(topics, limit) ==
  LET matching == SelectSeq([i \in DOMAIN log |-> i], LAMBDA i : log[i].topic \in topics)
      first == IF Len(matching) > limit THEN Len(matching) - limit + 1 ELSE 1
  IN SubSeq(matching, first, Len(matching))

---------------------------------------------------------------------------
(* Middleware *)

Min2(a, b) == IF a < b THEN a ELSE b

Limited(p) == p.addr \notin Local

\* The limiter of the address of q's request, under the lock of the store, which
\* is released before the limiter is asked.
getLimiter(q, p) ==
  LET lim == IF p.addr \in DOMAIN limiters THEN limiters[p.addr].lim ELSE q
  IN /\ limiters' = [a \in DOMAIN limiters \cup {p.addr} |->
          IF a = p.addr THEN [lim |-> lim, lastSeen |-> clock] ELSE limiters[a]]
     /\ req' = [req EXCEPT ![q] = [IdleRequest EXCEPT !.pc = "limit", !.post = p,
                                     !.lim = lim, !.got = clock]]
     /\ UNCHANGED <<buckets, granted>>

\* The tokens that a limiter has now.
Tokens(lim) == Min2(Burst, buckets[lim].tokens + clock - buckets[lim].last)

\* The request asks the limiter before a limiter that is dropped now could have
\* filled up: no later than this after it got it.
InTime(q) == clock - req[q].got <= EvictAfter - Burst

\* The status of a request that authMiddleware stops, and 0 for one it passes.
auth(p) ==
  CASE p.token \in {"none", "invalid"} -> 401
    [] p.token = "valid" /\ p.role \notin {"orchestrator", "worker"} -> 403
    [] OTHER -> 0

\* The entry of an address that has been seen lately is dropped as well.
MutEvict ==
  /\ limiters # << >>
  /\ limiters' = [a \in {} |-> 0]
  /\ UNCHANGED <<clock, buckets, granted, conns, subs, req, stream, log, server, jobEvents>>

\* A limiter is dropped from the store; a request that has got it keeps it.
evictLoop ==
  LET kept == {a \in DOMAIN limiters : limiters[a].lastSeen >= clock - EvictAfter}
  IN /\ kept # DOMAIN limiters
     /\ limiters' = [a \in kept |-> limiters[a]]
     /\ UNCHANGED <<clock, buckets, granted, conns, subs, req, stream, log, server, jobEvents>>

---------------------------------------------------------------------------
(* POST /mcp *)

\* handlePOST's own checks, after the middleware has passed the request.
bodyStatus(p) ==
  CASE ~p.json -> 415 [] p.json /\ p.oversize -> 413 [] OTHER -> 0

\* What authMiddleware and handlePOST make of a request that has come this far.
Admitted(p) ==
  IF auth(p) # 0 \/ bodyStatus(p) # 0 THEN ServedRequest
  ELSE [IdleRequest EXCEPT !.pc = "handle", !.post = p]

\* originMiddleware, and rateLimitMiddleware up to the limiter.
Arrive(q) ==
  /\ Listening
  /\ req[q].pc = "idle"
  /\ \E p \in Post[q] :
       \/ p.origin /\ Limited(p) /\ getLimiter(q, p)
       \/ /\ ~(p.origin /\ Limited(p))
          /\ req' = [req EXCEPT ![q] = IF p.origin THEN Admitted(p) ELSE ServedRequest]
          /\ UNCHANGED limitVars
  /\ UNCHANGED <<clock, conns, subs, stream, log, server, jobEvents>>

\* The limiter is asked: Allow takes a token of what it has now, or refuses.
rateLimit(q) ==
  LET lim == req[q].lim
      addr == req[q].post.addr
  IN /\ req[q].pc = "limit"
     /\ \/ /\ Tokens(lim) > 0
           /\ buckets' = [buckets EXCEPT ![lim] = [tokens |-> Tokens(lim) - 1, last |-> clock]]
           /\ granted' = IF InTime(q) THEN [granted EXCEPT ![addr] = Append(@, clock)] ELSE granted
           /\ req' = [req EXCEPT ![q] = Admitted(req[q].post)]
        \/ /\ Tokens(lim) <= 0
           /\ req' = [req EXCEPT ![q] = ServedRequest]
           /\ UNCHANGED <<buckets, granted>>
     /\ UNCHANGED <<clock, limiters, conns, subs, stream, log, server, jobEvents>>

Answer(q, result) ==
  req' = [req EXCEPT ![q] = [@ EXCEPT !.result = result, !.status = 200, !.pc = "publish"]]

NotFound == <<"not found">>

\* tools/call subscribe_ast_spikes: Authorized, then Create under a fresh id; a
\* refusal is a result as well.
CreateSubscription(q) ==
  /\ req[q].pc = "handle" /\ req[q].post.method = "subscribe"
  /\ LET crit == req[q].post.criteria
         permitted == req[q].post.role \in {"orchestrator", "worker"}
     IN IF permitted /\ ValidThreshold(crit.threshold)
        THEN \E id \in SubId \ DOMAIN subs :
               /\ subs' = [i \in DOMAIN subs \cup {id} |->
                             IF i = id
                             THEN [crit EXCEPT !.threshold = NormalizeSemanticThreshold(@)]
                             ELSE subs[i]]
               /\ Answer(q, <<id>>)
        ELSE Answer(q, NotFound) /\ UNCHANGED subs
  /\ UNCHANGED <<clock, limitVars, conns, stream, log, server, jobEvents>>

\* resources/unsubscribe removes a spike subscription, whoever made it.
handleResourcesUnsubscribe(q) ==
  /\ req[q].pc = "handle" /\ req[q].post.method = "unsubscribe"
  /\ LET id == req[q].post.id
     IN /\ subs' = [i \in DOMAIN subs \ {id} |-> subs[i]]
        /\ Answer(q, IF id \in DOMAIN subs \cup Agent THEN <<>> ELSE NotFound)
  /\ UNCHANGED <<clock, limitVars, conns, stream, log, server, jobEvents>>

\* resources/read: the newest records of the topics, then those that match.
readSpikeResource(id) ==
  IF id \in DOMAIN subs
  THEN SelectSeq(Newest(SpikeTopic, SnapshotLimit), LAMBDA i : Allow(subs[id], log[i]))
  ELSE NotFound

readAgentTelemetryResource(id) ==
  SelectSeq(Newest({"agents/telemetry"}, SnapshotLimit), LAMBDA i : log[i].agent = id)

handleResourcesRead(q) ==
  /\ req[q].pc = "handle" /\ req[q].post.method = "read"
  /\ LET id == req[q].post.id
     IN Answer(q, IF id \in Agent THEN readAgentTelemetryResource(id) ELSE readSpikeResource(id))
  /\ UNCHANGED <<clock, limitVars, conns, subs, stream, log, server, jobEvents>>

\* A notification has no response; every other method is answered and changes
\* nothing here, unless its response cannot be marshalled.
HandleOther(q) ==
  /\ req[q].pc = "handle" /\ req[q].post.method \in {"call", "notification"}
  /\ \E status \in IF req[q].post.method = "notification" THEN {202} ELSE {200, 500} :
       req' = [req EXCEPT ![q] = [@ EXCEPT !.pc = "publish", !.status = status]]
  /\ UNCHANGED <<clock, limitVars, conns, subs, stream, log, server, jobEvents>>

ToolCall(q) == req[q].post.method \in {"call", "subscribe"}

\* The state that the sample events of a request name.
SampleState(q) ==
  CASE req[q].status = 500 -> "failed" [] req[q].status = 202 -> "accepted" [] OTHER -> "completed"

\* publishSampleEvents: a log event, and a job-state event after a tool call.
publishSampleEvents(q) ==
  /\ \/ /\ req[q].pc = "publish"
        /\ Publish([topic |-> "notifications/log", state |-> SampleState(q), at |-> 0])
        /\ req' = [req EXCEPT ![q] = IF ToolCall(q) THEN [@ EXCEPT !.pc = "publish job"]
                                      ELSE ServedRequest]
     \/ /\ req[q].pc = "publish job"
        /\ Publish([topic |-> "notifications/job-state", state |-> SampleState(q), at |-> 0])
        /\ req' = [req EXCEPT ![q] = ServedRequest]
  /\ UNCHANGED <<clock, limitVars, conns, subs, server, jobEvents>>

\* Records of the job manager, the detectors and the agents.
PublishOther ==
  /\ jobEvents < MaxJobEvents
  /\ jobEvents' = jobEvents + 1
  /\ \E rec \in JobRecord : Publish(rec)
  /\ UNCHANGED <<clock, limitVars, conns, subs, req, server>>

---------------------------------------------------------------------------
(* GET /mcp *)

\* strings.Cut at the first colon: one key for all addresses with colons.
SseKey(addr) == IF addr \in V6 THEN "[" ELSE addr

Open(key) == IF key \in DOMAIN conns THEN conns[key] ELSE 0

SetConns(key, n) ==
  conns' = [k \in (DOMAIN conns \cup {key}) \ (IF n = 0 THEN {key} ELSE {}) |->
              IF k = key THEN n ELSE conns[k]]

\* The last two connections of a key are both released by the first.
MutRelease(key) == SetConns(key, IF Open(key) <= 2 THEN 0 ELSE Open(key) - 1)

release(key) == SetConns(key, IF Open(key) <= 1 THEN 0 ELSE Open(key) - 1)

Key(c) == SseKey(stream[c].get.addr)

\* The middleware, whose rate limiter exempts GET /mcp, and acquire.
Connect(c) ==
  /\ Listening
  /\ stream[c].pc = "idle"
  /\ \E g \in Get[c] :
       LET key == SseKey(g.addr)
           ok == g.origin /\ auth(g) = 0 /\ Open(key) < MaxConns
       IN /\ IF ok THEN SetConns(key, Open(key) + 1) ELSE UNCHANGED conns
          /\ stream' = [stream EXCEPT ![c].get = g, ![c].pc = IF ok THEN "resolve" ELSE "closed"]
  /\ UNCHANGED <<clock, limitVars, subs, req, log, server, jobEvents>>

\* subscriptionResolver: spike subscriptions before agents.
resolveSSEFilter(id) ==
  CASE id = "" -> NoFilter
    [] id \in DOMAIN subs -> [kind |-> "spikes", sub |-> subs[id]]
    [] id \in Agent \ DOMAIN subs -> [kind |-> "agent", id |-> id]
    [] OTHER -> [kind |-> "unknown"]

\* The filter is resolved once, before the stream subscribes.
Resolve(c) ==
  /\ stream[c].pc = "resolve"
  /\ LET f == resolveSSEFilter(stream[c].get.id)
     IN stream' = [stream EXCEPT ![c].filter = f,
                     ![c].pc = IF f.kind = "unknown" THEN "ending" ELSE "subscribe"]
  /\ UNCHANGED <<clock, limitVars, conns, subs, req, log, server, jobEvents>>

\* The write deadline is cleared, the stream subscribes and writes its first
\* frame; the channel of a closed broker is closed.
Subscribe(c) ==
  /\ stream[c].pc = "subscribe"
  /\ stream' = [stream EXCEPT ![c].pc = "write"]
  /\ UNCHANGED <<clock, limitVars, conns, subs, req, log, server, jobEvents>>

AllowedBy(filter, rec) ==
  CASE filter.kind = "all" -> TRUE
    [] filter.kind = "spikes" -> Allow(filter.sub, rec)
    [] filter.kind = "agent" -> rec.topic = "agents/telemetry" /\ rec.agent = filter.id

isTerminalJobState(rec) == rec.state \in {"completed", "failed", "cancelled"}

Bypasses(rec) == rec.topic = "notifications/job-state" /\ isTerminalJobState(rec)

\* A terminal state is throttled like any other.
MutThrottleAllows(last, rec) ==
  \/ throttleWindow(rec.topic) <= 0
  \/ rec.topic \notin DOMAIN last
  \/ rec.at >= last[rec.topic] + throttleWindow(rec.topic)

\* telemetryThrottle.Allow, given when the topic was last emitted.
throttleAllows(last, rec) ==
  \/ throttleWindow(rec.topic) <= 0
  \/ Bypasses(rec)
  \/ rec.topic \notin DOMAIN last
  \/ rec.at >= last[rec.topic] + throttleWindow(rec.topic)

\* One record of the queue: the filter, the throttle, the frame.
writeBrokerSSEFrame(c) ==
  LET st == stream[c]
      i == Head(st.queue)
      rec == log[i]
      emit == AllowedBy(st.filter, rec) /\ throttleAllows(st.lastEmitAt, rec)
  IN stream' = [stream EXCEPT ![c] = [st EXCEPT
       !.pc = IF emit THEN "write" ELSE "stream",
       !.queue = Tail(st.queue), !.taken = Append(st.taken, i),
       !.frames = IF emit THEN Append(st.frames, i) ELSE st.frames,
       !.lastEmitAt = IF emit THEN [t \in DOMAIN st.lastEmitAt \cup {rec.topic} |->
                                      IF t = rec.topic THEN rec.at ELSE st.lastEmitAt[t]]
                      ELSE st.lastEmitAt]]

handleBrokerSSE(c) ==
  /\ stream[c].pc = "stream" /\ stream[c].queue # <<>>
  /\ writeBrokerSSEFrame(c)
  /\ UNCHANGED <<clock, limitVars, conns, subs, req, log, server, jobEvents>>

\* A write returns: the client or the buffers on the way to it have taken the
\* frame.
Written(c) ==
  /\ stream[c].pc = "write" /\ ~stream[c].stalled
  /\ stream' = [stream EXCEPT ![c].pc = "stream"]
  /\ UNCHANGED <<clock, limitVars, conns, subs, req, log, server, jobEvents>>

\* The client has stopped reading for good, without closing, and the buffers on
\* the way to it are full.
Stall(c) ==
  /\ Subscribed(stream[c]) /\ ~stream[c].stalled
  /\ stream' = [stream EXCEPT ![c].stalled = TRUE]
  /\ UNCHANGED <<clock, limitVars, conns, subs, req, log, server, jobEvents>>

\* A heartbeat, which leaves no trace but in a stream whose client has stalled.
Heartbeat(c) ==
  /\ stream[c].pc = "stream" /\ stream[c].stalled
  /\ stream' = [stream EXCEPT ![c].pc = "write"]
  /\ UNCHANGED <<clock, limitVars, conns, subs, req, log, server, jobEvents>>

\* The request's context is cancelled or a write fails.
Disconnect(c) ==
  /\ Subscribed(stream[c])
  /\ stream' = [stream EXCEPT ![c] = Ended(@, "ending")]
  /\ UNCHANGED <<clock, limitVars, conns, subs, req, log, server, jobEvents>>


\* The broker has closed the subscription and the queue has run dry.
EndOfStream(c) ==
  /\ stream[c].pc = "stream" /\ stream[c].queue = <<>> /\ MemoryClosed
  /\ stream' = [stream EXCEPT ![c] = Ended(@, "ending")]
  /\ UNCHANGED <<clock, limitVars, conns, subs, req, log, server, jobEvents>>

Release(c) ==
  /\ stream[c].pc = "ending"
  /\ release(Key(c))
  /\ stream' = [stream EXCEPT ![c] = ClosedStream]
  /\ UNCHANGED <<clock, limitVars, subs, req, log, server, jobEvents>>

---------------------------------------------------------------------------
(* Run *)

Tick ==
  /\ clock < MaxClock
  /\ clock' = clock + 1
  /\ UNCHANGED <<limitVars, conns, subs, req, stream, log, server, jobEvents>>

Run(from, to) ==
  /\ server = from /\ server' = to
  /\ UNCHANGED <<clock, limitVars, conns, subs, req, stream, log, jobEvents>>

\* RunHTTP sees its context cancelled; the listener is closed.
Cancel == Run("running", "shutdown")

\* Shutdown returns when every handler has, or after five seconds.  The deferred
\* calls run in reverse: the broker is closed first, and what the job manager
\* publishes while it is being closed is refused.
CloseMemory == Run("shutdown", "memory closed")

\* The listener fails: RunHTTP returns without Shutdown, whatever handlers run.
ListenFails == Run("running", "memory closed")

\* An execution begins with what its load leaves of the bounds.
Init ==
  /\ limiters = [a \in {} |-> 0]
  /\ buckets = [q \in Request |-> [tokens |-> Burst, last |-> 0]]
  /\ granted = [a \in Addr |-> <<>>]
  /\ conns = [k \in {} |-> 0]
  /\ subs = [i \in {} |-> 0]
  /\ \E l \in Load :
       /\ req = [q \in Request |-> IF q \in l.requests THEN IdleRequest ELSE ServedRequest]
       /\ stream = [c \in Client |-> IF c \in l.clients THEN IdleStream ELSE ClosedStream]
       /\ clock = l.clock /\ jobEvents = l.jobEvents
  /\ log = <<>>
  /\ server = "running"

RequestStep(q) ==
  \/ rateLimit(q) \/ CreateSubscription(q) \/ handleResourcesUnsubscribe(q) \/ handleResourcesRead(q)
  \/ HandleOther(q) \/ publishSampleEvents(q)

StreamStep(c) ==
  \/ Resolve(c) \/ Subscribe(c) \/ handleBrokerSSE(c) \/ Written(c) \/ EndOfStream(c) \/ Release(c)

Next ==
  \/ Tick \/ evictLoop \/ PublishOther \/ Cancel \/ ListenFails \/ CloseMemory
  \/ \E q \in Request : Arrive(q) \/ RequestStep(q)
  \/ \E c \in Client : Connect(c) \/ Disconnect(c) \/ Stall(c) \/ Heartbeat(c) \/ StreamStep(c)

\* A handler's goroutine keeps running, and Run gets through its shutdown.  A
\* write waits for the client: the deadline has been cleared.  It returns as long
\* as the client takes what it is sent (Written), and nothing makes a client that
\* has stalled read or close.
Fairness ==
  /\ WF_vars(CloseMemory)
  /\ \A q \in Request : WF_vars(RequestStep(q))
  /\ \A c \in Client : WF_vars(StreamStep(c))

Spec == Init /\ [][Next]_vars /\ Fairness

---------------------------------------------------------------------------
(* Properties *)

\* Over any stretch of time an address gets no more than a full bucket and one
\* token per tick, although idle limiters are dropped and made anew (http.go:
\* evictLoop, getLimiter, "60 req/min, burst=10"), from the requests that ask the
\* limiter in time.  One that holds a limiter for longer may get a token of a
\* limiter that has been dropped, in addition to those of its successor.
RateBound ==
  \A a \in Addr \ Local : \A i, j \in DOMAIN granted[a] :
    i <= j => j - i + 1 <= Burst + granted[a][j] - granted[a][i]

Holds(c) == stream[c].pc \in {"resolve", "subscribe", "stream", "write", "ending"}

\* The connection count of a key is the number of its streams that have not
\* ended, on every way a stream may end, and no key is counted at zero
\* (http.go: acquire, release).
SlotsMatchStreams ==
  \A key \in DOMAIN conns \cup {Key(c) : c \in {d \in Client : Holds(d)}} :
    /\ Open(key) = Cardinality({c \in Client : Holds(c) /\ Key(c) = key})
    /\ Open(key) \in 1..MaxConns

\* "per-IP SSE cap=10" (checkpoint-008-phase3-complete.md): a stream that the
\* middleware has passed is refused only while its own address has MaxConns
\* streams.  The addresses with colons share one key, so this does not hold of
\* the code (http.go: newHTTPHandler, acquire).
CapPerAddress ==
  [][\A c \in Client :
       LET g == stream'[c].get
       IN stream[c].pc = "idle" /\ stream'[c].pc = "closed" /\ g.origin /\ auth(g) = 0 =>
            Cardinality({d \in Client : Holds(d) /\ stream[d].get.addr = g.addr}) = MaxConns]_vars

\* What a stream has taken off its queue and its filter allows is written to the
\* client in order: terminal job states always, other records unless the
\* throttle has emitted one of the topic less than a window before (http.go:
\* writeBrokerSSEFrame; telemetry.go: Allow).
FramesFaithful ==
  \A c \in Client :
    LET st == stream[c]
        frames == {st.frames[n] : n \in DOMAIN st.frames}
    IN /\ \A m, n \in DOMAIN st.frames : m < n => st.frames[m] < st.frames[n]
       /\ \A n \in DOMAIN st.taken :
            LET i == st.taken[n] IN
            IF ~AllowedBy(st.filter, log[i]) THEN i \notin frames
            ELSE \/ i \in frames
                 \/ /\ ~Bypasses(log[i])
                    /\ \E j \in frames :
                         /\ j < i /\ log[j].topic = log[i].topic
                         /\ log[i].at < log[j].at + throttleWindow(log[i].topic)

=============================================================================
