---------------------------- MODULE MemoryBroker ----------------------------
(***************************************************************************)
(* The event-sourced memory broker (internal/memorybroker/broker.go): a    *)
(* non-blocking ingress queue, one goroutine that appends to a ring of     *)
(* bounded retention and offers each record to the live subscribers, and   *)
(* Close.                                                                  *)
(***************************************************************************)
EXTENDS Subscriptions

CONSTANTS
  Event,            \* the calls of Ingest, one event each
  Capacity,         \* records the log retains
  IngressSize       \* capacity of ingestCh

ASSUME CapacityAssumption == Capacity \in Nat \ {0}
ASSUME IngressAssumption == IngressSize \in Nat \ {0}

VARIABLES
  ing,              \* where the call of Ingest for e is
  ingestCh,         \* the ingress queue
  droppedIngress,   \* events refused because ingestCh was full
  closed,           \* the channel closed is closed
  records, head, count, nextSeq,   \* the ring
  rpc, rev, targets,\* run: its place, its event or record, whom to offer it
  cpc, sweep,       \* Close: its place, the subscribers it still has to close
  history,          \* history: every event ever appended, oldest first
  owed              \* history: the records offered, or to be offered, to s

ingressVars == <<ing, ingestCh, droppedIngress>>
ringVars == <<records, head, count, nextSeq, history>>
runVars == <<rpc, rev, targets, owed>>
closeVars == <<closed, cpc, sweep>>
brokerVars == <<ingressVars, ringVars, runVars, closeVars>>
vars == <<subVars, brokerVars>>

\* A record is its sequence number and its event; the zero Record fills a slot
\* of the ring that was never written.
Record == (Nat \ {0}) \X Event
Zero == <<0, "none">>

Init ==
  /\ SubInit
  /\ ing = [e \in Event |-> "new"]
  /\ ingestCh = <<>>
  /\ droppedIngress = 0
  /\ closed = FALSE
  /\ records = [i \in 0..(Capacity - 1) |-> Zero]
  /\ head = 0
  /\ count = 0
  /\ nextSeq = 0
  /\ rpc = "idle"
  /\ rev = Zero
  /\ targets = {}
  /\ cpc = "open"
  /\ sweep = {}
  /\ history = <<>>
  /\ owed = [s \in Sub |-> {}]

(***************************************************************************)
(* Ingest.                                                                 *)
(***************************************************************************)
IngestCheck(e) ==
  /\ ing[e] = "new"
  /\ ing' = [ing EXCEPT ![e] = IF closed THEN "refused" ELSE "checked"]
  /\ UNCHANGED <<subVars, ingestCh, droppedIngress, ringVars, runVars,
                 closeVars>>

IngestSend(e) ==
  /\ ing[e] = "checked"
  /\ IF Len(ingestCh) < IngressSize
     THEN /\ ing' = [ing EXCEPT ![e] = "accepted"]
          /\ ingestCh' = Append(ingestCh, e)
          /\ UNCHANGED droppedIngress
     ELSE /\ ing' = [ing EXCEPT ![e] = "dropped"]
          /\ droppedIngress' = droppedIngress + 1
          /\ UNCHANGED ingestCh
  /\ UNCHANGED <<subVars, ringVars, runVars, closeVars>>

(***************************************************************************)
(* run, appendEvent and offerSubscribers.                                  *)
(***************************************************************************)
RunExit ==
  /\ rpc = "idle"
  /\ closed
  /\ rpc' = "exited"
  /\ UNCHANGED <<subVars, ingressVars, ringVars, rev, targets, owed, closeVars>>

RunTake ==
  /\ rpc = "idle"
  /\ ingestCh # <<>>
  /\ rpc' = "taken"
  /\ rev' = <<0, Head(ingestCh)>>
  /\ ingestCh' = Tail(ingestCh)
  /\ UNCHANGED <<subVars, ing, droppedIngress, ringVars, targets, owed,
                 closeVars>>

\* Mutant: the head does not advance when the oldest record is overwritten.
MutStore(rec) ==
  /\ records' = [records EXCEPT ![(head + count) % Capacity] = rec]
  /\ count' = IF count < Capacity THEN count + 1 ELSE count
  /\ UNCHANGED head

\* The write to the ring, under mu.
Store(rec) ==
  IF count < Capacity
  THEN /\ records' = [records EXCEPT ![(head + count) % Capacity] = rec]
       /\ count' = count + 1
       /\ UNCHANGED head
  ELSE /\ records' = [records EXCEPT ![head] = rec]
       /\ head' = (head + 1) % Capacity
       /\ UNCHANGED count

RunAppend ==
  LET rec == <<nextSeq + 1, rev[2]>> IN
  /\ rpc = "taken"
  /\ rpc' = "appended"
  /\ nextSeq' = nextSeq + 1
  /\ Store(rec)
  /\ rev' = rec
  /\ history' = Append(history, rev[2])
  /\ UNCHANGED <<subVars, ingressVars, targets, owed, closeVars>>

\* The copy of the subscribers, under subMu.
RunSnapshot ==
  /\ rpc = "appended"
  /\ rpc' = "offering"
  /\ targets' = subs
  /\ owed' = [s \in Sub |-> IF s \in subs THEN owed[s] \cup {rev} ELSE owed[s]]
  /\ UNCHANGED <<subVars, ingressVars, ringVars, rev, closeVars>>

RunOffer(s) ==
  /\ rpc = "offering"
  /\ s \in targets
  /\ targets' = targets \ {s}
  /\ Offer(s, rev)
  /\ UNCHANGED <<offerUnchanged, ingressVars, ringVars, rpc, rev, owed,
                 closeVars>>

RunDone ==
  /\ rpc = "offering"
  /\ targets = {}
  /\ rpc' = "idle"
  /\ rev' = Zero
  /\ UNCHANGED <<subVars, ingressVars, ringVars, targets, owed, closeVars>>

RunStep ==
  \/ RunExit
  \/ RunTake
  \/ RunAppend
  \/ RunSnapshot
  \/ \E s \in Sub : RunOffer(s)
  \/ RunDone

(***************************************************************************)
(* Query, under the read lock: the newest "limit" retained records that    *)
(* match, oldest first.  The filters (topic, job, time) are predicates of  *)
(* single records; "match" is the set of events that pass them.            *)
(***************************************************************************)
Retained == [i \in 1..count |-> records[(head + (i - 1)) % Capacity]]

\* The matches among the first n retained records, for every n.
Matches(match) ==
  LET found[n \in 0..count] ==
        IF n = 0 THEN <<>>
        ELSE IF Retained[n][2] \in match THEN Append(found[n - 1], Retained[n])
        ELSE found[n - 1]
  IN found

\* Mutant: the limit keeps the oldest matches.
MutQuery(match, limit) ==
  LET hits == Matches(match)[count]
  IN IF limit = 0 \/ Len(hits) <= limit THEN hits
     ELSE SubSeq(hits, 1, limit)

Query(match, limit) ==
  LET hits == Matches(match)[count]
  IN IF limit = 0 \/ Len(hits) <= limit THEN hits
     ELSE SubSeq(hits, Len(hits) - limit + 1, Len(hits))

(***************************************************************************)
(* Subscribe and Close.                                                    *)
(***************************************************************************)
\* A closed broker hands out a stream that has already ended.
SubscribeCheck(s) ==
  /\ spc[s] = "new"
  /\ spc' = [spc EXCEPT ![s] = IF closed THEN "closed" ELSE "checked"]
  /\ pump' = [pump EXCEPT ![s] = IF closed THEN "ended" ELSE @]
  /\ UNCHANGED <<subs, ch, chClosed, queuedBytes, dropped, done, inflight, out,
                 panicked, brokerVars>>

SubscribeRegister(s) ==
  /\ spc[s] = "checked"
  /\ Register(s)
  /\ UNCHANGED brokerVars

CloseBegin ==
  /\ cpc = "open"
  /\ cpc' = "closing"
  /\ closed' = TRUE
  /\ UNCHANGED <<subVars, ingressVars, ringVars, runVars, sweep>>

\* Mutant: the subscribers stay in the map and are not closed.
MutCloseSweep ==
  /\ cpc = "closing"
  /\ cpc' = "sweeping"
  /\ sweep' = {}
  /\ UNCHANGED <<subVars, ingressVars, ringVars, runVars, closed>>

\* closeSubscribers under subMu: the map is emptied.
CloseSweep ==
  /\ cpc = "closing"
  /\ cpc' = "sweeping"
  /\ sweep' = subs
  /\ subs' = {}
  /\ UNCHANGED <<spc, ch, chClosed, queuedBytes, dropped, done, pump, inflight,
                 out, panicked, ingressVars, ringVars, runVars, closed>>

CloseOne(s) ==
  /\ s \in sweep
  /\ sweep' = sweep \ {s}
  /\ CloseChannel(s)
  /\ UNCHANGED <<subs, spc, ch, queuedBytes, dropped, done, pump, inflight, out,
                 ingressVars, ringVars, runVars, closed, cpc>>

CloseReturn ==
  /\ cpc = "sweeping"
  /\ sweep = {}
  /\ rpc = "exited"
  /\ cpc' = "returned"
  /\ UNCHANGED <<subVars, ingressVars, ringVars, runVars, closed, sweep>>

CloseStep == CloseSweep \/ (\E s \in Sub : CloseOne(s)) \/ CloseReturn

(***************************************************************************)
(* The specification.                                                      *)
(***************************************************************************)
\* The broker is closed, and so are all the subscriptions.
Stopped ==
  /\ cpc = "returned"
  /\ \A e \in Event : ing[e] \notin {"new", "checked"}
  /\ \A s \in Sub : spc[s] = "closed" /\ pump[s] = "ended"
  /\ UNCHANGED vars

Next ==
  \/ \E e \in Event : IngestCheck(e) \/ IngestSend(e)
  \/ RunStep
  \/ \E s \in Sub :
       \/ SubscribeCheck(s)
       \/ SubscribeRegister(s)
       \/ /\ PumpStep(s) \/ PumpDeliver(s)
          /\ UNCHANGED brokerVars
       \/ /\ SubscriptionClose(s) \/ OwnerStep(s)
          /\ UNCHANGED brokerVars
  \/ CloseBegin
  \/ CloseStep
  \/ Stopped

\* The goroutines are scheduled.  A consumer of Messages() reads on until the
\* stream ends or it closes the subscription (handleBrokerSSE).
Fairness ==
  /\ WF_vars(RunStep)
  /\ WF_vars(CloseStep)
  /\ \A s \in Sub :
       /\ WF_vars((PumpStep(s) \/ PumpDeliver(s)) /\ UNCHANGED brokerVars)
       /\ WF_vars(OwnerStep(s) /\ UNCHANGED brokerVars)

Spec == Init /\ [][Next]_vars /\ Fairness

(***************************************************************************)
(* Properties.                                                             *)
(***************************************************************************)
\* The ring holds the last Capacity records appended, with consecutive sequence
\* numbers ending at nextSeq, however often head and tail have wrapped.
RingIsWindow ==
  /\ nextSeq = Len(history)
  /\ count = IF nextSeq < Capacity THEN nextSeq ELSE Capacity
  /\ \A i \in 1..count :
       LET n == nextSeq - count + i IN Retained[i] = <<n, history[n]>>

\* Query returns, oldest first, the newest "limit" of the retained records
\* that pass its filters, all of them when there is no limit.
QueryReturnsNewestMatches ==
  \A match \in SUBSET Event : \A limit \in 0..Capacity :
    LET answer == Query(match, limit)
        hits == {n \in DOMAIN history :
                   n > Len(history) - Capacity /\ history[n] \in match}
        newest == {n \in hits :
                     limit = 0 \/ Cardinality({m \in hits : m > n}) < limit}
    IN /\ {answer[i] : i \in DOMAIN answer} = {<<n, history[n]>> : n \in newest}
       /\ \A h, i \in DOMAIN answer : h < i => answer[h][1] < answer[i][1]

\* An event whose Ingest returned true is waiting, being appended or in the log
\* (run drops none of them while the broker lives), once; one whose Ingest
\* returned false is in none of these places, and counted if the queue was full.
EachEventOnce ==
  LET taken == IF rpc = "taken" THEN <<rev[2]>> ELSE <<>>
      all == history \o taken \o ingestCh
  IN /\ Range(all) = {e \in Event : ing[e] = "accepted"}
     /\ Len(all) = Cardinality(Range(all))
     /\ droppedIngress = Cardinality({e \in Event : ing[e] = "dropped"})

\* A live subscriber sees the log: what it received or has queued is in strictly
\* increasing sequence order, and every record appended since it subscribed is
\* among it, counted in Dropped(), or about to be offered.
SubscriberSeesLog ==
  \A s \in Sub : spc[s] = "open" /\ ~chClosed[s] =>
    LET c == Carried(s)
        unoffered == IF s \in targets THEN {rev} ELSE {}
    IN /\ \A h, i \in DOMAIN c : h < i => c[h][1] < c[i][1]
       /\ Range(c) \subseteq owed[s] \ unoffered
       /\ Len(c) + dropped[s] + Cardinality(unoffered) = Cardinality(owed[s])

\* The log is served as it was taken in: each accepted event once, queries give
\* its newest matches, and live subscribers see its order, however Ingest, the
\* run loop, Query and the pumps interleave.
LogServed == EachEventOnce /\ QueryReturnsNewestMatches /\ SubscriberSeesLog

\* An accepted event reaches the log unless the broker is closed first.
AcceptedEventsAppended ==
  \A e \in Event :
    ing[e] = "accepted" ~> (e \in Range(history) \/ closed)

\* Close ends the stream of every subscriber it finds: the consumer gets what is
\* queued, then the end of the stream.
CloseEndsStreams ==
  \A s \in Sub : (s \in subs /\ cpc = "closing") ~> (pump[s] = "ended")

\* Close returns, whatever the subscribers do: run is never blocked by them.
CloseReturns == (cpc = "closing") ~> (cpc = "returned")

\* Nothing hangs: accepted events reach the log unless the broker is closed, and
\* Close ends every stream and returns.
BrokerSettles == AcceptedEventsAppended /\ CloseEndsStreams /\ CloseReturns
=============================================================================
