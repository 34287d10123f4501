------------------------------ MODULE EventBus ------------------------------
(***************************************************************************)
(* The in-process event bus (orchestrator/internal/eventbus/bus.go).       *)
(* Publish copies the set of subscribers under the read lock and then      *)
(* offers the message to each of them with no lock of the bus held; many   *)
(* goroutines publish at a time.                                           *)
(***************************************************************************)
EXTENDS Subscriptions

CONSTANTS
  Publisher,        \* goroutines that call Publish
  MaxPublished      \* bound: how many messages each of them publishes

VARIABLES
  published,        \* the messages p has begun to publish
  copied,           \* the subscribers p has still to offer its message to
  addressed         \* history: the messages whose Publish saw s subscribed

busVars == <<published, copied, addressed>>
eventVars == <<subVars, busVars>>

\* The k-th message of each publisher.
BusMessage == UNION {{p} \X (1..MaxPublished[p]) : p \in Publisher}
Current(p) == <<p, published[p]>>

ASSUME BusAssumption ==
  /\ MaxPublished \in [Publisher -> Nat]
  /\ BusMessage \subseteq Message

BusInit ==
  /\ SubInit
  /\ published = [p \in Publisher |-> 0]
  /\ copied = [p \in Publisher |-> {}]
  /\ addressed = [s \in Sub |-> {}]

Subscribe(s) ==
  /\ spc[s] = "new"
  /\ Register(s)
  /\ UNCHANGED busVars

\* Publish up to RUnlock: the copy of the subscribers.
PublishBegin(p) ==
  /\ copied[p] = {}
  /\ published[p] < MaxPublished[p]
  /\ published' = [published EXCEPT ![p] = @ + 1]
  /\ copied' = [copied EXCEPT ![p] = subs]
  /\ addressed' = [s \in Sub |-> IF s \in subs
                                 THEN addressed[s] \cup {<<p, published[p] + 1>>}
                                 ELSE addressed[s]]
  /\ UNCHANGED subVars

\* One turn of the loop over the copy, in the order of a Go map.
PublishOffer(p, s) ==
  /\ s \in copied[p]
  /\ copied' = [copied EXCEPT ![p] = @ \ {s}]
  /\ Offer(s, Current(p))
  /\ UNCHANGED <<offerUnchanged, published, addressed>>

\* Everything has been published and every subscription is closed.
Quiet ==
  /\ \A p \in Publisher : published[p] = MaxPublished[p] /\ copied[p] = {}
  /\ \A s \in Sub : spc[s] = "closed" /\ pump[s] = "ended"
  /\ UNCHANGED eventVars

BusNext ==
  \/ \E p \in Publisher :
       \/ PublishBegin(p)
       \/ \E s \in Sub : PublishOffer(p, s)
  \/ \E s \in Sub :
       \/ Subscribe(s)
       \/ /\ PumpStep(s) \/ PumpDeliver(s)
          /\ UNCHANGED busVars
       \/ /\ SubscriptionClose(s) \/ OwnerStep(s)
          /\ UNCHANGED busVars
  \/ Quiet

\* The goroutines are scheduled; nobody has to publish, read or close.
BusFairness ==
  \A s \in Sub :
    /\ WF_eventVars(PumpStep(s) /\ UNCHANGED busVars)
    /\ WF_eventVars(OwnerStep(s) /\ UNCHANGED busVars)

BusSpec == BusInit /\ [][BusNext]_eventVars /\ BusFairness

(***************************************************************************)
(* Properties.                                                             *)
(***************************************************************************)
Unoffered(s) == {Current(p) : p \in {q \in Publisher : s \in copied[q]}}

\* While s is subscribed, each message whose Publish began after Subscribe is
\* settled once: received, queued in the order its publisher sent it, counted
\* in Dropped(), or about to be offered.  None disappears without a trace.
OffersSettled ==
  \A s \in Sub : spc[s] = "open" =>
    LET c == Carried(s) IN
    /\ \A h, i \in DOMAIN c : h < i /\ c[h][1] = c[i][1] => c[h][2] < c[i][2]
    /\ Range(c) \subseteq addressed[s] \ Unoffered(s)
    /\ Len(c) + dropped[s] + Cardinality(Unoffered(s)) = Cardinality(addressed[s])

\* A subscription's queue is sound under any interleaving of publishers, pump
\* and Close: the byte account is exact, no channel is used after its close, and
\* each offered message is received, queued or counted as dropped.
QueuesSound == BytesAccounted /\ NoChannelPanic /\ OffersSettled

\* Subscription.Close ends the stream: the pump terminates and closes out, even
\* when it is blocked on a consumer that stopped reading.
StreamEnds == \A s \in Sub : spc[s] = "closing" ~> pump[s] = "ended"
=============================================================================
