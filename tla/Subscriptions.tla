---------------------------- MODULE Subscriptions ----------------------------
(***************************************************************************)
(* The subscribers of a publish/subscribe broker: the bounded queue that   *)
(* the broker offers messages to without blocking, the pump goroutine that *)
(* moves them to the consumer, and Subscription.Close.  eventbus/bus.go    *)
(* and memorybroker/broker.go hold the same code; EventBus and             *)
(* MemoryBroker extend this module with what fills the queues.             *)
(***************************************************************************)
EXTENDS Naturals, Sequences, FiniteSets, Functions

CONSTANTS
  Sub,              \* the calls of Subscribe, one subscription each
  Message,          \* what the broker offers
  Size,             \* the bytes a message is charged for
  QueueDepth,       \* capacity of a subscriber's channel
  MaxBytes          \* bytes a subscriber may have buffered

ASSUME SizeAssumption == Size \in [Message -> Nat]
ASSUME LimitAssumption == QueueDepth \in Nat \ {0} /\ MaxBytes \in Nat \ {0}

VARIABLES
  subs,             \* the broker's map of subscribers
  spc,              \* where the owner of the subscription is
  ch,               \* subscriber.ch
  chClosed,         \* subscriber.closed: the channel is closed
  queuedBytes,      \* subscriber.queuedBytes
  dropped,          \* subscriber.dropped
  done,             \* Subscription.done is closed
  pump,             \* where the pump goroutine is, "ended" once out is closed
  inflight,         \* the message, if any, the pump took and has not settled
  out,              \* what the consumer received from Messages(), in order
  panicked          \* a goroutine has sent on a closed channel

subVars == <<subs, spc, ch, chClosed, queuedBytes, dropped, done, pump,
             inflight, out, panicked>>

\* What offer leaves alone.
offerUnchanged == <<subs, spc, chClosed, done, pump, inflight, out>>

SubInit ==
  /\ subs = {}
  /\ spc = [s \in Sub |-> "new"]
  /\ ch = [s \in Sub |-> <<>>]
  /\ chClosed = [s \in Sub |-> FALSE]
  /\ queuedBytes = [s \in Sub |-> 0]
  /\ dropped = [s \in Sub |-> 0]
  /\ done = [s \in Sub |-> FALSE]
  /\ pump = [s \in Sub |-> "none"]
  /\ inflight = [s \in Sub |-> <<>>]
  /\ out = [s \in Sub |-> <<>>]
  /\ panicked = FALSE

\* The bytes of a sequence of messages.
Bytes(msgs) ==
  LET sum[n \in 0..Len(msgs)] == IF n = 0 THEN 0 ELSE sum[n - 1] + Size[msgs[n]]
  IN sum[Len(msgs)]

\* Sending on a closed channel panics.
Send(s, m) ==
  /\ ch' = [ch EXCEPT ![s] = Append(@, m)]
  /\ panicked' = (panicked \/ chClosed[s])

Drop(s) ==
  /\ dropped' = [dropped EXCEPT ![s] = @ + 1]
  /\ UNCHANGED <<ch, queuedBytes, panicked>>

Fits(s, m) ==
  /\ queuedBytes[s] + Size[m] <= MaxBytes
  /\ Len(ch[s]) < QueueDepth

\* subscriber.offer, under the subscriber's lock: only offer sends on ch, so a
\* channel that has room when it looks still has room when it sends.
Offer(s, m) ==
  \/ /\ chClosed[s]
     /\ UNCHANGED <<ch, queuedBytes, dropped, panicked>>
  \/ /\ ~chClosed[s]
     /\ Fits(s, m)
     /\ Send(s, m)
     /\ queuedBytes' = [queuedBytes EXCEPT ![s] = @ + Size[m]]
     /\ UNCHANGED dropped
  \/ ~chClosed[s] /\ ~Fits(s, m) /\ Drop(s)

\* subscriber.close, under the subscriber's lock, called by Subscription.Close
\* and by Broker.Close.
CloseChannel(s) ==
  /\ chClosed' = [chClosed EXCEPT ![s] = TRUE]
  /\ UNCHANGED panicked

(***************************************************************************)
(* Subscription.pump.                                                      *)
(***************************************************************************)
PumpReceive(s) ==
  /\ pump[s] = "waiting"
  /\ ch[s] # <<>>
  /\ pump' = [pump EXCEPT ![s] = "sending"]
  /\ inflight' = [inflight EXCEPT ![s] = <<Head(ch[s])>>]
  /\ ch' = [ch EXCEPT ![s] = Tail(@)]
  /\ UNCHANGED <<subs, spc, chClosed, queuedBytes, dropped, done, out, panicked>>

\* The consumer takes the message: a rendezvous on the unbuffered out.
PumpDeliver(s) ==
  /\ pump[s] = "sending"
  /\ spc[s] = "open"
  /\ pump' = [pump EXCEPT ![s] = "settling"]
  /\ out' = [out EXCEPT ![s] = @ \o inflight[s]]
  /\ UNCHANGED <<subs, spc, ch, chClosed, queuedBytes, dropped, done, inflight,
                 panicked>>

\* Mutant: the bytes of a delivered message are not given back.
MutOnDequeued(s) ==
  /\ pump[s] = "settling"
  /\ pump' = [pump EXCEPT ![s] = "waiting"]
  /\ inflight' = [inflight EXCEPT ![s] = <<>>]
  /\ UNCHANGED <<subs, spc, ch, chClosed, queuedBytes, dropped, done, out,
                 panicked>>

\* onDequeued: the bytes are given back after the delivery, never below zero.
OnDequeued(s) ==
  /\ pump[s] = "settling"
  /\ pump' = [pump EXCEPT ![s] = "waiting"]
  /\ queuedBytes' = [queuedBytes EXCEPT ![s] =
                       IF @ < Bytes(inflight[s]) THEN 0
                                                 ELSE @ - Bytes(inflight[s])]
  /\ inflight' = [inflight EXCEPT ![s] = <<>>]
  /\ UNCHANGED <<subs, spc, ch, chClosed, dropped, done, out, panicked>>

\* The range over ch ends when ch is closed and drained.
PumpEnd(s) ==
  /\ pump[s] = "waiting"
  /\ ch[s] = <<>>
  /\ chClosed[s]
  /\ pump' = [pump EXCEPT ![s] = "ended"]
  /\ UNCHANGED <<subs, spc, ch, chClosed, queuedBytes, dropped, done, inflight,
                 out, panicked>>

\* done is closed while the pump waits for the consumer.
PumpAbandon(s) ==
  /\ pump[s] = "sending"
  /\ done[s]
  /\ pump' = [pump EXCEPT ![s] = "ended"]
  /\ UNCHANGED <<subs, spc, ch, chClosed, queuedBytes, dropped, done, inflight,
                 out, panicked>>

PumpStep(s) ==
  \/ PumpReceive(s)
  \/ OnDequeued(s)
  \/ PumpEnd(s)
  \/ PumpAbandon(s)

(***************************************************************************)
(* The owner: the end of Subscribe, and Subscription.Close.                *)
(***************************************************************************)
\* The subscriber enters the map, and the pump starts.
Register(s) ==
  /\ spc' = [spc EXCEPT ![s] = "open"]
  /\ subs' = subs \cup {s}
  /\ pump' = [pump EXCEPT ![s] = "waiting"]
  /\ UNCHANGED <<ch, chClosed, queuedBytes, dropped, done, inflight, out,
                 panicked>>

\* Mutant: Close leaves done open.
MutSubscriptionClose(s) ==
  /\ spc[s] = "open"
  /\ spc' = [spc EXCEPT ![s] = "closing"]
  /\ UNCHANGED <<subs, ch, chClosed, queuedBytes, dropped, done, pump, inflight,
                 out, panicked>>

SubscriptionClose(s) ==
  /\ spc[s] = "open"
  /\ spc' = [spc EXCEPT ![s] = "closing"]
  /\ done' = [done EXCEPT ![s] = TRUE]
  /\ UNCHANGED <<subs, ch, chClosed, queuedBytes, dropped, pump, inflight, out,
                 panicked>>

SubscriptionRemove(s) ==
  /\ spc[s] = "closing"
  /\ spc' = [spc EXCEPT ![s] = "removed"]
  /\ subs' = subs \ {s}
  /\ UNCHANGED <<ch, chClosed, queuedBytes, dropped, done, pump, inflight, out,
                 panicked>>

SubscriptionEnd(s) ==
  /\ spc[s] = "removed"
  /\ spc' = [spc EXCEPT ![s] = "closed"]
  /\ CloseChannel(s)
  /\ UNCHANGED <<subs, ch, queuedBytes, dropped, done, pump, inflight, out>>

OwnerStep(s) == SubscriptionRemove(s) \/ SubscriptionEnd(s)

(***************************************************************************)
(* What every subscriber can rely on.                                      *)
(***************************************************************************)
\* What s has received, is about to receive, and has queued.
Carried(s) ==
  out[s] \o (IF pump[s] = "sending" THEN inflight[s] ELSE <<>>) \o ch[s]

\* A subscriber is charged exactly for what is in its queue and in the hands of
\* its pump: the charge returns to zero, never leaks away by concurrent offers
\* and deliveries, and never exceeds the limit.
BytesAccounted ==
  \A s \in Sub :
    /\ queuedBytes[s] <= MaxBytes
    /\ queuedBytes[s] = Bytes(inflight[s] \o ch[s])

\* No goroutine sends on, or closes, a channel that is already closed, although
\* offers, Subscription.Close and Broker.Close race.
NoChannelPanic == ~panicked
=============================================================================
