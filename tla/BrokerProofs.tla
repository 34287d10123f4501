---------------------------- MODULE BrokerProofs ----------------------------
(***************************************************************************)
(* Proofs about the two publish/subscribe brokers, for any number of       *)
(* subscribers, publishers and events, and any limits.                     *)
(*                                                                         *)
(* EventBus and MemoryBroker fill the same queues, so the first part is    *)
(* about Subscriptions alone: what the bytes of a queue are (Bytes is      *)
(* recursive, and its facts go by induction over the length), what each    *)
(* step of a pump or an owner leaves of a stream, and the account of what  *)
(* was addressed to a subscriber.  The event bus adds that the message a   *)
(* publisher is about to offer is its newest; the memory broker, that run  *)
(* offers records in the order of their numbers, that accepted events move *)
(* along one line from the ingress queue into the log, and that the ring   *)
(* is the window of the log that Query walks.  The theorems about one      *)
(* broker use no assumption of the other.                                  *)
(***************************************************************************)
EXTENDS EventBus, MemoryBroker, FiniteSetTheorems, WellFoundedInduction, TLAPS

-----------------------------------------------------------------------------
(* The bytes of a queue. *)

\* Induction over the numbers, for a set in place of a predicate.
LEMMA Induction ==
  ASSUME NEW S, 0 \in S, \A n \in Nat : n \in S => n + 1 \in S
  PROVE  \A n \in Nat : n \in S
<1>1. SUFFICES ASSUME NEW z \in Nat \ S PROVE FALSE
  BY Zenon
<1>2. PICK x \in Nat \ S : \A y \in Nat \ S : ~(<<y, x>> \in OpToRel(<, Nat))
  BY WFMin, NatLessThanWellFounded
<1>3. x \in Nat /\ x \notin S /\ \A y \in Nat \ S : ~(y < x)
  BY Zenon, <1>2 DEF OpToRel
<1>4. x # 0
  BY Zenon, <1>2
<1>5. \E y \in Nat : y < x /\ y + 1 = x
  <2>1. x - 1 \in Nat /\ x - 1 < x /\ x - 1 + 1 = x
    BY <1>3, <1>4
  <2> QED BY Zenon, <2>1
<1> QED BY Zenon, <1>3, <1>5

\* f[n] is the sum of the sizes of the first n messages.
Sums(f, msgs, n) ==
  f = [k \in 0..n |-> IF k = 0 THEN 0 ELSE f[k - 1] + Size[msgs[k]]]

\* Such a sum starts at zero and grows by the size of each message.
LEMMA SumsFacts ==
  ASSUME NEW msgs, NEW n \in Nat, NEW f, Sums(f, msgs, n)
  PROVE  f[0] = 0 /\ \A k \in 0..(n - 1) : f[k + 1] = f[k] + Size[msgs[k + 1]]
<1>1. \A k \in 0..n : f[k] = IF k = 0 THEN 0 ELSE f[k - 1] + Size[msgs[k]]
  BY Zenon DEF Sums
<1>2. 0 \in 0..n /\ \A k \in 0..(n - 1) : k + 1 \in 0..n /\ k + 1 # 0 /\ k + 1 - 1 = k
  OBVIOUS
<1>3. ASSUME NEW k \in 0..(n - 1) PROVE f[k + 1] = f[k] + Size[msgs[k + 1]]
  BY <1>1, <1>2
<1> QED BY Zenon, <1>1, <1>2, <1>3

\* The recursion has a solution.
LEMMA SumsExist ==
  ASSUME NEW msgs \in Seq(Message)
  PROVE  \E f : Sums(f, msgs, Len(msgs))
<1> DEFINE S == {n \in Nat : \E f : Sums(f, msgs, n)}
<1>1. 0 \in S
  <2>1. Sums([k \in 0..0 |-> 0], msgs, 0)
    BY DEF Sums
  <2> QED BY Zenon, <2>1
<1>2. ASSUME NEW n \in Nat, n \in S PROVE n + 1 \in S
  <2>1. PICK f : Sums(f, msgs, n)
    BY Zenon, <1>2
  <2> DEFINE g == [k \in 0..(n + 1) |-> IF k = n + 1 THEN f[n] + Size[msgs[n + 1]] ELSE f[k]]
  <2>2. \A k \in 0..n : f[k] = IF k = 0 THEN 0 ELSE f[k - 1] + Size[msgs[k]]
    BY Zenon, <2>1 DEF Sums
  <2>3. \A k \in 0..(n + 1) : g[k] = IF k = 0 THEN 0 ELSE g[k - 1] + Size[msgs[k]]
    <3> SUFFICES ASSUME NEW k \in 0..(n + 1)
                 PROVE  g[k] = IF k = 0 THEN 0 ELSE g[k - 1] + Size[msgs[k]]
      BY Zenon
    <3>1. CASE k = 0
      BY <2>2, <3>1
    <3>2. CASE k \in 1..n
      <4>1. k \in 0..n /\ k - 1 \in 0..n /\ k # n + 1 /\ k - 1 # n + 1 /\ k # 0 /\ k - 1 \in 0..(n + 1)
        BY <3>2
      <4> QED BY Zenon, <2>2, <4>1
    <3>3. CASE k = n + 1
      BY <3>3
    <3> QED BY <3>1, <3>2, <3>3
  <2>4. Sums(g, msgs, n + 1)
    BY Zenon, <2>3 DEF Sums
  <2> QED BY <2>4
<1> HIDE DEF S
<1>3. \A n \in Nat : n \in S
  BY Zenon, <1>1, <1>2, Induction
<1>4. Len(msgs) \in Nat
  OBVIOUS
<1> QED BY Zenon, <1>3, <1>4 DEF S

\* Bytes is the last of these sums.
LEMMA BytesSums ==
  ASSUME NEW msgs \in Seq(Message)
  PROVE  \E f : /\ Bytes(msgs) = f[Len(msgs)] /\ f[0] = 0
                /\ \A k \in 0..(Len(msgs) - 1) : f[k + 1] = f[k] + Size[msgs[k + 1]]
<1> DEFINE sum == CHOOSE f : Sums(f, msgs, Len(msgs))
<1>1. Sums(sum, msgs, Len(msgs)) /\ Len(msgs) \in Nat
  BY SumsExist
<1>2. Bytes(msgs) = sum[Len(msgs)]
  BY DEF Bytes, Sums
<1> HIDE DEF sum
<1>3. sum[0] = 0 /\ \A k \in 0..(Len(msgs) - 1) : sum[k + 1] = sum[k] + Size[msgs[k + 1]]
  BY Zenon, <1>1, SumsFacts
<1> QED BY Zenon, <1>2, <1>3

\* An empty queue has no bytes.
LEMMA BytesEmpty == Bytes(<<>>) = 0
<1>1. <<>> \in Seq(Message) /\ Len(<<>>) = 0
  OBVIOUS
<1> QED BY Zenon, <1>1, BytesSums

\* A message that is queued adds its size.
LEMMA BytesAppend ==
  ASSUME NEW msgs \in Seq(Message), NEW m \in Message
  PROVE  Bytes(Append(msgs, m)) = Bytes(msgs) + Size[m]
<1>0. PICK long, len : long = Append(msgs, m) /\ len = Len(msgs)
  BY Zenon
<1>1. PICK f : /\ Bytes(msgs) = f[len] /\ f[0] = 0
               /\ \A k \in 0..(len - 1) : f[k + 1] = f[k] + Size[msgs[k + 1]]
  BY Zenon, <1>0, BytesSums
<1>2. long \in Seq(Message) /\ Len(long) = len + 1 /\ len \in Nat /\ len + 1 - 1 = len
  BY <1>0
<1>3. PICK g : /\ Bytes(long) = g[len + 1] /\ g[0] = 0
               /\ \A k \in 0..len : g[k + 1] = g[k] + Size[long[k + 1]]
  <2>1. PICK g : /\ Bytes(long) = g[Len(long)] /\ g[0] = 0
                 /\ \A k \in 0..(Len(long) - 1) : g[k + 1] = g[k] + Size[long[k + 1]]
    BY Zenon, <1>2, BytesSums
  <2>2. Len(long) = len + 1 /\ Len(long) - 1 = len
    BY <1>2
  <2> QED BY Zenon, <2>1, <2>2
<1>4. long[len + 1] = m /\ \A k \in 0..(len - 1) : long[k + 1] = msgs[k + 1]
  BY <1>0
<1> DEFINE S == {n \in Nat : n <= len => g[n] = f[n]}
<1>5. 0 \in S
  BY <1>1, <1>3
<1>6. ASSUME NEW n \in Nat, n \in S PROVE n + 1 \in S
  BY <1>1, <1>2, <1>3, <1>4, <1>6
<1> HIDE DEF S
<1>7. \A n \in Nat : n \in S
  BY Zenon, <1>5, <1>6, Induction
<1>8. g[len] = f[len]
  BY <1>2, <1>7 DEF S
<1> QED BY <1>0, <1>1, <1>2, <1>3, <1>4, <1>8

\* So does one at the front.
LEMMA BytesFirst ==
  ASSUME NEW msgs \in Seq(Message), NEW m \in Message
  PROVE  Bytes(<<m>> \o msgs) = Size[m] + Bytes(msgs) /\ Bytes(msgs) \in Nat
<1>0. PICK long, len : long = <<m>> \o msgs /\ len = Len(msgs)
  BY Zenon
<1>1. PICK f : /\ Bytes(msgs) = f[len] /\ f[0] = 0
               /\ \A k \in 0..(len - 1) : f[k + 1] = f[k] + Size[msgs[k + 1]]
  BY Zenon, <1>0, BytesSums
<1>2. long \in Seq(Message) /\ Len(long) = len + 1 /\ len \in Nat /\ len + 1 - 1 = len
  BY <1>0
<1>3. PICK g : /\ Bytes(long) = g[len + 1] /\ g[0] = 0
               /\ \A k \in 0..len : g[k + 1] = g[k] + Size[long[k + 1]]
  <2>1. PICK g : /\ Bytes(long) = g[Len(long)] /\ g[0] = 0
                 /\ \A k \in 0..(Len(long) - 1) : g[k + 1] = g[k] + Size[long[k + 1]]
    BY Zenon, <1>2, BytesSums
  <2>2. Len(long) = len + 1 /\ Len(long) - 1 = len
    BY <1>2
  <2> QED BY Zenon, <2>1, <2>2
<1>4. long[1] = m /\ \A k \in 0..(len - 1) : long[k + 1 + 1] = msgs[k + 1]
  BY <1>0
<1>5. Size[m] \in Nat /\ \A k \in 0..(len - 1) : Size[msgs[k + 1]] \in Nat
  <2>1. \A k \in 0..(len - 1) : msgs[k + 1] \in Message
    BY <1>0
  <2> QED BY Zenon, <2>1, SizeAssumption
<1> DEFINE S == {n \in Nat : n <= len => g[n + 1] = Size[m] + f[n] /\ f[n] \in Nat}
<1>6. 0 \in S
  BY <1>1, <1>2, <1>3, <1>4, <1>5
<1>7. ASSUME NEW n \in Nat, n \in S PROVE n + 1 \in S
  <2> SUFFICES ASSUME n + 1 <= len
               PROVE  g[n + 1 + 1] = Size[m] + f[n + 1] /\ f[n + 1] \in Nat
    OBVIOUS
  <2>1. n \in 0..(len - 1) /\ n + 1 \in 0..len /\ n <= len
    BY <1>2
  <2>2. g[n + 1 + 1] = g[n + 1] + Size[msgs[n + 1]] /\ f[n + 1] = f[n] + Size[msgs[n + 1]]
    BY Zenon, <1>1, <1>3, <1>4, <2>1
  <2>3. g[n + 1] = Size[m] + f[n] /\ f[n] \in Nat
    BY <1>7, <2>1
  <2>4. Size[msgs[n + 1]] \in Nat
    BY Zenon, <1>5, <2>1
  <2> QED BY <1>5, <2>2, <2>3, <2>4
<1> HIDE DEF S
<1>8. \A n \in Nat : n \in S
  BY Zenon, <1>6, <1>7, Induction
<1>9. g[len + 1] = Size[m] + f[len] /\ f[len] \in Nat
  BY <1>2, <1>8 DEF S
<1> QED BY Zenon, <1>0, <1>1, <1>2, <1>3, <1>9

-----------------------------------------------------------------------------
(* The subscribers, whatever broker fills their queues with members of M. *)

Place == {"new", "checked", "open", "closing", "removed", "closed"}
PumpPlace == {"none", "waiting", "sending", "settling", "ended"}

SubTypes(M) ==
  /\ subs \subseteq Sub
  /\ spc \in [Sub -> Place] /\ pump \in [Sub -> PumpPlace]
  /\ chClosed \in [Sub -> BOOLEAN] /\ done \in [Sub -> BOOLEAN]
  /\ ch \in [Sub -> Seq(M)] /\ inflight \in [Sub -> Seq(M)] /\ out \in [Sub -> Seq(M)]
  /\ dropped \in [Sub -> Nat]

\* Nothing has happened to a subscription that is not in the map yet; the pump
\* holds one message between receive and credit; done is closed by the owner.
ShapeOf(s) ==
  /\ spc[s] \in {"new", "checked"} =>
       /\ ch[s] = <<>> /\ inflight[s] = <<>> /\ out[s] = <<>> /\ dropped[s] = 0
       /\ s \notin subs /\ ~done[s] /\ pump[s] = "none"
  /\ spc[s] = "open" => ~done[s] /\ pump[s] # "none"
  /\ pump[s] \in {"none", "waiting"} => inflight[s] = <<>>
  /\ pump[s] \in {"sending", "settling"} => Len(inflight[s]) = 1

SubShape == \A s \in Sub : ShapeOf(s)

SubInv(M) == SubTypes(M) /\ SubShape

\* A step that s alone takes.
SubStep(s) == PumpStep(s) \/ PumpDeliver(s) \/ SubscriptionClose(s) \/ OwnerStep(s)

\* What a step leaves of the stream of x.
SameStream(x) ==
  /\ Carried(x)' = Carried(x) /\ dropped'[x] = dropped[x]
  /\ spc'[x] = spc[x] /\ chClosed'[x] = chClosed[x]

\* The state of a subscription other than s is not touched.
Untouched(s) ==
  \A x \in Sub \ {s} :
    /\ spc'[x] = spc[x] /\ pump'[x] = pump[x] /\ chClosed'[x] = chClosed[x] /\ done'[x] = done[x]
    /\ ch'[x] = ch[x] /\ inflight'[x] = inflight[x] /\ out'[x] = out[x] /\ dropped'[x] = dropped[x]
    /\ x \in subs' => x \in subs

\* The pump and the owner of s write the fields of s only, and drop nothing.
LEMMA StepUntouched ==
  ASSUME NEW M, SubTypes(M), NEW s \in Sub, SubStep(s)
  PROVE  Untouched(s) /\ dropped' = dropped /\ panicked' = panicked
<1> USE DEF SubTypes, Untouched
<1>1. CASE PumpReceive(s)
  BY Zenon, <1>1 DEF PumpReceive
<1>2. CASE PumpDeliver(s)
  BY Zenon, <1>2 DEF PumpDeliver
<1>3. CASE OnDequeued(s)
  BY Zenon, <1>3 DEF OnDequeued
<1>4. CASE PumpEnd(s)
  BY Zenon, <1>4 DEF PumpEnd
<1>5. CASE PumpAbandon(s)
  BY Zenon, <1>5 DEF PumpAbandon
<1>6. CASE SubscriptionClose(s)
  BY Zenon, <1>6 DEF SubscriptionClose
<1>7. CASE SubscriptionRemove(s)
  BY Zenon, <1>7 DEF SubscriptionRemove
<1>8. CASE SubscriptionEnd(s)
  BY Zenon, <1>8 DEF SubscriptionEnd, CloseChannel
<1> QED BY Zenon, <1>1, <1>2, <1>3, <1>4, <1>5, <1>6, <1>7, <1>8 DEF SubStep, PumpStep, OwnerStep

\* The types and the shape of s survive a step of its pump or its owner.
LEMMA StepTypes ==
  ASSUME NEW M, SubInv(M), NEW s \in Sub, SubStep(s)
  PROVE  SubTypes(M)' /\ ShapeOf(s)'
<1> USE DEF SubInv, SubTypes, SubShape, ShapeOf, Place, PumpPlace
<1>1. CASE PumpReceive(s)
  BY <1>1 DEF PumpReceive
<1>2. CASE PumpDeliver(s)
  BY <1>2 DEF PumpDeliver
<1>3. CASE OnDequeued(s)
  BY <1>3 DEF OnDequeued
<1>4. CASE PumpEnd(s)
  BY <1>4 DEF PumpEnd
<1>5. CASE PumpAbandon(s)
  BY <1>5 DEF PumpAbandon
<1>6. CASE SubscriptionClose(s)
  BY <1>6 DEF SubscriptionClose
<1>7. CASE SubscriptionRemove(s)
  BY <1>7 DEF SubscriptionRemove
<1>8. CASE SubscriptionEnd(s)
  BY <1>8 DEF SubscriptionEnd, CloseChannel
<1> QED BY Zenon, <1>1, <1>2, <1>3, <1>4, <1>5, <1>6, <1>7, <1>8 DEF SubStep, PumpStep, OwnerStep

\* What the consumer of a live subscription will see changes in no step of its
\* pump or its owner.
LEMMA StepStream ==
  ASSUME NEW M, SubInv(M), NEW s \in Sub, SubStep(s)
  PROVE  /\ spc'[s] = "open" => spc[s] = "open"
         /\ chClosed[s] => chClosed'[s]
         /\ spc'[s] = "open" /\ ~chClosed'[s] => Carried(s)' = Carried(s) /\ ~chClosed[s]
         /\ chClosed'[s] => chClosed[s] \/ spc'[s] = "closed"
         /\ spc'[s] \in {"new", "checked"} <=> spc[s] \in {"new", "checked"}
         /\ spc[s] = "closed" => spc'[s] = "closed"
<1> USE DEF SubInv, SubTypes, SubShape, ShapeOf
<1>1. CASE PumpReceive(s)
  BY <1>1 DEF PumpReceive, Carried
<1>2. CASE PumpDeliver(s)
  BY <1>2 DEF PumpDeliver, Carried
<1>3. CASE OnDequeued(s)
  BY <1>3 DEF OnDequeued, Carried
<1>4. CASE PumpEnd(s)
  BY <1>4 DEF PumpEnd, Carried
<1>5. CASE PumpAbandon(s)
  BY <1>5 DEF PumpAbandon, Carried
<1>6. CASE SubscriptionClose(s)
  BY <1>6 DEF SubscriptionClose
<1>7. CASE SubscriptionRemove(s)
  BY <1>7 DEF SubscriptionRemove
<1>8. CASE SubscriptionEnd(s)
  BY <1>8 DEF SubscriptionEnd, CloseChannel
<1> QED BY Zenon, <1>1, <1>2, <1>3, <1>4, <1>5, <1>6, <1>7, <1>8 DEF SubStep, PumpStep, OwnerStep

\* The shape of the others survives what does not touch them.
LEMMA ShapeKept ==
  ASSUME NEW s \in Sub, SubShape, Untouched(s), ShapeOf(s)'
  PROVE  SubShape'
<1>1. ASSUME NEW x \in Sub \ {s} PROVE ShapeOf(x)'
  <2>1. ShapeOf(x)
    BY Zenon DEF SubShape
  <2>2. /\ spc'[x] = spc[x] /\ pump'[x] = pump[x] /\ done'[x] = done[x]
        /\ ch'[x] = ch[x] /\ inflight'[x] = inflight[x] /\ out'[x] = out[x] /\ dropped'[x] = dropped[x]
        /\ x \in subs' => x \in subs
    BY Zenon, <1>1 DEF Untouched
  <2> QED BY <2>1, <2>2 DEF ShapeOf
<1> QED BY Zenon, <1>1 DEF SubShape

\* So the invariant of the subscribers survives a step of a pump or an owner.
LEMMA SubStepKeeps ==
  ASSUME NEW M, SubInv(M), NEW s \in Sub, SubStep(s)
  PROVE  SubInv(M)'
BY Zenon, StepUntouched, StepTypes, ShapeKept DEF SubInv

\* The end of Subscribe: the stream begins empty.
LEMMA RegisterStep ==
  ASSUME NEW M, SubInv(M), NEW s \in Sub, spc[s] \in {"new", "checked"}, Register(s)
  PROVE  /\ SubInv(M)' /\ Untouched(s)
         /\ Carried(s)' = <<>> /\ dropped'[s] = 0 /\ spc'[s] = "open"
         /\ dropped' = dropped /\ chClosed' = chClosed
<1>1. SubTypes(M)' /\ ShapeOf(s)' /\ Untouched(s)
  BY Zenon DEF SubInv, SubTypes, SubShape, ShapeOf, Register, Untouched, Place, PumpPlace
<1>2. SubInv(M)'
  BY Zenon, <1>1, ShapeKept DEF SubInv
<1>3. /\ Carried(s)' = <<>> /\ dropped'[s] = 0 /\ spc'[s] = "open"
      /\ dropped' = dropped /\ chClosed' = chClosed
  BY DEF SubInv, SubTypes, SubShape, ShapeOf, Register, Carried
<1> QED BY Zenon, <1>1, <1>2, <1>3

\* Appending to the second of two sequences appends to both.
LEMMA AppendBehind ==
  ASSUME NEW M, NEW a \in Seq(M), NEW b \in Seq(M), NEW m \in M
  PROVE  a \o b \in Seq(M) /\ a \o Append(b, m) = Append(a \o b, m)
OBVIOUS

\* An offer to an open channel lengthens the stream or is counted as dropped.
LEMMA OfferStep ==
  ASSUME NEW M, SubInv(M), NEW s \in Sub, NEW m \in M, spc[s] \notin {"new", "checked"},
         Offer(s, m), UNCHANGED offerUnchanged
  PROVE  /\ SubInv(M)' /\ Untouched(s)
         /\ \/ chClosed[s] /\ dropped' = dropped
            \/ Carried(s)' = Append(Carried(s), m) /\ dropped' = dropped
            \/ Carried(s)' = Carried(s) /\ dropped'[s] = dropped[s] + 1
<1> USE DEF SubInv, SubTypes, SubShape, ShapeOf, Untouched, offerUnchanged
<1>1. CASE chClosed[s] /\ UNCHANGED <<ch, queuedBytes, dropped, panicked>>
  <2>1. SubTypes(M)' /\ ShapeOf(s)' /\ Untouched(s)
    BY <1>1
  <2> QED BY Zenon, <1>1, <2>1, ShapeKept
<1>2. CASE Send(s, m) /\ dropped' = dropped
  <2>1. SubTypes(M)' /\ ShapeOf(s)' /\ Untouched(s)
    BY <1>2 DEF Send
  <2>2. PICK a : a = out[s] \o (IF pump[s] = "sending" THEN inflight[s] ELSE <<>>)
    BY Zenon
  <2>3. a \in Seq(M) /\ ch[s] \in Seq(M)
    BY <2>2
  <2>4. Carried(s) = a \o ch[s] /\ Carried(s)' = a \o Append(ch[s], m)
    BY Zenon, <1>2, <2>2 DEF Send, Carried
  <2>5. a \o Append(ch[s], m) = Append(a \o ch[s], m)
    BY <2>3, AppendBehind
  <2>6. Carried(s)' = Append(Carried(s), m)
    BY Zenon, <2>4, <2>5
  <2> QED BY Zenon, <1>2, <2>1, <2>6, ShapeKept
<1>3. CASE Drop(s)
  <2>1. SubTypes(M)' /\ ShapeOf(s)' /\ Untouched(s)
    BY <1>3 DEF Drop
  <2>2. Carried(s)' = Carried(s) /\ dropped'[s] = dropped[s] + 1
    BY <1>3 DEF Drop, Carried
  <2> QED BY Zenon, <1>3, <2>1, <2>2, ShapeKept
<1> QED BY Zenon, <1>1, <1>2, <1>3 DEF Offer

\* What the others carry is what they carried.
LEMMA OthersCarry ==
  ASSUME NEW s \in Sub, Untouched(s), NEW x \in Sub \ {s}
  PROVE  SameStream(x)
BY Zenon DEF Untouched, SameStream, Carried

\* What a subscriber carries is a sequence of messages.
LEMMA CarriedSeq ==
  ASSUME NEW M, SubTypes(M), NEW s \in Sub
  PROVE  Carried(s) \in Seq(M) /\ dropped[s] \in Nat
<1>1. /\ out[s] \in Seq(M) /\ inflight[s] \in Seq(M) /\ ch[s] \in Seq(M) /\ <<>> \in Seq(M)
      /\ dropped[s] \in Nat
  BY DEF SubTypes
<1> QED BY <1>1 DEF Carried

\* The streams start empty, and the channels open.
LEMMA SubInitInv ==
  ASSUME NEW M, SubInit
  PROVE  SubInv(M) /\ \A s \in Sub : ~chClosed[s] /\ spc[s] = "new"
BY DEF SubInit, SubInv, SubTypes, SubShape, ShapeOf, Place, PumpPlace

-----------------------------------------------------------------------------
(* The account of a subscriber: c is what it carries, d what it dropped, A *)
(* what was addressed to it and U what it has still to be offered.         *)

Account(c, d, A, U) ==
  /\ Range(c) \subseteq A \ U
  /\ Len(c) + d + Cardinality(U) = Cardinality(A)

\* Append adds one member and one to the length.
LEMMA AppendSet ==
  ASSUME NEW M, NEW c \in Seq(M), NEW m \in M
  PROVE  /\ Range(Append(c, m)) = Range(c) \cup {m}
         /\ Len(Append(c, m)) = Len(c) + 1 /\ Len(c) \in Nat
<1>1. /\ Len(Append(c, m)) = Len(c) + 1 /\ Len(c) \in Nat
      /\ DOMAIN c = 1..Len(c) /\ DOMAIN Append(c, m) = 1..(Len(c) + 1)
      /\ Append(c, m)[Len(c) + 1] = m
      /\ \A i \in 1..Len(c) : Append(c, m)[i] = c[i]
  OBVIOUS
<1>2. 1..(Len(c) + 1) = 1..Len(c) \cup {Len(c) + 1}
  BY <1>1
<1>3. ASSUME NEW x PROVE x \in Range(Append(c, m)) <=> x \in Range(c) \cup {m}
  <2>1. x \in Range(Append(c, m)) <=> \E i \in 1..Len(c) \cup {Len(c) + 1} : Append(c, m)[i] = x
    BY Zenon, <1>1, <1>2 DEF Range
  <2>2. x \in Range(c) <=> \E i \in 1..Len(c) : c[i] = x
    BY Zenon, <1>1 DEF Range
  <2> QED BY Zenon, <1>1, <2>1, <2>2
<1> QED BY Zenon, <1>1, <1>3

\* One more message is addressed to it, and has to be offered.
LEMMA AccountAddressed ==
  ASSUME NEW c, Len(c) \in Nat, NEW d \in Nat, NEW A, IsFiniteSet(A), NEW U \in SUBSET A,
         Account(c, d, A, U), NEW m, m \notin A
  PROVE  Account(c, d, A \cup {m}, U \cup {m})
<1>1. IsFiniteSet(U) /\ m \notin U
  BY Zenon, FS_Subset
<1>2. Cardinality(A \cup {m}) = Cardinality(A) + 1 /\ Cardinality(U \cup {m}) = Cardinality(U) + 1
  BY Zenon, <1>1, FS_AddElement
<1>3. Cardinality(A) \in Nat /\ Cardinality(U) \in Nat
  BY Zenon, <1>1, FS_CardinalityType
<1>4. Range(c) \subseteq (A \cup {m}) \ (U \cup {m})
  BY Zenon DEF Account
<1>5. Len(c) + d + (Cardinality(U) + 1) = Cardinality(A) + 1
  BY <1>3 DEF Account
<1> QED BY Zenon, <1>2, <1>4, <1>5 DEF Account

\* The offer is settled: the message is queued or counted.
LEMMA AccountOffered ==
  ASSUME NEW M, NEW c \in Seq(M), NEW d \in Nat, NEW A, IsFiniteSet(A), NEW U \in SUBSET A,
         Account(c, d, A, U), NEW m \in M, m \in U
  PROVE  Account(Append(c, m), d, A, U \ {m}) /\ Account(c, d + 1, A, U \ {m})
<1>1. IsFiniteSet(U)
  BY Zenon, FS_Subset
<1>2. Cardinality(U \ {m}) = Cardinality(U) - 1
  BY Zenon, <1>1, FS_RemoveElement
<1>3. Cardinality(A) \in Nat /\ Cardinality(U) \in Nat
  BY Zenon, <1>1, FS_CardinalityType
<1>4. /\ Range(c) \subseteq A \ (U \ {m})
      /\ Range(Append(c, m)) \subseteq A \ (U \ {m})
  <2>1. Range(c) \subseteq A \ U /\ m \in A
    BY Zenon DEF Account
  <2>2. Range(Append(c, m)) = Range(c) \cup {m}
    BY AppendSet
  <2> QED BY Zenon, <2>1, <2>2
<1>5. Len(Append(c, m)) = Len(c) + 1 /\ Len(c) \in Nat
  BY Zenon, AppendSet
<1>6. /\ Len(c) + 1 + d + (Cardinality(U) - 1) = Cardinality(A)
      /\ Len(c) + (d + 1) + (Cardinality(U) - 1) = Cardinality(A)
  BY <1>3, <1>5 DEF Account
<1> QED BY Zenon, <1>2, <1>4, <1>5, <1>6 DEF Account

\* Nothing addressed, nothing owed.
LEMMA AccountOpens == Account(<<>>, 0, {}, {})
<1>1. Cardinality({}) = 0 /\ Len(<<>>) = 0 /\ DOMAIN <<>> = {}
  BY FS_EmptySet
<1> QED BY <1>1 DEF Account, Range

-----------------------------------------------------------------------------
(* The event bus. *)

\* What has been addressed to s, and what of it is still to be offered.
AddressedTo(s) ==
  /\ IsFiniteSet(addressed[s]) /\ addressed[s] \subseteq BusMessage
  /\ \A m \in addressed[s] : m[2] <= published[m[1]]
  /\ \A p \in Publisher : s \in copied[p] =>
       Current(p) \in addressed[s] /\ spc[s] \notin {"new", "checked"}
  /\ spc[s] \in {"new", "checked"} => addressed[s] = {}
  /\ chClosed[s] => spc[s] = "closed"

BusTypes ==
  /\ published \in [Publisher -> Nat]
  /\ copied \in [Publisher -> SUBSET Sub]
  /\ addressed \in [Sub -> SUBSET BusMessage]

\* The messages of one publisher are in the order it sent them.
InOrder(c) == \A h, i \in DOMAIN c : h < i /\ c[h][1] = c[i][1] => c[h][2] < c[i][2]

SettledFor(s) ==
  spc[s] = "open" =>
    InOrder(Carried(s)) /\ Account(Carried(s), dropped[s], addressed[s], Unoffered(s))

BusInv ==
  /\ SubInv(BusMessage) /\ BusTypes
  /\ \A s \in Sub : AddressedTo(s) /\ SettledFor(s)

\* A message is to be offered to s when its publisher still holds s in its
\* copy.
LEMMA UnofferedIs ==
  ASSUME NEW s
  PROVE  \A u : u \in Unoffered(s) <=> \E q \in Publisher : s \in copied[q] /\ u = Current(q)
BY Zenon DEF Unoffered

\* What is to be offered was addressed.
LEMMA UnofferedAddressed ==
  ASSUME NEW s, AddressedTo(s)
  PROVE  Unoffered(s) \subseteq addressed[s] /\ IsFiniteSet(Unoffered(s))
<1>1. ASSUME NEW u \in Unoffered(s) PROVE u \in addressed[s]
  <2>1. PICK q \in Publisher : s \in copied[q] /\ u = Current(q)
    BY Zenon, <1>1, UnofferedIs
  <2> QED BY Zenon, <2>1 DEF AddressedTo
<1>2. IsFiniteSet(addressed[s])
  BY Zenon DEF AddressedTo
<1> QED BY Zenon, <1>1, <1>2, FS_Subset

\* Only the fields of the broker and the stream of x matter to x.
LEMMA BusKept ==
  ASSUME NEW x \in Sub, AddressedTo(x), SettledFor(x), UNCHANGED busVars,
         spc'[x] \in {"new", "checked"} <=> spc[x] \in {"new", "checked"},
         chClosed'[x] => spc'[x] = "closed",
         spc'[x] = "open" => spc[x] = "open" /\ Carried(x)' = Carried(x) /\ dropped'[x] = dropped[x]
  PROVE  AddressedTo(x)' /\ SettledFor(x)'
<1>1. published' = published /\ copied' = copied /\ addressed' = addressed
  BY Zenon DEF busVars
<1>2. Unoffered(x)' = Unoffered(x)
  BY Zenon, <1>1 DEF Unoffered, Current
<1>3. AddressedTo(x)'
  BY Zenon, <1>1 DEF AddressedTo, Current
<1>4. SettledFor(x)'
  BY Zenon, <1>1, <1>2 DEF SettledFor
<1> QED BY Zenon, <1>3, <1>4

\* A step of a pump or an owner keeps the account of every subscriber.
LEMMA BusSubStep ==
  ASSUME BusInv, NEW s \in Sub, SubStep(s), UNCHANGED busVars
  PROVE  BusInv'
<1>1. SubInv(BusMessage)' /\ Untouched(s) /\ dropped' = dropped
  BY Zenon, SubStepKeeps, StepUntouched DEF BusInv, SubInv
<1>2. BusTypes'
  BY Zenon DEF BusInv, BusTypes, busVars
<1>3. ASSUME NEW x \in Sub PROVE AddressedTo(x)' /\ SettledFor(x)'
  <2>1. AddressedTo(x) /\ SettledFor(x) /\ (chClosed[x] => spc[x] = "closed")
    BY Zenon DEF BusInv, AddressedTo
  <2>2. CASE x = s
    <3>1. /\ spc'[s] = "open" => spc[s] = "open"
          /\ spc'[s] = "open" /\ ~chClosed'[s] => Carried(s)' = Carried(s)
          /\ chClosed'[s] => chClosed[s] \/ spc'[s] = "closed"
          /\ spc'[s] \in {"new", "checked"} <=> spc[s] \in {"new", "checked"}
          /\ spc[s] = "closed" => spc'[s] = "closed"
      BY Zenon, StepStream DEF BusInv
    <3>2. chClosed'[s] => spc'[s] = "closed"
      BY Zenon, <2>1, <2>2, <3>1
    <3> QED BY Zenon, <1>1, <2>1, <2>2, <3>1, <3>2, BusKept
  <2>3. CASE x # s
    BY Zenon, <1>1, <2>1, <2>3, OthersCarry, BusKept DEF SameStream
  <2> QED BY Zenon, <2>2, <2>3
<1> QED BY Zenon, <1>1, <1>2, <1>3 DEF BusInv

\* Subscribe opens an account in which nothing is owed.
LEMMA BusSubscribe ==
  ASSUME BusInv, NEW s \in Sub, Subscribe(s)
  PROVE  BusInv'
<1>0. spc[s] = "new" /\ Register(s) /\ UNCHANGED busVars
  BY Zenon DEF Subscribe
<1>1. /\ SubInv(BusMessage)' /\ Untouched(s) /\ chClosed' = chClosed
      /\ Carried(s)' = <<>> /\ dropped'[s] = 0 /\ spc'[s] = "open"
  BY Zenon, <1>0, RegisterStep DEF BusInv
<1>2. BusTypes'
  BY Zenon, <1>0 DEF BusInv, BusTypes, busVars
<1>3. ASSUME NEW x \in Sub PROVE AddressedTo(x)' /\ SettledFor(x)'
  <2>1. AddressedTo(x) /\ SettledFor(x) /\ (chClosed[x] => spc[x] = "closed")
    BY Zenon DEF BusInv, AddressedTo
  <2>2. CASE x = s
    <3>1. published' = published /\ copied' = copied /\ addressed' = addressed
      BY Zenon, <1>0 DEF busVars
    <3>2. addressed[s] = {} /\ (\A p \in Publisher : s \notin copied[p]) /\ ~chClosed[s]
      BY Zenon, <1>0, <2>1, <2>2 DEF AddressedTo
    <3>3. Unoffered(s)' = {}
      BY Zenon, <3>1, <3>2 DEF Unoffered
    <3>4. AddressedTo(s)'
      BY Zenon, <1>1, <2>1, <2>2, <3>1, <3>2 DEF AddressedTo
    <3>5. InOrder(<<>>)
      BY DEF InOrder
    <3>6. SettledFor(s)'
      BY Zenon, <1>1, <3>1, <3>2, <3>3, <3>5, AccountOpens DEF SettledFor
    <3> QED BY Zenon, <2>2, <3>4, <3>6
  <2>3. CASE x # s
    BY Zenon, <1>0, <1>1, <2>1, <2>3, OthersCarry, BusKept DEF SameStream
  <2> QED BY Zenon, <2>2, <2>3
<1> QED BY Zenon, <1>1, <1>2, <1>3 DEF BusInv

\* Publish begins: its message is addressed to the subscribers of the moment.
LEMMA BusPublishBegin ==
  ASSUME BusInv, NEW p \in Publisher, PublishBegin(p)
  PROVE  BusInv'
<1>1. PICK m : m = <<p, published[p] + 1>>
  BY Zenon
<1>2. /\ copied[p] = {} /\ published[p] < MaxPublished[p]
      /\ published' = [published EXCEPT ![p] = published[p] + 1]
      /\ copied' = [copied EXCEPT ![p] = subs]
      /\ addressed' = [s \in Sub |-> IF s \in subs THEN addressed[s] \cup {m} ELSE addressed[s]]
      /\ UNCHANGED subVars
  BY Zenon, <1>1 DEF PublishBegin
<1>3. published \in [Publisher -> Nat] /\ copied \in [Publisher -> SUBSET Sub] /\ subs \subseteq Sub
  BY Zenon DEF BusInv, BusTypes, SubInv, SubTypes
<1>4. m \in BusMessage
  <2>1. published[p] \in Nat /\ MaxPublished[p] \in Nat
    BY Zenon, <1>3, BusAssumption
  <2>2. published[p] + 1 \in 1..MaxPublished[p]
    BY <1>2, <2>1
  <2>3. m \in {p} \X (1..MaxPublished[p])
    BY <1>1, <2>2
  <2> QED BY Zenon, <2>3 DEF BusMessage
<1>5. SubInv(BusMessage)'
  BY Zenon, <1>2 DEF BusInv, SubInv, SubTypes, SubShape, ShapeOf, subVars
<1>6. BusTypes'
  <2>1. published[p] + 1 \in Nat
    BY <1>3
  <2>2. published' \in [Publisher -> Nat] /\ copied' \in [Publisher -> SUBSET Sub]
    BY Zenon, <1>2, <1>3, <2>1
  <2>3. addressed' \in [Sub -> SUBSET BusMessage]
    BY Zenon, <1>2, <1>4 DEF BusInv, BusTypes
  <2> QED BY Zenon, <2>2, <2>3 DEF BusTypes
<1>7. /\ Current(p)' = m /\ copied'[p] = subs /\ published'[p] = published[p] + 1
      /\ \A q \in Publisher \ {p} : /\ Current(q)' = Current(q) /\ copied'[q] = copied[q]
                                    /\ published'[q] = published[q]
  BY Zenon, <1>1, <1>2, <1>3 DEF Current
<1>8. \A q \in Publisher : published[q] \in Nat /\ published'[q] \in Nat /\ published[q] <= published'[q]
  BY <1>3, <1>7
<1>9. ASSUME NEW x \in Sub PROVE AddressedTo(x)' /\ SettledFor(x)'
  <2>1. AddressedTo(x) /\ SettledFor(x) /\ ShapeOf(x)
    BY Zenon DEF BusInv, SubInv, SubShape
  <2>2. m \notin addressed[x]
    <3>1. m \in addressed[x] => published[p] + 1 <= published[p]
      BY <1>1, <2>1 DEF AddressedTo
    <3> QED BY <1>8, <3>1
  <2>3. /\ addressed'[x] = IF x \in subs THEN addressed[x] \cup {m} ELSE addressed[x]
        /\ spc'[x] = spc[x] /\ chClosed'[x] = chClosed[x] /\ dropped'[x] = dropped[x]
        /\ Carried(x)' = Carried(x)
    BY Zenon, <1>2 DEF subVars, Carried
  <2>4. x \in subs => spc[x] \notin {"new", "checked"}
    BY Zenon, <2>1 DEF ShapeOf
  <2>5. Unoffered(x)' = IF x \in subs THEN Unoffered(x) \cup {m} ELSE Unoffered(x)
    <3>1. \A u : u \in Unoffered(x)' <=> \E q \in Publisher : x \in copied'[q] /\ u = Current(q)'
      BY Zenon DEF Unoffered
    <3>2. \A u : u \in Unoffered(x) <=> \E q \in Publisher \ {p} : x \in copied[q] /\ u = Current(q)
      BY Zenon, <1>2, UnofferedIs
    <3>3. \A u : u \in Unoffered(x)' <=> u \in Unoffered(x) \/ (x \in subs /\ u = m)
      <4>1. \A u : (\E q \in Publisher \ {p} : x \in copied'[q] /\ u = Current(q)') <=> u \in Unoffered(x)
        BY Zenon, <1>7, <3>2
      <4>2. \A u : (x \in copied'[p] /\ u = Current(p)') <=> (x \in subs /\ u = m)
        BY Zenon, <1>7
      <4>3. \A u : u \in Unoffered(x)' <=>
                     \/ \E q \in Publisher \ {p} : x \in copied'[q] /\ u = Current(q)'
                     \/ x \in copied'[p] /\ u = Current(p)'
        BY Zenon, <3>1
      <4> QED BY Zenon, <4>1, <4>2, <4>3
    <3> QED BY Zenon, <3>3
  <2>6. AddressedTo(x)'
    <3>1. IsFiniteSet(addressed'[x]) /\ addressed'[x] \subseteq BusMessage
      <4>1. IsFiniteSet(addressed[x] \cup {m})
        BY Zenon, <2>1, FS_AddElement DEF AddressedTo
      <4> QED BY Zenon, <1>4, <2>1, <2>3, <4>1 DEF AddressedTo
    <3>2. ASSUME NEW n \in addressed'[x] PROVE n[2] <= published'[n[1]]
      <4>1. CASE n = m
        BY <1>1, <1>7, <1>8, <4>1
      <4>2. CASE n \in addressed[x]
        <5>1. n[2] <= published[n[1]] /\ n \in BusMessage
          BY Zenon, <2>1, <4>2 DEF AddressedTo
        <5>2. n[1] \in Publisher /\ n[2] \in Nat
          BY <5>1, BusAssumption DEF BusMessage
        <5>3. published[n[1]] \in Nat /\ published'[n[1]] \in Nat /\ published[n[1]] <= published'[n[1]]
          BY Zenon, <1>8, <5>2
        <5> QED BY <5>1, <5>2, <5>3
      <4> QED BY Zenon, <2>3, <4>1, <4>2
    <3>3. ASSUME NEW q \in Publisher, x \in copied'[q]
          PROVE  Current(q)' \in addressed'[x] /\ spc'[x] \notin {"new", "checked"}
      <4>1. CASE q = p
        BY Zenon, <1>7, <2>3, <2>4, <3>3, <4>1
      <4>2. CASE q # p
        BY Zenon, <1>7, <2>1, <2>3, <3>3, <4>2 DEF AddressedTo
      <4> QED BY Zenon, <4>1, <4>2
    <3>4. /\ spc'[x] \in {"new", "checked"} => addressed'[x] = {}
          /\ chClosed'[x] => spc'[x] = "closed"
      BY Zenon, <2>1, <2>3, <2>4 DEF AddressedTo
    <3> QED BY Zenon, <3>1, <3>2, <3>3, <3>4 DEF AddressedTo
  <2>7. SettledFor(x)'
    <3> SUFFICES ASSUME spc[x] = "open"
                 PROVE  InOrder(Carried(x)) /\ Account(Carried(x), dropped[x], addressed'[x], Unoffered(x)')
      BY Zenon, <2>3 DEF SettledFor
    <3>1. InOrder(Carried(x)) /\ Account(Carried(x), dropped[x], addressed[x], Unoffered(x))
      BY Zenon, <2>1 DEF SettledFor
    <3>2. Carried(x) \in Seq(BusMessage) /\ dropped[x] \in Nat
      BY Zenon, CarriedSeq DEF BusInv, SubInv, SubTypes
    <3>3. PICK c, d, A, U : c = Carried(x) /\ d = dropped[x] /\ A = addressed[x] /\ U = Unoffered(x)
      BY Zenon
    <3>4. Len(c) \in Nat
      BY <3>2, <3>3
    <3>5. IsFiniteSet(A) /\ U \in SUBSET A
      BY Zenon, <2>1, <3>3, UnofferedAddressed DEF AddressedTo
    <3>6. Account(c, d, A \cup {m}, U \cup {m})
      BY Zenon, <2>2, <3>1, <3>2, <3>3, <3>4, <3>5, AccountAddressed
    <3> QED BY Zenon, <2>3, <2>5, <3>1, <3>3, <3>6
  <2> QED BY Zenon, <2>6, <2>7
<1> QED BY Zenon, <1>5, <1>6, <1>9 DEF BusInv

\* A publisher's later message comes after the ones it has queued.
LEMMA OrderAppend ==
  ASSUME NEW M, NEW c \in Seq(M), NEW m \in M, InOrder(c),
         \A n \in Range(c) : n[1] = m[1] => n[2] < m[2]
  PROVE  InOrder(Append(c, m))
<1>1. PICK long, len : long = Append(c, m) /\ len = Len(c)
  BY Zenon
<1>2. /\ len \in Nat /\ DOMAIN c = 1..len /\ DOMAIN long = 1..(len + 1)
      /\ long[len + 1] = m /\ \A i \in 1..len : long[i] = c[i]
  BY <1>1
<1>3. \A i \in 1..len : c[i] \in Range(c)
  BY Zenon, <1>2 DEF Range
<1>4. ASSUME NEW h \in DOMAIN long, NEW i \in DOMAIN long, h < i, long[h][1] = long[i][1]
      PROVE  long[h][2] < long[i][2]
  <2>1. h \in 1..len /\ (i \in 1..len \/ i = len + 1)
    BY <1>2, <1>4
  <2>2. CASE i = len + 1
    BY Zenon, <1>2, <1>3, <1>4, <2>1, <2>2
  <2>3. CASE i \in 1..len
    BY Zenon, <1>2, <1>4, <2>1, <2>3 DEF InOrder
  <2> QED BY Zenon, <2>1, <2>2, <2>3
<1> QED BY Zenon, <1>1, <1>4 DEF InOrder

\* The offer to s is settled; nobody else is touched.
LEMMA BusOffer ==
  ASSUME BusInv, NEW p \in Publisher, NEW s \in Sub, PublishOffer(p, s)
  PROVE  BusInv'
<1>1. PICK m : m = Current(p)
  OBVIOUS
<1>2. /\ s \in copied[p] /\ copied' = [copied EXCEPT ![p] = copied[p] \ {s}]
      /\ Offer(s, m) /\ UNCHANGED offerUnchanged /\ published' = published /\ addressed' = addressed
  BY Zenon, <1>1 DEF PublishOffer
<1>3. /\ AddressedTo(s) /\ SettledFor(s) /\ m \in addressed[s] /\ m \in BusMessage
      /\ spc[s] \notin {"new", "checked"}
  BY Zenon, <1>1, <1>2 DEF BusInv, AddressedTo
<1>4. /\ SubInv(BusMessage)' /\ Untouched(s)
      /\ \/ chClosed[s] /\ dropped' = dropped
         \/ Carried(s)' = Append(Carried(s), m) /\ dropped' = dropped
         \/ Carried(s)' = Carried(s) /\ dropped'[s] = dropped[s] + 1
  BY Zenon, <1>2, <1>3, OfferStep DEF BusInv
<1>5. published \in [Publisher -> Nat] /\ copied \in [Publisher -> SUBSET Sub]
  BY Zenon DEF BusInv, BusTypes
<1>6. BusTypes'
  <2>1. copied[p] \ {s} \in SUBSET Sub
    BY Zenon, <1>5
  <2> QED BY Zenon, <1>2, <1>5, <2>1 DEF BusInv, BusTypes
<1>7. /\ copied'[p] = copied[p] \ {s} /\ \A q \in Publisher \ {p} : copied'[q] = copied[q]
      /\ \A q : Current(q)' = Current(q)
      /\ spc' = spc /\ chClosed' = chClosed
  BY Zenon, <1>2, <1>5 DEF Current, offerUnchanged
<1>8. ASSUME NEW x \in Sub PROVE AddressedTo(x)'
  <2>1. AddressedTo(x)
    BY Zenon DEF BusInv
  <2>2. \A q \in Publisher : x \in copied'[q] => x \in copied[q]
    BY Zenon, <1>7
  <2> QED BY Zenon, <1>2, <1>7, <2>1, <2>2 DEF AddressedTo
<1>9. SettledFor(s)'
  <2> SUFFICES ASSUME spc[s] = "open"
               PROVE  InOrder(Carried(s)') /\ Account(Carried(s)', dropped'[s], addressed[s], Unoffered(s)')
    BY Zenon, <1>2, <1>7 DEF SettledFor
  <2>1. Unoffered(s)' = Unoffered(s) \ {m}
    <3>1. \A q \in Publisher : Current(q) = m <=> q = p
      BY <1>1 DEF Current
    <3>2. \A u : u \in Unoffered(s)' <=> \E q \in Publisher : s \in copied'[q] /\ u = Current(q)
      BY Zenon, <1>7 DEF Unoffered
    <3>3. \A q \in Publisher : s \in copied'[q] <=> s \in copied[q] /\ q # p
      BY Zenon, <1>7
    <3>4. \A u : u \in Unoffered(s) <=> \E q \in Publisher : s \in copied[q] /\ u = Current(q)
      BY Zenon, UnofferedIs
    <3>5. ASSUME NEW u, u \in Unoffered(s)' PROVE u \in Unoffered(s) /\ u # m
      <4>1. PICK q \in Publisher : s \in copied'[q] /\ u = Current(q)
        BY Zenon, <3>2, <3>5
      <4> QED BY Zenon, <3>1, <3>3, <3>4, <4>1
    <3>6. ASSUME NEW u, u \in Unoffered(s), u # m PROVE u \in Unoffered(s)'
      <4>1. PICK q \in Publisher : s \in copied[q] /\ u = Current(q)
        BY Zenon, <3>4, <3>6
      <4> QED BY Zenon, <3>1, <3>2, <3>3, <3>6, <4>1
    <3> QED BY Zenon, <3>5, <3>6
  <2>2. m \in Unoffered(s)
    BY Zenon, <1>1, <1>2, UnofferedIs
  <2>3. PICK c, d, A, U : c = Carried(s) /\ d = dropped[s] /\ A = addressed[s] /\ U = Unoffered(s)
    BY Zenon
  <2>4. c \in Seq(BusMessage) /\ d \in Nat
    BY Zenon, <2>3, CarriedSeq DEF BusInv, SubInv
  <2>5. IsFiniteSet(A) /\ U \in SUBSET A
    BY Zenon, <1>3, <2>3, UnofferedAddressed DEF AddressedTo
  <2>6. InOrder(c) /\ Account(c, d, A, U)
    BY Zenon, <1>3, <2>3 DEF SettledFor
  <2>7. Account(Append(c, m), d, A, U \ {m}) /\ Account(c, d + 1, A, U \ {m})
    BY Zenon, <1>3, <2>2, <2>3, <2>4, <2>5, <2>6, AccountOffered
  <2>8. InOrder(Append(c, m))
    <3>1. ASSUME NEW n \in Range(c), n[1] = m[1] PROVE n[2] < m[2]
      <4>1. n \in A /\ n # m
        BY Zenon, <2>2, <2>3, <2>6 DEF Account
      <4>2. n[2] <= published[n[1]] /\ n \in BusMessage
        BY Zenon, <1>3, <2>3, <4>1 DEF AddressedTo
      <4>3. n = <<n[1], n[2]>> /\ n[2] \in Nat
        BY <4>2, BusAssumption DEF BusMessage
      <4>4. m[1] = p /\ m[2] = published[p] /\ m = <<p, published[p]>> /\ published[p] \in Nat
        BY <1>1, <1>5 DEF Current
      <4>5. n[2] # published[p]
        BY Zenon, <3>1, <4>1, <4>3, <4>4
      <4> QED BY <3>1, <4>2, <4>3, <4>4, <4>5
    <3> QED BY Zenon, <1>3, <2>4, <2>6, <3>1, OrderAppend
  <2>9. ~chClosed[s]
    BY Zenon, <1>3 DEF AddressedTo
  <2> QED BY Zenon, <1>4, <2>1, <2>3, <2>6, <2>7, <2>8, <2>9
<1>10. ASSUME NEW x \in Sub \ {s} PROVE SettledFor(x)'
  <2>1. SettledFor(x) /\ SameStream(x)
    BY Zenon, <1>4, OthersCarry DEF BusInv
  <2>2. \A q \in Publisher : x \in copied'[q] <=> x \in copied[q]
    BY Zenon, <1>7
  <2>3. Unoffered(x)' = Unoffered(x)
    <3>1. \A u : u \in Unoffered(x)' <=> \E q \in Publisher : x \in copied'[q] /\ u = Current(q)
      BY Zenon, <1>7 DEF Unoffered
    <3> QED BY Zenon, <2>2, <3>1, UnofferedIs
  <2> QED BY Zenon, <1>2, <2>1, <2>3 DEF SettledFor, SameStream
<1> QED BY Zenon, <1>4, <1>6, <1>8, <1>9, <1>10 DEF BusInv

\* The accounts of all subscribers of the bus are in order in every state.
THEOREM BusInvariance == BusSpec => []BusInv
<1>1. BusInit => BusInv
  <2> SUFFICES ASSUME BusInit PROVE BusInv
    OBVIOUS
  <2>1. SubInv(BusMessage) /\ \A s \in Sub : ~chClosed[s] /\ spc[s] = "new"
    BY Zenon, SubInitInv DEF BusInit
  <2>2. BusTypes
    BY DEF BusInit, BusTypes
  <2>3. \A s \in Sub : AddressedTo(s) /\ SettledFor(s)
    BY Zenon, <2>1, FS_EmptySet DEF BusInit, AddressedTo, SettledFor
  <2> QED BY Zenon, <2>1, <2>2, <2>3 DEF BusInv
<1>2. BusInv /\ [BusNext]_eventVars => BusInv'
  <2> SUFFICES ASSUME BusInv, [BusNext]_eventVars PROVE BusInv'
    OBVIOUS
  <2>1. CASE UNCHANGED eventVars
    <3>1. UNCHANGED subVars /\ UNCHANGED busVars
      BY Zenon, <2>1 DEF eventVars
    <3>2. SubInv(BusMessage)'
      BY Zenon, <3>1 DEF BusInv, SubInv, SubTypes, SubShape, ShapeOf, subVars
    <3>3. BusTypes'
      BY Zenon, <3>1 DEF BusInv, BusTypes, busVars
    <3>4. ASSUME NEW x \in Sub PROVE AddressedTo(x)' /\ SettledFor(x)'
      <4>1. AddressedTo(x) /\ SettledFor(x)
        BY Zenon DEF BusInv
      <4>2. /\ spc'[x] = spc[x] /\ chClosed'[x] = chClosed[x] /\ dropped'[x] = dropped[x]
            /\ Carried(x)' = Carried(x) /\ (chClosed[x] => spc[x] = "closed")
        BY Zenon, <3>1, <4>1 DEF subVars, Carried, AddressedTo
      <4> QED BY Zenon, <3>1, <4>1, <4>2, BusKept
    <3> QED BY Zenon, <3>2, <3>3, <3>4 DEF BusInv
  <2>2. CASE BusNext
    <3>1. CASE \E p \in Publisher : PublishBegin(p) \/ \E s \in Sub : PublishOffer(p, s)
      BY Zenon, <3>1, BusPublishBegin, BusOffer
    <3>2. CASE \E s \in Sub : SubStep(s) /\ UNCHANGED busVars
      BY Zenon, <3>2, BusSubStep
    <3>3. CASE \E s \in Sub : Subscribe(s)
      BY Zenon, <3>3, BusSubscribe
    <3>4. CASE Quiet
      BY Zenon, <2>1, <3>4 DEF Quiet
    <3> QED BY Zenon, <2>2, <3>1, <3>2, <3>3, <3>4 DEF BusNext, SubStep
  <2> QED BY Zenon, <2>1, <2>2
<1> QED BY <1>1, <1>2, PTL DEF BusSpec

-----------------------------------------------------------------------------
(* The byte account. *)

\* The charge of one message is its size.
LEMMA BytesOne ==
  ASSUME NEW m \in Message
  PROVE  Bytes(<<m>>) = Size[m] /\ Size[m] \in Nat
<1>1. <<>> \in Seq(Message) /\ Append(<<>>, m) = <<m>>
  OBVIOUS
<1>2. Size[m] \in Nat
  BY Zenon, SizeAssumption
<1>3. Bytes(<<m>>) = 0 + Size[m]
  BY Zenon, <1>1, BytesAppend, BytesEmpty
<1> QED BY <1>2, <1>3

ChargeOf(s) ==
  /\ queuedBytes[s] <= MaxBytes
  /\ queuedBytes[s] = Bytes(inflight[s] \o ch[s])

ByteInv ==
  /\ queuedBytes \in [Sub -> Nat] /\ ~panicked
  /\ \A s \in Sub : ChargeOf(s)

\* Moving a message from the queue to the pump's hands changes no charge.
LEMMA ReceiveCharge ==
  ASSUME SubInv(Message), ByteInv, NEW s \in Sub, PumpReceive(s)
  PROVE  inflight'[s] \o ch'[s] = inflight[s] \o ch[s] /\ queuedBytes' = queuedBytes
<1>1. /\ inflight[s] = <<>> /\ ch[s] \in Seq(Message) /\ ch[s] # <<>>
      /\ inflight'[s] = <<Head(ch[s])>> /\ ch'[s] = Tail(ch[s]) /\ queuedBytes' = queuedBytes
  BY DEF PumpReceive, SubInv, SubTypes, SubShape, ShapeOf
<1> QED BY <1>1

\* The credit is what the message was charged.
LEMMA DequeueCharge ==
  ASSUME SubInv(Message), ByteInv, NEW s \in Sub, OnDequeued(s)
  PROVE  ChargeOf(s)' /\ queuedBytes' \in [Sub -> Nat]
<1>1. /\ inflight[s] \in Seq(Message) /\ Len(inflight[s]) = 1 /\ ch[s] \in Seq(Message)
      /\ inflight'[s] = <<>> /\ ch'[s] = ch[s]
  BY DEF OnDequeued, SubInv, SubTypes, SubShape, ShapeOf
<1>2. PICK m \in Message : inflight[s] = <<m>>
  <2>1. inflight[s] = <<inflight[s][1]>> /\ inflight[s][1] \in Message
    BY <1>1
  <2> QED BY Zenon, <2>1
<1>3. ch[s] \in Seq(Message) /\ <<>> \o ch[s] = ch[s]
  BY <1>1
<1>4. Bytes(<<m>> \o ch[s]) = Size[m] + Bytes(ch[s]) /\ Bytes(ch[s]) \in Nat
  BY Zenon, <1>3, BytesFirst
<1>5. Bytes(inflight[s]) = Size[m] /\ Size[m] \in Nat
  BY Zenon, <1>2, BytesOne
<1>6. queuedBytes[s] = Size[m] + Bytes(ch[s]) /\ queuedBytes[s] <= MaxBytes /\ MaxBytes \in Nat
  BY Zenon, <1>2, <1>4, LimitAssumption DEF ByteInv, ChargeOf
<1>7. PICK q : q = IF queuedBytes[s] < Bytes(inflight[s]) THEN 0 ELSE queuedBytes[s] - Bytes(inflight[s])
  OBVIOUS
<1>8. q = Bytes(ch[s]) /\ q <= MaxBytes /\ q \in Nat
  BY <1>4, <1>5, <1>6, <1>7
<1>9. queuedBytes' = [queuedBytes EXCEPT ![s] = q] /\ queuedBytes \in [Sub -> Nat]
  BY Zenon, <1>7 DEF OnDequeued, ByteInv
<1>10. queuedBytes'[s] = q /\ queuedBytes' \in [Sub -> Nat]
  BY Zenon, <1>8, <1>9
<1>11. inflight'[s] \o ch'[s] = ch[s]
  BY Zenon, <1>1, <1>3
<1> QED BY Zenon, <1>8, <1>10, <1>11 DEF ChargeOf

\* A message that fits is charged for; one that does not changes nothing.
LEMMA OfferCharge ==
  ASSUME SubInv(Message), ByteInv, NEW s \in Sub, NEW m \in Message,
         Offer(s, m), UNCHANGED offerUnchanged
  PROVE  ByteInv'
<1>1. inflight' = inflight /\ inflight[s] \in Seq(Message) /\ ch \in [Sub -> Seq(Message)]
  BY Zenon DEF offerUnchanged, SubInv, SubTypes
<1>2. CASE ch' = ch /\ queuedBytes' = queuedBytes /\ panicked' = panicked
  BY Zenon, <1>1, <1>2 DEF ByteInv, ChargeOf
<1>3. CASE ~chClosed[s] /\ Fits(s, m) /\ Send(s, m)
           /\ queuedBytes' = [queuedBytes EXCEPT ![s] = queuedBytes[s] + Size[m]]
  <2>1. /\ ch' = [ch EXCEPT ![s] = Append(ch[s], m)] /\ ~panicked'
        /\ queuedBytes[s] + Size[m] <= MaxBytes
    BY Zenon, <1>3 DEF Send, Fits, ByteInv
  <2>2. /\ ch'[s] = Append(ch[s], m) /\ \A x \in Sub \ {s} : ch'[x] = ch[x] /\ queuedBytes'[x] = queuedBytes[x]
        /\ queuedBytes'[s] = queuedBytes[s] + Size[m]
    BY Zenon, <1>1, <1>3, <2>1 DEF ByteInv
  <2>3. Size[m] \in Nat /\ queuedBytes[s] \in Nat /\ queuedBytes \in [Sub -> Nat]
    BY Zenon, <1>1, SizeAssumption DEF ByteInv
  <2>4. queuedBytes[s] + Size[m] \in Nat
    BY <2>3
  <2>5. queuedBytes' \in [Sub -> Nat]
    BY Zenon, <1>3, <2>3, <2>4
  <2>6. PICK old : old = inflight[s] \o ch[s]
    BY Zenon
  <2>7. old \in Seq(Message) /\ inflight[s] \o Append(ch[s], m) = Append(old, m)
    <3>1. PICK a \in Seq(Message), b \in Seq(Message) : a = inflight[s] /\ b = ch[s]
      BY Zenon, <1>1
    <3>2. a \o b \in Seq(Message) /\ a \o Append(b, m) = Append(a \o b, m)
      OBVIOUS
    <3> QED BY Zenon, <2>6, <3>1, <3>2
  <2>8. Bytes(Append(old, m)) = Bytes(old) + Size[m]
    BY Zenon, <1>1, <2>7, BytesAppend
  <2>9. ChargeOf(s)'
    BY Zenon, <1>1, <2>1, <2>2, <2>6, <2>7, <2>8 DEF ByteInv, ChargeOf
  <2>10. ASSUME NEW x \in Sub \ {s} PROVE ChargeOf(x)'
    BY Zenon, <1>1, <2>2 DEF ByteInv, ChargeOf
  <2> QED BY Zenon, <2>1, <2>5, <2>9, <2>10 DEF ByteInv
<1> QED BY Zenon, <1>2, <1>3 DEF Offer, Drop

\* No step of a pump or an owner leaks a charge.
LEMMA SubStepCharge ==
  ASSUME SubInv(Message), ByteInv, NEW s \in Sub, SubStep(s)
  PROVE  ByteInv'
<1>1. Untouched(s) /\ panicked' = panicked
  BY Zenon, StepUntouched DEF SubInv
<1>2. queuedBytes \in [Sub -> Nat] /\ ChargeOf(s) /\ ~panicked
  BY Zenon DEF ByteInv
<1>3. CASE inflight'[s] \o ch'[s] = inflight[s] \o ch[s] /\ queuedBytes' = queuedBytes
  BY Zenon, <1>1, <1>2, <1>3 DEF ByteInv, ChargeOf, Untouched
<1>4. CASE PumpReceive(s)
  BY Zenon, <1>3, <1>4, ReceiveCharge
<1>5. CASE OnDequeued(s)
  <2>1. ChargeOf(s)' /\ queuedBytes' \in [Sub -> Nat]
    BY Zenon, <1>5, DequeueCharge
  <2>2. \A x \in Sub \ {s} : queuedBytes'[x] = queuedBytes[x]
    BY Zenon, <1>2, <1>5 DEF OnDequeued
  <2> QED BY Zenon, <1>1, <1>2, <2>1, <2>2 DEF ByteInv, ChargeOf, Untouched
<1>6. CASE PumpDeliver(s) \/ PumpEnd(s) \/ PumpAbandon(s) \/ SubscriptionClose(s) \/ OwnerStep(s)
  BY Zenon, <1>3, <1>6 DEF PumpDeliver, PumpEnd, PumpAbandon, SubscriptionClose, OwnerStep,
     SubscriptionRemove, SubscriptionEnd
<1> QED BY Zenon, <1>4, <1>5, <1>6 DEF SubStep, PumpStep

\* For any publishers, subscribers and limits: offer and onDequeued keep the
\* byte account exact, nothing is sent on a closed channel, and each message
\* whose Publish saw a subscriber is received, queued in its publisher's order,
\* counted in Dropped() or about to be offered.
THEOREM QueuesAreSound == BusSpec => []QueuesSound
<1>1. BusInit => ByteInv
  <2> SUFFICES ASSUME BusInit PROVE ByteInv
    OBVIOUS
  <2>1. <<>> \o <<>> = <<>> /\ 0 \in Nat /\ 0 <= MaxBytes
    BY LimitAssumption
  <2> QED BY Zenon, <2>1, BytesEmpty DEF BusInit, SubInit, ByteInv, ChargeOf
<1>2. BusInv /\ ByteInv /\ [BusNext]_eventVars => ByteInv'
  <2> SUFFICES ASSUME BusInv, ByteInv, [BusNext]_eventVars PROVE ByteInv'
    OBVIOUS
  <2>1. SubInv(Message) /\ BusMessage \subseteq Message
    <3>1. SubTypes(BusMessage) /\ SubShape
      BY Zenon DEF BusInv, SubInv
    <3>2. SubTypes(Message)
      BY <3>1, BusAssumption DEF SubTypes
    <3> QED BY Zenon, <3>1, <3>2, BusAssumption DEF SubInv
  <2>2. CASE inflight' = inflight /\ ch' = ch /\ queuedBytes' = queuedBytes /\ panicked' = panicked
    BY Zenon, <2>2 DEF ByteInv, ChargeOf
  <2>3. ASSUME NEW p \in Publisher, NEW s \in Sub, PublishOffer(p, s) PROVE ByteInv'
    <3>1. s \in copied[p] /\ Offer(s, Current(p)) /\ UNCHANGED offerUnchanged
      BY Zenon, <2>3 DEF PublishOffer
    <3>2. Current(p) \in BusMessage
      BY Zenon, <3>1 DEF BusInv, AddressedTo
    <3> QED BY Zenon, <2>1, <3>1, <3>2, OfferCharge
  <2>4. ASSUME NEW s \in Sub, SubStep(s) PROVE ByteInv'
    BY Zenon, <2>1, <2>4, SubStepCharge
  <2>5. CASE UNCHANGED eventVars \/ Quiet \/ (\E p \in Publisher : PublishBegin(p))
             \/ (\E s \in Sub : Subscribe(s))
    BY Zenon, <2>2, <2>5 DEF eventVars, subVars, Quiet, PublishBegin, Subscribe, Register
  <2> QED BY Zenon, <2>3, <2>4, <2>5 DEF BusNext, SubStep
<1>3. BusInv /\ ByteInv => QueuesSound
  <2> SUFFICES ASSUME BusInv, ByteInv PROVE QueuesSound
    OBVIOUS
  <2>1. BytesAccounted /\ NoChannelPanic
    BY Zenon DEF ByteInv, ChargeOf, BytesAccounted, NoChannelPanic
  <2>2. OffersSettled
    BY Zenon DEF BusInv, SettledFor, InOrder, Account, OffersSettled
  <2> QED BY Zenon, <2>1, <2>2 DEF QueuesSound
<1> QED BY <1>1, <1>2, <1>3, BusInvariance, PTL DEF BusSpec

-----------------------------------------------------------------------------
(* The memory broker: the ring.  Only run writes it, one record at a time, so  *)
(* the invariant is about the ring and the event that run holds.              *)

\* The types that the argument needs.
RingTypes ==
  /\ ingestCh \in Seq(Event)
  /\ rpc = "taken" => rev[2] \in Event
  /\ records \in [0..(Capacity - 1) -> Record \cup {Zero}]
  /\ head \in 0..(Capacity - 1)
  /\ count \in 0..Capacity
  /\ nextSeq \in Nat
  /\ history \in Seq(Event)

\* The slot of the i-th record from the head h, and the i-th record of a window
\* that follows the first n events of the history f.
Slot(h, i) == (h + i) % Capacity
Entry(n, f, i) == <<n + i + 1, f[n + i + 1]>>

\* Every retained record is in the slot that Query reads for it.
SlotInv ==
  \A i \in 0..(count - 1) :
    records[Slot(head, i)] = Entry(nextSeq - count, history, i)

CountInv ==
  /\ nextSeq = Len(history)
  /\ count = IF nextSeq < Capacity THEN nextSeq ELSE Capacity

LogInv == RingTypes /\ CountInv /\ SlotInv

\* The index arithmetic of the ring wraps at most once.
LEMMA SlotFacts ==
  ASSUME NEW h \in 0..(Capacity - 1), NEW i \in 0..Capacity
  PROVE  Slot(h, i) = IF h + i < Capacity THEN h + i ELSE h + i - Capacity
BY CapacityAssumption DEF Slot

\* Appending to the history changes none of its earlier entries.
LEMMA HistoryGrows ==
  ASSUME LogInv, RunAppend
  PROVE  /\ rev[2] \in Event
         /\ history' \in Seq(Event)
         /\ Len(history') = nextSeq + 1
         /\ \A n \in 1..nextSeq : history'[n] = history[n]
         /\ history'[nextSeq + 1] = rev[2]
BY DEF LogInv, RingTypes, CountInv, RunAppend

\* appendEvent while the ring has room: the record goes behind the newest one.
LEMMA AppendWithRoom ==
  ASSUME LogInv, RunAppend, count < Capacity
  PROVE  LogInv'
<1> DEFINE slot == Slot(head, count)
           rec == <<nextSeq + 1, rev[2]>>
<1> USE CapacityAssumption
<1>1. /\ records' = [records EXCEPT ![slot] = rec]
      /\ count' = count + 1
      /\ head' = head
      /\ nextSeq' = nextSeq + 1
  BY DEF RunAppend, Store, Slot
<1>2. \A i \in 0..count : /\ Slot(head, i) \in 0..(Capacity - 1)
                         /\ i # count => Slot(head, i) # slot
  <2> SUFFICES ASSUME NEW i \in 0..count
               PROVE  /\ Slot(head, i) \in 0..(Capacity - 1)
                      /\ i # count => Slot(head, i) # slot
    OBVIOUS
  <2>1. head \in 0..(Capacity - 1) /\ count \in 0..Capacity /\ i \in 0..Capacity
    BY DEF LogInv, RingTypes
  <2>2. /\ slot = IF head + count < Capacity THEN head + count
                                            ELSE head + count - Capacity
        /\ Slot(head, i) = IF head + i < Capacity THEN head + i
                                                 ELSE head + i - Capacity
    BY <2>1, SlotFacts
  <2> QED
    BY <2>1, <2>2
<1>3. rec \in Record
  BY HistoryGrows DEF Record, LogInv, RingTypes
<1>4. slot \in 0..(Capacity - 1)
  <2>1. head \in 0..(Capacity - 1) /\ count \in 0..Capacity
    BY DEF LogInv, RingTypes
  <2>2. slot = IF head + count < Capacity THEN head + count
                                          ELSE head + count - Capacity
    BY <2>1, SlotFacts
  <2> QED
    BY <2>1, <2>2
<1> HIDE DEF slot
<1>5. RingTypes'
  BY <1>1, <1>3, <1>4, HistoryGrows DEF LogInv, RingTypes, RunAppend, ingressVars
<1>6. CountInv'
  BY <1>1, HistoryGrows DEF LogInv, RingTypes, CountInv
<1>7. SlotInv'
  <2>1. nextSeq' - count' = nextSeq - count /\ count' - 1 = count
    BY <1>1 DEF LogInv, RingTypes
  <2> SUFFICES ASSUME NEW i \in 0..count
               PROVE  records'[Slot(head, i)] = Entry(nextSeq - count, history', i)
    BY <1>1, <2>1 DEF SlotInv
  <2>2. CASE i = count
    <3>1. records'[slot] = rec
      BY <1>1, <1>4 DEF LogInv, RingTypes
    <3>2. nextSeq - count + i + 1 = nextSeq + 1
      BY <2>2 DEF LogInv, RingTypes
    <3> QED
      BY <2>2, <3>1, <3>2, HistoryGrows DEF slot, Entry
  <2>3. CASE i # count
    <3>1. i \in 0..(count - 1)
      BY <2>3 DEF LogInv, RingTypes
    <3>2. records'[Slot(head, i)] = records[Slot(head, i)]
      BY <1>1, <1>2, <2>3 DEF LogInv, RingTypes
    <3>3. nextSeq - count + i + 1 \in 1..nextSeq
      BY <3>1 DEF LogInv, RingTypes, CountInv
    <3> QED
      BY <3>1, <3>2, <3>3, HistoryGrows DEF LogInv, SlotInv, Entry
  <2> QED
    BY <2>2, <2>3
<1> QED
  BY <1>5, <1>6, <1>7 DEF LogInv

\* appendEvent on a full ring: the record replaces the oldest one, and the head
\* moves to the next oldest.
LEMMA AppendWhenFull ==
  ASSUME LogInv, RunAppend, count = Capacity
  PROVE  LogInv'
<1> DEFINE rec == <<nextSeq + 1, rev[2]>>
<1> USE CapacityAssumption
<1>1. /\ records' = [records EXCEPT ![head] = rec]
      /\ count' = count
      /\ head' = Slot(head, 1)
      /\ nextSeq' = nextSeq + 1
  BY DEF RunAppend, Store, LogInv, RingTypes, Slot
<1>2. head' = IF head + 1 < Capacity THEN head + 1 ELSE 0
  BY <1>1, SlotFacts DEF LogInv, RingTypes
<1>3. rec \in Record
  BY HistoryGrows DEF Record, LogInv, RingTypes
<1>4. RingTypes'
  BY <1>1, <1>2, <1>3, HistoryGrows DEF LogInv, RingTypes, RunAppend, ingressVars
<1>5. CountInv'
  BY <1>1, HistoryGrows DEF LogInv, RingTypes, CountInv
<1>6. SlotInv'
  <2>1. nextSeq' - count' = nextSeq - count + 1
    BY <1>1 DEF LogInv, RingTypes
  <2> SUFFICES ASSUME NEW i \in 0..(Capacity - 1)
               PROVE  records'[Slot(head', i)] =
                        Entry(nextSeq - count + 1, history', i)
    BY <1>1, <2>1 DEF SlotInv
  <2>2. CASE i = Capacity - 1
    <3>1. Slot(head', i) = head
      BY <1>2, <2>2, SlotFacts DEF LogInv, RingTypes
    <3>2. records'[head] = rec
      BY <1>1 DEF LogInv, RingTypes
    <3>3. nextSeq - count + 1 + i + 1 = nextSeq + 1
      BY <2>2 DEF LogInv, RingTypes
    <3> QED
      BY <3>1, <3>2, <3>3, HistoryGrows DEF Entry
  <2>3. CASE i # Capacity - 1
    <3>1. i + 1 \in 0..(count - 1)
      BY <2>3
    <3>2. /\ Slot(head', i) = Slot(head, i + 1)
          /\ Slot(head', i) \in 0..(Capacity - 1)
          /\ Slot(head', i) # head
      <4>1. /\ head \in 0..(Capacity - 1) /\ head' \in 0..(Capacity - 1)
            /\ i \in 0..Capacity /\ i + 1 \in 0..Capacity
        BY <1>2, <3>1 DEF LogInv, RingTypes
      <4>2. /\ Slot(head', i) = IF head' + i < Capacity
                                THEN head' + i ELSE head' + i - Capacity
            /\ Slot(head, i + 1) = IF head + (i + 1) < Capacity
                                   THEN head + (i + 1)
                                   ELSE head + (i + 1) - Capacity
        BY Zenon, <4>1, SlotFacts
      <4> QED
        BY <1>2, <2>3, <4>1, <4>2
    <3>3. records'[Slot(head', i)] = records[Slot(head, i + 1)]
      BY <1>1, <3>2 DEF LogInv, RingTypes
    <3>4. /\ nextSeq - count + (i + 1) + 1 = nextSeq - count + 1 + i + 1
          /\ nextSeq - count + (i + 1) + 1 \in 1..nextSeq
      BY <3>1 DEF LogInv, RingTypes, CountInv
    <3>5. records[Slot(head, i + 1)] = Entry(nextSeq - count, history, i + 1)
      BY <3>1 DEF LogInv, SlotInv
    <3> QED
      BY <3>3, <3>4, <3>5, HistoryGrows DEF Entry
  <2> QED
    BY <2>2, <2>3
<1> QED
  BY <1>4, <1>5, <1>6 DEF LogInv

\* Only appendEvent writes the log: every other step keeps the invariant.
LEMMA OtherStepsKeepLogInv ==
  ASSUME LogInv, [Next]_vars, ~RunAppend
  PROVE  LogInv'
<1> DEFINE ring == <<records, head, count, nextSeq, history>>
           ingress == <<ingestCh, rpc, rev>>
<1> USE DEF vars, subVars, brokerVars, ingressVars, ringVars, runVars, closeVars
<1>1. ASSUME UNCHANGED ring, RingTypes' PROVE LogInv'
  BY <1>1 DEF LogInv, CountInv, SlotInv
<1>2. CASE UNCHANGED <<ring, ingress>>
  BY <1>1, <1>2 DEF LogInv, RingTypes
<1>3. CASE RunTake
  <2>1. UNCHANGED ring /\ RingTypes'
    BY <1>3 DEF RunTake, LogInv, RingTypes
  <2> QED
    BY <1>1, <2>1
<1>4. CASE \E e \in Event : IngestSend(e)
  <2>1. UNCHANGED ring /\ rpc' = rpc /\ rev' = rev
    BY Zenon, <1>4 DEF IngestSend
  <2>2. PICK e \in Event : ingestCh' = ingestCh \/ ingestCh' = Append(ingestCh, e)
    BY Zenon, <1>4 DEF IngestSend
  <2>3. ingestCh' \in Seq(Event)
    BY <2>2 DEF LogInv, RingTypes
  <2>4. RingTypes'
    BY Zenon, <2>1, <2>3 DEF LogInv, RingTypes
  <2> QED
    BY Zenon, <1>1, <2>1, <2>4
<1>5. CASE RunExit \/ RunSnapshot \/ RunDone \/ \E s \in Sub : RunOffer(s)
  <2>1. UNCHANGED ring /\ RingTypes'
    BY <1>5 DEF RunExit, RunSnapshot, RunDone, RunOffer, LogInv, RingTypes
  <2> QED
    BY <1>1, <2>1
<1>6. CASE \E e \in Event : IngestCheck(e)
  BY <1>2, <1>6 DEF IngestCheck
<1>7. CASE CloseBegin \/ CloseStep \/ Stopped
  BY Zenon, <1>2, <1>7
     DEF CloseBegin, CloseStep, CloseSweep, CloseOne, CloseReturn, Stopped
<1>8. CASE \E s \in Sub : SubscribeCheck(s) \/ SubscribeRegister(s)
  BY <1>2, <1>8 DEF SubscribeCheck, SubscribeRegister
<1> QED
  BY <1>2, <1>3, <1>4, <1>5, <1>6, <1>7, <1>8 DEF Next, RunStep

\* The log is what it should be in every state the broker reaches.
THEOREM LogInvariance == Spec => []LogInv
<1>1. Init => LogInv
  BY CapacityAssumption
     DEF Init, LogInv, RingTypes, CountInv, SlotInv
<1>2. LogInv /\ [Next]_vars => LogInv'
  <2> SUFFICES ASSUME LogInv, [Next]_vars PROVE LogInv'
    OBVIOUS
  <2>1. count < Capacity \/ count = Capacity
    BY CapacityAssumption DEF LogInv, RingTypes
  <2> QED
    BY <2>1, AppendWithRoom, AppendWhenFull, OtherStepsKeepLogInv
<1> QED
  BY <1>1, <1>2, PTL DEF Spec

\* The slots hold the window of the last records.
LEMMA WindowHolds ==
  ASSUME LogInv
  PROVE  RingIsWindow
<1> SUFFICES ASSUME NEW i \in 1..count
             PROVE  records[(head + (i - 1)) % Capacity] =
                      <<nextSeq - count + i, history[nextSeq - count + i]>>
  BY DEF LogInv, CountInv, RingIsWindow, Retained
<1>1. /\ i - 1 \in 0..(count - 1)
      /\ nextSeq - count + (i - 1) + 1 = nextSeq - count + i
  BY CapacityAssumption DEF LogInv, RingTypes
<1>2. records[Slot(head, i - 1)] = Entry(nextSeq - count, history, i - 1)
  BY <1>1 DEF LogInv, SlotInv
<1> QED
  BY <1>1, <1>2 DEF Slot, Entry

\* For every capacity the ring is the window of the last records appended, with
\* consecutive sequence numbers, in the order in which Query walks it.
THEOREM RingCorrect == Spec => []RingIsWindow
<1>1. LogInv => RingIsWindow
  BY WindowHolds
<1> QED
  BY <1>1, LogInvariance, PTL

-----------------------------------------------------------------------------
(* The memory broker: what it promises of its log. *)

\* The events Ingest answered for, by the answer.
Answered(place) == {e \in Event : ing[e] = place}

\* The accepted events, oldest first: in the log, in run's hands, and waiting.
Accepted == history \o (IF rpc = "taken" THEN <<rev[2]>> ELSE <<>>) \o ingestCh

OnceInv ==
  /\ ing \in [Event -> {"new", "checked", "refused", "accepted", "dropped"}]
  /\ IsFiniteSet(Answered("accepted")) /\ IsFiniteSet(Answered("dropped"))
  /\ Range(Accepted) = Answered("accepted")
  /\ Len(Accepted) = Cardinality(Answered("accepted"))
  /\ droppedIngress = Cardinality(Answered("dropped"))

\* What run is offering has the newest sequence number.
OfferTypes ==
  /\ owed \in [Sub -> SUBSET Record]
  /\ targets \subseteq Sub
  /\ targets # {} => rpc = "offering"
  /\ rpc \in {"appended", "offering"} => rev \in Record /\ rev[1] = nextSeq

\* A record is offered after everything that s was offered before.
OwedTo(s) ==
  /\ IsFiniteSet(owed[s])
  /\ \A r \in owed[s] : /\ r[1] <= nextSeq
                        /\ rpc = "appended" => r[1] < nextSeq
                        /\ rpc = "offering" => r = rev \/ r[1] < nextSeq
  /\ s \in targets => rev \in owed[s] /\ spc[s] \notin {"new", "checked"}
  /\ spc[s] \in {"new", "checked"} => owed[s] = {}

ToOffer(s) == IF s \in targets THEN {rev} ELSE {}

Rising(c) == \A h, i \in DOMAIN c : h < i => c[h][1] < c[i][1]

SeesFor(s) ==
  spc[s] = "open" /\ ~chClosed[s] =>
    Rising(Carried(s)) /\ Account(Carried(s), dropped[s], owed[s], ToOffer(s))

SeesInv ==
  /\ SubInv(Record) /\ OfferTypes
  /\ \A s \in Sub : OwedTo(s) /\ SeesFor(s)

-----------------------------------------------------------------------------
(* Each event once. *)

\* The accepted events form a sequence.
LEMMA AcceptedSeq ==
  ASSUME RingTypes
  PROVE  Accepted \in Seq(Event) /\ history \in Seq(Event) /\ ingestCh \in Seq(Event)
<1>1. history \in Seq(Event) /\ ingestCh \in Seq(Event) /\ (rpc = "taken" => rev[2] \in Event)
  BY Zenon DEF RingTypes
<1>2. PICK t : t = IF rpc = "taken" THEN <<rev[2]>> ELSE <<>>
  BY Zenon
<1>3. t \in Seq(Event)
  BY <1>1, <1>2
<1>4. history \o t \o ingestCh \in Seq(Event)
  BY <1>1, <1>3
<1> QED BY Zenon, <1>1, <1>2, <1>4 DEF Accepted

\* Nothing but Ingest changes which events are accepted.
LEMMA OnceKept ==
  ASSUME OnceInv, Accepted' = Accepted, ing' = ing, droppedIngress' = droppedIngress
  PROVE  OnceInv'
<1>1. Answered("accepted")' = Answered("accepted") /\ Answered("dropped")' = Answered("dropped")
  BY Zenon DEF Answered
<1> QED BY Zenon, <1>1 DEF OnceInv

\* Ingest adds its event at the end of the line, or counts it as dropped.
LEMMA OnceSend ==
  ASSUME LogInv, OnceInv, NEW e \in Event, IngestSend(e)
  PROVE  OnceInv'
<1>1. /\ ing[e] = "checked" /\ ing \in [Event -> {"new", "checked", "refused", "accepted", "dropped"}]
      /\ history' = history /\ rpc' = rpc /\ rev' = rev
  BY Zenon DEF IngestSend, OnceInv, ringVars, runVars
<1>2. e \notin Answered("accepted") /\ e \notin Answered("dropped")
  BY Zenon, <1>1 DEF Answered
<1>3. CASE ing' = [ing EXCEPT ![e] = "accepted"] /\ ingestCh' = Append(ingestCh, e)
           /\ droppedIngress' = droppedIngress
  <2>1. Answered("accepted")' = Answered("accepted") \cup {e} /\ Answered("dropped")' = Answered("dropped")
    BY Zenon, <1>1, <1>3 DEF Answered
  <2>2. Accepted' = Append(Accepted, e)
    <3>1. PICK a : a = history \o (IF rpc = "taken" THEN <<rev[2]>> ELSE <<>>)
      BY Zenon
    <3>2. a \in Seq(Event) /\ ingestCh \in Seq(Event)
      <4>1. history \in Seq(Event) /\ ingestCh \in Seq(Event) /\ (rpc = "taken" => rev[2] \in Event)
        BY Zenon DEF LogInv, RingTypes
      <4> QED BY <3>1, <4>1
    <3>3. a \o Append(ingestCh, e) = Append(a \o ingestCh, e)
      BY <3>2
    <3> QED BY Zenon, <1>1, <1>3, <3>1, <3>3 DEF Accepted
  <2>3. Accepted \in Seq(Event)
    BY Zenon, AcceptedSeq DEF LogInv
  <2>4. Range(Accepted') = Range(Accepted) \cup {e} /\ Len(Accepted') = Len(Accepted) + 1
    BY <2>2, <2>3, AppendSet
  <2>5. /\ IsFiniteSet(Answered("accepted") \cup {e})
        /\ Cardinality(Answered("accepted") \cup {e}) = Cardinality(Answered("accepted")) + 1
    BY Zenon, <1>2, FS_AddElement DEF OnceInv
  <2>6. ing' \in [Event -> {"new", "checked", "refused", "accepted", "dropped"}]
    BY Zenon, <1>1, <1>3
  <2> QED BY Zenon, <1>3, <2>1, <2>4, <2>5, <2>6 DEF OnceInv
<1>4. CASE ing' = [ing EXCEPT ![e] = "dropped"] /\ ingestCh' = ingestCh
           /\ droppedIngress' = droppedIngress + 1
  <2>1. Answered("dropped")' = Answered("dropped") \cup {e} /\ Answered("accepted")' = Answered("accepted")
    BY Zenon, <1>1, <1>4 DEF Answered
  <2>2. Accepted' = Accepted
    BY Zenon, <1>1, <1>4 DEF Accepted
  <2>3. /\ IsFiniteSet(Answered("dropped") \cup {e})
        /\ Cardinality(Answered("dropped") \cup {e}) = Cardinality(Answered("dropped")) + 1
    BY Zenon, <1>2, FS_AddElement DEF OnceInv
  <2>4. ing' \in [Event -> {"new", "checked", "refused", "accepted", "dropped"}]
    BY Zenon, <1>1, <1>4
  <2> QED BY Zenon, <1>4, <2>1, <2>2, <2>3, <2>4 DEF OnceInv
<1> QED BY Zenon, <1>3, <1>4 DEF IngestSend

\* The check for a closed broker settles nothing but the refusal.
LEMMA OnceCheck ==
  ASSUME OnceInv, NEW e \in Event, IngestCheck(e)
  PROVE  OnceInv'
<1>1. /\ ing[e] = "new" /\ ing' = [ing EXCEPT ![e] = IF closed THEN "refused" ELSE "checked"]
      /\ ing \in [Event -> {"new", "checked", "refused", "accepted", "dropped"}]
      /\ droppedIngress' = droppedIngress
  BY Zenon DEF IngestCheck, OnceInv
<1>2. Accepted' = Accepted
  BY Zenon DEF IngestCheck, Accepted, ringVars, runVars
<1>3. Answered("accepted")' = Answered("accepted") /\ Answered("dropped")' = Answered("dropped")
  BY Zenon, <1>1 DEF Answered
<1>4. ing' \in [Event -> {"new", "checked", "refused", "accepted", "dropped"}]
  BY Zenon, <1>1
<1> QED BY Zenon, <1>1, <1>2, <1>3, <1>4 DEF OnceInv

\* run moves the events along the line.
LEMMA RunMoves ==
  ASSUME LogInv, RunTake \/ RunAppend
  PROVE  Accepted' = Accepted /\ ing' = ing /\ droppedIngress' = droppedIngress
<1>1. ing' = ing /\ droppedIngress' = droppedIngress
  BY Zenon DEF RunTake, RunAppend, ingressVars
<1>2. PICK h, i, x : h = history /\ i = ingestCh /\ x = rev[2]
  BY Zenon
<1>3. h \in Seq(Event) /\ i \in Seq(Event) /\ (rpc = "taken" => x \in Event)
  BY Zenon, <1>2 DEF LogInv, RingTypes
<1>4. CASE RunTake
  <2>1. Accepted = h \o <<>> \o i /\ Accepted' = h \o <<Head(i)>> \o Tail(i) /\ i # <<>>
    <3>1. rpc = "idle" /\ rpc' = "taken" /\ rev' = <<0, Head(i)>> /\ ingestCh' = Tail(i) /\ history' = h
      BY Zenon, <1>2, <1>4 DEF RunTake, ringVars
    <3>2. rev'[2] = Head(i)
      BY <3>1
    <3>3. i # <<>>
      BY Zenon, <1>2, <1>4 DEF RunTake
    <3> QED BY Zenon, <1>2, <3>1, <3>2, <3>3 DEF Accepted
  <2>2. h \o <<>> \o i = h \o <<Head(i)>> \o Tail(i)
    BY <1>3, <2>1
  <2> QED BY Zenon, <1>1, <2>1, <2>2
<1>5. CASE RunAppend
  <2>1. Accepted = h \o <<x>> \o i /\ Accepted' = Append(h, x) \o <<>> \o i /\ rpc = "taken"
    BY Zenon, <1>2, <1>5 DEF RunAppend, ingressVars, Accepted
  <2>2. h \o <<x>> = Append(h, x) \o <<>>
    BY <1>3, <2>1
  <2> QED BY Zenon, <1>1, <2>1, <2>2
<1> QED BY Zenon, <1>4, <1>5

\* Every step keeps each accepted event in the line once.
LEMMA OnceStep ==
  ASSUME LogInv, OnceInv, [Next]_vars
  PROVE  OnceInv'
<1>1. CASE \E e \in Event : IngestCheck(e) \/ IngestSend(e)
  BY Zenon, <1>1, OnceCheck, OnceSend
<1>2. CASE RunTake \/ RunAppend
  BY Zenon, <1>2, RunMoves, OnceKept
<1>3. CASE /\ UNCHANGED <<ingressVars, ringVars>>
           /\ (rpc' = rpc /\ rev' = rev) \/ (rpc # "taken" /\ rpc' # "taken")
  <2>1. Accepted' = Accepted /\ ing' = ing /\ droppedIngress' = droppedIngress
    BY Zenon, <1>3 DEF ingressVars, ringVars, Accepted
  <2> QED BY Zenon, <2>1, OnceKept
<1>4. CASE RunExit \/ RunSnapshot \/ RunDone \/ \E s \in Sub : RunOffer(s)
  BY Zenon, <1>3, <1>4 DEF RunExit, RunSnapshot, RunDone, RunOffer
<1>5. CASE CloseBegin \/ CloseStep \/ Stopped \/ UNCHANGED vars
  BY Zenon, <1>3, <1>5
     DEF CloseBegin, CloseStep, CloseSweep, CloseOne, CloseReturn, Stopped, vars, brokerVars, runVars
<1>6. CASE \E s \in Sub : SubscribeCheck(s) \/ SubscribeRegister(s) \/ UNCHANGED brokerVars
  BY Zenon, <1>3, <1>6 DEF SubscribeCheck, SubscribeRegister, brokerVars, runVars
<1> QED BY Zenon, <1>1, <1>2, <1>4, <1>5, <1>6 DEF Next, RunStep

-----------------------------------------------------------------------------
(* What a live subscriber sees. *)

\* A step that leaves run alone, and the stream of x unless it ends it.
LEMMA SeesKept ==
  ASSUME NEW x \in Sub, OwedTo(x), SeesFor(x), UNCHANGED runVars, nextSeq' = nextSeq,
         spc'[x] \in {"new", "checked"} => spc[x] \in {"new", "checked"},
         spc[x] \notin {"new", "checked"} => spc'[x] \notin {"new", "checked"},
         spc'[x] = "open" /\ ~chClosed'[x] =>
           /\ spc[x] = "open" /\ ~chClosed[x]
           /\ Carried(x)' = Carried(x) /\ dropped'[x] = dropped[x]
  PROVE  OwedTo(x)' /\ SeesFor(x)'
<1>1. rpc' = rpc /\ rev' = rev /\ targets' = targets /\ owed' = owed
  BY Zenon DEF runVars
<1>2. ToOffer(x)' = ToOffer(x)
  BY Zenon, <1>1 DEF ToOffer
<1>3. OwedTo(x)'
  BY Zenon, <1>1 DEF OwedTo
<1>4. SeesFor(x)'
  BY Zenon, <1>1, <1>2 DEF SeesFor
<1> QED BY Zenon, <1>3, <1>4

\* The record that run offers is its own until run moves.
LEMMA OfferTypesKept ==
  ASSUME OfferTypes, UNCHANGED runVars, nextSeq' = nextSeq
  PROVE  OfferTypes'
BY Zenon DEF OfferTypes, runVars

\* A step of a pump or an owner keeps the account of every subscriber.
LEMMA SeesSubStep ==
  ASSUME SeesInv, NEW s \in Sub, SubStep(s), UNCHANGED brokerVars
  PROVE  SeesInv'
<1>1. SubInv(Record)' /\ Untouched(s) /\ dropped' = dropped
  BY Zenon, SubStepKeeps, StepUntouched DEF SeesInv, SubInv
<1>2. UNCHANGED runVars /\ nextSeq' = nextSeq
  BY Zenon DEF brokerVars, ringVars
<1>3. ASSUME NEW x \in Sub PROVE OwedTo(x)' /\ SeesFor(x)'
  <2>1. OwedTo(x) /\ SeesFor(x)
    BY Zenon DEF SeesInv
  <2>2. CASE x = s
    <3>1. /\ spc'[s] = "open" => spc[s] = "open"
          /\ chClosed[s] => chClosed'[s]
          /\ spc'[s] = "open" /\ ~chClosed'[s] => Carried(s)' = Carried(s)
          /\ spc'[s] \in {"new", "checked"} <=> spc[s] \in {"new", "checked"}
      BY Zenon, StepStream DEF SeesInv
    <3> QED BY Zenon, <1>1, <1>2, <2>1, <2>2, <3>1, SeesKept
  <2>3. CASE x # s
    BY Zenon, <1>1, <1>2, <2>1, <2>3, OthersCarry, SeesKept DEF SameStream
  <2> QED BY Zenon, <2>2, <2>3
<1> QED BY Zenon, <1>1, <1>2, <1>3, OfferTypesKept DEF SeesInv

\* Subscribe opens an account in which nothing is owed.
LEMMA SeesRegister ==
  ASSUME SeesInv, NEW s \in Sub, SubscribeRegister(s)
  PROVE  SeesInv'
<1>0. spc[s] \in {"new", "checked"} /\ Register(s) /\ UNCHANGED runVars /\ nextSeq' = nextSeq
  BY Zenon DEF SubscribeRegister, brokerVars, ringVars
<1>1. /\ SubInv(Record)' /\ Untouched(s) /\ chClosed' = chClosed
      /\ Carried(s)' = <<>> /\ dropped'[s] = 0 /\ spc'[s] = "open"
  BY Zenon, <1>0, RegisterStep DEF SeesInv
<1>2. ASSUME NEW x \in Sub PROVE OwedTo(x)' /\ SeesFor(x)'
  <2>1. OwedTo(x) /\ SeesFor(x)
    BY Zenon DEF SeesInv
  <2>2. CASE x = s
    <3>1. rpc' = rpc /\ rev' = rev /\ targets' = targets /\ owed' = owed
      BY Zenon, <1>0 DEF runVars
    <3>2. owed[s] = {} /\ s \notin targets
      BY Zenon, <1>0, <2>1, <2>2 DEF OwedTo
    <3>3. ToOffer(s)' = {}
      BY Zenon, <3>1, <3>2 DEF ToOffer
    <3>4. OwedTo(s)'
      BY Zenon, <1>0, <1>1, <2>1, <2>2, <3>1, <3>2 DEF OwedTo
    <3>5. Rising(<<>>)
      BY DEF Rising
    <3>6. SeesFor(s)'
      BY Zenon, <1>1, <3>1, <3>2, <3>3, <3>5, AccountOpens DEF SeesFor
    <3> QED BY Zenon, <2>2, <3>4, <3>6
  <2>3. CASE x # s
    BY Zenon, <1>0, <1>1, <2>1, <2>3, OthersCarry, SeesKept DEF SameStream
  <2> QED BY Zenon, <2>2, <2>3
<1> QED BY Zenon, <1>0, <1>1, <1>2, OfferTypesKept DEF SeesInv

\* The check of Subscribe for a closed broker opens no stream.
LEMMA SeesCheck ==
  ASSUME SeesInv, NEW s \in Sub, SubscribeCheck(s)
  PROVE  SeesInv'
<1>1. UNCHANGED runVars /\ nextSeq' = nextSeq /\ chClosed' = chClosed
  BY Zenon DEF SubscribeCheck, brokerVars, ringVars
<1>2. SubTypes(Record)' /\ ShapeOf(s)' /\ Untouched(s)
  BY DEF SubscribeCheck, SeesInv, SubInv, SubTypes, SubShape, ShapeOf, Untouched, Place, PumpPlace
<1>3. SubInv(Record)'
  BY Zenon, <1>2, ShapeKept DEF SeesInv, SubInv
<1>4. spc[s] = "new" /\ spc'[s] \in {"closed", "checked"}
  BY DEF SubscribeCheck, SeesInv, SubInv, SubTypes
<1>5. ASSUME NEW x \in Sub PROVE OwedTo(x)' /\ SeesFor(x)'
  <2>1. OwedTo(x) /\ SeesFor(x)
    BY Zenon DEF SeesInv
  <2>2. CASE x = s
    <3>1. spc'[s] # "open" /\ spc[s] \in {"new", "checked"}
      BY Zenon, <1>4
    <3> QED BY Zenon, <1>1, <2>1, <2>2, <3>1, SeesKept
  <2>3. CASE x # s
    BY Zenon, <1>1, <1>2, <2>1, <2>3, OthersCarry, SeesKept DEF SameStream
  <2> QED BY Zenon, <2>2, <2>3
<1> QED BY Zenon, <1>1, <1>3, <1>5, OfferTypesKept DEF SeesInv

\* Broker.Close ends streams and touches no queue.
LEMMA SeesClose ==
  ASSUME SeesInv, CloseBegin \/ CloseStep
  PROVE  SeesInv'
<1>1. /\ UNCHANGED runVars /\ nextSeq' = nextSeq
      /\ UNCHANGED <<spc, ch, dropped, done, pump, inflight, out>>
      /\ subs' \subseteq subs
  BY Zenon DEF CloseBegin, CloseStep, CloseSweep, CloseOne, CloseReturn, ringVars, subVars
<1>2. /\ chClosed' \in [Sub -> BOOLEAN]
      /\ \A x \in Sub : chClosed[x] => chClosed'[x]
  <2>1. chClosed \in [Sub -> BOOLEAN]
    BY Zenon DEF SeesInv, SubInv, SubTypes
  <2> QED BY Zenon, <2>1 DEF CloseBegin, CloseStep, CloseSweep, CloseOne, CloseReturn, subVars, CloseChannel
<1>3. SubInv(Record)'
  BY Zenon, <1>1, <1>2 DEF SeesInv, SubInv, SubTypes, SubShape, ShapeOf
<1>4. ASSUME NEW x \in Sub PROVE OwedTo(x)' /\ SeesFor(x)'
  <2>1. OwedTo(x) /\ SeesFor(x)
    BY Zenon DEF SeesInv
  <2>2. Carried(x)' = Carried(x) /\ dropped'[x] = dropped[x] /\ spc'[x] = spc[x]
    BY Zenon, <1>1 DEF Carried
  <2> QED BY Zenon, <1>1, <1>2, <2>1, <2>2, SeesKept
<1> QED BY Zenon, <1>1, <1>3, <1>4, OfferTypesKept DEF SeesInv

\* The subscribers are left alone, and with them their streams.
LEMMA SubsAlone ==
  ASSUME SeesInv, UNCHANGED subVars
  PROVE  /\ SubInv(Record)'
         /\ \A x \in Sub : SameStream(x)
<1>1. SubInv(Record)'
  BY Zenon DEF SeesInv, SubInv, SubTypes, SubShape, ShapeOf, subVars
<1>2. ASSUME NEW x \in Sub PROVE SameStream(x)
  BY Zenon DEF SameStream, Carried, subVars
<1> QED BY Zenon, <1>1, <1>2

\* appendEvent takes a number above all the records that s was offered.
LEMMA SeesAppend ==
  ASSUME LogInv, SeesInv, RunAppend
  PROVE  SeesInv'
<1>1. /\ rpc = "taken" /\ rpc' = "appended" /\ nextSeq' = nextSeq + 1
      /\ rev' = <<nextSeq + 1, rev[2]>> /\ UNCHANGED subVars /\ targets' = targets /\ owed' = owed
      /\ nextSeq \in Nat /\ rev[2] \in Event
  BY Zenon DEF RunAppend, LogInv, RingTypes
<1>2. SubInv(Record)' /\ \A x \in Sub : SameStream(x)
  BY Zenon, <1>1, SubsAlone
<1>3. targets = {}
  BY Zenon, <1>1 DEF SeesInv, OfferTypes
<1>4. rev' \in Record /\ rev'[1] = nextSeq'
  BY <1>1 DEF Record
<1>5. OfferTypes'
  BY Zenon, <1>1, <1>3, <1>4 DEF SeesInv, OfferTypes
<1>6. ASSUME NEW x \in Sub PROVE OwedTo(x)' /\ SeesFor(x)'
  <2>1. OwedTo(x) /\ SeesFor(x) /\ SameStream(x) /\ owed[x] \subseteq Record
    BY Zenon, <1>2 DEF SeesInv, OfferTypes
  <2>2. ASSUME NEW r \in owed[x] PROVE r[1] <= nextSeq' /\ r[1] < nextSeq'
    <3>1. r[1] \in Nat /\ r[1] <= nextSeq
      BY <2>1 DEF OwedTo, Record
    <3> QED BY <1>1, <3>1
  <2>3. ToOffer(x)' = {} /\ ToOffer(x) = {}
    BY Zenon, <1>1, <1>3 DEF ToOffer
  <2>4. OwedTo(x)'
    BY Zenon, <1>1, <1>3, <2>1, <2>2 DEF OwedTo, SameStream
  <2>5. SeesFor(x)'
    BY Zenon, <1>1, <2>1, <2>3 DEF SeesFor, SameStream
  <2> QED BY Zenon, <2>4, <2>5
<1> QED BY Zenon, <1>2, <1>5, <1>6 DEF SeesInv

\* run takes an event, ends an offer, or exits.
LEMMA SeesQuiet ==
  ASSUME SeesInv, RunExit \/ RunTake \/ RunDone
  PROVE  SeesInv'
<1>1. /\ UNCHANGED subVars /\ targets' = targets /\ owed' = owed /\ nextSeq' = nextSeq
      /\ rpc' \in {"exited", "taken", "idle"} /\ targets = {}
  BY Zenon DEF RunExit, RunTake, RunDone, ringVars, SeesInv, OfferTypes
<1>2. SubInv(Record)' /\ \A x \in Sub : SameStream(x)
  BY Zenon, <1>1, SubsAlone
<1>3. OfferTypes'
  BY Zenon, <1>1 DEF SeesInv, OfferTypes
<1>4. ASSUME NEW x \in Sub PROVE OwedTo(x)' /\ SeesFor(x)'
  <2>1. OwedTo(x) /\ SeesFor(x) /\ SameStream(x)
    BY Zenon, <1>2 DEF SeesInv
  <2>2. ToOffer(x)' = ToOffer(x)
    BY Zenon, <1>1 DEF ToOffer
  <2>3. OwedTo(x)'
    BY Zenon, <1>1, <2>1 DEF OwedTo, SameStream
  <2>4. SeesFor(x)'
    BY Zenon, <1>1, <2>1, <2>2 DEF SeesFor, SameStream
  <2> QED BY Zenon, <2>3, <2>4
<1> QED BY Zenon, <1>2, <1>3, <1>4 DEF SeesInv

\* The new record is owed to the subscribers of the moment.
LEMMA SeesSnapshot ==
  ASSUME SeesInv, RunSnapshot
  PROVE  SeesInv'
<1>1. /\ rpc = "appended" /\ rpc' = "offering" /\ targets' = subs /\ rev' = rev /\ nextSeq' = nextSeq
      /\ owed' = [s \in Sub |-> IF s \in subs THEN owed[s] \cup {rev} ELSE owed[s]]
      /\ UNCHANGED subVars
  BY Zenon DEF RunSnapshot, ringVars
<1>2. /\ SubInv(Record)' /\ (\A x \in Sub : SameStream(x)) /\ subs \subseteq Sub
      /\ \A x \in Sub : x \in subs => spc[x] \notin {"new", "checked"}
  BY Zenon, <1>1, SubsAlone DEF SeesInv, SubInv, SubTypes, SubShape, ShapeOf
<1>3. rev \in Record /\ rev[1] = nextSeq /\ targets = {}
  BY Zenon, <1>1 DEF SeesInv, OfferTypes
<1>4. OfferTypes'
  <2>1. owed' \in [Sub -> SUBSET Record]
    BY Zenon, <1>1, <1>3 DEF SeesInv, OfferTypes
  <2> QED BY Zenon, <1>1, <1>2, <1>3, <2>1 DEF OfferTypes
<1>5. nextSeq \in Nat
  BY <1>3 DEF Record
<1>6. ASSUME NEW x \in Sub PROVE OwedTo(x)' /\ SeesFor(x)'
  <2>1. OwedTo(x) /\ SeesFor(x) /\ SameStream(x) /\ owed[x] \subseteq Record
    BY Zenon, <1>2 DEF SeesInv, OfferTypes
  <2>2. owed'[x] = IF x \in subs THEN owed[x] \cup {rev} ELSE owed[x]
    BY Zenon, <1>1
  <2>3. rev \notin owed[x]
    <3>1. rev \in owed[x] => nextSeq < nextSeq
      BY Zenon, <1>1, <1>3, <2>1 DEF OwedTo
    <3> QED BY <1>5, <3>1
  <2>4. IsFiniteSet(owed[x] \cup {rev})
    BY Zenon, <2>1, FS_AddElement DEF OwedTo
  <2>5. ToOffer(x) = {} /\ ToOffer(x)' = IF x \in subs THEN {rev} ELSE {}
    BY Zenon, <1>1, <1>3 DEF ToOffer
  <2>6. OwedTo(x)'
    <3>1. nextSeq <= nextSeq
      BY <1>5
    <3>2. ASSUME NEW r \in owed'[x] PROVE r[1] <= nextSeq /\ (r = rev \/ r[1] < nextSeq)
      BY Zenon, <1>1, <1>3, <2>1, <2>2, <3>1, <3>2 DEF OwedTo
    <3>3. IsFiniteSet(owed'[x])
      BY Zenon, <2>1, <2>2, <2>4 DEF OwedTo
    <3>4. x \in subs => rev \in owed'[x] /\ spc'[x] \notin {"new", "checked"}
      BY Zenon, <1>2, <2>1, <2>2 DEF SameStream
    <3>5. spc'[x] \in {"new", "checked"} => owed'[x] = {}
      BY Zenon, <1>2, <2>1, <2>2 DEF SameStream, OwedTo
    <3> QED BY Zenon, <1>1, <3>2, <3>3, <3>4, <3>5 DEF OwedTo
  <2>7. SeesFor(x)'
    <3> SUFFICES ASSUME spc[x] = "open", ~chClosed[x]
                 PROVE  Rising(Carried(x)) /\ Account(Carried(x), dropped[x], owed'[x], ToOffer(x)')
      BY Zenon, <2>1 DEF SeesFor, SameStream
    <3>1. PICK c, d, A : c = Carried(x) /\ d = dropped[x] /\ A = owed[x]
      BY Zenon
    <3>2. Rising(c) /\ Account(c, d, A, {})
      BY Zenon, <2>1, <2>5, <3>1 DEF SeesFor
    <3>3. c \in Seq(Record) /\ d \in Nat
      BY Zenon, <3>1, CarriedSeq DEF SeesInv, SubInv
    <3>4. Len(c) \in Nat
      BY <3>3
    <3>5. IsFiniteSet(A) /\ {} \in SUBSET A
      BY Zenon, <2>1, <3>1 DEF OwedTo
    <3>6. Account(c, d, A \cup {rev}, {} \cup {rev})
      BY Zenon, <2>3, <3>1, <3>2, <3>3, <3>4, <3>5, AccountAddressed
    <3>7. {} \cup {rev} = {rev}
      BY Zenon
    <3> QED BY Zenon, <2>2, <2>5, <3>1, <3>2, <3>6, <3>7
  <2> QED BY Zenon, <2>6, <2>7
<1> QED BY Zenon, <1>2, <1>4, <1>6 DEF SeesInv

\* A larger number at the end keeps a rising sequence rising.
LEMMA RisingAppend ==
  ASSUME NEW M, NEW c \in Seq(M), NEW m \in M, Rising(c), \A n \in Range(c) : n[1] < m[1]
  PROVE  Rising(Append(c, m))
<1>1. PICK long, len : long = Append(c, m) /\ len = Len(c)
  BY Zenon
<1>2. /\ len \in Nat /\ DOMAIN c = 1..len /\ DOMAIN long = 1..(len + 1)
      /\ long[len + 1] = m /\ \A i \in 1..len : long[i] = c[i]
  BY <1>1
<1>3. \A i \in 1..len : c[i] \in Range(c)
  BY Zenon, <1>2 DEF Range
<1>4. ASSUME NEW h \in DOMAIN long, NEW i \in DOMAIN long, h < i
      PROVE  long[h][1] < long[i][1]
  <2>1. h \in 1..len /\ (i \in 1..len \/ i = len + 1)
    BY <1>2, <1>4
  <2>2. CASE i = len + 1
    BY Zenon, <1>2, <1>3, <2>1, <2>2
  <2>3. CASE i \in 1..len
    BY Zenon, <1>2, <1>4, <2>1, <2>3 DEF Rising
  <2> QED BY Zenon, <2>1, <2>2, <2>3
<1> QED BY Zenon, <1>1, <1>4 DEF Rising

\* The offer to s is settled: queued behind what s carries, or counted as
\* dropped.
LEMMA SeesOffer ==
  ASSUME SeesInv, NEW s \in Sub, RunOffer(s)
  PROVE  SeesInv'
<1>1. /\ rpc = "offering" /\ s \in targets /\ targets' = targets \ {s} /\ Offer(s, rev)
      /\ UNCHANGED offerUnchanged /\ rpc' = rpc /\ rev' = rev /\ owed' = owed /\ nextSeq' = nextSeq
  BY Zenon DEF RunOffer, ringVars
<1>2. OwedTo(s) /\ SeesFor(s) /\ rev \in owed[s] /\ rev \in Record /\ spc[s] \notin {"new", "checked"}
  BY Zenon, <1>1 DEF SeesInv, OwedTo, OfferTypes
<1>3. /\ SubInv(Record)' /\ Untouched(s)
      /\ \/ chClosed[s] /\ dropped' = dropped
         \/ Carried(s)' = Append(Carried(s), rev) /\ dropped' = dropped
         \/ Carried(s)' = Carried(s) /\ dropped'[s] = dropped[s] + 1
  BY Zenon, <1>1, <1>2, OfferStep DEF SeesInv
<1>4. spc' = spc /\ chClosed' = chClosed
  BY Zenon, <1>1 DEF offerUnchanged
<1>5. OfferTypes'
  BY Zenon, <1>1 DEF SeesInv, OfferTypes
<1>6. ASSUME NEW x \in Sub PROVE OwedTo(x)'
  <2>1. OwedTo(x)
    BY Zenon DEF SeesInv
  <2> QED BY Zenon, <1>1, <1>4, <2>1 DEF OwedTo
<1>7. SeesFor(s)'
  <2> SUFFICES ASSUME spc[s] = "open", ~chClosed[s]
               PROVE  Rising(Carried(s)') /\ Account(Carried(s)', dropped'[s], owed[s], ToOffer(s)')
    BY Zenon, <1>1, <1>4 DEF SeesFor
  <2>1. PICK c, d, A, r : c = Carried(s) /\ d = dropped[s] /\ A = owed[s] /\ r = rev
    BY Zenon
  <2>2. ToOffer(s) = {r} /\ ToOffer(s)' = {r} \ {r}
    BY Zenon, <1>1, <2>1 DEF ToOffer
  <2>3. c \in Seq(Record) /\ d \in Nat /\ r \in Record
    BY Zenon, <1>2, <2>1, CarriedSeq DEF SeesInv, SubInv
  <2>4. IsFiniteSet(A) /\ {r} \in SUBSET A /\ r \in {r}
    BY Zenon, <1>2, <2>1 DEF OwedTo
  <2>5. Rising(c) /\ Account(c, d, A, {r})
    BY Zenon, <1>2, <2>1, <2>2 DEF SeesFor
  <2>6. Account(Append(c, r), d, A, {r} \ {r}) /\ Account(c, d + 1, A, {r} \ {r})
    BY Zenon, <2>3, <2>4, <2>5, AccountOffered
  <2>7. \A n \in Range(c) : n[1] < r[1]
    BY Zenon, <1>1, <1>2, <2>1, <2>5 DEF Account, OwedTo, SeesInv, OfferTypes
  <2>8. Rising(Append(c, r))
    BY Zenon, <2>3, <2>5, <2>7, RisingAppend
  <2> QED BY Zenon, <1>3, <2>1, <2>2, <2>5, <2>6, <2>8
<1>8. ASSUME NEW x \in Sub \ {s} PROVE SeesFor(x)'
  <2>1. SeesFor(x) /\ SameStream(x)
    BY Zenon, <1>3, OthersCarry DEF SeesInv
  <2>2. ToOffer(x)' = ToOffer(x)
    BY Zenon, <1>1 DEF ToOffer
  <2> QED BY Zenon, <1>1, <2>1, <2>2 DEF SeesFor, SameStream
<1> QED BY Zenon, <1>3, <1>5, <1>6, <1>7, <1>8 DEF SeesInv

\* Every step keeps the account of every live subscriber.
LEMMA SeesStep ==
  ASSUME LogInv, SeesInv, [Next]_vars
  PROVE  SeesInv'
<1>1. CASE UNCHANGED <<subVars, runVars, nextSeq>>
  <2>1. SubInv(Record)' /\ \A x \in Sub : SameStream(x)
    BY Zenon, <1>1, SubsAlone
  <2>2. \A x \in Sub : OwedTo(x)' /\ SeesFor(x)'
    BY Zenon, <1>1, <2>1, SeesKept DEF SeesInv, SameStream
  <2> QED BY Zenon, <1>1, <2>1, <2>2, OfferTypesKept DEF SeesInv
<1>2. CASE (\E e \in Event : IngestCheck(e) \/ IngestSend(e)) \/ Stopped \/ UNCHANGED vars
  BY Zenon, <1>1, <1>2 DEF IngestCheck, IngestSend, Stopped, vars, brokerVars, ringVars
<1>3. CASE RunStep
  BY Zenon, <1>3, SeesQuiet, SeesAppend, SeesSnapshot, SeesOffer DEF RunStep
<1>4. CASE \E s \in Sub : SubscribeCheck(s) \/ SubscribeRegister(s)
  BY Zenon, <1>4, SeesCheck, SeesRegister
<1>5. CASE \E s \in Sub : SubStep(s) /\ UNCHANGED brokerVars
  BY Zenon, <1>5, SeesSubStep
<1>6. CASE CloseBegin \/ CloseStep
  BY Zenon, <1>6, SeesClose
<1> QED BY Zenon, <1>2, <1>3, <1>4, <1>5, <1>6 DEF Next, SubStep

-----------------------------------------------------------------------------
(* Query. *)

\* f[n] is the matches among the first n retained records, for every n up to l.
Found(f, match, l) ==
  f = [n \in 0..l |->
         IF n = 0 THEN <<>>
         ELSE IF Retained[n][2] \in match THEN Append(f[n - 1], Retained[n])
         ELSE f[n - 1]]

\* One turn of the loop of Query.
Turn(f, match, n) ==
  f[n + 1] = IF Retained[n + 1][2] \in match THEN Append(f[n], Retained[n + 1]) ELSE f[n]

\* The recursion of Matches, turn by turn.
LEMMA FoundFacts ==
  ASSUME NEW match, NEW l \in Nat, NEW f
  PROVE  Found(f, match, l) <=>
           /\ f = [n \in 0..l |-> f[n]]
           /\ f[0] = <<>> /\ \A n \in 0..(l - 1) : Turn(f, match, n)
<1>1. /\ 0 \in 0..l /\ \A n \in 0..(l - 1) : n + 1 \in 0..l /\ n + 1 # 0 /\ n + 1 - 1 = n
      /\ \A n \in 0..l : n # 0 => n - 1 \in 0..(l - 1) /\ n - 1 + 1 = n
  OBVIOUS
<1> DEFINE Val(n) == IF n = 0 THEN <<>>
                     ELSE IF Retained[n][2] \in match THEN Append(f[n - 1], Retained[n])
                     ELSE f[n - 1]
<1>2. Found(f, match, l) <=> f = [n \in 0..l |-> f[n]] /\ \A n \in 0..l : f[n] = Val(n)
  BY Zenon DEF Found
<1>3. ASSUME \A n \in 0..l : f[n] = Val(n)
      PROVE  f[0] = <<>> /\ \A n \in 0..(l - 1) : Turn(f, match, n)
  <2>1. f[0] = <<>>
    BY Zenon, <1>1, <1>3
  <2>2. ASSUME NEW n \in 0..(l - 1) PROVE Turn(f, match, n)
    <3>1. PICK k \in 0..l : k = n + 1 /\ k # 0 /\ k - 1 = n
      OBVIOUS
    <3>2. f[k] = IF Retained[k][2] \in match THEN Append(f[k - 1], Retained[k]) ELSE f[k - 1]
      BY Zenon, <1>3, <3>1
    <3> QED BY Zenon, <3>1, <3>2 DEF Turn
  <2> QED BY Zenon, <2>1, <2>2
<1>4. ASSUME f[0] = <<>>, \A n \in 0..(l - 1) : Turn(f, match, n), NEW n \in 0..l
      PROVE  f[n] = Val(n)
  <2>1. CASE n = 0
    BY Zenon, <1>4, <2>1
  <2>2. CASE n # 0
    <3>1. n - 1 \in 0..(l - 1) /\ n - 1 + 1 = n
      BY Zenon, <1>1, <2>2
    <3>2. Turn(f, match, n - 1)
      BY Zenon, <1>4, <3>1
    <3> QED BY Zenon, <2>2, <3>1, <3>2 DEF Turn
  <2> QED BY Zenon, <2>1, <2>2
<1> HIDE DEF Val
<1> QED BY Zenon, <1>2, <1>3, <1>4

\* The recursion has a solution, whatever the number of records.
LEMMA FoundExists ==
  ASSUME NEW match
  PROVE  \A l \in Nat : \E f : Found(f, match, l)
<1> DEFINE S == {l \in Nat : \E f : Found(f, match, l)}
<1>1. 0 \in S
  <2>1. Found([n \in 0..0 |-> <<>>], match, 0)
    BY DEF Found
  <2> QED BY Zenon, <2>1
<1>2. ASSUME NEW l \in Nat, l \in S PROVE l + 1 \in S
  <2>1. PICK f : Found(f, match, l)
    BY Zenon, <1>2
  <2> DEFINE next == IF Retained[l + 1][2] \in match THEN Append(f[l], Retained[l + 1]) ELSE f[l]
             g == [n \in 0..(l + 1) |-> IF n = l + 1 THEN next ELSE f[n]]
  <2>2. f[0] = <<>> /\ \A n \in 0..(l - 1) : Turn(f, match, n)
    BY Zenon, <2>1, FoundFacts
  <2>3. /\ 0 \in 0..(l + 1) /\ 0 # l + 1 /\ l \in 0..(l + 1) /\ l # l + 1 /\ l + 1 \in 0..(l + 1)
        /\ l + 1 \in Nat /\ l + 1 - 1 = l
        /\ \A n \in 0..l : n \in 0..(l - 1) \/ n = l
        /\ \A n \in 0..(l - 1) : n \in 0..(l + 1) /\ n # l + 1 /\ n + 1 \in 0..(l + 1) /\ n + 1 # l + 1
    OBVIOUS
  <2>4. ASSUME NEW n \in 0..l PROVE Turn(g, match, n)
    <3>1. CASE n \in 0..(l - 1)
      <4>1. g[n] = f[n] /\ g[n + 1] = f[n + 1]
        BY Zenon, <2>3, <3>1
      <4> QED BY Zenon, <2>2, <3>1, <4>1 DEF Turn
    <3>2. CASE n = l
      <4>1. g[l] = f[l] /\ g[l + 1] = next
        BY Zenon, <2>3
      <4> QED BY Zenon, <3>2, <4>1 DEF Turn
    <3> QED BY Zenon, <2>3, <3>1, <3>2
  <2>5. g = [n \in 0..(l + 1) |-> g[n]] /\ g[0] = <<>>
    BY Zenon, <2>2, <2>3
  <2> HIDE DEF g
  <2>6. Found(g, match, l + 1)
    <3>1. PICK k \in Nat : k = l + 1 /\ k - 1 = l
      OBVIOUS
    <3>2. g = [n \in 0..k |-> g[n]] /\ g[0] = <<>> /\ \A n \in 0..(k - 1) : Turn(g, match, n)
      BY Zenon, <2>4, <2>5, <3>1
    <3>3. Found(g, match, k)
      BY Zenon, <3>2, FoundFacts
    <3> QED BY Zenon, <3>1, <3>3
  <2> QED BY Zenon, <2>3, <2>6
<1> HIDE DEF S
<1>3. \A n \in Nat : n \in S
  BY Zenon, <1>1, <1>2, Induction
<1> QED BY Zenon, <1>3 DEF S

\* Matches starts empty and takes one turn per retained record.
LEMMA MatchesFacts ==
  ASSUME NEW match, count \in Nat
  PROVE  \E f : /\ Matches(match) = f /\ f[0] = <<>>
                /\ \A n \in 0..(count - 1) : Turn(f, match, n)
<1> DEFINE f == CHOOSE f : Found(f, match, count)
<1>1. Found(f, match, count)
  BY Zenon, FoundExists
<1>2. Matches(match) = f
  BY DEF Matches, Found
<1> HIDE DEF f
<1>3. f[0] = <<>> /\ \A n \in 0..(count - 1) : Turn(f, match, n)
  BY Zenon, <1>1, FoundFacts
<1> QED BY Zenon, <1>2, <1>3

\* The places in the history of the retained matches.
Hits(match) ==
  {n \in DOMAIN history : n > Len(history) - Capacity /\ history[n] \in match}

\* F is the hits up to place k, oldest first.
HitsUpTo(F, match, k) ==
  /\ F \in Seq(Record)
  /\ \A i \in DOMAIN F : /\ F[i][1] \in Hits(match) /\ F[i][1] <= k
                         /\ F[i] = <<F[i][1], history[F[i][1]]>>
  /\ \A m \in Hits(match) : m <= k => \E i \in DOMAIN F : F[i][1] = m
  /\ Rising(F)

\* Query walks the window of the history that is retained.
LEMMA WindowFacts ==
  ASSUME LogInv
  PROVE  \E base \in Nat :
           /\ count \in Nat /\ Len(history) = base + count /\ history \in Seq(Event)
           /\ \A m \in 1..Len(history) : m > Len(history) - Capacity <=> m > base
           /\ \A n \in 1..count : Retained[n] = <<base + n, history[base + n]>>
<1>1. /\ count \in Nat /\ nextSeq \in Nat /\ nextSeq = Len(history) /\ history \in Seq(Event)
      /\ count = IF nextSeq < Capacity THEN nextSeq ELSE Capacity
  BY CapacityAssumption DEF LogInv, RingTypes, CountInv
<1>2. RingIsWindow
  BY Zenon, WindowHolds
<1>3. PICK base : base = nextSeq - count
  OBVIOUS
<1>4. /\ base \in Nat /\ Len(history) = base + count
      /\ \A m \in 1..Len(history) : m > Len(history) - Capacity <=> m > base
  BY <1>1, <1>3, CapacityAssumption
<1>5. \A n \in 1..count : Retained[n] = <<base + n, history[base + n]>>
  BY Zenon, <1>2, <1>3 DEF RingIsWindow
<1> QED BY Zenon, <1>1, <1>4, <1>5

\* A turn of the loop takes the next record if it matches.
LEMMA HitsTurn ==
  ASSUME NEW match, NEW f, NEW n \in Nat, NEW base \in Nat, history \in Seq(Event),
         base + n + 1 <= Len(history), base + n + 1 > Len(history) - Capacity,
         Retained[n + 1] = <<base + n + 1, history[base + n + 1]>>,
         HitsUpTo(f[n], match, base + n), Turn(f, match, n)
  PROVE  HitsUpTo(f[n + 1], match, base + n + 1)
<1>1. PICK F, r, p : F = f[n] /\ r = Retained[n + 1] /\ p = base + n + 1
  BY Zenon
<1>2. /\ p \in Nat \ {0} /\ p - 1 = base + n /\ p \in DOMAIN history /\ history[p] \in Event
      /\ p > Len(history) - Capacity
      /\ \A m \in DOMAIN history : m \in Nat /\ (m <= p <=> m = p \/ m <= p - 1)
  BY <1>1
<1>3. r = <<p, history[p]>> /\ r[1] = p /\ r[2] = history[p] /\ r \in Record
  BY <1>1, <1>2 DEF Record
<1>4. HitsUpTo(F, match, p - 1)
  BY Zenon, <1>1, <1>2
<1>5. f[n + 1] = IF r[2] \in match THEN Append(F, r) ELSE F
  BY Zenon, <1>1 DEF Turn
<1>6. \A m \in Hits(match) : m \in DOMAIN history /\ m \in Nat /\ (m <= p <=> m = p \/ m <= p - 1)
  BY Zenon, <1>2 DEF Hits
<1>7. p \in Hits(match) <=> r[2] \in match
  BY Zenon, <1>2, <1>3 DEF Hits
<1>8. CASE r[2] \notin match
  <2>1. \A i \in DOMAIN F : F[i][1] <= p
    BY Zenon, <1>4, <1>6 DEF HitsUpTo
  <2>2. \A m \in Hits(match) : m <= p => m <= p - 1
    BY Zenon, <1>6, <1>7, <1>8
  <2>3. HitsUpTo(F, match, p)
    BY Zenon, <1>4, <2>1, <2>2 DEF HitsUpTo
  <2> QED BY Zenon, <1>1, <1>5, <1>8, <2>3
<1>9. CASE r[2] \in match
  <2>1. PICK G, len : G = Append(F, r) /\ len = Len(F)
    BY Zenon
  <2>2. /\ len \in Nat /\ DOMAIN F = 1..len /\ DOMAIN G = 1..(len + 1)
        /\ G[len + 1] = r /\ (\A i \in 1..len : G[i] = F[i]) /\ G \in Seq(Record)
        /\ \A i \in 1..(len + 1) : i = len + 1 \/ i \in 1..len
        /\ \A i \in 1..len : i \in 1..(len + 1)
        /\ len + 1 \in 1..(len + 1) /\ p <= p
    BY <1>2, <1>3, <1>4, <2>1 DEF HitsUpTo
  <2>3. ASSUME NEW i \in 1..len PROVE F[i][1] <= p /\ F[i][1] < p
    <3>1. F[i][1] \in Nat /\ F[i][1] <= p - 1
      BY Zenon, <1>4, <1>6, <2>2 DEF HitsUpTo
    <3> QED BY <1>2, <3>1
  <2>4. ASSUME NEW i \in DOMAIN G
        PROVE  G[i][1] \in Hits(match) /\ G[i][1] <= p /\ G[i] = <<G[i][1], history[G[i][1]]>>
    <3>1. CASE i = len + 1
      BY Zenon, <1>3, <1>7, <1>9, <2>2, <3>1
    <3>2. CASE i \in 1..len
      BY Zenon, <1>4, <2>2, <2>3, <3>2 DEF HitsUpTo
    <3> QED BY Zenon, <2>2, <3>1, <3>2
  <2>5. ASSUME NEW m \in Hits(match), m <= p PROVE \E i \in DOMAIN G : G[i][1] = m
    <3>1. CASE m = p
      BY Zenon, <1>3, <2>2, <3>1
    <3>2. CASE m <= p - 1
      <4>1. PICK i \in 1..len : F[i][1] = m
        BY Zenon, <1>4, <2>2, <3>2 DEF HitsUpTo
      <4> QED BY Zenon, <2>2, <4>1
    <3> QED BY Zenon, <1>6, <2>5, <3>1, <3>2
  <2>6. Rising(G)
    <3>1. \A x \in Range(F) : x[1] < r[1]
      BY Zenon, <1>3, <2>2, <2>3 DEF Range
    <3> QED BY Zenon, <1>3, <1>4, <2>1, <3>1, RisingAppend DEF HitsUpTo
  <2>7. HitsUpTo(G, match, p)
    BY Zenon, <2>2, <2>4, <2>5, <2>6 DEF HitsUpTo
  <2> QED BY Zenon, <1>1, <1>5, <1>9, <2>1, <2>7
<1> QED BY Zenon, <1>8, <1>9

\* So Query finds all the hits.
LEMMA QueryFinds ==
  ASSUME LogInv, NEW match
  PROVE  HitsUpTo(Matches(match)[count], match, Len(history))
<1>1. PICK base \in Nat :
         /\ count \in Nat /\ Len(history) = base + count /\ history \in Seq(Event)
         /\ \A m \in 1..Len(history) : m > Len(history) - Capacity <=> m > base
         /\ \A n \in 1..count : Retained[n] = <<base + n, history[base + n]>>
  BY Zenon, WindowFacts
<1>2. PICK f : /\ Matches(match) = f /\ f[0] = <<>>
               /\ \A n \in 0..(count - 1) : Turn(f, match, n)
  BY Zenon, <1>1, MatchesFacts
<1> DEFINE S == {n \in Nat : n <= count => HitsUpTo(f[n], match, base + n)}
<1>3. 0 \in S
  <2>1. \A m \in Hits(match) : ~(m <= base)
    BY <1>1 DEF Hits
  <2>2. HitsUpTo(<<>>, match, base)
    <3>1. <<>> \in Seq(Record) /\ DOMAIN <<>> = {} /\ Rising(<<>>)
      BY DEF Rising
    <3> QED BY Zenon, <2>1, <3>1 DEF HitsUpTo
  <2>3. base + 0 = base /\ 0 \in Nat
    OBVIOUS
  <2> QED BY Zenon, <1>2, <2>2, <2>3
<1>4. ASSUME NEW n \in Nat, n \in S PROVE n + 1 \in S
  <2> SUFFICES ASSUME n + 1 <= count PROVE HitsUpTo(f[n + 1], match, base + (n + 1))
    OBVIOUS
  <2>1. /\ n <= count /\ n \in 0..(count - 1) /\ n + 1 \in 1..count /\ base + (n + 1) = base + n + 1
        /\ base + n + 1 \in 1..Len(history) /\ base + n + 1 <= Len(history) /\ base + n + 1 > base
    BY <1>1
  <2>2. HitsUpTo(f[n], match, base + n)
    BY Zenon, <1>4, <2>1
  <2>3. Retained[n + 1] = <<base + n + 1, history[base + n + 1]>>
    BY Zenon, <1>1, <2>1
  <2>4. base + n + 1 > Len(history) - Capacity /\ Turn(f, match, n)
    BY Zenon, <1>1, <1>2, <2>1
  <2>5. HitsUpTo(f[n + 1], match, base + n + 1)
    BY Zenon, <1>1, <2>1, <2>2, <2>3, <2>4, HitsTurn
  <2> QED BY Zenon, <2>1, <2>5
<1> HIDE DEF S
<1>5. \A n \in Nat : n \in S
  BY Zenon, <1>3, <1>4, Induction
<1>6. HitsUpTo(f[count], match, base + count)
  <2>1. count <= count
    BY <1>1
  <2> QED BY Zenon, <1>1, <1>5, <2>1 DEF S
<1> QED BY Zenon, <1>1, <1>2, <1>6

\* The hits after the i-th one are as many as its distance from the end.
LEMMA HitsAfter ==
  ASSUME NEW F, NEW match, HitsUpTo(F, match, Len(history)), history \in Seq(Event),
         NEW i \in 1..Len(F)
  PROVE  Cardinality({m \in Hits(match) : m > F[i][1]}) = Len(F) - i
<1>1. PICK len : len = Len(F)
  OBVIOUS
<1>2. len \in Nat /\ DOMAIN F = 1..len /\ i \in 1..len /\ \A j \in 1..len : F[j][1] \in Nat
  BY <1>1 DEF HitsUpTo, Record
<1>3. PICK T : T = {m \in Hits(match) : m > F[i][1]}
  BY Zenon
<1> DEFINE g == [j \in (i + 1)..len |-> F[j][1]]
<1>4. \A j \in (i + 1)..len : j \in 1..len /\ i < j
  BY <1>2
<1>5. g \in [(i + 1)..len -> T]
  <2>1. ASSUME NEW j \in (i + 1)..len PROVE F[j][1] \in T
    <3>1. F[j][1] \in Hits(match) /\ F[i][1] < F[j][1]
      BY Zenon, <1>2, <1>4 DEF HitsUpTo, Rising
    <3>2. F[j][1] > F[i][1]
      BY <1>2, <1>4, <3>1
    <3> QED BY Zenon, <1>3, <3>1, <3>2
  <2> QED BY Zenon, <2>1
<1>6. ASSUME NEW j \in (i + 1)..len, NEW k \in (i + 1)..len, g[j] = g[k] PROVE j = k
  <2>1. F[j][1] = F[k][1] /\ F[j][1] \in Nat
    BY Zenon, <1>2, <1>4, <1>6
  <2>2. (j < k => F[j][1] < F[k][1]) /\ (k < j => F[k][1] < F[j][1])
    BY Zenon, <1>2, <1>4 DEF HitsUpTo, Rising
  <2>3. ~(j < k) /\ ~(k < j)
    BY <2>1, <2>2
  <2> QED BY <1>2, <2>3
<1>7. ASSUME NEW t \in T PROVE \E j \in (i + 1)..len : g[j] = t
  <2>1. t \in Hits(match) /\ t > F[i][1] /\ t \in DOMAIN history
    BY Zenon, <1>3, <1>7 DEF Hits
  <2>2. t <= Len(history) /\ t \in Nat
    BY <2>1
  <2>3. PICK j \in 1..len : F[j][1] = t
    BY Zenon, <1>2, <2>1, <2>2 DEF HitsUpTo
  <2>4. F[i][1] \in Nat /\ (j < i => F[j][1] < F[i][1])
    BY Zenon, <1>2 DEF HitsUpTo, Rising
  <2>5. j # i /\ ~(j < i)
    BY <2>1, <2>2, <2>3, <2>4
  <2>6. j \in (i + 1)..len
    BY <1>2, <2>5
  <2> QED BY Zenon, <2>3, <2>6
<1> HIDE DEF g
<1>8. ExistsBijection((i + 1)..len, T)
  <2>1. g \in Injection((i + 1)..len, T)
    BY Zenon, <1>5, <1>6 DEF Injection, IsInjective
  <2>2. g \in Surjection((i + 1)..len, T)
    BY Zenon, <1>5, <1>7 DEF Surjection
  <2> QED BY Zenon, <2>1, <2>2 DEF ExistsBijection, Bijection
<1>9. IsFiniteSet((i + 1)..len) /\ Cardinality((i + 1)..len) = len - i
  <2>1. i + 1 \in Int /\ len \in Int
    BY <1>2
  <2>2. /\ IsFiniteSet((i + 1)..len)
        /\ Cardinality((i + 1)..len) = IF i + 1 > len THEN 0 ELSE len - (i + 1) + 1
    BY Zenon, <2>1, FS_Interval
  <2> QED BY <1>2, <2>2
<1>10. Cardinality(T) = len - i
  BY Zenon, <1>8, <1>9, FS_Bijection
<1> QED BY Zenon, <1>1, <1>3, <1>10

\* The tail of a sequence after its first k members.
LEMMA SuffixFacts ==
  ASSUME NEW F \in Seq(Record), NEW k \in 0..Len(F)
  PROVE  /\ DOMAIN SubSeq(F, k + 1, Len(F)) = 1..(Len(F) - k)
         /\ \A i \in 1..(Len(F) - k) : SubSeq(F, k + 1, Len(F))[i] = F[i + k]
<1>1. PICK sub : sub = SubSeq(F, k + 1, Len(F))
  BY Zenon
<1>2. sub \in Seq(Record) /\ Len(sub) = Len(F) - k
  BY <1>1
<1>3. ASSUME NEW i \in 1..(Len(F) - k) PROVE sub[i] = F[i + k]
  BY <1>1
<1> QED BY <1>1, <1>2, <1>3

\* The matches that Query returns, and how they are the newest: k are left out.
Limited(F, limit) ==
  IF limit = 0 \/ Len(F) <= limit THEN F ELSE SubSeq(F, Len(F) - limit + 1, Len(F))

LeavesOut(answer, F, len, limit, k) ==
  /\ DOMAIN answer = 1..(len - k)
  /\ \A i \in 1..(len - k) : answer[i] = F[i + k]
  /\ \A j \in 1..len : j > k <=> limit = 0 \/ len - j < limit

\* Query drops the oldest matches, those past the limit.
LEMMA QuerySuffix ==
  ASSUME NEW F \in Seq(Record), NEW limit \in Nat, NEW len \in Nat, len = Len(F)
  PROVE  \E k \in 0..len : LeavesOut(Limited(F, limit), F, len, limit, k)
<1>1. CASE limit = 0 \/ len <= limit
  <2>1. Limited(F, limit) = F
    BY Zenon, <1>1 DEF Limited
  <2>2. LeavesOut(F, F, len, limit, 0) /\ 0 \in 0..len
    BY <1>1 DEF LeavesOut
  <2> QED BY Zenon, <2>1, <2>2
<1>2. CASE ~(limit = 0 \/ len <= limit)
  <2>1. PICK k \in 0..len : k = len - limit
    BY <1>2
  <2>2. Limited(F, limit) = SubSeq(F, k + 1, Len(F))
    BY Zenon, <1>2, <2>1 DEF Limited
  <2>3. /\ DOMAIN SubSeq(F, k + 1, Len(F)) = 1..(Len(F) - k)
        /\ \A i \in 1..(Len(F) - k) : SubSeq(F, k + 1, Len(F))[i] = F[i + k]
    BY Zenon, SuffixFacts
  <2>4. \A j \in 1..len : j > k <=> limit = 0 \/ len - j < limit
    BY <1>2, <2>1
  <2> QED BY Zenon, <2>2, <2>3, <2>4 DEF LeavesOut
<1> QED BY Zenon, <1>1, <1>2

\* Query returns the newest matches, oldest first.
LEMMA QueryNewest ==
  ASSUME LogInv
  PROVE  QueryReturnsNewestMatches
<1> SUFFICES ASSUME NEW match \in SUBSET Event, NEW limit \in 0..Capacity
             PROVE  LET answer == Query(match, limit)
                        hits == Hits(match)
                        newest == {n \in hits :
                                     limit = 0 \/ Cardinality({m \in hits : m > n}) < limit}
                    IN /\ {answer[i] : i \in DOMAIN answer} = {<<n, history[n]>> : n \in newest}
                       /\ Rising(answer)
  BY Zenon DEF QueryReturnsNewestMatches, Hits, Rising
<1>1. PICK F, len, answer : F = Matches(match)[count] /\ len = Len(F) /\ answer = Query(match, limit)
  BY Zenon
<1>2. HitsUpTo(F, match, Len(history)) /\ history \in Seq(Event)
  BY Zenon, <1>1, QueryFinds DEF LogInv, RingTypes
<1>3. F \in Seq(Record) /\ limit \in Nat /\ len \in Nat /\ DOMAIN F = 1..len
  BY <1>1, <1>2, CapacityAssumption DEF HitsUpTo
<1>4. PICK k \in 0..len : LeavesOut(answer, F, len, limit, k)
  <2>1. answer = Limited(F, limit)
    BY Zenon, <1>1 DEF Query, Limited
  <2>2. len = Len(F)
    BY Zenon, <1>1
  <2>3. \E k \in 0..len : LeavesOut(Limited(F, limit), F, len, limit, k)
    BY Zenon, <1>3, <2>2, QuerySuffix
  <2> QED BY Zenon, <2>1, <2>3
<1>5. /\ DOMAIN answer = 1..(len - k)
      /\ \A i \in 1..(len - k) : answer[i] = F[i + k]
      /\ \A j \in 1..len : j > k <=> limit = 0 \/ len - j < limit
  BY Zenon, <1>4 DEF LeavesOut
<1> DEFINE hits == Hits(match)
           newest == {n \in hits : limit = 0 \/ Cardinality({m \in hits : m > n}) < limit}
<1>6. ASSUME NEW j \in 1..len PROVE F[j][1] \in newest <=> j > k
  <2>1. F[j][1] \in hits
    BY Zenon, <1>2, <1>3 DEF HitsUpTo
  <2>2. Cardinality({m \in hits : m > F[j][1]}) = len - j
    BY Zenon, <1>1, <1>2, HitsAfter
  <2> QED BY Zenon, <1>5, <2>1, <2>2
<1>7. \A i \in 1..(len - k) : i + k \in 1..len /\ i + k > k
  BY <1>3
<1>8. \A j \in 1..len : j > k => j - k \in 1..(len - k) /\ j - k + k = j
  BY <1>3
<1>9. \A j \in 1..len : F[j] = <<F[j][1], history[F[j][1]]>>
  BY Zenon, <1>2, <1>3 DEF HitsUpTo
<1>10. \A n \in newest : \E j \in 1..len : F[j][1] = n
  <2> SUFFICES ASSUME NEW n \in hits PROVE \E j \in 1..len : F[j][1] = n
    BY Zenon
  <2>1. n \in DOMAIN history
    BY Zenon DEF Hits
  <2>2. n <= Len(history)
    BY <1>2, <2>1
  <2> QED BY Zenon, <1>2, <1>3, <2>2 DEF HitsUpTo
<1> HIDE DEF newest
<1>11. ASSUME NEW i \in DOMAIN answer PROVE \E n \in newest : answer[i] = <<n, history[n]>>
  <2>1. PICK j \in 1..len : j = i + k /\ j > k
    BY Zenon, <1>5, <1>7
  <2>2. answer[i] = F[j]
    BY Zenon, <1>5, <2>1
  <2> QED BY Zenon, <1>6, <1>9, <2>1, <2>2
<1>12. ASSUME NEW n \in newest PROVE \E i \in DOMAIN answer : answer[i] = <<n, history[n]>>
  <2>1. PICK j \in 1..len : F[j][1] = n
    BY Zenon, <1>10
  <2>2. j > k
    BY Zenon, <1>6, <2>1
  <2>3. PICK i \in 1..(len - k) : i + k = j
    BY Zenon, <1>8, <2>2
  <2> QED BY Zenon, <1>5, <1>9, <2>1, <2>3
<1>13. Rising(answer)
  <2> SUFFICES ASSUME NEW h \in 1..(len - k), NEW i \in 1..(len - k), h < i
               PROVE  answer[h][1] < answer[i][1]
    BY Zenon, <1>5 DEF Rising
  <2>1. h + k < i + k
    BY <1>3
  <2>2. F[h + k][1] < F[i + k][1]
    BY Zenon, <1>2, <1>3, <1>7, <2>1 DEF HitsUpTo, Rising
  <2> QED BY Zenon, <1>5, <2>2
<1>14. {answer[i] : i \in DOMAIN answer} = {<<n, history[n]>> : n \in newest}
  <2>1. ASSUME NEW x \in {answer[i] : i \in DOMAIN answer} PROVE x \in {<<n, history[n]>> : n \in newest}
    <3>1. PICK i \in DOMAIN answer : x = answer[i]
      BY Zenon
    <3> QED BY Zenon, <1>11, <3>1
  <2>2. ASSUME NEW x \in {<<n, history[n]>> : n \in newest} PROVE x \in {answer[i] : i \in DOMAIN answer}
    <3>1. PICK n \in newest : x = <<n, history[n]>>
      BY Zenon
    <3>2. PICK i \in DOMAIN answer : answer[i] = <<n, history[n]>>
      BY Zenon, <1>12
    <3> QED BY Zenon, <3>1, <3>2
  <2> QED BY Zenon, <2>1, <2>2
<1> QED BY Zenon, <1>1, <1>13, <1>14 DEF newest

\* For any capacity, events, subscribers and limits: each accepted event is in
\* the line from ingestCh to the log once, Query returns the newest matches of
\* the retained window, and a live subscriber sees the records in the order of
\* their numbers, none of them lost without being counted in Dropped().
THEOREM LogIsServed == Spec => []LogServed
<1>1. Init => OnceInv /\ SeesInv
  <2> SUFFICES ASSUME Init PROVE OnceInv /\ SeesInv
    OBVIOUS
  <2>1. OnceInv
    <3>1. Answered("accepted") = {} /\ Answered("dropped") = {}
      BY DEF Init, Answered
    <3>2. Accepted = <<>> /\ Range(<<>>) = {} /\ Len(<<>>) = 0
      BY DEF Init, Accepted, Range
    <3>3. ing \in [Event -> {"new", "checked", "refused", "accepted", "dropped"}] /\ droppedIngress = 0
      BY DEF Init
    <3> QED BY Zenon, <3>1, <3>2, <3>3, FS_EmptySet DEF OnceInv
  <2>2. SubInv(Record) /\ \A s \in Sub : ~chClosed[s] /\ spc[s] = "new"
    BY Zenon, SubInitInv DEF Init
  <2>3. OfferTypes
    BY Zenon DEF Init, OfferTypes
  <2>4. \A s \in Sub : OwedTo(s) /\ SeesFor(s)
    BY Zenon, <2>2, FS_EmptySet DEF Init, OwedTo, SeesFor
  <2> QED BY Zenon, <2>1, <2>2, <2>3, <2>4 DEF SeesInv
<1>2. LogInv /\ OnceInv /\ SeesInv /\ [Next]_vars => OnceInv' /\ SeesInv'
  BY Zenon, OnceStep, SeesStep
<1>3. LogInv /\ OnceInv /\ SeesInv => LogServed
  <2> SUFFICES ASSUME LogInv, OnceInv, SeesInv PROVE LogServed
    OBVIOUS
  <2>1. EachEventOnce
    BY Zenon DEF OnceInv, Accepted, Answered, EachEventOnce
  <2>2. SubscriberSeesLog
    BY Zenon DEF SeesInv, SeesFor, Rising, Account, ToOffer, SubscriberSeesLog
  <2> QED BY Zenon, <2>1, <2>2, QueryNewest DEF LogServed
<1> QED BY <1>1, <1>2, <1>3, LogInvariance, PTL DEF Spec
=============================================================================
