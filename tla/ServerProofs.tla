---------------------------- MODULE ServerProofs ----------------------------
(***************************************************************************)
(* Proofs about the two parts that serve others with bounded resources.    *)
(* HttpServer, for any requests, streams, limits and loads: the rate       *)
(* limiter keeps its bound although idle limiters are dropped, the         *)
(* connection counts are the numbers of open streams, and a stream sends   *)
(* what its queue, its filter and its throttle let through.                *)
(* RolloutGateway, for any tasks, sessions, pools and buffers: the stages  *)
(* keep within their workers and buffers, and a completed task has the     *)
(* report of each of its sessions.                                         *)
(***************************************************************************)
EXTENDS HttpServer, RolloutGateway, FiniteSetTheorems, TLAPS

(***************************************************************************)
(* The rate limiter.                                                       *)
(***************************************************************************)
Held == {q \in Request : req[q].pc = "limit"}

RequestsFormed ==
  /\ DOMAIN req = Request /\ req = [q \in Request |-> req[q]]
  /\ \A q \in Request : "pc" \in DOMAIN req[q]

LimitersFormed ==
  /\ clock \in Nat
  /\ buckets \in [Request -> [tokens : 0..Burst, last : 0..clock]]
  /\ \A a \in DOMAIN limiters : limiters[a].lim \in Request /\ limiters[a].lastSeen \in 0..clock
  /\ \A q \in Held : /\ req[q].lim \in Request /\ req[q].got \in 0..clock
                     /\ req[q].post.addr \in Addr \ Local
  /\ granted \in [Addr -> Seq(Nat)]

\* A limiter serves one address, and a request that has not arrived has made none.
LimitersOwned ==
  /\ \A a, b \in DOMAIN limiters : limiters[a].lim = limiters[b].lim => a = b
  /\ \A q \in Held : \A a \in DOMAIN limiters :
       limiters[a].lim = req[q].lim => a = req[q].post.addr
  /\ \A q \in Request : req[q].pc = "idle" =>
       /\ buckets[q].tokens = Burst
       /\ \A a \in DOMAIN limiters : limiters[a].lim # q
       /\ \A r \in Held : req[r].lim # q

\* A request that is still in time has the limiter that its address has now.
HeldCurrent ==
  \A q \in Held : InTime(q) =>
    LET a == req[q].post.addr
    IN a \in DOMAIN limiters /\ limiters[a].lim = req[q].lim /\ req[q].got <= limiters[a].lastSeen

\* The tokens of the limiter that an address has now, or would get.
Left(a) == IF a \in DOMAIN limiters THEN Tokens(limiters[a].lim) ELSE Burst

\* What an address got since some earlier grant, together with what its bucket
\* holds now, is within the bound of the time that has passed; and its last grant
\* is old when its limiter is dropped.
Budget(a) ==
  \A i \in DOMAIN granted[a] :
    /\ granted[a][i] <= clock
    /\ Len(granted[a]) - i + 1 + Left(a) <= Burst + clock - granted[a][i]
    /\ a \in DOMAIN limiters => granted[a][i] <= limiters[a].lastSeen + (EvictAfter - Burst)

RateInv ==
  /\ RequestsFormed /\ LimitersFormed /\ LimitersOwned /\ HeldCurrent
  /\ RateBound /\ \A a \in Addr \ Local : Budget(a)

\* A bucket holds no more than a full one.
LEMMA TokensBounded ==
  ASSUME LimitersFormed
  PROVE  /\ \A lim \in Request : Tokens(lim) \in 0..Burst
         /\ \A a : Left(a) \in 0..Burst
<1>1. ASSUME NEW lim \in Request
      PROVE  Tokens(lim) \in 0..Burst
  <2>1. buckets[lim].tokens \in 0..Burst /\ buckets[lim].last \in 0..clock /\ clock \in Nat
    BY DEF LimitersFormed
  <2> QED BY <2>1, LimiterAssumption DEF Tokens, Min2
<1>2. Burst \in 0..Burst
  BY LimiterAssumption
<1> QED BY Zenon, <1>1, <1>2 DEF Left, LimitersFormed

\* Steps after the limiter, and of requests that pass it by.
LEMMA QuietStep ==
  ASSUME RateInv, UNCHANGED <<clock, limitVars>>, RequestsFormed',
         \A q \in Request : req'[q] = req[q] \/ req'[q].pc \notin {"idle", "limit"}
  PROVE  RateInv'
<1> USE DEF limitVars
<1>1. \A q \in Request : (q \in Held' => q \in Held /\ req'[q] = req[q])
                         /\ (req'[q].pc = "idle" => req[q].pc = "idle")
  BY Zenon DEF Held
<1>2. Held' \subseteq Request /\ Held \subseteq Request
  BY Zenon DEF Held
<1>3. LimitersFormed'
  BY Zenon, <1>1, <1>2 DEF RateInv, LimitersFormed
<1>4. LimitersOwned'
  BY Zenon, <1>1, <1>2 DEF RateInv, LimitersOwned
<1>5. HeldCurrent'
  BY Zenon, <1>1, <1>2 DEF RateInv, HeldCurrent, InTime
<1>6. \A a : Left(a)' = Left(a)
  BY Zenon DEF Left, Tokens
<1>7. RateBound' /\ \A a \in Addr \ Local : Budget(a)'
  BY Zenon, <1>6 DEF RateInv, RateBound, Budget
<1> QED BY Zenon, <1>3, <1>4, <1>5, <1>7 DEF RateInv

\* A tick gives each bucket a token, and the bound one more.
LEMMA TickStep ==
  ASSUME RateInv, Tick
  PROVE  RateInv'
<1> USE DEF limitVars
<1>1. /\ clock \in Nat /\ clock' = clock + 1 /\ limiters' = limiters /\ granted' = granted
      /\ buckets' = buckets /\ req' = req
  BY Zenon DEF Tick, RateInv, LimitersFormed
<1>2. Held' = Held
  BY Zenon, <1>1 DEF Held
<1>3. LimitersFormed'
  <2>1. 0..clock \subseteq 0..clock'
    BY <1>1
  <2>2. buckets \in [Request -> [tokens : 0..Burst, last : 0..clock']]
    <3>1. buckets \in [Request -> [tokens : 0..Burst, last : 0..clock]]
      BY Zenon DEF RateInv, LimitersFormed
    <3> QED BY <2>1, <3>1
  <2>3. clock' \in Nat
    BY <1>1
  <2> QED BY Zenon, <1>1, <1>2, <2>1, <2>2, <2>3 DEF RateInv, LimitersFormed
<1>4. LimitersOwned' /\ RequestsFormed'
  BY Zenon, <1>1, <1>2 DEF RateInv, LimitersOwned, RequestsFormed
<1>5. HeldCurrent'
  <2>1. ASSUME NEW q \in Held, InTime(q)'
        PROVE  InTime(q)
    <3>1. req[q].got \in 0..clock
      BY Zenon DEF RateInv, LimitersFormed
    <3>2. clock' - req'[q].got <= EvictAfter - Burst
      BY Zenon, <2>1 DEF InTime
    <3> QED BY <1>1, <3>1, <3>2, LimiterAssumption DEF InTime
  <2> QED BY Zenon, <1>1, <1>2, <2>1 DEF RateInv, HeldCurrent
<1>6. \A a : Left(a)' \in 0..Burst /\ Left(a)' <= Left(a) + 1
  <2>1. ASSUME NEW lim \in Request
        PROVE  Tokens(lim)' \in 0..Burst /\ Tokens(lim)' <= Tokens(lim) + 1
    <3>1. buckets[lim].tokens \in 0..Burst /\ buckets[lim].last \in 0..clock
      BY DEF RateInv, LimitersFormed
    <3> QED BY <1>1, <3>1, LimiterAssumption DEF Tokens, Min2
  <2>2. Burst \in 0..Burst /\ Burst <= Burst + 1
    BY LimiterAssumption
  <2> QED BY Zenon, <1>1, <2>1, <2>2 DEF Left, RateInv, LimitersFormed
<1>7. \A a \in Addr \ Local : Budget(a)'
  <2> SUFFICES ASSUME NEW a \in Addr \ Local, NEW i \in DOMAIN granted[a]
               PROVE  /\ granted[a][i] <= clock + 1
                      /\ Len(granted[a]) - i + 1 + Left(a)' <= Burst + (clock + 1) - granted[a][i]
                      /\ a \in DOMAIN limiters =>
                           granted[a][i] <= limiters[a].lastSeen + (EvictAfter - Burst)
    BY Zenon, <1>1 DEF Budget
  <2>1. granted[a][i] \in Nat /\ Len(granted[a]) \in Nat /\ i \in Nat
    BY DEF RateInv, LimitersFormed
  <2>2. Left(a) \in 0..Burst /\ Left(a)' \in 0..Burst /\ Burst \in Nat
    BY Zenon, <1>6, TokensBounded, LimiterAssumption DEF RateInv
  <2>3. /\ granted[a][i] <= clock
        /\ Len(granted[a]) - i + 1 + Left(a) <= Burst + clock - granted[a][i]
        /\ a \in DOMAIN limiters => granted[a][i] <= limiters[a].lastSeen + (EvictAfter - Burst)
    BY Zenon DEF RateInv, Budget
  <2>4. Left(a)' <= Left(a) + 1
    BY Zenon, <1>6
  <2>5. clock \in Nat
    BY Zenon, <1>1
  <2>6. granted[a][i] <= clock + 1
    BY <2>1, <2>3, <2>5
  <2>7. Len(granted[a]) - i + 1 + Left(a)' <= Burst + (clock + 1) - granted[a][i]
    <3>1. \A g, n, j, l, m, b, k \in Nat :
            n - j + 1 + l <= b + k - g /\ m <= l + 1 => n - j + 1 + m <= b + (k + 1) - g
      OBVIOUS
    <3>2. Left(a) \in Nat /\ Left(a)' \in Nat /\ Burst \in Nat
      BY <2>2
    <3> QED BY <2>1, <2>3, <2>4, <2>5, <3>1, <3>2
  <2> QED BY Zenon, <2>3, <2>6, <2>7
<1> QED BY Zenon, <1>1, <1>3, <1>4, <1>5, <1>7 DEF RateInv, RateBound

\* The limiter that is dropped has filled up since the last grant in time.
LEMMA EvictStep ==
  ASSUME RateInv, evictLoop
  PROVE  RateInv'
<1>1. PICK kept : /\ kept = {a \in DOMAIN limiters : limiters[a].lastSeen >= clock - EvictAfter}
                  /\ limiters' = [a \in kept |-> limiters[a]]
  BY Zenon DEF evictLoop
<1>2. /\ clock' = clock /\ buckets' = buckets /\ granted' = granted /\ req' = req
      /\ DOMAIN limiters' = kept
      /\ \A a \in kept : a \in DOMAIN limiters /\ limiters'[a] = limiters[a]
  BY Zenon, <1>1 DEF evictLoop
<1>3. Held' = Held
  BY Zenon, <1>2 DEF Held
<1>4. LimitersFormed' /\ RequestsFormed'
  BY Zenon, <1>2, <1>3 DEF RateInv, LimitersFormed, RequestsFormed
<1>5. LimitersOwned'
  <2>1. \A a \in DOMAIN limiters' : a \in DOMAIN limiters /\ limiters'[a].lim = limiters[a].lim
    BY Zenon, <1>2
  <2>2. \A a, b \in DOMAIN limiters' : limiters'[a].lim = limiters'[b].lim => a = b
    <3> SUFFICES ASSUME NEW a \in DOMAIN limiters', NEW b \in DOMAIN limiters',
                        limiters'[a].lim = limiters'[b].lim
                 PROVE  a = b
      BY Zenon
    <3>1. limiters[a].lim = limiters[b].lim
      BY Zenon, <2>1
    <3> QED BY Zenon, <2>1, <3>1 DEF RateInv, LimitersOwned
  <2>3. \A q \in Held' : \A a \in DOMAIN limiters' :
          limiters'[a].lim = req'[q].lim => a = req'[q].post.addr
    <3> SUFFICES ASSUME NEW q \in Held, NEW a \in DOMAIN limiters',
                        limiters'[a].lim = req[q].lim
                 PROVE  a = req[q].post.addr
      BY Zenon, <1>2, <1>3
    <3>1. limiters[a].lim = req[q].lim
      BY Zenon, <2>1
    <3> QED BY Zenon, <2>1, <3>1 DEF RateInv, LimitersOwned
  <2>4. ASSUME NEW q \in Request, req'[q].pc = "idle"
        PROVE  /\ buckets'[q].tokens = Burst
               /\ \A a \in DOMAIN limiters' : limiters'[a].lim # q
               /\ \A r \in Held' : req'[r].lim # q
    <3>1. /\ buckets[q].tokens = Burst
          /\ \A a \in DOMAIN limiters : limiters[a].lim # q
          /\ \A r \in Held : req[r].lim # q
      BY Zenon, <1>2, <2>4 DEF RateInv, LimitersOwned
    <3> QED BY Zenon, <1>2, <1>3, <2>1, <3>1
  <2> QED BY Zenon, <2>2, <2>3, <2>4 DEF LimitersOwned
<1>6. HeldCurrent'
  <2> SUFFICES ASSUME NEW q \in Held, InTime(q)
               PROVE  req[q].post.addr \in kept
    BY Zenon, <1>2, <1>3 DEF RateInv, HeldCurrent, InTime
  <2> DEFINE a == req[q].post.addr
  <2>1. a \in DOMAIN limiters /\ req[q].got <= limiters[a].lastSeen
    BY Zenon DEF RateInv, HeldCurrent
  <2>2. req[q].got \in 0..clock /\ limiters[a].lastSeen \in 0..clock /\ clock \in Nat
    BY Zenon, <2>1 DEF RateInv, LimitersFormed
  <2>3. clock - req[q].got <= EvictAfter - Burst
    BY Zenon DEF InTime
  <2>4. limiters[a].lastSeen >= clock - EvictAfter
    BY <2>1, <2>2, <2>3, LimiterAssumption
  <2> QED BY Zenon, <1>1, <2>1, <2>4
<1>7. \A a \in Addr \ Local : Budget(a)'
  <2> SUFFICES ASSUME NEW a \in Addr \ Local, NEW i \in DOMAIN granted[a]
               PROVE  /\ granted[a][i] <= clock
                      /\ Len(granted[a]) - i + 1 + Left(a)' <= Burst + clock - granted[a][i]
                      /\ a \in kept => granted[a][i] <= limiters[a].lastSeen + (EvictAfter - Burst)
    BY Zenon, <1>2 DEF Budget
  <2>1. /\ granted[a][i] <= clock
        /\ Len(granted[a]) - i + 1 + Left(a) <= Burst + clock - granted[a][i]
        /\ a \in DOMAIN limiters => granted[a][i] <= limiters[a].lastSeen + (EvictAfter - Burst)
    BY Zenon DEF RateInv, Budget
  <2>2. CASE a \in kept \/ a \notin DOMAIN limiters
    <3>1. Left(a)' = Left(a)
      BY Zenon, <1>2, <2>2 DEF Left, Tokens
    <3> QED BY Zenon, <1>2, <2>1, <3>1
  <2>3. CASE a \in DOMAIN limiters /\ a \notin kept
    <3> DEFINE g == granted[a]  n == Len(g)
    <3>1. /\ g \in Seq(Nat) /\ n \in Nat /\ DOMAIN g = 1..n /\ i \in 1..n /\ n \in 1..n
          /\ g[i] \in Nat /\ g[n] \in Nat
      BY DEF RateInv, LimitersFormed
    <3>2. limiters[a].lastSeen \in 0..clock /\ clock \in Nat
      BY Zenon, <2>3 DEF RateInv, LimitersFormed
    <3>3. ~(limiters[a].lastSeen >= clock - EvictAfter)
      BY Zenon, <1>1, <2>3
    <3>4. g[n] <= limiters[a].lastSeen + (EvictAfter - Burst)
      BY Zenon, <2>3, <3>1 DEF RateInv, Budget
    <3>5. i <= n => n - i + 1 <= Burst + g[n] - g[i]
      BY Zenon, <3>1 DEF RateInv, RateBound
    <3>6. Left(a)' = Burst
      BY Zenon, <1>2, <2>3 DEF Left
    <3> HIDE DEF g, n
    <3>7. n - i + 1 + Burst <= Burst + clock - g[i]
      <4>1. PICK x, y, seen : x = g[i] /\ y = g[n] /\ seen = limiters[a].lastSeen
        BY Zenon
      <4>2. x \in Nat /\ y \in Nat /\ seen \in 0..clock /\ clock \in Nat /\ i \in 1..n /\ n \in Nat
        BY Zenon, <3>1, <3>2, <4>1
      <4>3. /\ ~(seen >= clock - EvictAfter) /\ y <= seen + (EvictAfter - Burst)
            /\ i <= n => n - i + 1 <= Burst + y - x
        BY Zenon, <3>3, <3>4, <3>5, <4>1
      <4>4. n - i + 1 + Burst <= Burst + clock - x
        BY <4>2, <4>3, LimiterAssumption
      <4> QED BY Zenon, <4>1, <4>4
    <3> QED BY Zenon, <2>1, <2>3, <3>6, <3>7 DEF g, n
  <2> QED BY Zenon, <2>2, <2>3
<1> QED BY Zenon, <1>2, <1>4, <1>5, <1>6, <1>7 DEF RateInv, RateBound

\* A request gets the limiter of its address, or makes a full one.
LEMMA GetStep ==
  ASSUME RateInv, NEW q \in Request, NEW p \in Post[q], req[q].pc = "idle", Limited(p),
         getLimiter(q, p), UNCHANGED clock
  PROVE  RateInv'
<1> DEFINE a == p.addr
<1>1. PICK lim : lim = IF a \in DOMAIN limiters THEN limiters[a].lim ELSE q
  BY Zenon
<1>2. a \in Addr \ Local
  BY Zenon DEF Addr, Limited
<1>3. /\ limiters' = [b \in DOMAIN limiters \cup {a} |->
           IF b = a THEN [lim |-> lim, lastSeen |-> clock] ELSE limiters[b]]
      /\ req' = [req EXCEPT ![q] = [IdleRequest EXCEPT !.pc = "limit", !.post = p,
                                      !.lim = lim, !.got = clock]]
      /\ buckets' = buckets /\ granted' = granted /\ clock' = clock
  BY Zenon, <1>1 DEF getLimiter
<1> HIDE DEF a
<1>4. lim \in Request /\ clock \in Nat
  BY Zenon, <1>1 DEF RateInv, LimitersFormed
<1>5. /\ DOMAIN req = Request /\ req = [r \in Request |-> req[r]]
      /\ \A r \in Request : "pc" \in DOMAIN req[r]
  BY Zenon DEF RateInv, RequestsFormed
<1>6. /\ req'[q] = [IdleRequest EXCEPT !.pc = "limit", !.post = p, !.lim = lim, !.got = clock]
      /\ \A r \in Request \ {q} : req'[r] = req[r]
      /\ DOMAIN req' = Request /\ req' = [r \in Request |-> req'[r]]
  BY Zenon, <1>3, <1>5
<1>7. /\ "pc" \in DOMAIN req'[q] /\ req'[q].pc = "limit" /\ req'[q].post = p
      /\ req'[q].lim = lim /\ req'[q].got = clock
  BY <1>6 DEF IdleRequest
<1>8. RequestsFormed'
  BY Zenon, <1>5, <1>6, <1>7 DEF RequestsFormed
<1>9. /\ q \notin Held /\ q \in Held' /\ Held' \subseteq Request /\ Held \subseteq Request
      /\ \A r \in Held' : r = q \/ (r \in Held /\ r # q /\ req'[r] = req[r])
      /\ \A r \in Request : req'[r].pc = "idle" => r # q /\ req[r].pc = "idle"
  BY Zenon, <1>6, <1>7 DEF Held
<1>10. /\ DOMAIN limiters' = DOMAIN limiters \cup {a}
       /\ limiters'[a].lim = lim /\ limiters'[a].lastSeen = clock
       /\ \A b \in DOMAIN limiters : b # a => limiters'[b] = limiters[b]
       /\ \A b \in DOMAIN limiters : limiters'[b].lim = limiters[b].lim
  <2>1. /\ DOMAIN limiters' = DOMAIN limiters \cup {a}
        /\ limiters'[a] = [lim |-> lim, lastSeen |-> clock]
        /\ \A b \in DOMAIN limiters : b # a => limiters'[b] = limiters[b]
    BY Zenon, <1>3
  <2>2. limiters'[a].lim = lim /\ limiters'[a].lastSeen = clock
    BY <2>1
  <2> QED BY Zenon, <1>1, <2>1, <2>2
<1>11. req'[q].post.addr = a
  BY Zenon, <1>7 DEF a
<1>12. clock \in 0..clock
  BY <1>4
<1>13. LimitersFormed'
  <2>1. ASSUME NEW b \in DOMAIN limiters'
        PROVE  limiters'[b].lim \in Request /\ limiters'[b].lastSeen \in 0..clock
    BY Zenon, <1>4, <1>10, <1>12 DEF RateInv, LimitersFormed
  <2>2. ASSUME NEW r \in Held'
        PROVE  req'[r].lim \in Request /\ req'[r].got \in 0..clock /\ req'[r].post.addr \in Addr \ Local
    <3>1. CASE r = q
      BY Zenon, <1>2, <1>4, <1>7, <1>11, <1>12, <3>1
    <3>2. CASE r \in Held /\ req'[r] = req[r]
      BY Zenon, <3>2 DEF RateInv, LimitersFormed
    <3> QED BY Zenon, <1>9, <3>1, <3>2
  <2> QED BY Zenon, <1>3, <2>1, <2>2 DEF RateInv, LimitersFormed
<1>14. LimitersOwned'
  <2>1. \A b \in DOMAIN limiters : limiters[b].lim = lim => b = a
    BY Zenon, <1>1 DEF RateInv, LimitersOwned
  <2>2. \A b, c \in DOMAIN limiters' : limiters'[b].lim = limiters'[c].lim => b = c
    <3> SUFFICES ASSUME NEW b \in DOMAIN limiters', NEW c \in DOMAIN limiters',
                        limiters'[b].lim = limiters'[c].lim
                 PROVE  b = c
      BY Zenon
    <3>1. \A d \in DOMAIN limiters' : d # a => d \in DOMAIN limiters /\ limiters'[d].lim = limiters[d].lim
      BY Zenon, <1>10
    <3>2. CASE b # a /\ c # a
      BY Zenon, <3>1, <3>2 DEF RateInv, LimitersOwned
    <3>3. CASE b = a \/ c = a
      BY Zenon, <1>10, <2>1, <3>1, <3>3
    <3> QED BY Zenon, <3>2, <3>3
  <2>3. ASSUME NEW r \in Held', NEW b \in DOMAIN limiters', limiters'[b].lim = req'[r].lim
        PROVE  b = req'[r].post.addr
    <3>1. CASE r = q
      BY Zenon, <1>7, <1>10, <1>11, <2>1, <2>3, <3>1
    <3>2. CASE r \in Held /\ req'[r] = req[r] /\ b \in DOMAIN limiters
      BY Zenon, <1>10, <2>3, <3>2 DEF RateInv, LimitersOwned
    <3>3. CASE r \in Held /\ req'[r] = req[r] /\ b \notin DOMAIN limiters
      <4>1. b = a /\ lim = q /\ req[r].lim = q
        BY Zenon, <1>1, <1>10, <2>3, <3>3
      <4> QED BY Zenon, <3>3, <4>1 DEF RateInv, LimitersOwned
    <3> QED BY Zenon, <1>9, <3>1, <3>2, <3>3
  <2>4. ASSUME NEW r \in Request, req'[r].pc = "idle"
        PROVE  /\ buckets'[r].tokens = Burst
               /\ \A b \in DOMAIN limiters' : limiters'[b].lim # r
               /\ \A s \in Held' : req'[s].lim # r
    <3>1. r # q /\ req[r].pc = "idle"
      BY Zenon, <1>9, <2>4
    <3>2. /\ buckets[r].tokens = Burst
          /\ \A b \in DOMAIN limiters : limiters[b].lim # r
          /\ \A s \in Held : req[s].lim # r
      BY Zenon, <3>1 DEF RateInv, LimitersOwned
    <3>3. lim # r
      BY Zenon, <1>1, <3>1, <3>2
    <3>4. \A b \in DOMAIN limiters' : limiters'[b].lim # r
      BY Zenon, <1>10, <3>2, <3>3
    <3>5. \A s \in Held' : req'[s].lim # r
      BY Zenon, <1>7, <1>9, <3>2, <3>3
    <3> QED BY Zenon, <1>3, <3>2, <3>4, <3>5
  <2> QED BY Zenon, <2>2, <2>3, <2>4 DEF LimitersOwned
<1>15. HeldCurrent'
  <2> SUFFICES ASSUME NEW r \in Held', InTime(r)'
               PROVE  LET b == req'[r].post.addr
                      IN /\ b \in DOMAIN limiters' /\ limiters'[b].lim = req'[r].lim
                         /\ req'[r].got <= limiters'[b].lastSeen
    BY Zenon DEF HeldCurrent
  <2>1. CASE r = q
    <3>1. clock <= clock
      BY <1>4
    <3> QED BY Zenon, <1>7, <1>10, <1>11, <2>1, <3>1
  <2>2. CASE r \in Held /\ req'[r] = req[r]
    <3>1. PICK b : b = req[r].post.addr
      BY Zenon
    <3>2. InTime(r)
      BY Zenon, <1>3, <2>2 DEF InTime
    <3>3. b \in DOMAIN limiters /\ limiters[b].lim = req[r].lim /\ req[r].got <= limiters[b].lastSeen
      BY Zenon, <2>2, <3>1, <3>2 DEF RateInv, HeldCurrent
    <3>4. req[r].got <= limiters'[b].lastSeen
      <4>1. CASE b = a
        <5>1. req[r].got \in 0..clock
          BY Zenon, <2>2 DEF RateInv, LimitersFormed
        <5> QED BY <1>4, <1>10, <4>1, <5>1
      <4>2. CASE b # a
        BY Zenon, <1>10, <3>3, <4>2
      <4> QED BY Zenon, <4>1, <4>2
    <3> QED BY Zenon, <1>10, <2>2, <3>1, <3>3, <3>4
  <2> QED BY Zenon, <1>9, <2>1, <2>2
<1>16. \A b : Left(b)' = Left(b)
  <2>1. \A l \in Request : Tokens(l)' = Tokens(l)
    BY Zenon, <1>3 DEF Tokens
  <2>2. ASSUME a \notin DOMAIN limiters
        PROVE  Tokens(lim) = Burst
    <3>1. lim = q /\ buckets[q].tokens = Burst
      BY Zenon, <1>1, <2>2 DEF RateInv, LimitersOwned
    <3>2. buckets[q].last \in 0..clock
      BY DEF RateInv, LimitersFormed
    <3> QED BY <1>4, <3>1, <3>2, LimiterAssumption DEF Tokens, Min2
  <2>3. ASSUME NEW b
        PROVE  Left(b)' = Left(b)
    <3>1. CASE b \in DOMAIN limiters
      BY Zenon, <1>10, <2>1, <3>1 DEF Left, RateInv, LimitersFormed
    <3>2. CASE b \notin DOMAIN limiters /\ b # a
      BY Zenon, <1>10, <3>2 DEF Left
    <3>3. CASE b \notin DOMAIN limiters /\ b = a
      BY Zenon, <1>4, <1>10, <2>1, <2>2, <3>3 DEF Left
    <3> QED BY Zenon, <3>1, <3>2, <3>3
  <2> QED BY Zenon, <2>3
<1>17. \A b \in Addr \ Local : Budget(b)'
  <2> SUFFICES ASSUME NEW b \in Addr \ Local, NEW i \in DOMAIN granted[b]
               PROVE  /\ granted[b][i] <= clock
                      /\ Len(granted[b]) - i + 1 + Left(b) <= Burst + clock - granted[b][i]
                      /\ b \in DOMAIN limiters' =>
                           granted[b][i] <= limiters'[b].lastSeen + (EvictAfter - Burst)
    BY Zenon, <1>3, <1>16 DEF Budget
  <2>1. /\ granted[b][i] <= clock
        /\ Len(granted[b]) - i + 1 + Left(b) <= Burst + clock - granted[b][i]
        /\ b \in DOMAIN limiters => granted[b][i] <= limiters[b].lastSeen + (EvictAfter - Burst)
    BY Zenon DEF RateInv, Budget
  <2>2. CASE b # a
    BY Zenon, <1>10, <2>1, <2>2
  <2>3. CASE b = a
    <3>1. granted[b][i] \in Nat
      BY DEF RateInv, LimitersFormed
    <3>2. granted[b][i] <= clock + (EvictAfter - Burst)
      BY <1>4, <2>1, <3>1, LimiterAssumption
    <3> QED BY Zenon, <1>10, <2>1, <2>3, <3>2
  <2> QED BY Zenon, <2>2, <2>3
<1>18. RateBound'
  BY Zenon, <1>3 DEF RateInv, RateBound
<1> QED BY Zenon, <1>8, <1>13, <1>14, <1>15, <1>17, <1>18 DEF RateInv

\* The budget of an address lets its next grant in time through the bound; a late
\* one takes nothing that the budget counts on.
LEMMA AllowStep ==
  ASSUME RateInv, NEW q \in Request, rateLimit(q)
  PROVE  RateInv'
<1> DEFINE lim == req[q].lim  a == req[q].post.addr  t == Tokens(lim)
<1>1. /\ q \in Held /\ clock' = clock /\ limiters' = limiters
      /\ \/ /\ t > 0
            /\ buckets' = [buckets EXCEPT ![lim] = [tokens |-> t - 1, last |-> clock]]
            /\ granted' = IF InTime(q) THEN [granted EXCEPT ![a] = Append(@, clock)] ELSE granted
            /\ req' = [req EXCEPT ![q] = Admitted(req[q].post)]
         \/ /\ req' = [req EXCEPT ![q] = ServedRequest]
            /\ UNCHANGED <<buckets, granted>>
  BY Zenon DEF rateLimit, Held
<1>2. \A p : "pc" \in DOMAIN Admitted(p) /\ Admitted(p).pc \in {"handle", "done"}
  BY DEF Admitted, IdleRequest, ServedRequest
<1>3. "pc" \in DOMAIN ServedRequest /\ ServedRequest.pc = "done"
  BY DEF IdleRequest, ServedRequest
<1>4. /\ RequestsFormed'
      /\ \A r \in Request \ {q} : req'[r] = req[r]
      /\ req'[q].pc \in {"handle", "done"}
  <2>1. PICK v : /\ req' = [req EXCEPT ![q] = v]
                 /\ "pc" \in DOMAIN v /\ v.pc \in {"handle", "done"}
    BY Zenon, <1>1, <1>2, <1>3
  <2> QED BY Zenon, <2>1 DEF RateInv, RequestsFormed
<1>5. lim \in Request /\ a \in Addr \ Local /\ t \in 0..Burst /\ clock \in Nat /\ Burst \in Nat
  BY Zenon, <1>1, TokensBounded, LimiterAssumption DEF RateInv, LimitersFormed
<1>6. CASE UNCHANGED <<buckets, granted>>
  BY Zenon, <1>1, <1>4, <1>6, QuietStep DEF limitVars
<1>7. CASE /\ t > 0
           /\ buckets' = [buckets EXCEPT ![lim] = [tokens |-> t - 1, last |-> clock]]
           /\ granted' = IF InTime(q) THEN [granted EXCEPT ![a] = Append(@, clock)] ELSE granted
  <2>1. PICK l, b0, u : l = lim /\ b0 = a /\ u = t
    BY Zenon
  <2> HIDE DEF lim, a, t
  <2>2. u \in 1..Burst /\ u - 1 \in 0..Burst /\ clock \in 0..clock
    BY <1>5, <1>7, <2>1
  <2>3. /\ buckets \in [Request -> [tokens : 0..Burst, last : 0..clock]]
        /\ buckets' = [buckets EXCEPT ![l] = [tokens |-> u - 1, last |-> clock]]
        /\ l \in Request
    BY Zenon, <1>5, <1>7, <2>1 DEF RateInv, LimitersFormed
  <2>4. /\ buckets' \in [Request -> [tokens : 0..Burst, last : 0..clock]]
        /\ buckets'[l] = [tokens |-> u - 1, last |-> clock]
        /\ \A k \in Request \ {l} : buckets'[k] = buckets[k]
    BY <2>2, <2>3
  <2>5. Tokens(l) = u /\ Tokens(l)' = u - 1 /\ \A k \in Request \ {l} : Tokens(k)' = Tokens(k)
    <3>1. Tokens(l) = u
      BY Zenon, <2>1 DEF t
    <3>2. Tokens(l)' = u - 1
      <4>1. buckets'[l].tokens = u - 1 /\ buckets'[l].last = clock
        BY <2>4
      <4> QED BY <1>1, <1>5, <2>2, <4>1 DEF Tokens, Min2
    <3> QED BY Zenon, <1>1, <2>4, <3>1, <3>2 DEF Tokens
  <2>6. /\ Held' \subseteq Held /\ \A r \in Held' : r # q /\ r \in Held /\ req'[r] = req[r]
        /\ \A r \in Request : req'[r].pc = "idle" => r # q /\ req[r].pc = "idle"
    BY Zenon, <1>4 DEF Held
  <2>7. LimitersOwned'
    <3>1. ASSUME NEW r \in Request, req'[r].pc = "idle"
          PROVE  buckets'[r].tokens = Burst
      <4>1. req[r].pc = "idle"
        BY Zenon, <2>6, <3>1
      <4>2. r # l
        BY Zenon, <1>1, <2>1, <4>1 DEF RateInv, LimitersOwned, lim
      <4> QED BY Zenon, <2>4, <4>1, <4>2 DEF RateInv, LimitersOwned
    <3> QED BY Zenon, <1>1, <2>6, <3>1 DEF RateInv, LimitersOwned
  <2>8. HeldCurrent'
    BY Zenon, <1>1, <2>6 DEF RateInv, HeldCurrent, InTime
  <2>9. b0 \in Addr \ Local /\ granted \in [Addr -> Seq(Nat)]
    BY Zenon, <1>5, <2>1 DEF RateInv, LimitersFormed
  <2>10. ASSUME granted' \in [Addr -> Seq(Nat)]
         PROVE  LimitersFormed'
    BY Zenon, <1>1, <1>5, <2>4, <2>6, <2>10 DEF RateInv, LimitersFormed
  <2>11. \A b : (b # b0 => Left(b)' = Left(b)) /\ (Left(b)' = Left(b) \/ Left(b)' = Left(b) - 1)
    <3>1. ASSUME NEW b \in DOMAIN limiters, limiters[b].lim = l
          PROVE  b = b0 /\ Left(b) = u /\ Left(b)' = u - 1
      BY Zenon, <1>1, <2>1, <2>5, <3>1 DEF Left, RateInv, LimitersOwned, lim, a
    <3>2. ASSUME NEW b, ~(b \in DOMAIN limiters /\ limiters[b].lim = l)
          PROVE  Left(b)' = Left(b)
      BY Zenon, <1>1, <2>5, <3>2 DEF Left, RateInv, LimitersFormed
    <3> QED BY Zenon, <3>1, <3>2
  <2>12. CASE ~InTime(q)
    <3>1. granted' = granted
      BY Zenon, <1>7, <2>12
    <3>2. LimitersFormed'
      BY Zenon, <2>9, <2>10, <3>1
    <3>3. \A b \in Addr \ Local : Budget(b)'
      <4> SUFFICES ASSUME NEW b \in Addr \ Local, NEW i \in DOMAIN granted[b]
                   PROVE  /\ granted[b][i] <= clock
                          /\ Len(granted[b]) - i + 1 + Left(b)' <= Burst + clock - granted[b][i]
                          /\ b \in DOMAIN limiters =>
                               granted[b][i] <= limiters[b].lastSeen + (EvictAfter - Burst)
        BY Zenon, <1>1, <3>1 DEF Budget
      <4>1. /\ granted[b][i] <= clock
            /\ Len(granted[b]) - i + 1 + Left(b) <= Burst + clock - granted[b][i]
            /\ b \in DOMAIN limiters => granted[b][i] <= limiters[b].lastSeen + (EvictAfter - Burst)
        BY Zenon DEF RateInv, Budget
      <4>2. granted[b][i] \in Nat /\ Len(granted[b]) \in Nat /\ i \in Nat
        BY <2>9
      <4>3. Left(b) \in 0..Burst /\ (Left(b)' = Left(b) \/ Left(b)' = Left(b) - 1)
        BY Zenon, <2>11, TokensBounded DEF RateInv
      <4> QED BY <1>5, <4>1, <4>2, <4>3
    <3> QED BY Zenon, <1>4, <2>7, <2>8, <3>1, <3>2, <3>3 DEF RateInv, RateBound
  <2>13. CASE InTime(q)
    <3>1. /\ b0 \in DOMAIN limiters /\ limiters[b0].lim = l /\ req[q].got <= limiters[b0].lastSeen
          /\ req[q].got \in 0..clock /\ limiters[b0].lastSeen \in 0..clock
      BY Zenon, <1>1, <2>1, <2>13 DEF RateInv, HeldCurrent, LimitersFormed, lim, a
    <3>2. Left(b0) = u /\ Left(b0)' = u - 1
      BY Zenon, <1>1, <2>5, <3>1 DEF Left
    <3>3. clock <= limiters[b0].lastSeen + (EvictAfter - Burst)
      <4>1. clock - req[q].got <= EvictAfter - Burst
        BY Zenon, <2>13 DEF InTime
      <4> QED BY <1>5, <3>1, <4>1, LimiterAssumption
    <3> DEFINE g == granted[b0]  h == granted'[b0]  n == Len(g)  seen == limiters[b0].lastSeen + (EvictAfter - Burst)
    <3>4. g \in Seq(Nat) /\ h = Append(g, clock) /\ \A b \in Addr : b # b0 => granted'[b] = granted[b]
      BY Zenon, <1>7, <2>1, <2>9, <2>13
    <3>5. /\ n \in Nat /\ h \in Seq(Nat) /\ Len(h) = n + 1 /\ h[n + 1] = clock
          /\ DOMAIN h = 1..(n + 1) /\ DOMAIN g = 1..n
          /\ \A i \in 1..n : h[i] = g[i] /\ g[i] \in Nat
      BY <1>5, <3>4
    <3>6. /\ \A i \in 1..n : /\ g[i] <= clock /\ n - i + 1 + u <= Burst + clock - g[i]
                             /\ g[i] <= seen
          /\ \A i, j \in 1..n : i <= j => j - i + 1 <= Burst + g[j] - g[i]
      BY Zenon, <2>9, <3>1, <3>2, <3>5 DEF RateInv, RateBound, Budget
    <3>7. clock <= seen
      BY Zenon, <3>3
    <3> HIDE DEF g, h, n, seen
    <3>8. \A i \in 1..(n + 1) :
            /\ h[i] <= clock /\ (n + 1) - i + 1 + (u - 1) <= Burst + clock - h[i]
            /\ h[i] <= seen
      <4> TAKE i \in 1..(n + 1)
      <4>1. CASE i = n + 1
        BY <1>5, <2>2, <3>5, <3>7, <4>1
      <4>2. CASE i \in 1..n
        BY <1>5, <2>2, <3>5, <3>6, <4>2
      <4> QED BY <3>5, <4>1, <4>2
    <3>9. \A i, j \in 1..(n + 1) : i <= j => j - i + 1 <= Burst + h[j] - h[i]
      <4> SUFFICES ASSUME NEW i \in 1..(n + 1), NEW j \in 1..(n + 1), i <= j
                   PROVE  j - i + 1 <= Burst + h[j] - h[i]
        BY Zenon
      <4>1. CASE j = n + 1
        <5>1. (n + 1) - i + 1 + (u - 1) <= Burst + clock - h[i]
          BY Zenon, <3>8
        <5>2. h[i] \in Nat /\ n \in Nat /\ u \in 1..Burst /\ clock \in Nat /\ Burst \in Nat
          BY <1>5, <2>2, <3>5
        <5>3. h[j] = clock
          BY Zenon, <3>5, <4>1
        <5> QED BY <4>1, <5>1, <5>2, <5>3
      <4>2. CASE j \in 1..n
        <5>1. i \in 1..n
          BY <3>5, <4>2
        <5> QED BY Zenon, <3>5, <3>6, <4>2, <5>1
      <4> QED BY <3>5, <4>1, <4>2
    <3>10. Budget(b0)'
      BY Zenon, <1>1, <3>2, <3>5, <3>8 DEF Budget, g, h, n, seen
    <3>11. RateBound'
      BY Zenon, <2>9, <3>4, <3>5, <3>9 DEF RateInv, RateBound, g, h, n
    <3>12. \A b \in Addr \ Local : Budget(b)'
      <4> TAKE b \in Addr \ Local
      <4>1. CASE b # b0
        <5>1. granted'[b] = granted[b] /\ Left(b)' = Left(b)
          BY Zenon, <2>11, <3>4, <4>1
        <5> QED BY Zenon, <1>1, <5>1 DEF RateInv, Budget
      <4> QED BY Zenon, <3>10, <4>1
    <3>13. granted' \in [Addr -> Seq(Nat)]
      <4>1. granted' = [granted EXCEPT ![b0] = Append(@, clock)]
        BY Zenon, <1>7, <2>1, <2>13
      <4> QED BY <1>5, <2>9, <4>1
    <3> QED BY Zenon, <1>4, <2>7, <2>8, <2>10, <3>11, <3>12, <3>13 DEF RateInv
  <2> QED BY Zenon, <2>12, <2>13
<1> QED BY Zenon, <1>1, <1>6, <1>7

\* A step of a handler, and a request that needs no limiter, leave the middleware
\* behind.
LEMMA HandlerStep ==
  ASSUME RateInv, NEW q \in Request,
         \/ CreateSubscription(q) \/ handleResourcesUnsubscribe(q) \/ handleResourcesRead(q)
         \/ HandleOther(q) \/ publishSampleEvents(q)
  PROVE  RateInv'
<1> USE DEF limitVars
<1>1. "pc" \in DOMAIN req[q] /\ DOMAIN req = Request /\ req = [r \in Request |-> req[r]]
  BY Zenon DEF RateInv, RequestsFormed
<1>2. ServedRequest.pc = "done" /\ "pc" \in DOMAIN ServedRequest
  BY DEF ServedRequest, IdleRequest
<1>3. UNCHANGED <<clock, limiters, buckets, granted>>
  BY Zenon DEF CreateSubscription, handleResourcesUnsubscribe, handleResourcesRead, HandleOther,
         publishSampleEvents
<1>4. ASSUME NEW v, req' = [req EXCEPT ![q] = v], "pc" \in DOMAIN v, v.pc \notin {"idle", "limit"}
      PROVE  RateInv'
  <2>1. RequestsFormed' /\ \A r \in Request : req'[r] = req[r] \/ req'[r].pc \notin {"idle", "limit"}
    BY Zenon, <1>4 DEF RateInv, RequestsFormed
  <2> QED BY Zenon, <1>3, <2>1, QuietStep
<1>5. ASSUME NEW result, Answer(q, result)
      PROVE  RateInv'
  <2>1. PICK v : v = [req[q] EXCEPT !.result = result, !.status = 200, !.pc = "publish"]
    BY Zenon
  <2>2. req' = [req EXCEPT ![q] = v]
    BY Zenon, <1>5, <2>1 DEF Answer
  <2>3. "pc" \in DOMAIN v /\ v.pc = "publish"
    BY Zenon, <1>1, <2>1
  <2> QED BY Zenon, <1>4, <2>2, <2>3
<1>6. CASE CreateSubscription(q) \/ handleResourcesUnsubscribe(q) \/ handleResourcesRead(q)
  BY Zenon, <1>5, <1>6 DEF CreateSubscription, handleResourcesUnsubscribe, handleResourcesRead
<1>7. CASE HandleOther(q)
  <2>1. PICK code : req' = [req EXCEPT ![q] = [req[q] EXCEPT !.pc = "publish", !.status = code]]
    BY Zenon, <1>7 DEF HandleOther
  <2>2. PICK v : v = [req[q] EXCEPT !.pc = "publish", !.status = code]
    BY Zenon
  <2>3. "pc" \in DOMAIN v /\ v.pc = "publish"
    BY Zenon, <1>1, <2>2
  <2> QED BY Zenon, <1>4, <2>1, <2>2, <2>3
<1>8. CASE publishSampleEvents(q)
  <2>1. PICK v : /\ v \in {ServedRequest, [req[q] EXCEPT !.pc = "publish job"]}
                 /\ req' = [req EXCEPT ![q] = v]
    BY Zenon, <1>8 DEF publishSampleEvents
  <2>2. "pc" \in DOMAIN v /\ v.pc \in {"done", "publish job"}
    BY Zenon, <1>1, <1>2, <2>1
  <2> QED BY Zenon, <1>4, <2>1, <2>2
<1> QED BY Zenon, <1>6, <1>7, <1>8

\* Every step keeps the budget of every address.
LEMMA RateStep ==
  ASSUME RateInv, [Next]_vars
  PROVE  RateInv'
<1> USE DEF limitVars
<1>1. CASE Tick
  BY Zenon, <1>1, TickStep
<1>2. CASE evictLoop
  BY Zenon, <1>2, EvictStep
<1>3. ASSUME NEW q \in Request, Arrive(q)
      PROVE  RateInv'
  <2>1. PICK p \in Post[q] :
          \/ p.origin /\ Limited(p) /\ getLimiter(q, p)
          \/ /\ req' = [req EXCEPT ![q] = IF p.origin THEN Admitted(p) ELSE ServedRequest]
             /\ UNCHANGED <<limiters, buckets, granted>>
    BY Zenon, <1>3 DEF Arrive
  <2>2. req[q].pc = "idle" /\ UNCHANGED clock
    BY Zenon, <1>3 DEF Arrive
  <2>3. CASE Limited(p) /\ getLimiter(q, p)
    BY Zenon, <2>2, <2>3, GetStep
  <2>4. CASE /\ req' = [req EXCEPT ![q] = IF p.origin THEN Admitted(p) ELSE ServedRequest]
             /\ UNCHANGED <<limiters, buckets, granted>>
    <3>1. PICK v : v = IF p.origin THEN Admitted(p) ELSE ServedRequest
      BY Zenon
    <3>2. "pc" \in DOMAIN v /\ v.pc \in {"handle", "done"}
      BY <3>1 DEF Admitted, ServedRequest, IdleRequest
    <3>3. RequestsFormed' /\ \A r \in Request : req'[r] = req[r] \/ req'[r].pc \notin {"idle", "limit"}
      BY Zenon, <2>4, <3>1, <3>2 DEF RateInv, RequestsFormed
    <3> QED BY Zenon, <2>2, <2>4, <3>3, QuietStep
  <2> QED BY Zenon, <2>1, <2>3, <2>4
<1>4. CASE UNCHANGED <<clock, limiters, buckets, granted, req>>
  <2>1. RequestsFormed'
    BY Zenon, <1>4 DEF RateInv, RequestsFormed
  <2> QED BY Zenon, <1>4, <2>1, QuietStep
<1>5. CASE PublishOther \/ Cancel \/ ListenFails \/ CloseMemory \/ UNCHANGED vars
  BY Zenon, <1>4, <1>5 DEF PublishOther, Cancel, ListenFails, CloseMemory, Run, vars
<1>6. ASSUME NEW q \in Request, RequestStep(q)
      PROVE  RateInv'
  BY Zenon, <1>6, AllowStep, HandlerStep DEF RequestStep
<1>7. ASSUME NEW c \in Client,
             Connect(c) \/ Disconnect(c) \/ Stall(c) \/ Heartbeat(c) \/ StreamStep(c)
      PROVE  RateInv'
  BY Zenon, <1>4, <1>7 DEF Connect, Disconnect, Stall, Heartbeat, StreamStep, Resolve, Subscribe,
         handleBrokerSSE, Written, EndOfStream, Release
<1> QED BY Zenon, <1>1, <1>2, <1>3, <1>5, <1>6, <1>7 DEF Next

\* Over any stretch of time the requests of an address that ask their limiter in
\* time are let through no more often than a full bucket and one token per tick
\* allow, if a limiter is kept for as long as it takes to fill up (http.go:
\* getLimiter, rateLimitMiddleware, evictLoop).
THEOREM RateLimited == Spec => []RateBound
<1>1. Init => RateInv
  <2> SUFFICES ASSUME Init PROVE RateInv
    BY Zenon
  <2>1. PICK l \in Load :
          /\ req = [q \in Request |-> IF q \in l.requests THEN IdleRequest ELSE ServedRequest]
          /\ clock = l.clock
    BY Zenon DEF Init
  <2>2. /\ clock \in Nat /\ DOMAIN limiters = {} /\ granted = [a \in Addr |-> <<>>]
        /\ buckets = [q \in Request |-> [tokens |-> Burst, last |-> 0]]
    BY <2>1, LoadAssumption, LimitsAssumption DEF Init
  <2>3. \A q \in Request : "pc" \in DOMAIN req[q] /\ req[q].pc \in {"idle", "done"}
    BY <2>1 DEF IdleRequest, ServedRequest
  <2>4. RequestsFormed
    BY Zenon, <2>1, <2>3 DEF RequestsFormed
  <2>5. Held = {}
    BY <2>3 DEF Held
  <2>6. LimitersFormed
    BY <2>2, <2>5, LimiterAssumption DEF LimitersFormed
  <2>7. LimitersOwned /\ HeldCurrent
    BY <2>2, <2>5 DEF LimitersOwned, HeldCurrent
  <2> QED BY <2>2, <2>4, <2>6, <2>7 DEF RateInv, RateBound, Budget
<1>2. RateInv => RateBound
  BY Zenon DEF RateInv
<1> QED BY <1>1, <1>2, RateStep, PTL DEF Spec

-----------------------------------------------------------------------------
(***************************************************************************)
(* The streams.                                                            *)
(***************************************************************************)
StreamFields == {"pc", "get", "filter", "queue", "taken", "frames", "lastEmitAt", "stalled"}
IsStream(st) == DOMAIN st = StreamFields /\ st = [f \in StreamFields |-> st[f]]

StreamsFormed ==
  /\ DOMAIN stream = Client /\ stream = [c \in Client |-> stream[c]]
  /\ \A c \in Client : IsStream(stream[c])

\* A step of the goroutine of c, or of the broker for it.
OnlyStream(c) ==
  /\ StreamsFormed'
  /\ \A d \in Client \ {c} : stream'[d] = stream[d]

\* What of a stream the broker's records go through.
Contents(st) == <<st.queue, st.taken, st.frames, st.lastEmitAt>>
Empty == <<IdleStream.queue, IdleStream.taken, IdleStream.frames, IdleStream.lastEmitAt>>

\* Connect counts the stream, or refuses it.
LEMMA ConnectEffect ==
  ASSUME StreamsFormed, NEW c \in Client, Connect(c)
  PROVE  /\ OnlyStream(c)
         /\ stream[c].pc = "idle" /\ stream'[c].pc \in {"resolve", "closed"}
         /\ Contents(stream'[c]) = Contents(stream[c])
         /\ stream'[c].get \in Get[c]
         /\ LET key == SseKey(stream'[c].get.addr)
            IN IF stream'[c].pc = "resolve"
               THEN Open(key) < MaxConns /\ SetConns(key, Open(key) + 1)
               ELSE UNCHANGED conns
<1>1. PICK g \in Get[c], ok \in BOOLEAN :
        /\ stream' = [stream EXCEPT ![c].get = g, ![c].pc = IF ok THEN "resolve" ELSE "closed"]
        /\ IF ok THEN Open(SseKey(g.addr)) < MaxConns
                       /\ SetConns(SseKey(g.addr), Open(SseKey(g.addr)) + 1)
           ELSE UNCHANGED conns
  BY Zenon DEF Connect
<1>2. stream'[c] = [[stream[c] EXCEPT !.get = g] EXCEPT !.pc = IF ok THEN "resolve" ELSE "closed"]
  BY Zenon, <1>1 DEF StreamsFormed
<1>3. /\ IsStream(stream'[c])
      /\ stream'[c].pc = IF ok THEN "resolve" ELSE "closed"
      /\ stream'[c].get = g
      /\ stream'[c].queue = stream[c].queue
      /\ stream'[c].taken = stream[c].taken
      /\ stream'[c].frames = stream[c].frames
      /\ stream'[c].lastEmitAt = stream[c].lastEmitAt
  BY Zenon, <1>2 DEF StreamsFormed, IsStream, StreamFields
<1>4. OnlyStream(c)
  BY Zenon, <1>1, <1>3 DEF OnlyStream, StreamsFormed
<1>5. stream[c].pc = "idle"
  BY Zenon DEF Connect
<1>6. ok <=> stream'[c].pc = "resolve"
  BY Zenon, <1>3
<1> QED BY Zenon, <1>1, <1>3, <1>4, <1>5, <1>6 DEF Contents

\* Resolve and Subscribe move a stream on that has taken nothing yet.
LEMMA MoveEffect ==
  ASSUME StreamsFormed, NEW c \in Client, Resolve(c) \/ Subscribe(c)
  PROVE  /\ OnlyStream(c)
         /\ stream[c].pc \in {"resolve", "subscribe"}
         /\ stream'[c].pc \in {"subscribe", "write", "ending"}
         /\ stream'[c].get = stream[c].get
         /\ Contents(stream'[c]) = Contents(stream[c])
         /\ UNCHANGED <<conns, log>>
<1>1. CASE Resolve(c)
  <2> DEFINE f == resolveSSEFilter(stream[c].get.id)
             pc == IF f.kind = "unknown" THEN "ending" ELSE "subscribe"
  <2>1. stream' = [stream EXCEPT ![c].filter = f, ![c].pc = pc] /\ pc \in {"ending", "subscribe"}
    BY Zenon, <1>1 DEF Resolve
  <2> HIDE DEF f, pc
  <2>2. stream'[c] = [[stream[c] EXCEPT !.filter = f] EXCEPT !.pc = pc]
    BY Zenon, <2>1 DEF StreamsFormed
  <2>3. /\ IsStream(stream'[c])
        /\ stream'[c].pc = pc
        /\ stream'[c].get = stream[c].get
        /\ stream'[c].queue = stream[c].queue
        /\ stream'[c].taken = stream[c].taken
        /\ stream'[c].frames = stream[c].frames
        /\ stream'[c].lastEmitAt = stream[c].lastEmitAt
    BY Zenon, <2>2 DEF StreamsFormed, IsStream, StreamFields
  <2>4. OnlyStream(c)
    BY Zenon, <2>1, <2>3 DEF OnlyStream, StreamsFormed
  <2> QED BY Zenon, <1>1, <2>1, <2>3, <2>4 DEF Contents, Resolve
<1>2. CASE Subscribe(c)
  <2>1. PICK pc \in {"write"} : stream' = [stream EXCEPT ![c].pc = pc]
    BY Zenon, <1>2 DEF Subscribe
  <2>2. stream'[c] = [stream[c] EXCEPT !.pc = pc]
    BY Zenon, <2>1 DEF StreamsFormed
  <2>3. /\ IsStream(stream'[c])
        /\ stream'[c].pc = pc
        /\ stream'[c].get = stream[c].get
        /\ stream'[c].queue = stream[c].queue
        /\ stream'[c].taken = stream[c].taken
        /\ stream'[c].frames = stream[c].frames
        /\ stream'[c].lastEmitAt = stream[c].lastEmitAt
    BY Zenon, <2>2 DEF StreamsFormed, IsStream, StreamFields
  <2>4. OnlyStream(c)
    BY Zenon, <2>1, <2>3 DEF OnlyStream, StreamsFormed
  <2> QED BY Zenon, <1>2, <2>3, <2>4 DEF Contents, Subscribe
<1> QED BY Zenon, <1>1, <1>2

\* A stream that ends keeps its slot and nothing else.
LEMMA EndEffect ==
  ASSUME StreamsFormed, NEW c \in Client, Disconnect(c) \/ EndOfStream(c)
  PROVE  /\ OnlyStream(c)
         /\ Subscribed(stream[c]) /\ stream'[c].pc = "ending"
         /\ stream'[c].get = stream[c].get
         /\ Contents(stream'[c]) = Empty
         /\ UNCHANGED <<conns, log>>
<1>1. stream' = [stream EXCEPT ![c] = Ended(stream[c], "ending")]
  BY Zenon DEF Disconnect, EndOfStream
<1>2. stream'[c] = Ended(stream[c], "ending")
  BY Zenon, <1>1 DEF StreamsFormed
<1>3. /\ IsStream(stream'[c])
      /\ stream'[c].pc = "ending"
      /\ stream'[c].get = stream[c].get
      /\ Contents(stream'[c]) = Empty
  BY Zenon, <1>2 DEF Ended, IdleStream, IsStream, StreamFields, Contents, Empty
<1>4. OnlyStream(c)
  BY Zenon, <1>1, <1>3 DEF OnlyStream, StreamsFormed
<1> QED BY Zenon, <1>3, <1>4 DEF Disconnect, EndOfStream, Subscribed

\* Waiting for the client changes nothing that the stream has taken or sent.
LEMMA WaitEffect ==
  ASSUME StreamsFormed, NEW c \in Client, Written(c) \/ Stall(c) \/ Heartbeat(c)
  PROVE  /\ OnlyStream(c)
         /\ Subscribed(stream[c]) /\ Subscribed(stream'[c])
         /\ stream'[c].get = stream[c].get /\ stream'[c].filter = stream[c].filter
         /\ Contents(stream'[c]) = Contents(stream[c])
         /\ UNCHANGED <<conns, log>>
<1>1. PICK f, v : /\ f \in {"pc", "stalled"} /\ (f = "pc" => v \in {"stream", "write"})
                  /\ stream' = [stream EXCEPT ![c] = [stream[c] EXCEPT ![f] = v]]
  BY Zenon DEF Written, Stall, Heartbeat
<1>2. stream'[c] = [stream[c] EXCEPT ![f] = v]
  BY Zenon, <1>1 DEF StreamsFormed
<1>3. /\ IsStream(stream'[c])
      /\ \A g \in StreamFields : g # f => stream'[c][g] = stream[c][g]
      /\ stream'[c][f] = v
  BY Zenon, <1>1, <1>2 DEF StreamsFormed, IsStream, StreamFields
<1>4. Subscribed(stream[c])
  BY Zenon DEF Written, Stall, Heartbeat, Subscribed
<1>5. Subscribed(stream'[c])
  BY Zenon, <1>1, <1>3, <1>4 DEF Subscribed, StreamFields
<1>6. /\ stream'[c].get = stream[c].get /\ stream'[c].filter = stream[c].filter
      /\ Contents(stream'[c]) = Contents(stream[c])
  BY Zenon, <1>1, <1>3 DEF Contents, StreamFields
<1>7. OnlyStream(c)
  BY Zenon, <1>1, <1>3 DEF OnlyStream, StreamsFormed
<1> QED BY Zenon, <1>4, <1>5, <1>6, <1>7 DEF Written, Stall, Heartbeat

\* Release empties the stream and gives its slot back.
LEMMA ReleaseEffect ==
  ASSUME StreamsFormed, NEW c \in Client, Release(c)
  PROVE  /\ OnlyStream(c)
         /\ stream[c].pc = "ending" /\ stream'[c].pc = "closed"
         /\ Contents(stream'[c]) = Empty
         /\ release(Key(c)) /\ UNCHANGED log
<1>1. stream' = [stream EXCEPT ![c] = ClosedStream]
  BY Zenon DEF Release
<1>2. stream'[c] = ClosedStream
  BY Zenon, <1>1 DEF StreamsFormed
<1>3. /\ IsStream(stream'[c])
      /\ stream'[c].pc = "closed"
      /\ Contents(stream'[c]) = Empty
  BY Zenon, <1>2 DEF ClosedStream, IdleStream, IsStream, StreamFields, Contents, Empty
<1>4. OnlyStream(c)
  BY Zenon, <1>1, <1>3 DEF OnlyStream, StreamsFormed
<1> QED BY Zenon, <1>3, <1>4 DEF Release

\* One record: taken, and sent if the filter and the throttle let it through.
LEMMA WriteEffect ==
  ASSUME StreamsFormed, NEW c \in Client, handleBrokerSSE(c)
  PROVE  LET st == stream[c]
             i == Head(st.queue)
             emit == AllowedBy(st.filter, log[i]) /\ throttleAllows(st.lastEmitAt, log[i])
         IN /\ OnlyStream(c)
            /\ st.pc = "stream" /\ st.queue # <<>>
            /\ Subscribed(stream'[c]) /\ stream'[c].get = st.get
            /\ stream'[c].filter = st.filter
            /\ stream'[c].queue = Tail(st.queue)
            /\ stream'[c].taken = Append(st.taken, i)
            /\ stream'[c].frames = IF emit THEN Append(st.frames, i) ELSE st.frames
            /\ stream'[c].lastEmitAt =
                 IF emit THEN [t \in DOMAIN st.lastEmitAt \cup {log[i].topic} |->
                                 IF t = log[i].topic THEN log[i].at ELSE st.lastEmitAt[t]]
                 ELSE st.lastEmitAt
            /\ UNCHANGED <<conns, log>>
<1> DEFINE st == stream[c]
           i == Head(st.queue)
           emit == AllowedBy(st.filter, log[i]) /\ throttleAllows(st.lastEmitAt, log[i])
           frames == IF emit THEN Append(st.frames, i) ELSE st.frames
           last == IF emit THEN [t \in DOMAIN st.lastEmitAt \cup {log[i].topic} |->
                                 IF t = log[i].topic THEN log[i].at ELSE st.lastEmitAt[t]]
                   ELSE st.lastEmitAt
           taken == Append(st.taken, i)
           wait == Tail(st.queue)
           pc == IF emit THEN "write" ELSE "stream"
<1>1. stream' = [stream EXCEPT ![c] = [st EXCEPT !.pc = pc, !.queue = wait, !.taken = taken,
                                           !.frames = frames, !.lastEmitAt = last]]
  BY Zenon DEF handleBrokerSSE, writeBrokerSSEFrame
<1>2. pc \in {"write", "stream"}
  BY Zenon
<1> HIDE DEF frames, last, taken, wait, pc, emit
<1>3. stream'[c] = [st EXCEPT !.pc = pc, !.queue = wait, !.taken = taken, !.frames = frames,
                              !.lastEmitAt = last]
  BY Zenon, <1>1 DEF StreamsFormed
<1>4. /\ IsStream(stream'[c])
      /\ stream'[c].pc = pc /\ stream'[c].get = st.get /\ stream'[c].filter = st.filter
      /\ stream'[c].queue = wait /\ stream'[c].taken = taken
      /\ stream'[c].frames = frames /\ stream'[c].lastEmitAt = last
  BY Zenon, <1>3 DEF StreamsFormed, IsStream, StreamFields
<1>5. OnlyStream(c)
  BY Zenon, <1>1, <1>4 DEF OnlyStream, StreamsFormed
<1> QED BY Zenon, <1>2, <1>4, <1>5 DEF handleBrokerSSE, Subscribed, frames, last, taken, wait, emit

\* A record that the broker accepts goes to the log, and its number to the queue
\* of every open stream that has room.
LEMMA PublishEffect ==
  ASSUME StreamsFormed, NEW rec, Publish(rec)
  PROVE  /\ StreamsFormed'
         /\ \A c \in Client :
              /\ stream'[c].pc = stream[c].pc /\ stream'[c].get = stream[c].get
              /\ stream'[c].filter = stream[c].filter /\ stream'[c].taken = stream[c].taken
              /\ stream'[c].frames = stream[c].frames
              /\ stream'[c].lastEmitAt = stream[c].lastEmitAt
              /\ \/ stream'[c].queue = stream[c].queue
                 \/ /\ Subscribed(stream[c])
                    /\ stream'[c].queue = Append(stream[c].queue, Len(log) + 1)
<1>1. CASE UNCHANGED stream
  BY Zenon, <1>1 DEF StreamsFormed
<1>2. CASE stream' = [c \in Client |->
             IF Subscribed(stream[c]) /\ Len(stream[c].queue) < QueueDepth
             THEN [stream[c] EXCEPT !.queue = Append(@, Len(log) + 1)]
             ELSE stream[c]]
  <2>1. ASSUME NEW c \in Client
        PROVE  /\ IsStream(stream'[c])
               /\ stream'[c].pc = stream[c].pc /\ stream'[c].get = stream[c].get
               /\ stream'[c].filter = stream[c].filter /\ stream'[c].taken = stream[c].taken
               /\ stream'[c].frames = stream[c].frames
               /\ stream'[c].lastEmitAt = stream[c].lastEmitAt
               /\ \/ stream'[c].queue = stream[c].queue
                  \/ /\ Subscribed(stream[c])
                     /\ stream'[c].queue = Append(stream[c].queue, Len(log) + 1)
    <3>1. \/ stream'[c] = stream[c]
          \/ /\ Subscribed(stream[c])
             /\ stream'[c] = [stream[c] EXCEPT !.queue = Append(@, Len(log) + 1)]
      BY Zenon, <1>2
    <3> QED BY Zenon, <3>1 DEF StreamsFormed, IsStream, StreamFields
  <2>2. StreamsFormed'
    BY ZenonT(30), <1>2, <2>1 DEF StreamsFormed
  <2> QED BY Zenon, <2>1, <2>2
<1> QED BY Zenon, <1>1, <1>2 DEF Publish

SampleRecord ==
  {[topic |-> t, state |-> st, at |-> 0] :
     t \in {"notifications/log", "notifications/job-state"}, st \in {"failed", "accepted", "completed"}}

\* The steps that matter to streams, slots and the log.
LEMMA StreamCases ==
  ASSUME [Next]_vars
  PROVE  \/ UNCHANGED <<conns, stream, log>> /\ (Tick \/ UNCHANGED clock)
         \/ \E rec \in JobRecord \cup SampleRecord : Publish(rec) /\ UNCHANGED <<conns, clock>>
         \/ \E c \in Client : /\ \/ Connect(c) \/ Resolve(c) \/ Subscribe(c) \/ handleBrokerSSE(c)
                                 \/ Written(c) \/ Stall(c) \/ Heartbeat(c)
                                 \/ Written(c) \/ Stall(c) \/ Heartbeat(c)
                               \/ Disconnect(c) \/ EndOfStream(c) \/ Release(c)
                              /\ UNCHANGED clock
<1>1. CASE Tick \/ evictLoop \/ Cancel \/ ListenFails \/ CloseMemory \/ UNCHANGED vars
  BY Zenon, <1>1 DEF Tick, evictLoop, Cancel, ListenFails, CloseMemory, Run, vars
<1>2. CASE PublishOther
  BY Zenon, <1>2 DEF PublishOther
<1>3. ASSUME NEW q \in Request, Arrive(q) \/ rateLimit(q) \/ CreateSubscription(q) \/ handleResourcesUnsubscribe(q)
                                \/ handleResourcesRead(q) \/ HandleOther(q)
      PROVE  UNCHANGED <<conns, stream, log, clock>>
  BY Zenon, <1>3 DEF Arrive, rateLimit, CreateSubscription, handleResourcesUnsubscribe, handleResourcesRead,
         HandleOther
<1>4. ASSUME NEW q \in Request, publishSampleEvents(q)
      PROVE  \E rec \in JobRecord \cup SampleRecord : Publish(rec) /\ UNCHANGED <<conns, clock>>
  <2>1. PICK st \in {"failed", "accepted", "completed"} : st = SampleState(q)
    <3>1. SampleState(q) \in {"failed", "accepted", "completed"}
      BY Zenon DEF SampleState
    <3> QED BY Zenon, <3>1
  <2>2. PICK t \in {"notifications/log", "notifications/job-state"} :
          Publish([topic |-> t, state |-> st, at |-> 0])
    BY Zenon, <1>4, <2>1 DEF publishSampleEvents
  <2>3. [topic |-> t, state |-> st, at |-> 0] \in SampleRecord
    BY DEF SampleRecord
  <2> QED BY Zenon, <1>4, <2>2, <2>3 DEF publishSampleEvents
<1>5. ASSUME NEW c \in Client, \/ Connect(c) \/ Resolve(c) \/ Subscribe(c) \/ handleBrokerSSE(c)
                               \/ Written(c) \/ Stall(c) \/ Heartbeat(c)
                               \/ Disconnect(c) \/ EndOfStream(c) \/ Release(c)
      PROVE  UNCHANGED clock
  BY Zenon, <1>5 DEF Connect, Resolve, Subscribe, handleBrokerSSE, Written, Stall, Heartbeat,
         Disconnect, EndOfStream, Release
<1> QED BY Zenon, <1>1, <1>2, <1>3, <1>4, <1>5 DEF Next, RequestStep, StreamStep

-----------------------------------------------------------------------------
(***************************************************************************)
(* The connection counts.                                                  *)
(***************************************************************************)
Keys == {SseKey(g.addr) : g \in UNION {Get[c] : c \in Client}}
Holders(key) == {c \in Client : Holds(c) /\ Key(c) = key}

ConnsFormed == DOMAIN conns \subseteq Keys /\ \A key \in DOMAIN conns : conns[key] \in 1..MaxConns

SlotInv ==
  /\ StreamsFormed /\ ConnsFormed
  /\ \A c \in Client : Holds(c) => stream[c].get \in Get[c]
  /\ \A key \in Keys : Open(key) = Cardinality(Holders(key))

\* A connection count is within its limit.
LEMMA OpenBounded ==
  ASSUME ConnsFormed, NEW key
  PROVE  Open(key) \in 0..MaxConns
BY LimitsAssumption DEF ConnsFormed, Open

\* Setting the count of a key leaves the other keys alone.
LEMMA SetConnsEffect ==
  ASSUME ConnsFormed, NEW key \in Keys, NEW n \in 0..MaxConns, SetConns(key, n)
  PROVE  /\ ConnsFormed' /\ Open(key)' = n
         /\ \A k : k # key => Open(k)' = Open(k)
<1>1. CASE n = 0
  BY Zenon, <1>1, LimitsAssumption DEF SetConns, ConnsFormed, Open
<1>2. CASE n # 0
  BY <1>2, LimitsAssumption DEF SetConns, ConnsFormed, Open
<1> QED BY Zenon, <1>1, <1>2

\* The holders of a key are finitely many.
LEMMA HoldersFinite ==
  ASSUME NEW key
  PROVE  IsFiniteSet(Holders(key)) /\ Cardinality(Holders(key)) \in Nat
<1>1. Holders(key) \subseteq Client
  BY Zenon DEF Holders
<1> QED BY Zenon, <1>1, ClientAssumption, FS_Subset, FS_CardinalityType

\* The counts stay right when no stream gets, loses or moves its slot.
LEMMA SlotsUntouched ==
  ASSUME SlotInv, StreamsFormed', UNCHANGED conns,
         \A c \in Client : /\ Holds(c)' = Holds(c)
                           /\ Holds(c) => stream'[c].get = stream[c].get
  PROVE  SlotInv'
<1>1. \A key : Holders(key)' = Holders(key)
  BY Zenon DEF Holders, Key
<1>2. \A key : Open(key)' = Open(key)
  BY Zenon DEF Open
<1>3. ConnsFormed'
  BY Zenon DEF SlotInv, ConnsFormed
<1> QED BY Zenon, <1>1, <1>2, <1>3 DEF SlotInv

\* acquire counts the new holder, release the one that leaves.
LEMMA SlotStep ==
  ASSUME SlotInv, [Next]_vars
  PROVE  SlotInv'
<1>1. StreamsFormed /\ ConnsFormed
  BY Zenon DEF SlotInv
<1>2. CASE UNCHANGED <<conns, stream, log>>
  BY Zenon, <1>2, SlotsUntouched DEF SlotInv, StreamsFormed, Holds
<1>3. ASSUME NEW rec, Publish(rec), UNCHANGED conns
      PROVE  SlotInv'
  BY Zenon, <1>1, <1>3, PublishEffect, SlotsUntouched DEF Holds
<1>4. ASSUME NEW c \in Client, OnlyStream(c), UNCHANGED conns, Holds(c)' = Holds(c),
             Holds(c) => stream'[c].get = stream[c].get
      PROVE  SlotInv'
  BY Zenon, <1>4, SlotsUntouched DEF OnlyStream, Holds
<1>5. ASSUME NEW c \in Client, \/ Resolve(c) \/ Subscribe(c) \/ handleBrokerSSE(c)
                               \/ Written(c) \/ Stall(c) \/ Heartbeat(c)
                               \/ Disconnect(c) \/ EndOfStream(c)
      PROVE  SlotInv'
  <2>1. CASE Resolve(c) \/ Subscribe(c)
    BY <1>1, <1>4, <2>1, MoveEffect DEF Holds
  <2>2. CASE handleBrokerSSE(c)
    <3>1. /\ OnlyStream(c) /\ UNCHANGED conns /\ stream'[c].get = stream[c].get
          /\ stream[c].pc = "stream" /\ Subscribed(stream'[c])
      BY Zenon, <1>1, <2>2, WriteEffect
    <3>2. Holds(c) /\ Holds(c)'
      BY Zenon, <3>1 DEF Holds, Subscribed
    <3> QED BY Zenon, <1>4, <3>1, <3>2
  <2>3. CASE Disconnect(c) \/ EndOfStream(c)
    <3>1. /\ OnlyStream(c) /\ UNCHANGED conns /\ stream'[c].get = stream[c].get
          /\ Subscribed(stream[c]) /\ stream'[c].pc = "ending"
      BY Zenon, <1>1, <2>3, EndEffect
    <3>2. Holds(c) /\ Holds(c)'
      BY Zenon, <3>1 DEF Holds, Subscribed
    <3> QED BY Zenon, <1>4, <3>1, <3>2
  <2>4. CASE Written(c) \/ Stall(c) \/ Heartbeat(c)
    <3>1. /\ OnlyStream(c) /\ UNCHANGED conns /\ stream'[c].get = stream[c].get
          /\ Subscribed(stream[c]) /\ Subscribed(stream'[c])
      BY Zenon, <1>1, <2>4, WaitEffect
    <3>2. Holds(c) /\ Holds(c)'
      BY Zenon, <3>1 DEF Holds, Subscribed
    <3> QED BY Zenon, <1>4, <3>1, <3>2
  <2> QED BY Zenon, <1>5, <2>1, <2>2, <2>3, <2>4
<1>6. ASSUME NEW c \in Client, Connect(c), stream'[c].pc # "resolve"
      PROVE  SlotInv'
  BY <1>1, <1>4, <1>6, ConnectEffect DEF Holds
<1>7. ASSUME NEW c \in Client, Connect(c), stream'[c].pc = "resolve"
      PROVE  SlotInv'
  <2>1. PICK key : key = SseKey(stream'[c].get.addr)
    BY Zenon
  <2>2. /\ OnlyStream(c) /\ stream[c].pc = "idle" /\ stream'[c].get \in Get[c]
        /\ Open(key) < MaxConns /\ SetConns(key, Open(key) + 1)
    BY Zenon, <1>1, <1>7, <2>1, ConnectEffect
  <2>3. key \in Keys
    BY Zenon, <2>1, <2>2 DEF Keys
  <2>4. key = Key(c)'
    BY Zenon, <2>1 DEF Key
  <2>5. ConnsFormed' /\ Open(key)' = Open(key) + 1 /\ \A k : k # key => Open(k)' = Open(k)
    <3>1. Open(key) + 1 \in 0..MaxConns
      BY <1>1, <2>2, OpenBounded, LimitsAssumption
    <3> QED BY Zenon, <1>1, <2>2, <2>3, <3>1, SetConnsEffect
  <2>6. ~Holds(c) /\ Holds(c)' /\ \A d \in Client \ {c} : Holds(d)' = Holds(d) /\ Key(d)' = Key(d)
    BY Zenon, <1>7, <2>2 DEF Holds, Key, OnlyStream
  <2>7. c \notin Holders(key) /\ Holders(key)' = Holders(key) \cup {c}
    <3>1. c \notin Holders(key) /\ c \in Holders(key)'
      BY Zenon, <2>4, <2>6 DEF Holders
    <3>2. \A d \in Client \ {c} : d \in Holders(key)' <=> d \in Holders(key)
      BY Zenon, <2>6 DEF Holders
    <3>3. Holders(key) \subseteq Client /\ Holders(key)' \subseteq Client
      BY Zenon DEF Holders
    <3> QED BY Zenon, <3>1, <3>2, <3>3
  <2>8. \A k : k # key => Holders(k)' = Holders(k)
    BY Zenon, <2>4, <2>6 DEF Holders
  <2>9. Cardinality(Holders(key)') = Cardinality(Holders(key)) + 1
    BY Zenon, <2>7, HoldersFinite, FS_AddElement
  <2>10. \A k \in Keys : Open(k)' = Cardinality(Holders(k))'
    <3> TAKE k \in Keys
    <3>1. Open(k) = Cardinality(Holders(k)) /\ Cardinality(Holders(k)) \in Nat
      BY Zenon, HoldersFinite DEF SlotInv
    <3>2. CASE k = key
      BY Zenon, <2>5, <2>9, <3>1, <3>2
    <3>3. CASE k # key
      BY Zenon, <2>5, <2>8, <3>1, <3>3
    <3> QED BY Zenon, <3>2, <3>3
  <2> QED BY Zenon, <2>2, <2>5, <2>10 DEF SlotInv, OnlyStream, Holds
<1>8. ASSUME NEW c \in Client, Release(c)
      PROVE  SlotInv'
  <2>1. PICK key : key = Key(c)
    BY Zenon
  <2>2. OnlyStream(c) /\ stream[c].pc = "ending" /\ stream'[c].pc = "closed" /\ release(key)
    BY Zenon, <1>1, <1>8, <2>1, ReleaseEffect
  <2>3. Holds(c)
    BY Zenon, <2>2 DEF Holds
  <2>4. key \in Keys
    BY Zenon, <2>1, <2>3 DEF SlotInv, Keys, Key
  <2>5. Holds(c) /\ ~Holds(c)' /\ \A d \in Client \ {c} : Holds(d)' = Holds(d) /\ Key(d)' = Key(d)
    BY Zenon, <2>2 DEF Holds, Key, OnlyStream
  <2>6. c \in Holders(key) /\ Holders(key)' = Holders(key) \ {c}
    BY Zenon, <2>1, <2>5 DEF Holders
  <2>7. \A k : k # key => Holders(k)' = Holders(k)
    BY Zenon, <2>1, <2>5 DEF Holders
  <2>8. Cardinality(Holders(key)') = Cardinality(Holders(key)) - 1
    BY Zenon, <2>6, HoldersFinite, FS_RemoveElement
  <2>9. Open(key) = Cardinality(Holders(key)) /\ Open(key) \in 1..MaxConns
    <3>1. Open(key) = Cardinality(Holders(key)) /\ Open(key) \in 0..MaxConns
      BY Zenon, <1>1, <2>4, OpenBounded DEF SlotInv
    <3>2. Cardinality(Holders(key)) # 0
      BY Zenon, <2>6, HoldersFinite, FS_EmptySet
    <3> QED BY <3>1, <3>2
  <2>10. ConnsFormed' /\ Open(key)' = Open(key) - 1 /\ \A k : k # key => Open(k)' = Open(k)
    <3>1. SetConns(key, Open(key) - 1)
      BY <2>2, <2>9 DEF release
    <3>2. Open(key) - 1 \in 0..MaxConns
      BY <2>9, LimitsAssumption
    <3> QED BY Zenon, <1>1, <2>4, <3>1, <3>2, SetConnsEffect
  <2>11. \A k \in Keys : Open(k)' = Cardinality(Holders(k))'
    <3> TAKE k \in Keys
    <3>1. CASE k = key
      BY Zenon, <2>8, <2>9, <2>10, <3>1
    <3>2. CASE k # key
      BY Zenon, <2>7, <2>10, <3>2 DEF SlotInv
    <3> QED BY Zenon, <3>1, <3>2
  <2> QED BY Zenon, <2>2, <2>10, <2>11 DEF SlotInv, OnlyStream, Holds
<1> QED BY Zenon, <1>2, <1>3, <1>5, <1>6, <1>7, <1>8, StreamCases

\* Streams start closed or idle, with nothing in them.
LEMMA StreamsInit ==
  ASSUME Init
  PROVE  StreamsFormed /\ \A c \in Client : ~Holds(c) /\ Contents(stream[c]) = Empty
<1>1. PICK l \in Load :
        stream = [c \in Client |-> IF c \in l.clients THEN IdleStream ELSE ClosedStream]
  BY Zenon DEF Init
<1>2. \A c \in Client : stream[c] = IdleStream \/ stream[c] = ClosedStream
  BY Zenon, <1>1
<1>3. ASSUME NEW st, st = IdleStream \/ st = ClosedStream
      PROVE  IsStream(st) /\ Contents(st) = Empty /\ st.pc \in {"idle", "closed"}
  BY <1>3 DEF IdleStream, ClosedStream, IsStream, StreamFields, Contents, Empty
<1>4. DOMAIN stream = Client /\ stream = [c \in Client |-> stream[c]]
  BY Zenon, <1>1
<1> QED BY Zenon, <1>2, <1>3, <1>4 DEF StreamsFormed, Holds

\* The connection count of a key is at all times the number of its streams that
\* have not given their slot back (http.go: acquire, release).
THEOREM SlotsExact == Spec => []SlotsMatchStreams
<1>1. Init => SlotInv
  <2> SUFFICES ASSUME Init PROVE SlotInv
    BY Zenon
  <2>1. StreamsFormed /\ \A c \in Client : ~Holds(c)
    BY Zenon, StreamsInit
  <2>2. DOMAIN conns = {}
    BY Zenon DEF Init
  <2>3. \A key : Holders(key) = {} /\ Open(key) = 0
    BY Zenon, <2>1, <2>2 DEF Holders, Open
  <2> QED BY Zenon, <2>1, <2>2, <2>3, FS_EmptySet DEF SlotInv, ConnsFormed
<1>2. SlotInv => SlotsMatchStreams
  <2> SUFFICES ASSUME SlotInv,
                      NEW key \in DOMAIN conns \cup {Key(c) : c \in {d \in Client : Holds(d)}}
               PROVE  /\ Open(key) = Cardinality(Holders(key))
                      /\ Open(key) \in 1..MaxConns
    BY Zenon DEF SlotsMatchStreams, Holders
  <2>1. key \in Keys
    BY Zenon DEF SlotInv, ConnsFormed, Keys, Key
  <2>2. Open(key) = Cardinality(Holders(key)) /\ Open(key) \in 0..MaxConns
    BY Zenon, <2>1, OpenBounded DEF SlotInv
  <2>3. CASE key \in DOMAIN conns
    BY Zenon, <2>2, <2>3 DEF SlotInv, ConnsFormed, Open
  <2>4. ASSUME NEW c \in Client, Holds(c), key = Key(c)
        PROVE  Open(key) # 0
    <3>1. Holders(key) # {}
      BY Zenon, <2>4 DEF Holders
    <3> QED BY Zenon, <2>2, <3>1, HoldersFinite, FS_EmptySet
  <2> QED BY <2>2, <2>3, <2>4
<1> QED BY <1>1, <1>2, SlotStep, PTL DEF Spec

-----------------------------------------------------------------------------
(***************************************************************************)
(* The frames.  The numbers of the records go from the queue to taken and  *)
(* on to the frames, in order, below the length n of the log.              *)
(***************************************************************************)
Rising(s) == \A i, j \in DOMAIN s : i < j => s[i] < s[j]

Numbers(wait, taken, frames, n) ==
  /\ wait \in Seq(1..n) /\ taken \in Seq(1..n) /\ frames \in Seq(1..n)
  /\ Rising(wait) /\ Rising(taken) /\ Rising(frames)
  /\ \A i \in DOMAIN taken : \A j \in DOMAIN wait : taken[i] < wait[j]
  /\ \A i \in DOMAIN frames : \E j \in DOMAIN taken : frames[i] = taken[j]

\* The throttle remembers a frame of each topic it knows.
Remembers(last, frames, records) ==
  \A t \in DOMAIN last : \E i \in DOMAIN frames :
    records[frames[i]].topic = t /\ records[frames[i]].at = last[t]

\* What was taken was sent, or kept back by the filter or the throttle.
Sent(taken, frames, filter, records) ==
  \A n \in DOMAIN taken :
    LET i == taken[n]
        sent == {frames[m] : m \in DOMAIN frames}
    IN IF ~AllowedBy(filter, records[i]) THEN i \notin sent
       ELSE \/ i \in sent
            \/ /\ ~Bypasses(records[i])
               /\ \E j \in sent :
                    /\ j < i /\ records[j].topic = records[i].topic
                    /\ records[i].at < records[j].at + throttleWindow(records[i].topic)

\* A sequence of numbers that grows at its end by a greater one.
LEMMA RisingAppend ==
  ASSUME NEW n \in Nat, NEW s \in Seq(1..n), Rising(s), NEW x \in Nat,
         \A i \in DOMAIN s : s[i] < x
  PROVE  LET t == Append(s, x)
         IN /\ Rising(t) /\ DOMAIN t = 1..(Len(s) + 1) /\ t[Len(s) + 1] = x
            /\ \A i \in DOMAIN s : i \in DOMAIN t /\ t[i] = s[i]
<1> DEFINE k == Len(s)
           t == Append(s, x)
<1>1. /\ k \in Nat /\ DOMAIN s = 1..k /\ DOMAIN t = 1..(k + 1) /\ t[k + 1] = x
      /\ \A i \in 1..k : t[i] = s[i] /\ s[i] \in Nat
  OBVIOUS
<1> HIDE DEF k, t
<1>2. Rising(t)
  <2> SUFFICES ASSUME NEW i \in 1..(k + 1), NEW j \in 1..(k + 1), i < j
               PROVE  t[i] < t[j]
    BY Zenon, <1>1 DEF Rising
  <2>1. i \in 1..k
    BY <1>1
  <2>2. CASE j = k + 1
    BY Zenon, <1>1, <2>1, <2>2
  <2>3. CASE j \in 1..k
    BY Zenon, <1>1, <2>1, <2>3 DEF Rising
  <2> QED BY <1>1, <2>2, <2>3
<1> QED BY <1>1, <1>2 DEF k, t

\* A record that the broker accepts gets a number beyond all others.
LEMMA NumbersGrow ==
  ASSUME NEW n \in Nat, NEW wait, NEW taken, NEW frames, Numbers(wait, taken, frames, n)
  PROVE  /\ Numbers(wait, taken, frames, n + 1)
         /\ Numbers(Append(wait, n + 1), taken, frames, n + 1)
<1>1. wait \in Seq(1..(n + 1)) /\ taken \in Seq(1..(n + 1)) /\ frames \in Seq(1..(n + 1))
  <2>1. \A s \in Seq(1..n) : s \in Seq(1..(n + 1))
    OBVIOUS
  <2> QED BY Zenon, <2>1 DEF Numbers
<1>2. Numbers(wait, taken, frames, n + 1)
  BY Zenon, <1>1 DEF Numbers
<1>3. PICK grown : grown = Append(wait, n + 1)
  BY Zenon
<1>4. wait \in Seq(1..n) /\ Rising(wait) /\ \A i \in DOMAIN wait : wait[i] < n + 1
  BY DEF Numbers
<1>5. Rising(grown) /\ DOMAIN grown = 1..(Len(wait) + 1) /\ grown[Len(wait) + 1] = n + 1
      /\ \A i \in DOMAIN wait : i \in DOMAIN grown /\ grown[i] = wait[i]
  <2>1. n + 1 \in Nat
    OBVIOUS
  <2> QED BY Zenon, <1>3, <1>4, <2>1, RisingAppend
<1>6. grown \in Seq(1..(n + 1))
  BY <1>1, <1>3
<1>7. \A i \in DOMAIN taken : \A j \in DOMAIN grown : taken[i] < grown[j]
  <2> SUFFICES ASSUME NEW i \in DOMAIN taken, NEW j \in DOMAIN grown
               PROVE  taken[i] < grown[j]
    BY Zenon
  <2>1. taken[i] < n + 1
    BY DEF Numbers
  <2>2. \A k \in DOMAIN wait : taken[i] < wait[k]
    BY Zenon DEF Numbers
  <2>3. CASE j = Len(wait) + 1
    BY Zenon, <1>5, <2>1, <2>3
  <2>4. CASE j \in DOMAIN wait
    BY Zenon, <1>5, <2>2, <2>4
  <2> QED BY <1>4, <1>5, <2>3, <2>4
<1>8. Rising(taken) /\ Rising(frames)
      /\ \A i \in DOMAIN frames : \E j \in DOMAIN taken : frames[i] = taken[j]
  BY Zenon DEF Numbers
<1>9. Numbers(grown, taken, frames, n + 1)
  BY Zenon, <1>1, <1>5, <1>6, <1>7, <1>8 DEF Numbers
<1> QED BY Zenon, <1>2, <1>3, <1>9

\* The head of the queue is a number beyond all that were taken.
LEMMA NumbersTake ==
  ASSUME NEW n \in Nat, NEW wait, NEW taken, NEW frames, Numbers(wait, taken, frames, n),
         wait # <<>>, NEW i, i = Head(wait), NEW more \in {frames, Append(frames, i)}
  PROVE  /\ i \in 1..n
         /\ \A k \in DOMAIN taken : taken[k] < i
         /\ \A k \in DOMAIN frames : frames[k] < i
         /\ Numbers(Tail(wait), Append(taken, i), more, n)
<1>1. /\ wait \in Seq(1..n) /\ taken \in Seq(1..n) /\ frames \in Seq(1..n)
      /\ Rising(wait) /\ Rising(taken) /\ Rising(frames)
  BY Zenon DEF Numbers
<1>2. i \in 1..n /\ i = wait[1] /\ 1 \in DOMAIN wait
  BY <1>1
<1>3. \A k \in DOMAIN taken : taken[k] < i
  BY Zenon, <1>2 DEF Numbers
<1>4. \A k \in DOMAIN frames : frames[k] < i
  BY Zenon, <1>3 DEF Numbers
<1>5. PICK tail, took : tail = Tail(wait) /\ took = Append(taken, i)
  BY Zenon
<1>6. /\ tail \in Seq(1..n) /\ took \in Seq(1..n) /\ more \in Seq(1..n)
      /\ \A k \in DOMAIN tail : k + 1 \in DOMAIN wait /\ tail[k] = wait[k + 1] /\ k \in Nat \ {0}
  <2>1. \A seq \in Seq(1..n) : Append(seq, i) \in Seq(1..n)
    BY <1>2
  <2>2. tail \in Seq(1..n) /\ Len(tail) = Len(wait) - 1
        /\ \A k \in 1..Len(tail) : tail[k] = wait[k + 1]
    BY <1>1, <1>5
  <2>3. took \in Seq(1..n) /\ more \in Seq(1..n)
    BY Zenon, <1>1, <1>5, <2>1
  <2>4. \A k \in DOMAIN tail : k + 1 \in DOMAIN wait /\ tail[k] = wait[k + 1] /\ k \in Nat \ {0}
    <3>1. DOMAIN tail = 1..Len(tail) /\ DOMAIN wait = 1..Len(wait) /\ Len(wait) \in Nat
      BY <1>1, <2>2
    <3> QED BY <2>2, <3>1
  <2> QED BY Zenon, <2>2, <2>3, <2>4
<1>7. /\ Rising(took) /\ DOMAIN took = 1..(Len(taken) + 1) /\ took[Len(taken) + 1] = i
      /\ \A k \in DOMAIN taken : k \in DOMAIN took /\ took[k] = taken[k]
  <2>1. i \in Nat
    BY <1>2
  <2> QED BY Zenon, <1>1, <1>3, <1>5, <2>1, RisingAppend
<1>8. Rising(tail)
  BY <1>1, <1>6 DEF Rising
<1>9. /\ Rising(more)
      /\ \A k \in DOMAIN more : more[k] = i \/ \E m \in DOMAIN frames : more[k] = frames[m]
  <2>1. CASE more = frames
    BY Zenon, <1>1, <2>1
  <2>2. CASE more = Append(frames, i)
    <3>1. /\ Rising(more) /\ DOMAIN more = 1..(Len(frames) + 1) /\ more[Len(frames) + 1] = i
          /\ \A k \in DOMAIN frames : k \in DOMAIN more /\ more[k] = frames[k]
      <4>1. i \in Nat
        BY <1>2
      <4> QED BY Zenon, <1>1, <1>4, <2>2, <4>1, RisingAppend
    <3>2. DOMAIN frames = 1..Len(frames) /\ Len(frames) \in Nat
      BY <1>1
    <3>3. \A k \in DOMAIN more : k = Len(frames) + 1 \/ k \in DOMAIN frames
      BY <3>1, <3>2
    <3> QED BY Zenon, <3>1, <3>3
  <2> QED BY Zenon, <2>1, <2>2
<1>10. \A k \in DOMAIN took : \A m \in DOMAIN tail : took[k] < tail[m]
  <2> SUFFICES ASSUME NEW k \in DOMAIN took, NEW m \in DOMAIN tail
               PROVE  took[k] < tail[m]
    BY Zenon
  <2>1. m + 1 \in DOMAIN wait /\ tail[m] = wait[m + 1] /\ 1 < m + 1
    BY <1>6
  <2>2. CASE k \in DOMAIN taken
    <3>1. taken[k] < wait[m + 1]
      BY Zenon, <2>1, <2>2 DEF Numbers
    <3> QED BY Zenon, <1>7, <2>1, <2>2, <3>1
  <2>3. CASE k = Len(taken) + 1
    <3>1. wait[1] < wait[m + 1]
      BY Zenon, <1>1, <1>2, <2>1 DEF Rising
    <3> QED BY Zenon, <1>2, <1>7, <2>1, <2>3, <3>1
  <2> QED BY <1>1, <1>7, <2>2, <2>3
<1>11. \A k \in DOMAIN more : \E m \in DOMAIN took : more[k] = took[m]
  <2>1. \A m \in DOMAIN frames : \E k \in DOMAIN taken : frames[m] = taken[k]
    BY Zenon DEF Numbers
  <2>2. Len(taken) + 1 \in DOMAIN took
    BY <1>1, <1>7
  <2> QED BY ZenonT(30), <1>7, <1>9, <2>1, <2>2
<1>12. Numbers(tail, took, more, n)
  BY Zenon, <1>6, <1>7, <1>8, <1>9, <1>10, <1>11 DEF Numbers
<1> QED BY Zenon, <1>2, <1>3, <1>4, <1>5, <1>12

\* A longer log says the same of what was taken.
LEMMA SentGrow ==
  ASSUME NEW n \in Nat, NEW wait, NEW taken, NEW frames, Numbers(wait, taken, frames, n),
         NEW last, NEW filter, NEW records, NEW longer,
         \A i \in 1..n : longer[i] = records[i],
         Remembers(last, frames, records), Sent(taken, frames, filter, records)
  PROVE  Remembers(last, frames, longer) /\ Sent(taken, frames, filter, longer)
<1>1. /\ \A i \in DOMAIN taken : longer[taken[i]] = records[taken[i]]
      /\ \A i \in DOMAIN frames : longer[frames[i]] = records[frames[i]]
  <2>1. taken \in Seq(1..n) /\ frames \in Seq(1..n)
    BY Zenon DEF Numbers
  <2>2. (\A i \in DOMAIN taken : taken[i] \in 1..n) /\ \A i \in DOMAIN frames : frames[i] \in 1..n
    BY <2>1
  <2> QED BY Zenon, <2>2
<1>2. Remembers(last, frames, longer)
  BY ZenonT(30), <1>1 DEF Remembers
<1>3. Sent(taken, frames, filter, longer)
  BY <1>1 DEF Sent
<1> QED BY Zenon, <1>2, <1>3

\* What one record that was taken needs of what was sent.
Answered(x, sent, filter, records) ==
  IF ~AllowedBy(filter, records[x]) THEN x \notin sent
  ELSE \/ x \in sent
       \/ /\ ~Bypasses(records[x])
          /\ \E j \in sent :
               /\ j < x /\ records[j].topic = records[x].topic
               /\ records[x].at < records[j].at + throttleWindow(records[x].topic)

\* The next record taken, when it is not sent: the filter refuses it, or the
\* throttle remembers a frame of its topic sent less than a window before.
LEMMA HoldTake ==
  ASSUME NEW n \in Nat, NEW taken \in Seq(1..n), NEW frames \in Seq(1..n), NEW i \in 1..n,
         \A k \in DOMAIN frames : frames[k] < i,
         NEW last, NEW filter, NEW records, \A k \in 1..n : records[k].at \in Int,
         Remembers(last, frames, records), Sent(taken, frames, filter, records),
         ~(AllowedBy(filter, records[i]) /\ throttleAllows(last, records[i]))
  PROVE  Sent(Append(taken, i), frames, filter, records)
<1> DEFINE sent == {frames[m] : m \in DOMAIN frames}
           took == Append(taken, i)
<1>1. \A k \in DOMAIN took : took[k] = i \/ \E m \in DOMAIN taken : took[k] = taken[m]
  OBVIOUS
<1>2. \A j \in sent : j < i /\ j \in 1..n
  OBVIOUS
<1>3. \A m \in DOMAIN taken : Answered(taken[m], sent, filter, records)
  BY Zenon DEF Sent, Answered
<1>4. Answered(i, sent, filter, records)
  <2>1. CASE ~AllowedBy(filter, records[i])
    <3>1. i \notin sent
      <4> HIDE DEF sent
      <4> QED BY <1>2
    <3> QED BY Zenon, <2>1, <3>1 DEF Answered
  <2>2. CASE AllowedBy(filter, records[i]) /\ ~throttleAllows(last, records[i])
    <3> DEFINE rec == records[i]
    <3>1. /\ ~Bypasses(rec) /\ rec.topic \in DOMAIN last
          /\ ~(rec.at >= last[rec.topic] + throttleWindow(rec.topic))
      BY Zenon, <2>2 DEF throttleAllows
    <3>2. PICK m \in DOMAIN frames :
            records[frames[m]].topic = rec.topic /\ records[frames[m]].at = last[rec.topic]
      BY Zenon, <3>1 DEF Remembers
    <3>3. frames[m] \in sent /\ frames[m] < i /\ frames[m] \in 1..n
      BY Zenon, <1>2
    <3>4. rec.at \in Int /\ records[frames[m]].at \in Int /\ throttleWindow(rec.topic) \in Int
      BY <3>3, LimitsAssumption DEF throttleWindow
    <3>5. rec.at < records[frames[m]].at + throttleWindow(rec.topic)
      BY <3>1, <3>2, <3>4
    <3> HIDE DEF sent
    <3> QED BY Zenon, <2>2, <3>1, <3>2, <3>3, <3>5 DEF Answered
  <2> QED BY Zenon, <2>1, <2>2
<1>5. \A k \in DOMAIN took : Answered(took[k], sent, filter, records)
  <2> HIDE DEF sent, took
  <2> QED BY Zenon, <1>1, <1>3, <1>4
<1> HIDE DEF took
<1>6. Sent(took, frames, filter, records)
  BY Zenon, <1>5 DEF Sent, Answered
<1> QED BY Zenon, <1>6 DEF took

\* The throttle takes note of a frame.
Noted(later, last, rec) ==
  /\ DOMAIN later = DOMAIN last \cup {rec.topic}
  /\ \A t \in DOMAIN later : later[t] = IF t = rec.topic THEN rec.at ELSE last[t]

\* The next record taken, when it is sent: the throttle remembers it.
LEMMA EmitTake ==
  ASSUME NEW n \in Nat, NEW taken \in Seq(1..n), NEW frames \in Seq(1..n), NEW i \in 1..n,
         \A k \in DOMAIN taken : taken[k] < i,
         NEW last, NEW filter, NEW records,
         Remembers(last, frames, records), Sent(taken, frames, filter, records),
         AllowedBy(filter, records[i]),
         NEW later, Noted(later, last, records[i])
  PROVE  /\ Remembers(later, Append(frames, i), records)
         /\ Sent(Append(taken, i), Append(frames, i), filter, records)
<1> DEFINE sent == {frames[m] : m \in DOMAIN frames}
           took == Append(taken, i)
           more == Append(frames, i)
           sentNow == {more[m] : m \in DOMAIN more}
<1>1. \A k \in DOMAIN took : took[k] = i \/ \E m \in DOMAIN taken : took[k] = taken[m]
  OBVIOUS
<1>2. /\ \A m \in DOMAIN frames : m \in DOMAIN more /\ more[m] = frames[m]
      /\ \E m \in DOMAIN more : more[m] = i
      /\ \A m \in DOMAIN more : more[m] = i \/ (m \in DOMAIN frames /\ more[m] = frames[m])
  <2>1. /\ Len(frames) \in Nat /\ DOMAIN frames = 1..Len(frames)
        /\ DOMAIN more = 1..(Len(frames) + 1) /\ more[Len(frames) + 1] = i
        /\ \A m \in 1..Len(frames) : more[m] = frames[m]
    OBVIOUS
  <2> HIDE DEF more
  <2>2. \A m \in 1..(Len(frames) + 1) : m = Len(frames) + 1 \/ m \in 1..Len(frames)
    BY <2>1
  <2>3. Len(frames) + 1 \in 1..(Len(frames) + 1)
    BY <2>1
  <2>4. \A m \in DOMAIN frames : m \in DOMAIN more
    BY <2>1
  <2> QED BY Zenon, <2>1, <2>2, <2>3, <2>4
<1> HIDE DEF more, took
<1>3. sentNow = sent \cup {i}
  <2>1. \A x \in sentNow : x = i \/ x \in sent
    <3> SUFFICES ASSUME NEW x \in sentNow PROVE x = i \/ x \in sent
      BY Zenon
    <3>1. PICK m \in DOMAIN more : x = more[m]
      BY Zenon
    <3> QED BY Zenon, <1>2, <3>1
  <2>2. \A x \in sent : x \in sentNow
    BY Zenon, <1>2
  <2>3. i \in sentNow
    BY Zenon, <1>2
  <2> HIDE DEF sent, sentNow
  <2> QED BY Zenon, <2>1, <2>2, <2>3
<1>4. Remembers(later, more, records)
  <2> SUFFICES ASSUME NEW t \in DOMAIN later
               PROVE  \E m \in DOMAIN more :
                        records[more[m]].topic = t /\ records[more[m]].at = later[t]
    BY Zenon DEF Remembers
  <2>1. CASE t = records[i].topic
    <3>1. later[t] = records[i].at
      BY Zenon, <2>1 DEF Noted
    <3> QED BY Zenon, <1>2, <2>1, <3>1
  <2>2. CASE t # records[i].topic
    <3>1. t \in DOMAIN last /\ later[t] = last[t]
      BY Zenon, <2>2 DEF Noted
    <3>2. PICK m \in DOMAIN frames :
            records[frames[m]].topic = t /\ records[frames[m]].at = last[t]
      BY Zenon, <3>1 DEF Remembers
    <3> QED BY Zenon, <1>2, <3>1, <3>2
  <2> QED BY Zenon, <2>1, <2>2
<1>5. ASSUME NEW m \in DOMAIN taken
      PROVE  Answered(taken[m], sentNow, filter, records)
  <2>1. Answered(taken[m], sent, filter, records)
    BY Zenon DEF Sent, Answered
  <2>2. taken[m] # i
    OBVIOUS
  <2> HIDE DEF sent, sentNow
  <2> QED BY Zenon, <1>3, <2>1, <2>2 DEF Answered
<1>6. Answered(i, sentNow, filter, records)
  <2> HIDE DEF sent, sentNow
  <2> QED BY Zenon, <1>3 DEF Answered
<1>7. \A k \in DOMAIN took : Answered(took[k], sentNow, filter, records)
  <2> HIDE DEF sent, sentNow
  <2> QED BY Zenon, <1>1, <1>5, <1>6
<1>8. Sent(took, more, filter, records)
  BY Zenon, <1>7 DEF Sent, Answered
<1> QED BY Zenon, <1>4, <1>8 DEF took, more

Record == {[r EXCEPT !.at = t] : r \in JobRecord \cup SampleRecord, t \in 0..MaxClock}

LogFormed == clock \in 0..MaxClock /\ log \in Seq(Record)

\* What holds of the contents of each stream; there are none before it has
\* subscribed and after it has ended.
StreamOK(c) ==
  LET st == stream[c]
  IN /\ Numbers(st.queue, st.taken, st.frames, Len(log))
     /\ Remembers(st.lastEmitAt, st.frames, log)
     /\ Sent(st.taken, st.frames, st.filter, log)
     /\ ~Subscribed(st) => Contents(st) = Empty

FrameInv == StreamsFormed /\ LogFormed /\ \A c \in Client : StreamOK(c)

\* Every record carries a time.
LEMMA RecordTimed ==
  ASSUME NEW rec \in Record
  PROVE  rec.at \in Int
<1>1. PICK r \in JobRecord \cup SampleRecord, t \in 0..MaxClock : rec = [r EXCEPT !.at = t]
  BY DEF Record
<1>2. "at" \in DOMAIN r
  BY RecordAssumption DEF SampleRecord
<1>3. rec.at = t
  BY Zenon, <1>1, <1>2
<1> QED BY <1>3

\* A stream with no contents has sent what it had to.
LEMMA NothingWrong ==
  ASSUME NEW st, Contents(st) = Empty, NEW n \in Nat, NEW records
  PROVE  /\ Numbers(st.queue, st.taken, st.frames, n)
         /\ Remembers(st.lastEmitAt, st.frames, records)
         /\ Sent(st.taken, st.frames, st.filter, records)
<1>1. st.queue = <<>> /\ st.taken = <<>> /\ st.frames = <<>> /\ DOMAIN st.lastEmitAt = {}
  BY Zenon DEF Contents, Empty, IdleStream
<1>2. Numbers(st.queue, st.taken, st.frames, n)
  BY <1>1 DEF Numbers, Rising
<1>3. Remembers(st.lastEmitAt, st.frames, records)
  BY Zenon, <1>1 DEF Remembers
<1>4. Sent(st.taken, st.frames, st.filter, records)
  BY <1>1 DEF Sent
<1> QED BY Zenon, <1>2, <1>3, <1>4

\* The stream of c has no contents after the step; the others are as before.
LEMMA EmptyStep ==
  ASSUME FrameInv, LogFormed', NEW c \in Client, OnlyStream(c), UNCHANGED log,
         Contents(stream'[c]) = Empty
  PROVE  FrameInv'
<1>1. StreamOK(c)'
  <2>1. Len(log') \in Nat
    BY DEF LogFormed
  <2> QED BY Zenon, <2>1, NothingWrong DEF StreamOK
<1>2. \A d \in Client \ {c} : StreamOK(d)'
  BY DEF FrameInv, OnlyStream, StreamOK
<1> QED BY Zenon, <1>1, <1>2 DEF FrameInv, OnlyStream

\* A record that the broker accepts, and every stream it offers the record to.
LEMMA AcceptStep ==
  ASSUME FrameInv, NEW rec \in JobRecord \cup SampleRecord, Publish(rec), UNCHANGED clock
  PROVE  FrameInv'
<1>1. StreamsFormed /\ LogFormed /\ Len(log) \in Nat
  BY DEF FrameInv, LogFormed
<1>2. CASE UNCHANGED <<log, stream>>
  BY Zenon, <1>1, <1>2 DEF FrameInv, StreamsFormed, LogFormed, StreamOK
<1>3. CASE log' = Append(log, [rec EXCEPT !.at = IF throttleWindow(rec.topic) > 0 THEN clock ELSE 0])
  <2>1. PICK t : /\ t = IF throttleWindow(rec.topic) > 0 THEN clock ELSE 0
                 /\ log' = Append(log, [rec EXCEPT !.at = t])
    BY Zenon, <1>3
  <2>2. t \in 0..MaxClock
    BY <1>1, <2>1, LimitsAssumption DEF LogFormed
  <2>3. PICK stamped : stamped = [rec EXCEPT !.at = t]
    BY Zenon
  <2>4. stamped \in Record
    BY <2>2, <2>3 DEF Record
  <2>5. log' \in Seq(Record) /\ Len(log') = Len(log) + 1 /\ \A i \in 1..Len(log) : log'[i] = log[i]
    BY <1>1, <2>1, <2>3, <2>4 DEF LogFormed
  <2>6. ASSUME NEW c \in Client PROVE StreamOK(c)'
    <3> DEFINE st == stream[c]  su == stream'[c]  n == Len(log)
    <3>1. /\ su.pc = st.pc /\ su.filter = st.filter /\ su.taken = st.taken
          /\ su.frames = st.frames /\ su.lastEmitAt = st.lastEmitAt
          /\ \/ su.queue = st.queue
             \/ Subscribed(st) /\ su.queue = Append(st.queue, n + 1)
      BY Zenon, <1>1, PublishEffect
    <3>2. /\ Numbers(st.queue, st.taken, st.frames, n)
          /\ Remembers(st.lastEmitAt, st.frames, log)
          /\ Sent(st.taken, st.frames, st.filter, log)
          /\ ~Subscribed(st) => Contents(st) = Empty
      BY Zenon DEF FrameInv, StreamOK
    <3>3. Numbers(su.queue, su.taken, su.frames, n + 1)
      BY Zenon, <1>1, <3>1, <3>2, NumbersGrow
    <3>4. Remembers(st.lastEmitAt, st.frames, log') /\ Sent(st.taken, st.frames, st.filter, log')
      <4>1. PICK longer : longer = log'
        BY Zenon
      <4>2. \A k \in 1..n : longer[k] = log[k]
        BY Zenon, <2>5, <4>1
      <4>3. Remembers(st.lastEmitAt, st.frames, longer) /\ Sent(st.taken, st.frames, st.filter, longer)
        BY <1>1, <3>2, <4>2, SentGrow
      <4> QED BY Zenon, <4>1, <4>3
    <3>5. ~Subscribed(su) => Contents(su) = Empty
      BY Zenon, <3>1, <3>2 DEF Contents, Subscribed
    <3> QED BY Zenon, <2>5, <3>1, <3>3, <3>4, <3>5 DEF StreamOK
  <2>7. StreamsFormed'
    BY Zenon, <1>1, PublishEffect
  <2> QED BY Zenon, <1>1, <2>5, <2>6, <2>7 DEF FrameInv, LogFormed
<1> QED BY Zenon, <1>2, <1>3 DEF Publish

\* A record taken off the queue.
LEMMA TakeStep ==
  ASSUME FrameInv, NEW c \in Client, handleBrokerSSE(c), UNCHANGED clock
  PROVE  FrameInv'
<1> DEFINE st == stream[c]
           su == stream'[c]
<1>1. StreamsFormed /\ LogFormed /\ Len(log) \in Nat /\ \A k \in 1..Len(log) : log[k].at \in Int
  BY RecordTimed DEF FrameInv, LogFormed
<1>2. /\ Numbers(st.queue, st.taken, st.frames, Len(log))
      /\ Remembers(st.lastEmitAt, st.frames, log)
      /\ Sent(st.taken, st.frames, st.filter, log)
  BY Zenon DEF FrameInv, StreamOK
<1> DEFINE emit(i) == AllowedBy(st.filter, log[i]) /\ throttleAllows(st.lastEmitAt, log[i])
<1>3. PICK i : i = Head(st.queue)
  BY Zenon
<1>4. /\ OnlyStream(c) /\ st.pc = "stream" /\ st.queue # <<>>
      /\ Subscribed(su) /\ su.filter = st.filter
      /\ su.queue = Tail(st.queue) /\ su.taken = Append(st.taken, i)
      /\ su.frames = (IF emit(i) THEN Append(st.frames, i) ELSE st.frames)
      /\ su.lastEmitAt = (IF emit(i) THEN [t \in DOMAIN st.lastEmitAt \cup {log[i].topic} |->
                                           IF t = log[i].topic THEN log[i].at ELSE st.lastEmitAt[t]]
                         ELSE st.lastEmitAt)
      /\ UNCHANGED log
  BY Zenon, <1>1, <1>3, WriteEffect
<1>5. PICK n, wait, taken, frames, last, filter, records :
        /\ n = Len(log) /\ wait = st.queue /\ taken = st.taken /\ frames = st.frames
        /\ last = st.lastEmitAt /\ filter = st.filter /\ records = log
  BY Zenon
<1>6. n \in Nat /\ wait # <<>> /\ i = Head(wait) /\ \A k \in 1..n : records[k].at \in Int
  BY Zenon, <1>1, <1>3, <1>4, <1>5
<1>7. /\ Numbers(wait, taken, frames, n) /\ Remembers(last, frames, records)
      /\ Sent(taken, frames, filter, records)
  BY Zenon, <1>2, <1>5
<1>8. /\ i \in 1..n /\ taken \in Seq(1..n) /\ frames \in Seq(1..n)
      /\ \A k \in DOMAIN taken : taken[k] < i
      /\ \A k \in DOMAIN frames : frames[k] < i
      /\ Numbers(Tail(wait), Append(taken, i), frames, n)
      /\ Numbers(Tail(wait), Append(taken, i), Append(frames, i), n)
  <2>1. taken \in Seq(1..n) /\ frames \in Seq(1..n)
    BY Zenon, <1>7 DEF Numbers
  <2>2. ASSUME NEW more \in {frames, Append(frames, i)}
        PROVE  /\ i \in 1..n
               /\ \A k \in DOMAIN taken : taken[k] < i
               /\ \A k \in DOMAIN frames : frames[k] < i
               /\ Numbers(Tail(wait), Append(taken, i), more, n)
    BY Zenon, <1>6, <1>7, NumbersTake
  <2>3. frames \in {frames, Append(frames, i)} /\ Append(frames, i) \in {frames, Append(frames, i)}
    BY Zenon
  <2> QED BY Zenon, <2>1, <2>2, <2>3
<1>9. ASSUME ~emit(i) PROVE StreamOK(c)'
  <2>1. Sent(Append(taken, i), frames, filter, records)
    <3>1. ~(AllowedBy(filter, records[i]) /\ throttleAllows(last, records[i]))
      BY Zenon, <1>5, <1>9
    <3> QED BY Zenon, <1>6, <1>7, <1>8, <3>1, HoldTake
  <2>2. su.frames = frames /\ su.lastEmitAt = last
    BY Zenon, <1>4, <1>5, <1>9
  <2> QED BY Zenon, <1>4, <1>5, <1>7, <1>8, <2>1, <2>2 DEF StreamOK
<1>10. ASSUME emit(i) PROVE StreamOK(c)'
  <2>1. PICK later : later = su.lastEmitAt
    BY Zenon
  <2>2. Noted(later, last, records[i])
    BY Zenon, <1>4, <1>5, <1>10, <2>1 DEF Noted
  <2>3. AllowedBy(filter, records[i])
    BY Zenon, <1>5, <1>10
  <2>4. /\ Remembers(later, Append(frames, i), records)
        /\ Sent(Append(taken, i), Append(frames, i), filter, records)
    BY Zenon, <1>6, <1>7, <1>8, <2>2, <2>3, EmitTake
  <2>5. su.frames = Append(frames, i)
    BY Zenon, <1>4, <1>5, <1>10
  <2> QED BY Zenon, <1>4, <1>5, <1>8, <2>1, <2>4, <2>5 DEF StreamOK
<1>11. StreamOK(c)'
  BY Zenon, <1>9, <1>10
<1>12. \A d \in Client \ {c} : StreamOK(d)'
  BY Zenon, <1>4 DEF FrameInv, OnlyStream, StreamOK
<1> QED BY Zenon, <1>1, <1>4, <1>11, <1>12 DEF FrameInv, OnlyStream, LogFormed

\* The stream of c has waited for its client.
LEMMA WaitStep ==
  ASSUME FrameInv, NEW c \in Client, Written(c) \/ Stall(c) \/ Heartbeat(c), UNCHANGED clock
  PROVE  FrameInv'
<1>1. /\ OnlyStream(c) /\ Subscribed(stream'[c]) /\ stream'[c].filter = stream[c].filter
      /\ Contents(stream'[c]) = Contents(stream[c]) /\ UNCHANGED log
  BY Zenon, WaitEffect DEF FrameInv
<1>2. /\ stream'[c].queue = stream[c].queue /\ stream'[c].taken = stream[c].taken
      /\ stream'[c].frames = stream[c].frames /\ stream'[c].lastEmitAt = stream[c].lastEmitAt
  BY Zenon, <1>1 DEF Contents
<1>3. StreamOK(c)'
  BY Zenon, <1>1, <1>2 DEF FrameInv, StreamOK
<1>4. \A d \in Client \ {c} : StreamOK(d)'
  BY Zenon, <1>1 DEF FrameInv, OnlyStream, StreamOK
<1> QED BY Zenon, <1>1, <1>3, <1>4 DEF FrameInv, OnlyStream, LogFormed

\* Every step keeps the contents of every stream faithful.
LEMMA FrameStep ==
  ASSUME FrameInv, [Next]_vars
  PROVE  FrameInv'
<1>1. /\ StreamsFormed /\ LogFormed
      /\ \A c \in Client : ~Subscribed(stream[c]) => Contents(stream[c]) = Empty
  BY Zenon DEF FrameInv, StreamOK
<1>2. CASE UNCHANGED <<conns, stream, log>> /\ (Tick \/ UNCHANGED clock)
  <2>1. clock' \in 0..MaxClock
    BY <1>1, <1>2, LimitsAssumption DEF LogFormed, Tick
  <2> QED BY Zenon, <1>2, <2>1 DEF FrameInv, StreamsFormed, LogFormed, StreamOK
<1>3. ASSUME NEW c \in Client, UNCHANGED clock, \/ Connect(c) \/ Resolve(c) \/ Subscribe(c)
                               \/ Disconnect(c) \/ EndOfStream(c) \/ Release(c)
      PROVE  FrameInv'
  <2>1. OnlyStream(c) /\ Contents(stream'[c]) = Empty /\ UNCHANGED log
    <3>1. CASE Connect(c)
      BY Zenon, <1>1, <3>1, ConnectEffect DEF Connect, Subscribed
    <3>2. CASE Resolve(c) \/ Subscribe(c)
      BY Zenon, <1>1, <3>2, MoveEffect DEF Subscribed
    <3>3. CASE Disconnect(c) \/ EndOfStream(c)
      BY Zenon, <1>1, <3>3, EndEffect
    <3>4. CASE Release(c)
      BY Zenon, <1>1, <3>4, ReleaseEffect
    <3> QED BY Zenon, <1>3, <3>1, <3>2, <3>3, <3>4
  <2>2. LogFormed'
    BY Zenon, <1>1, <1>3, <2>1 DEF LogFormed
  <2> QED BY Zenon, <2>1, <2>2, EmptyStep
<1> QED BY Zenon, <1>2, <1>3, AcceptStep, TakeStep, WaitStep, StreamCases

\* Every stream sends what it takes off its queue, in order, but for what its
\* filter or its throttle keeps back (http.go: writeBrokerSSEFrame; telemetry.go:
\* Allow).
THEOREM FramesSafe == Spec => []FramesFaithful
<1>1. Init => FrameInv
  <2> SUFFICES ASSUME Init PROVE FrameInv
    BY Zenon
  <2>1. StreamsFormed /\ \A c \in Client : Contents(stream[c]) = Empty
    BY Zenon, StreamsInit
  <2>2. LogFormed /\ Len(log) \in Nat
    BY LoadAssumption, LimitsAssumption DEF Init, LogFormed
  <2>3. \A c \in Client : StreamOK(c)
    BY Zenon, <2>1, <2>2, NothingWrong DEF StreamOK
  <2> QED BY Zenon, <2>1, <2>2, <2>3 DEF FrameInv
<1>2. FrameInv => FramesFaithful
  BY Zenon DEF FrameInv, StreamOK, Numbers, Rising, Sent, FramesFaithful
<1> QED BY <1>1, <1>2, FrameStep, PTL DEF Spec
-----------------------------------------------------------------------------
(***************************************************************************)
(* The gateway: the inductive invariant.                                   *)
(***************************************************************************)
GatewayTypeOK ==
  /\ status \in [Task -> {"none", "running", "completed", "failed"}]
  /\ reported \subseteq Session
  /\ place \in [Session -> Place]
  /\ queue \in [Stage -> Seq(Session)]
  /\ closing \in SeqRange(CloseStep)

Distinct(q) == \A i, j \in 1..Len(q) : q[i] = q[j] => i = j
InQueue(q, s) == \E i \in 1..Len(q) : q[i] = s

\* The queue q of stage p holds, once each, the sessions that are where the
\* stage's jobs wait.
QueueMatches(p, q, pl) ==
  /\ Len(q) <= Capacity[p]
  /\ Distinct(q)
  /\ \A s \in Session : InQueue(q, s) <=> pl[s] = QueuePlace[p]

QueuesInv == \A p \in Stage : QueueMatches(p, queue[p], place)

\* A pool has no more jobs in hand than workers.
PoolsInv ==
  \A p \in DOMAIN Workers :
    IsFiniteSet(AtWork(p)) /\ Cardinality(AtWork(p)) <= Workers[p]

\* The dispatcher has one job at a time.
DispatcherInv ==
  \A s, r \in Session :
    place[s] \in {"dispatch", "sendRun"} /\ place[r] \in {"dispatch", "sendRun"} => s = r

\* The sessions of a task nobody submitted are nowhere.
UnsubmittedInv ==
  \A t \in Task : status[t] = "none" => \A s \in SessionsOf[t] : place[s] = "none"

\* A stage behind the one whose queue is closed stays drained.
DrainedInv ==
  /\ Reached("run") => PoolDrained("init")
  /\ Reached("post") => PoolDrained("run")

\* A completed task has had a report of each of its sessions.
CountedInv == \A t \in Task : status[t] = "completed" => SessionsOf[t] \subseteq reported

GatewayInv ==
  /\ GatewayTypeOK /\ QueuesInv /\ PoolsInv /\ DispatcherInv
  /\ UnsubmittedInv /\ DrainedInv /\ CountedInv

(***************************************************************************)
(* Facts about the constants and about queues.                             *)
(***************************************************************************)
QueuePlaces == {"initQ", "readyQ", "runQ", "postQ"}
Pools == {"init", "run", "post"}
Dispatching == {"dispatch", "sendRun"}

\* The sizes of newStagePool, and the places of the stages.
LEMMA StageFacts ==
  /\ DOMAIN Workers = Pools
  /\ \A p \in Pools : p \in Stage /\ Workers[p] \in Nat \ {0}
  /\ \A p \in Stage : Capacity[p] \in Nat \ {0}
  /\ \A p \in Stage : QueuePlace[p] \in QueuePlaces
  /\ \A p, r \in Stage : QueuePlace[p] = QueuePlace[r] => p = r
  /\ Busy["init"] = {"init"} /\ Busy["run"] = {"run", "ran", "sendPost"}
  /\ Busy["post"] = {"post"}
  /\ QueuePlace["init"] = "initQ" /\ QueuePlace["ready"] = "readyQ"
  /\ QueuePlace["run"] = "runQ" /\ QueuePlace["post"] = "postQ"
<1>1. /\ InitWorkers \in Nat \ {0} /\ RunWorkers \in Nat \ {0}
      /\ PostWorkers \in Nat \ {0} /\ ReadyBuffer \in Nat \ {0}
  BY SizesAssumption
<1>2. /\ DOMAIN Workers = Pools
      /\ \A p \in Pools : p \in Stage /\ Workers[p] \in Nat \ {0}
  BY <1>1 DEF Workers, Pools, Stage
<1>3. \A p \in Stage : Capacity[p] \in Nat \ {0}
  BY <1>1 DEF Capacity, Workers, Stage, Max2
<1> QED
  BY <1>2, <1>3 DEF QueuePlace, QueuePlaces, Stage, Busy

\* How far Close has come when it has closed a stage's queue.
LEMMA ReachedFacts ==
  /\ Reached("cancelled") <=> closing \in {"cancelled", "init", "run", "post", "ready", "closed"}
  /\ Reached("init") <=> closing \in {"init", "run", "post", "ready", "closed"}
  /\ Reached("run") <=> closing \in {"run", "post", "ready", "closed"}
  /\ Reached("post") <=> closing \in {"post", "ready", "closed"}
  /\ Reached("ready") <=> closing \in {"ready", "closed"}
  /\ From["run"] = {"run", "post", "ready", "closed"}
  /\ From["post"] = {"post", "ready", "closed"}
  /\ SeqRange(CloseStep) = {"open", "cancelled", "init", "run", "post", "ready", "closed"}
<1>1. DOMAIN CloseStep = 1..7
  BY DEF CloseStep
<1>2. /\ CloseStep[1] = "open" /\ CloseStep[2] = "cancelled" /\ CloseStep[3] = "init"
      /\ CloseStep[4] = "run" /\ CloseStep[5] = "post" /\ CloseStep[6] = "ready"
      /\ CloseStep[7] = "closed"
  BY DEF CloseStep
<1>3. 1..7 = {1, 2, 3, 4, 5, 6, 7}
  OBVIOUS
<1>4. SeqRange(CloseStep) = {"open", "cancelled", "init", "run", "post", "ready", "closed"}
  BY <1>1, <1>2, <1>3 DEF SeqRange
<1>5. ASSUME NEW step \in SeqRange(CloseStep), NEW k \in 1..7, CloseStep[k] = step
      PROVE  From[step] = {CloseStep[j] : j \in k..7}
  <2>1. {j \in DOMAIN CloseStep : \E i \in 1..j : CloseStep[i] = step} = k..7
    <3>1. ASSUME NEW j \in 1..7, NEW i \in 1..j, CloseStep[i] = step PROVE i = k
      <4>1. i \in {1, 2, 3, 4, 5, 6, 7} /\ k \in {1, 2, 3, 4, 5, 6, 7}
        BY <1>3, <3>1
      <4> QED
        BY <1>2, <1>5, <3>1, <4>1
    <3> QED
      BY <1>1, <1>5, <3>1
  <2> QED
    BY Zenon, <2>1 DEF From
<1>6. /\ 2..7 = {2, 3, 4, 5, 6, 7} /\ 3..7 = {3, 4, 5, 6, 7} /\ 4..7 = {4, 5, 6, 7}
      /\ 5..7 = {5, 6, 7} /\ 6..7 = {6, 7}
  OBVIOUS
<1>7. /\ From["cancelled"] = {CloseStep[j] : j \in 2..7}
      /\ From["init"] = {CloseStep[j] : j \in 3..7}
      /\ From["run"] = {CloseStep[j] : j \in 4..7}
      /\ From["post"] = {CloseStep[j] : j \in 5..7}
      /\ From["ready"] = {CloseStep[j] : j \in 6..7}
  BY <1>2, <1>3, <1>4, <1>5
<1>8. Reached("cancelled") <=> closing \in {"cancelled", "init", "run", "post", "ready", "closed"}
  BY <1>2, <1>6, <1>7 DEF Reached
<1>9. Reached("init") <=> closing \in {"init", "run", "post", "ready", "closed"}
  BY <1>2, <1>6, <1>7 DEF Reached
<1>10. Reached("run") <=> closing \in {"run", "post", "ready", "closed"}
  BY <1>2, <1>6, <1>7 DEF Reached
<1>11. /\ Reached("post") <=> closing \in {"post", "ready", "closed"}
       /\ Reached("ready") <=> closing \in {"ready", "closed"}
  BY <1>2, <1>6, <1>7 DEF Reached
<1>12. /\ From["run"] = {"run", "post", "ready", "closed"}
       /\ From["post"] = {"post", "ready", "closed"}
  BY <1>2, <1>6, <1>7
<1> QED
  BY Zenon, <1>4, <1>8, <1>9, <1>10, <1>11, <1>12

\* A session belongs to the task that TaskOf gives, and to no other.
LEMMA TaskOfFacts ==
  ASSUME NEW s \in Session
  PROVE  /\ TaskOf[s] \in Task /\ s \in SessionsOf[TaskOf[s]]
         /\ \A t \in Task : s \in SessionsOf[t] => t = TaskOf[s]
<1>1. \E t \in Task : s \in SessionsOf[t]
  BY Zenon, SessionsAssumption
<1>2. TaskOf[s] = CHOOSE t \in Task : s \in SessionsOf[t]
  BY Zenon DEF TaskOf
<1>3. TaskOf[s] \in Task /\ s \in SessionsOf[TaskOf[s]]
  BY Zenon, <1>1, <1>2
<1>4. ASSUME NEW t \in Task, s \in SessionsOf[t] PROVE t = TaskOf[s]
  <2>1. s \in SessionsOf[t] \cap SessionsOf[TaskOf[s]]
    BY Zenon, <1>3, <1>4
  <2>2. \A u, v \in Task : u # v => SessionsOf[u] \cap SessionsOf[v] = {}
    BY Zenon, SessionsAssumption
  <2> QED
    BY Zenon, <1>3, <2>1, <2>2
<1> QED
  BY Zenon, <1>3, <1>4

\* The sessions of a task are sessions.
LEMMA SessionsOfFacts == \A t \in Task : SessionsOf[t] \subseteq Session
<1> SUFFICES ASSUME NEW t \in Task PROVE SessionsOf[t] \subseteq Session
  OBVIOUS
<1>1. Sessions[t] \in Seq(Session)
  BY Zenon, SessionsAssumption
<1>2. SessionsOf[t] = SeqRange(Sessions[t])
  BY Zenon DEF SessionsOf
<1> QED
  BY <1>1, <1>2 DEF SeqRange

\* Sending to a queue adds the session to it, and keeps its sessions distinct.
LEMMA AppendFacts ==
  ASSUME NEW S, NEW q \in Seq(S), NEW x \in S
  PROVE  /\ Append(q, x) \in Seq(S)
         /\ Len(Append(q, x)) = Len(q) + 1
         /\ \A y : InQueue(Append(q, x), y) <=> InQueue(q, y) \/ y = x
         /\ Distinct(q) /\ ~InQueue(q, x) => Distinct(Append(q, x))
<1> DEFINE r == Append(q, x)
<1>1. /\ r \in Seq(S)
      /\ Len(r) = Len(q) + 1
      /\ \A i \in 1..Len(q) : r[i] = q[i]
      /\ r[Len(q) + 1] = x
      /\ Len(q) \in Nat
  OBVIOUS
<1> HIDE DEF r
<1>2. \A y : InQueue(r, y) <=> InQueue(q, y) \/ y = x
  <2> SUFFICES ASSUME NEW y PROVE InQueue(r, y) <=> InQueue(q, y) \/ y = x
    OBVIOUS
  <2>1. ASSUME InQueue(r, y) PROVE InQueue(q, y) \/ y = x
    BY <1>1, <2>1 DEF InQueue
  <2>2. ASSUME InQueue(q, y) PROVE InQueue(r, y)
    BY <1>1, <2>2 DEF InQueue
  <2>3. InQueue(r, x)
    BY <1>1 DEF InQueue
  <2> QED
    BY Zenon, <2>1, <2>2, <2>3
<1>3. ASSUME Distinct(q), ~InQueue(q, x) PROVE Distinct(r)
  BY <1>1, <1>3 DEF Distinct, InQueue
<1> QED
  BY Zenon, <1>1, <1>2, <1>3 DEF r

\* Receiving from a queue takes its first session out of it, and only that one.
LEMMA TailFacts ==
  ASSUME NEW S, NEW q \in Seq(S), q # <<>>, Distinct(q)
  PROVE  /\ Head(q) \in S
         /\ InQueue(q, Head(q))
         /\ Tail(q) \in Seq(S)
         /\ Len(Tail(q)) = Len(q) - 1
         /\ \A y : InQueue(Tail(q), y) <=> InQueue(q, y) /\ y # Head(q)
         /\ Distinct(Tail(q))
<1> DEFINE r == Tail(q)
           h == Head(q)
<1>1. /\ r \in Seq(S)
      /\ Len(q) \in Nat \ {0}
      /\ Len(r) = Len(q) - 1
      /\ \A i \in 1..Len(r) : r[i] = q[i + 1]
      /\ h = q[1]
      /\ h \in S
  OBVIOUS
<1> HIDE DEF r, h
<1>2. InQueue(q, h)
  BY <1>1 DEF InQueue
<1>3. Distinct(r)
  BY <1>1 DEF Distinct
<1>4. \A y : InQueue(r, y) <=> InQueue(q, y) /\ y # h
  <2> SUFFICES ASSUME NEW y PROVE InQueue(r, y) <=> InQueue(q, y) /\ y # h
    OBVIOUS
  <2>1. ASSUME InQueue(r, y) PROVE InQueue(q, y) /\ y # h
    <3>1. PICK i \in 1..Len(r) : r[i] = y
      BY Zenon, <2>1 DEF InQueue
    <3>2. i + 1 \in 1..Len(q) /\ q[i + 1] = y
      BY <1>1, <3>1
    <3>3. i + 1 # 1
      BY <3>1
    <3> QED
      BY <1>1, <3>2, <3>3 DEF InQueue, Distinct
  <2>2. ASSUME InQueue(q, y), y # h PROVE InQueue(r, y)
    <3>1. PICK i \in 1..Len(q) : q[i] = y
      BY Zenon, <2>2 DEF InQueue
    <3>2. i - 1 \in 1..Len(r) /\ r[i - 1] = y
      BY <1>1, <2>2, <3>1
    <3> QED
      BY Zenon, <3>2 DEF InQueue
  <2> QED
    BY Zenon, <2>1, <2>2
<1> QED
  BY Zenon, <1>1, <1>2, <1>3, <1>4 DEF r, h

\* A queue of distinct sessions has as many members as its length.
LEMMA DistinctCount ==
  ASSUME NEW S, NEW q \in Seq(S), Distinct(q)
  PROVE  Cardinality(SeqRange(q)) = Len(q)
<1>1. Len(q) \in Nat /\ DOMAIN q = 1..Len(q)
  OBVIOUS
<1>2. q \in Injection(1..Len(q), SeqRange(q))
  <2>1. q \in [1..Len(q) -> SeqRange(q)]
    BY <1>1 DEF SeqRange
  <2>2. IsInjective(q)
    BY Zenon, <1>1 DEF Distinct, IsInjective
  <2> QED BY Zenon, <2>1, <2>2 DEF Injection
<1>3. q \in Surjection(1..Len(q), SeqRange(q))
  <2>1. q \in [1..Len(q) -> SeqRange(q)]
    BY Zenon, <1>2 DEF Injection
  <2>2. \A t \in SeqRange(q) : \E i \in 1..Len(q) : q[i] = t
    BY Zenon, <1>1 DEF SeqRange
  <2> QED BY Zenon, <2>1, <2>2 DEF Surjection
<1>4. ExistsBijection(1..Len(q), SeqRange(q))
  BY Zenon, <1>2, <1>3 DEF ExistsBijection, Bijection
<1>5. IsFiniteSet(1..Len(q)) /\ Cardinality(1..Len(q)) = Len(q)
  <2>1. /\ IsFiniteSet(1..Len(q))
        /\ Cardinality(1..Len(q)) = IF 1 > Len(q) THEN 0 ELSE Len(q) - 1 + 1
    <3>1. 1 \in Int /\ Len(q) \in Int
      BY <1>1
    <3> QED BY Zenon, <3>1, FS_Interval
  <2> QED BY <1>1, <2>1
<1> QED BY Zenon, <1>4, <1>5, FS_Bijection

(***************************************************************************)
(* The steps of the gateway, by what they do to a session's place.         *)
(***************************************************************************)
Shift(s, b) == place' = [place EXCEPT ![s] = b]

StageInv == QueuesInv /\ PoolsInv /\ DispatcherInv /\ DrainedInv

\* Where the sessions are after one has moved.
LEMMA ShiftFacts ==
  ASSUME GatewayTypeOK, NEW s \in Session, NEW b \in Place, Shift(s, b)
  PROVE  /\ place' \in [Session -> Place]
         /\ place'[s] = b
         /\ \A r \in Session : r # s => place'[r] = place[r]
BY Zenon DEF GatewayTypeOK, Shift

\* A pool's workers stay within their number when one takes a job only if it is free.
LEMMA PoolStep ==
  ASSUME GatewayTypeOK, NEW s \in Session, NEW b \in Place, Shift(s, b),
         NEW p \in Pools, IsFiniteSet(AtWork(p)), Cardinality(AtWork(p)) <= Workers[p],
         b \in Busy[p] => place[s] \in Busy[p] \/ Cardinality(AtWork(p)) < Workers[p]
  PROVE  /\ IsFiniteSet(AtWork(p)') /\ Cardinality(AtWork(p)') <= Workers[p]
         /\ AtWork(p)' \subseteq AtWork(p) \cup {s}
         /\ (b \in Busy[p] => place[s] \in Busy[p]) => AtWork(p)' \subseteq AtWork(p)
<1>1. PICK W, V : W = AtWork(p) /\ V = AtWork(p)'
  BY Zenon
<1>2. V \subseteq W \cup {s}
  BY Zenon, <1>1, ShiftFacts DEF AtWork
<1>3. ASSUME b \in Busy[p] => place[s] \in Busy[p] PROVE V \subseteq W
  BY Zenon, <1>1, <1>3, ShiftFacts DEF AtWork
<1>4. IsFiniteSet(W) /\ Cardinality(W) \in Nat /\ Workers[p] \in Nat
  BY <1>1, FS_CardinalityType, StageFacts
<1>5. CASE V \subseteq W
  <2>1. IsFiniteSet(V) /\ Cardinality(V) \in Nat /\ Cardinality(V) <= Cardinality(W)
    BY Zenon, <1>4, <1>5, FS_Subset, FS_CardinalityType
  <2>2. Cardinality(V) <= Workers[p]
    BY <1>1, <1>4, <2>1
  <2> QED BY Zenon, <1>1, <1>5, <2>1, <2>2
<1>6. CASE ~(V \subseteq W)
  <2>1. Cardinality(W) < Workers[p]
    BY Zenon, <1>1, <1>3, <1>6
  <2>2. s \notin W
    BY Zenon, <1>2, <1>6
  <2>3. IsFiniteSet(W \cup {s}) /\ Cardinality(W \cup {s}) = Cardinality(W) + 1
    BY Zenon, <1>4, <2>2, FS_AddElement
  <2>4. IsFiniteSet(V) /\ Cardinality(V) \in Nat /\ Cardinality(V) <= Cardinality(W \cup {s})
    BY Zenon, <1>2, <2>3, FS_Subset, FS_CardinalityType
  <2>5. Cardinality(V) <= Workers[p]
    BY <1>4, <2>1, <2>3, <2>4
  <2> QED BY Zenon, <1>1, <1>2, <1>3, <2>4, <2>5
<1> QED BY Zenon, <1>5, <1>6

\* A session that is in no queue moves to where it is in no queue: the queues
\* still hold what they should.
LEMMA QueuesKept ==
  ASSUME GatewayTypeOK, QueuesInv, NEW s \in Session, NEW b \in Place, Shift(s, b),
         queue' = queue, place[s] \notin QueuePlaces, b \notin QueuePlaces
  PROVE  QueuesInv'
<1> SUFFICES ASSUME NEW p \in Stage PROVE QueueMatches(p, queue[p], place')
  BY Zenon DEF QueuesInv
<1>1. QueueMatches(p, queue[p], place)
  BY Zenon DEF QueuesInv
<1>2. QueuePlace[p] \in QueuePlaces
  BY Zenon, StageFacts
<1>3. ASSUME NEW r \in Session PROVE place'[r] = QueuePlace[p] <=> place[r] = QueuePlace[p]
  BY Zenon, <1>2, ShiftFacts
<1> QED BY Zenon, <1>1, <1>3 DEF QueueMatches

\* A session is appended to the queue of the stage it moves to.
LEMMA QueuesSent ==
  ASSUME GatewayTypeOK, QueuesInv, NEW s \in Session, NEW p \in Stage,
         Shift(s, QueuePlace[p]), QueuePlace[p] \in Place,
         place[s] \notin QueuePlaces, Len(queue[p]) < Capacity[p],
         queue' = [queue EXCEPT ![p] = Append(@, s)]
  PROVE  QueuesInv' /\ queue' \in [Stage -> Seq(Session)]
<1>1. \A r \in Stage : queue[r] \in Seq(Session)
  BY Zenon DEF GatewayTypeOK
<1>2. /\ queue' \in [Stage -> Seq(Session)]
      /\ queue'[p] = Append(queue[p], s)
      /\ \A r \in Stage : r # p => queue'[r] = queue[r]
  <2>1. Append(queue[p], s) \in Seq(Session)
    BY Zenon, <1>1, AppendFacts
  <2> QED BY Zenon, <2>1 DEF GatewayTypeOK
<1>3. \A r \in Stage : QueueMatches(r, queue[r], place) /\ QueuePlace[r] \in QueuePlaces
  BY Zenon, StageFacts DEF QueuesInv
<1>4. QueueMatches(p, queue'[p], place')
  <2>1. ~InQueue(queue[p], s)
    BY Zenon, <1>3 DEF QueueMatches
  <2>2. /\ Len(queue'[p]) = Len(queue[p]) + 1
        /\ \A y : InQueue(queue'[p], y) <=> InQueue(queue[p], y) \/ y = s
        /\ Distinct(queue'[p])
    <3>1. queue[p] \in Seq(Session) /\ Distinct(queue[p])
      BY Zenon, <1>1, <1>3 DEF QueueMatches
    <3> QED BY Zenon, <1>2, <2>1, <3>1, AppendFacts
  <2>3. Len(queue'[p]) <= Capacity[p]
    BY <1>1, <2>2, StageFacts
  <2>4. ASSUME NEW y \in Session PROVE InQueue(queue'[p], y) <=> place'[y] = QueuePlace[p]
    <3>1. InQueue(queue[p], y) <=> place[y] = QueuePlace[p]
      BY Zenon, <1>3 DEF QueueMatches
    <3>2. place'[s] = QueuePlace[p] /\ (y # s => place'[y] = place[y])
      BY Zenon, ShiftFacts
    <3> QED BY Zenon, <2>2, <3>1, <3>2
  <2> QED BY Zenon, <2>2, <2>3, <2>4 DEF QueueMatches
<1>5. ASSUME NEW r \in Stage, r # p PROVE QueueMatches(r, queue'[r], place')
  <2>1. QueuePlace[r] # QueuePlace[p]
    BY Zenon, <1>5, StageFacts
  <2>2. ASSUME NEW y \in Session PROVE place'[y] = QueuePlace[r] <=> place[y] = QueuePlace[r]
    BY Zenon, <1>3, <2>1, ShiftFacts
  <2> QED BY Zenon, <1>2, <1>3, <1>5, <2>2 DEF QueueMatches
<1> QED BY Zenon, <1>2, <1>4, <1>5 DEF QueuesInv

\* The first session of a queue leaves it, and is in no queue afterwards.
LEMMA QueuesReceived ==
  ASSUME GatewayTypeOK, QueuesInv, NEW p \in Stage, queue[p] # <<>>, NEW b \in Place,
         b \notin QueuePlaces, Shift(Head(queue[p]), b),
         queue' = [queue EXCEPT ![p] = Tail(@)]
  PROVE  /\ QueuesInv' /\ queue' \in [Stage -> Seq(Session)]
         /\ Head(queue[p]) \in Session /\ place[Head(queue[p])] = QueuePlace[p]
<1>1. \A r \in Stage : queue[r] \in Seq(Session)
  BY Zenon DEF GatewayTypeOK
<1>2. \A r \in Stage : QueueMatches(r, queue[r], place) /\ QueuePlace[r] \in QueuePlaces
  BY Zenon, StageFacts DEF QueuesInv
<1>3. PICK h : h = Head(queue[p])
  BY Zenon
<1>4. /\ h \in Session
      /\ InQueue(queue[p], h)
      /\ Tail(queue[p]) \in Seq(Session)
      /\ Len(Tail(queue[p])) = Len(queue[p]) - 1
      /\ \A y : InQueue(Tail(queue[p]), y) <=> InQueue(queue[p], y) /\ y # h
      /\ Distinct(Tail(queue[p]))
  <2>1. queue[p] \in Seq(Session) /\ Distinct(queue[p])
    BY Zenon, <1>1, <1>2 DEF QueueMatches
  <2> QED BY Zenon, <1>3, <2>1, TailFacts
<1>5. /\ queue' \in [Stage -> Seq(Session)]
      /\ queue'[p] = Tail(queue[p])
      /\ \A r \in Stage : r # p => queue'[r] = queue[r]
  BY Zenon, <1>4 DEF GatewayTypeOK
<1>6. place[h] = QueuePlace[p]
  BY Zenon, <1>2, <1>4 DEF QueueMatches
<1>7. Shift(h, b)
  BY Zenon, <1>3
<1>8. QueueMatches(p, queue'[p], place')
  <2>1. Len(queue'[p]) <= Capacity[p]
    <3>1. Len(queue[p]) <= Capacity[p] /\ Len(queue[p]) \in Nat /\ Capacity[p] \in Nat
      BY <1>1, <1>2, StageFacts DEF QueueMatches
    <3> QED BY <1>4, <1>5, <3>1
  <2>2. ASSUME NEW y \in Session PROVE InQueue(queue'[p], y) <=> place'[y] = QueuePlace[p]
    <3>1. InQueue(queue[p], y) <=> place[y] = QueuePlace[p]
      BY Zenon, <1>2 DEF QueueMatches
    <3>2. place'[h] = b /\ (y # h => place'[y] = place[y]) /\ b # QueuePlace[p]
      BY Zenon, <1>2, <1>4, <1>7, ShiftFacts
    <3> QED BY Zenon, <1>4, <1>5, <3>1, <3>2
  <2> QED BY Zenon, <1>4, <1>5, <2>1, <2>2 DEF QueueMatches
<1>9. ASSUME NEW r \in Stage, r # p PROVE QueueMatches(r, queue'[r], place')
  <2>1. QueuePlace[r] # QueuePlace[p]
    BY Zenon, <1>9, StageFacts
  <2>2. ASSUME NEW y \in Session PROVE place'[y] = QueuePlace[r] <=> place[y] = QueuePlace[r]
    BY Zenon, <1>2, <1>4, <1>6, <1>7, <2>1, ShiftFacts
  <2> QED BY Zenon, <1>2, <1>5, <1>9, <2>2 DEF QueueMatches
<1> QED BY Zenon, <1>3, <1>4, <1>5, <1>6, <1>8, <1>9 DEF QueuesInv

\* Close goes forward only, so a stage it has reached lies behind.
LEMMA ReachedOrder ==
  /\ Reached("run") => Reached("init")
  /\ Reached("post") => Reached("run")
  /\ Reached("ready") => Reached("post")
  /\ closing' = closing => \A p \in {"cancelled", "init", "run", "post", "ready"} :
                              Reached(p)' <=> Reached(p)
<1>1. /\ Reached("run") => Reached("init")
      /\ Reached("post") => Reached("run")
      /\ Reached("ready") => Reached("post")
  BY ReachedFacts
<1>2. ASSUME closing' = closing, NEW p \in {"cancelled", "init", "run", "post", "ready"}
      PROVE  Reached(p)' <=> Reached(p)
  BY Zenon, <1>2 DEF Reached
<1> QED BY Zenon, <1>1, <1>2

\* Stages that Close has left behind stay drained while no job enters them.
LEMMA DrainedKept ==
  ASSUME DrainedInv, closing' = closing,
         \A p \in {"init", "run"} :
           PoolDrained(p) /\ Reached(IF p = "init" THEN "run" ELSE "post") => PoolDrained(p)'
  PROVE  DrainedInv'
<1>1. /\ Reached("run")' <=> Reached("run")
      /\ Reached("post")' <=> Reached("post")
  BY Zenon, ReachedOrder
<1>2. /\ PoolDrained("init") /\ Reached("run") => PoolDrained("init")'
      /\ PoolDrained("run") /\ Reached("post") => PoolDrained("run")'
  <2>1. "init" # "run" /\ "init" \in {"init", "run"} /\ "run" \in {"init", "run"}
    OBVIOUS
  <2> QED BY Zenon, <2>1
<1> QED BY Zenon, <1>1, <1>2 DEF DrainedInv

\* A session changes place outside the queues, with the same worker or with none.
LEMMA MoveStep ==
  ASSUME GatewayTypeOK, StageInv, NEW s \in Session, NEW b \in Place, Shift(s, b),
         queue' = queue, closing' = closing,
         place[s] \notin QueuePlaces, b \notin QueuePlaces,
         \A p \in Pools : b \in Busy[p] => place[s] \in Busy[p],
         b \in Dispatching => place[s] \in Dispatching
  PROVE  StageInv'
<1>1. QueuesInv'
  BY Zenon, QueuesKept DEF StageInv
<1>2. ASSUME NEW p \in Pools
      PROVE  /\ IsFiniteSet(AtWork(p)') /\ Cardinality(AtWork(p)') <= Workers[p]
             /\ AtWork(p)' \subseteq AtWork(p)
  <2>1. IsFiniteSet(AtWork(p)) /\ Cardinality(AtWork(p)) <= Workers[p]
    BY Zenon, StageFacts DEF StageInv, PoolsInv
  <2> QED BY Zenon, <2>1, PoolStep
<1>3. PoolsInv'
  BY Zenon, <1>2, StageFacts DEF PoolsInv
<1>4. DispatcherInv'
  <2> SUFFICES ASSUME NEW x \in Session, NEW y \in Session,
                      place'[x] \in Dispatching, place'[y] \in Dispatching
               PROVE  x = y
    BY Zenon DEF DispatcherInv, Dispatching
  <2>1. place[x] \in Dispatching /\ place[y] \in Dispatching
    BY Zenon, ShiftFacts
  <2> QED BY Zenon, <2>1 DEF StageInv, DispatcherInv, Dispatching
<1>5. DrainedInv'
  <2>1. ASSUME NEW p \in {"init", "run"}, PoolDrained(p) PROVE PoolDrained(p)'
    <3>1. p \in Pools
      BY <2>1 DEF Pools
    <3> QED BY Zenon, <1>2, <2>1, <3>1 DEF PoolDrained
  <2> QED BY Zenon, <2>1, DrainedKept DEF StageInv
<1> QED BY Zenon, <1>1, <1>3, <1>4, <1>5 DEF StageInv

\* A session is sent on a queue, is given up because the gateway is cancelled, or
\* finds the queue closed.
LEMMA SendStep ==
  ASSUME GatewayTypeOK, StageInv, NEW s \in Session, NEW a \in Place, NEW p \in Stage,
         Send(s, a, p, QueuePlace[p]), closing' = closing,
         QueuePlace[p] \in Place, a \notin QueuePlaces
  PROVE  /\ StageInv' /\ queue' \in [Stage -> Seq(Session)]
         /\ place[s] = a
         /\ \E b \in Place : Shift(s, b)
<1>1. place[s] = a
  BY Zenon DEF Send, Move
<1>2. CASE Shift(s, "dropped") /\ queue' = queue
  <2>1. /\ "dropped" \in Place /\ "dropped" \notin QueuePlaces /\ "dropped" \notin Dispatching
        /\ \A r \in Pools : "dropped" \notin Busy[r]
    BY StageFacts DEF Place, QueuePlaces, Dispatching, Pools
  <2>2. StageInv'
    BY Zenon, <1>1, <1>2, <2>1, MoveStep
  <2> QED BY Zenon, <1>1, <1>2, <2>1, <2>2 DEF GatewayTypeOK
<1>3. CASE /\ ~Closed(p) /\ Len(queue[p]) < Capacity[p] /\ Shift(s, QueuePlace[p])
           /\ queue' = [queue EXCEPT ![p] = Append(@, s)]
  <2>1. QueuesInv' /\ queue' \in [Stage -> Seq(Session)]
    BY Zenon, <1>1, <1>3, QueuesSent DEF StageInv
  <2>2. QueuePlace[p] \notin Dispatching /\ \A r \in Pools : QueuePlace[p] \notin Busy[r]
    BY StageFacts DEF QueuePlaces, Dispatching, Pools
  <2>3. ASSUME NEW r \in Pools
        PROVE  /\ IsFiniteSet(AtWork(r)') /\ Cardinality(AtWork(r)') <= Workers[r]
               /\ AtWork(r)' \subseteq AtWork(r)
    <3>1. IsFiniteSet(AtWork(r)) /\ Cardinality(AtWork(r)) <= Workers[r]
      BY Zenon, StageFacts DEF StageInv, PoolsInv
    <3> QED BY Zenon, <1>3, <2>2, <3>1, PoolStep
  <2>4. PoolsInv'
    BY Zenon, <2>3, StageFacts DEF PoolsInv
  <2>5. DispatcherInv'
    <3> SUFFICES ASSUME NEW x \in Session, NEW y \in Session,
                        place'[x] \in Dispatching, place'[y] \in Dispatching
                 PROVE  x = y
      BY Zenon DEF DispatcherInv, Dispatching
    <3>1. place[x] \in Dispatching /\ place[y] \in Dispatching
      BY Zenon, <1>3, <2>2, ShiftFacts
    <3> QED BY Zenon, <3>1 DEF StageInv, DispatcherInv, Dispatching
  <2>6. DrainedInv'
    <3>1. ASSUME NEW r \in {"init", "run"}, PoolDrained(r),
                 Reached(IF r = "init" THEN "run" ELSE "post")
          PROVE  PoolDrained(r)'
      <4>1. r \in Pools /\ r \in Stage
        BY <3>1 DEF Pools, Stage
      <4>2. Reached(r)
        BY <3>1, ReachedOrder
      <4>3. r # p
        BY Zenon, <1>3, <4>2 DEF Closed
      <4>4. queue'[r] = queue[r]
        BY Zenon, <1>3, <4>1, <4>3 DEF GatewayTypeOK
      <4> QED BY Zenon, <2>3, <3>1, <4>1, <4>4 DEF PoolDrained
    <3> QED BY Zenon, <3>1, DrainedKept DEF StageInv
  <2> QED BY Zenon, <1>1, <1>3, <2>1, <2>4, <2>5, <2>6 DEF StageInv
<1> QED BY Zenon, <1>2, <1>3 DEF Send, Move, Shift

\* A worker of a pool that has a free one receives the first session of its queue.
LEMMA ReceiveStep ==
  ASSUME GatewayTypeOK, StageInv, NEW p \in Pools, NEW b \in Place, Receive(p, b),
         b \in Busy[p], closing' = closing
  PROVE  /\ StageInv' /\ queue' \in [Stage -> Seq(Session)]
         /\ \E s \in Session : place[s] \in QueuePlaces /\ Shift(s, b)
<1>1. PICK s : s = Head(queue[p])
  BY Zenon
<1>2. /\ queue[p] # <<>> /\ Cardinality(AtWork(p)) < Workers[p]
      /\ Shift(s, b) /\ queue' = [queue EXCEPT ![p] = Tail(@)]
  BY Zenon, <1>1 DEF Receive, Move, Shift
<1>3. /\ b \notin QueuePlaces /\ b \notin Dispatching
      /\ \A r \in Pools : b \in Busy[r] => r = p
      /\ p \in Stage
  BY StageFacts DEF QueuePlaces, Dispatching, Pools, Stage
<1>4. /\ QueuesInv' /\ queue' \in [Stage -> Seq(Session)]
      /\ s \in Session /\ place[s] = QueuePlace[p]
  BY Zenon, <1>1, <1>2, <1>3, QueuesReceived DEF StageInv
<1>5. place[s] \in QueuePlaces
  BY Zenon, <1>3, <1>4, StageFacts
<1>6. ASSUME NEW r \in Pools
      PROVE  /\ IsFiniteSet(AtWork(r)') /\ Cardinality(AtWork(r)') <= Workers[r]
             /\ r # p => AtWork(r)' \subseteq AtWork(r)
  <2>1. IsFiniteSet(AtWork(r)) /\ Cardinality(AtWork(r)) <= Workers[r]
    BY Zenon, StageFacts DEF StageInv, PoolsInv
  <2> QED BY Zenon, <1>2, <1>3, <1>4, <2>1, PoolStep
<1>7. PoolsInv'
  BY Zenon, <1>6, StageFacts DEF PoolsInv
<1>8. DispatcherInv'
  <2> SUFFICES ASSUME NEW x \in Session, NEW y \in Session,
                      place'[x] \in Dispatching, place'[y] \in Dispatching
               PROVE  x = y
    BY Zenon DEF DispatcherInv, Dispatching
  <2>1. place[x] \in Dispatching /\ place[y] \in Dispatching
    BY Zenon, <1>2, <1>3, <1>4, ShiftFacts
  <2> QED BY Zenon, <2>1 DEF StageInv, DispatcherInv, Dispatching
<1>9. DrainedInv'
  <2>1. ASSUME NEW r \in {"init", "run"}, PoolDrained(r) PROVE PoolDrained(r)'
    <3>1. r \in Pools /\ r \in Stage
      BY <2>1 DEF Pools, Stage
    <3>2. r # p
      BY Zenon, <1>2, <2>1 DEF PoolDrained
    <3>3. queue'[r] = queue[r]
      BY Zenon, <1>2, <3>1, <3>2 DEF GatewayTypeOK
    <3> QED BY Zenon, <1>6, <2>1, <3>1, <3>2, <3>3 DEF PoolDrained
  <2> QED BY Zenon, <2>1, DrainedKept DEF StageInv
<1> QED BY Zenon, <1>2, <1>4, <1>5, <1>7, <1>8, <1>9 DEF StageInv

\* A move of a submitted session leaves the others where they were.
LEMMA UnsubmittedKept ==
  ASSUME GatewayTypeOK, UnsubmittedInv, NEW s \in Session, NEW b \in Place, Shift(s, b),
         place[s] # "none", \A t \in Task : status'[t] = "none" => status[t] = "none"
  PROVE  UnsubmittedInv'
<1> SUFFICES ASSUME NEW t \in Task, status'[t] = "none", NEW r \in SessionsOf[t]
             PROVE  place'[r] = "none"
  BY Zenon DEF UnsubmittedInv
<1>1. r \in Session /\ place[r] = "none"
  BY Zenon, SessionsOfFacts DEF UnsubmittedInv
<1> QED BY Zenon, <1>1, ShiftFacts

\* What a step does that only moves a session, whatever it does to the queues.
LEMMA HandStep ==
  ASSUME GatewayInv, StageInv', queue' \in [Stage -> Seq(Session)],
         NEW s \in Session, NEW b \in Place, Shift(s, b), place[s] # "none",
         UNCHANGED <<status, reported, closing>>
  PROVE  GatewayInv'
<1>1. GatewayTypeOK'
  BY Zenon, ShiftFacts DEF GatewayInv, GatewayTypeOK
<1>2. UnsubmittedInv'
  BY Zenon, UnsubmittedKept DEF GatewayInv
<1>3. CountedInv'
  BY Zenon DEF GatewayInv, CountedInv
<1> QED BY Zenon, <1>1, <1>2, <1>3 DEF GatewayInv, StageInv

\* The invariant says of the stages what StageInv says.
LEMMA InvStage == GatewayInv => GatewayTypeOK /\ StageInv
BY Zenon DEF GatewayInv, StageInv

\* A handler that moves a session on without a queue.
LEMMA HandlerMove ==
  ASSUME GatewayInv, NEW s \in Session, NEW a \in Place, NEW b \in Place, Move(s, a, b),
         UNCHANGED <<status, reported, queue, closing>>,
         a \notin QueuePlaces, b \notin QueuePlaces, a # "none",
         \A p \in Pools : b \in Busy[p] => a \in Busy[p],
         b \in Dispatching => a \in Dispatching
  PROVE  GatewayInv'
<1>1. Shift(s, b) /\ place[s] = a
  BY Zenon DEF Move, Shift
<1>2. StageInv'
  BY Zenon, <1>1, InvStage, MoveStep
<1>3. queue' \in [Stage -> Seq(Session)]
  BY Zenon, InvStage DEF GatewayTypeOK
<1> QED BY Zenon, <1>1, <1>2, <1>3, HandStep

\* A handler that sends a session on.
LEMMA HandlerSend ==
  ASSUME GatewayInv, NEW s \in Session, NEW a \in Place, NEW p \in Stage, NEW b \in Place,
         b = QueuePlace[p], Send(s, a, p, b), UNCHANGED <<status, reported, closing>>,
         a \notin QueuePlaces, a # "none"
  PROVE  GatewayInv'
<1>1. /\ StageInv' /\ queue' \in [Stage -> Seq(Session)]
      /\ place[s] = a
      /\ \E c \in Place : Shift(s, c)
  BY Zenon, InvStage, SendStep
<1> QED BY Zenon, <1>1, HandStep

\* A worker that takes a session.
LEMMA HandlerReceive ==
  ASSUME GatewayInv, NEW p \in Pools, NEW b \in Place, Receive(p, b), b \in Busy[p],
         UNCHANGED <<status, reported, closing>>
  PROVE  GatewayInv'
<1>1. /\ StageInv' /\ queue' \in [Stage -> Seq(Session)]
      /\ \E s \in Session : place[s] \in QueuePlaces /\ Shift(s, b)
  BY Zenon, InvStage, ReceiveStep
<1>2. PICK s \in Session : place[s] \in QueuePlaces /\ Shift(s, b)
  BY Zenon, <1>1
<1>3. place[s] # "none"
  BY <1>2 DEF QueuePlaces
<1> QED BY Zenon, <1>1, <1>2, <1>3, HandStep

\* The dispatcher takes a session from the ready queue, or stops.
LEMMA DispatchStep == ASSUME GatewayInv, DispatchReady PROVE GatewayInv'
<1>1. CASE /\ queue["ready"] # <<>>
           /\ Move(Head(queue["ready"]), "readyQ", "dispatch")
           /\ queue' = [queue EXCEPT !["ready"] = Tail(@)]
  <2>1. PICK s : s = Head(queue["ready"])
    BY Zenon
  <2>2. Shift(s, "dispatch")
    BY Zenon, <1>1, <2>1 DEF Move, Shift
  <2>3. /\ "ready" \in Stage /\ "dispatch" \in Place /\ "dispatch" \notin QueuePlaces
        /\ \A p \in Pools : "dispatch" \notin Busy[p] /\ p # "ready"
        /\ "init" \in Pools /\ "run" \in Pools
    BY StageFacts DEF Stage, Place, QueuePlaces, Pools
  <2>4. /\ QueuesInv' /\ queue' \in [Stage -> Seq(Session)]
        /\ s \in Session /\ place[s] = QueuePlace["ready"]
    BY Zenon, <1>1, <2>1, <2>2, <2>3, InvStage, QueuesReceived DEF StageInv
  <2>5. ASSUME NEW p \in Pools
        PROVE  /\ IsFiniteSet(AtWork(p)') /\ Cardinality(AtWork(p)') <= Workers[p]
               /\ AtWork(p)' \subseteq AtWork(p)
    <3>1. IsFiniteSet(AtWork(p)) /\ Cardinality(AtWork(p)) <= Workers[p]
      BY Zenon, StageFacts DEF GatewayInv, PoolsInv
    <3> QED BY Zenon, <2>2, <2>3, <2>4, <3>1, InvStage, PoolStep
  <2>6. PoolsInv'
    BY Zenon, <2>5, StageFacts DEF PoolsInv
  <2>7. DispatcherInv'
    <3>1. \A x \in Session : place'[x] \in Dispatching => x = s
      BY Zenon, <2>2, <2>3, <2>4, InvStage, ShiftFacts DEF DispatchReady, Dispatching
    <3> QED BY Zenon, <3>1 DEF DispatcherInv, Dispatching
  <2>8. DrainedInv'
    <3>1. ASSUME NEW p \in {"init", "run"}, PoolDrained(p) PROVE PoolDrained(p)'
      <4>1. p \in Pools /\ p \in Stage
        BY <3>1 DEF Pools, Stage
      <4>2. queue'[p] = queue[p]
        BY Zenon, <1>1, <2>3, <4>1, InvStage DEF GatewayTypeOK
      <4> QED BY Zenon, <2>5, <3>1, <4>1, <4>2 DEF PoolDrained
    <3>2. closing' = closing
      BY Zenon DEF DispatchReady
    <3> QED BY Zenon, <3>1, <3>2, DrainedKept DEF GatewayInv
  <2>9. place[s] # "none" /\ UNCHANGED <<status, reported, closing>>
    BY <2>4, StageFacts DEF DispatchReady, service
  <2> QED BY Zenon, <2>2, <2>3, <2>4, <2>6, <2>7, <2>8, <2>9, HandStep DEF StageInv
<1>2. CASE UNCHANGED <<place, queue>>
  <2>1. UNCHANGED <<status, reported, closing>>
    BY Zenon DEF DispatchReady, service
  <2>2. DrainedInv'
    BY Zenon, <1>2, <2>1, DrainedKept DEF GatewayInv, PoolDrained, AtWork
  <2> QED
    BY Zenon, <1>2, <2>1, <2>2 DEF GatewayInv, GatewayTypeOK, QueuesInv, PoolsInv, AtWork,
       DispatcherInv, UnsubmittedInv, CountedInv
<1> QED BY Zenon, <1>1, <1>2 DEF DispatchReady

\* Close closes a queue only when the stage before it is drained.
LEMMA CloseStepInv == ASSUME GatewayInv, Close PROVE GatewayInv'
<1>1. UNCHANGED <<status, reported, place, queue>>
  BY Zenon DEF Close, service, stages
<1>2. /\ closing' \in SeqRange(CloseStep)
      /\ Reached("run")' => Reached("run") \/ PoolDrained("init")
      /\ Reached("post")' => Reached("post") \/ PoolDrained("run")
  <2>1. /\ Reached("run")' <=> closing' \in {"run", "post", "ready", "closed"}
        /\ Reached("post")' <=> closing' \in {"post", "ready", "closed"}
    BY ReachedFacts DEF Reached
  <2> QED BY <2>1, ReachedFacts DEF Close
<1>3. DrainedInv'
  BY Zenon, <1>1, <1>2 DEF GatewayInv, DrainedInv, PoolDrained, AtWork
<1> QED
  BY Zenon, <1>1, <1>2, <1>3 DEF GatewayInv, GatewayTypeOK, QueuesInv, PoolsInv, AtWork,
     DispatcherInv, UnsubmittedInv, CountedInv

\* SubmitTask: the sessions of a new task are in no stage yet.
LEMMA AcceptTaskStep == ASSUME GatewayInv, NEW t \in Task, AcceptTask(t) PROVE GatewayInv'
<1>1. /\ status[t] = "none" /\ status' = [status EXCEPT ![t] = "running"]
      /\ place' = [s \in Session |-> IF s \in SessionsOf[t] THEN "todo" ELSE place[s]]
      /\ UNCHANGED <<reported, queue, closing>>
  BY Zenon DEF AcceptTask
<1>2. \A s \in Session :
        \/ place'[s] = place[s]
        \/ s \in SessionsOf[t] /\ place[s] = "none" /\ place'[s] = "todo"
  BY Zenon, <1>1 DEF GatewayInv, UnsubmittedInv
<1>3. GatewayTypeOK'
  <2>1. place' \in [Session -> Place]
    <3>1. "todo" \in Place /\ place \in [Session -> Place]
      BY DEF Place, GatewayInv, GatewayTypeOK
    <3> QED BY Zenon, <1>1, <3>1
  <2>2. status' \in [Task -> {"none", "running", "completed", "failed"}]
    BY <1>1 DEF GatewayInv, GatewayTypeOK
  <2> QED BY Zenon, <1>1, <2>1, <2>2 DEF GatewayInv, GatewayTypeOK
<1>4. /\ {"none", "todo"} \cap QueuePlaces = {}
      /\ {"none", "todo"} \cap Dispatching = {}
      /\ \A p \in Pools : {"none", "todo"} \cap Busy[p] = {}
  BY StageFacts DEF QueuePlaces, Dispatching, Pools
<1>5. QueuesInv'
  <2> SUFFICES ASSUME NEW p \in Stage PROVE QueueMatches(p, queue[p], place')
    BY Zenon, <1>1 DEF QueuesInv
  <2>1. QueueMatches(p, queue[p], place) /\ QueuePlace[p] \in QueuePlaces
    BY Zenon, StageFacts DEF GatewayInv, QueuesInv
  <2>2. ASSUME NEW s \in Session PROVE place'[s] = QueuePlace[p] <=> place[s] = QueuePlace[p]
    BY Zenon, <1>2, <1>4, <2>1
  <2> QED BY Zenon, <2>1, <2>2 DEF QueueMatches
<1>6. \A p \in Pools : AtWork(p)' = AtWork(p)
  <2> SUFFICES ASSUME NEW p \in Pools, NEW s \in Session
               PROVE  place'[s] \in Busy[p] <=> place[s] \in Busy[p]
    BY Zenon DEF AtWork
  <2> QED BY Zenon, <1>2, <1>4
<1>7. PoolsInv'
  BY Zenon, <1>6, StageFacts DEF GatewayInv, PoolsInv
<1>8. DispatcherInv'
  <2>1. \A s \in Session : place'[s] \in Dispatching => place[s] \in Dispatching
    BY Zenon, <1>2, <1>4
  <2> QED BY Zenon, <2>1 DEF GatewayInv, DispatcherInv, Dispatching
<1>9. DrainedInv'
  <2>1. "init" \in Pools /\ "run" \in Pools
    BY DEF Pools
  <2> QED BY Zenon, <1>1, <1>6, <2>1, DrainedKept DEF GatewayInv, PoolDrained
<1>10. UnsubmittedInv'
  <2> SUFFICES ASSUME NEW u \in Task, status'[u] = "none", NEW s \in SessionsOf[u]
               PROVE  place'[s] = "none"
    BY Zenon DEF UnsubmittedInv
  <2>1. u # t /\ status[u] = "none"
    BY <1>1 DEF GatewayInv, GatewayTypeOK
  <2>2. s \in Session /\ place[s] = "none"
    BY Zenon, <2>1, SessionsOfFacts DEF GatewayInv, UnsubmittedInv
  <2>3. s \notin SessionsOf[t]
    BY Zenon, <2>1, <2>2, TaskOfFacts
  <2> QED BY Zenon, <1>2, <2>2, <2>3
<1>11. CountedInv'
  BY <1>1 DEF GatewayInv, GatewayTypeOK, CountedInv
<1> QED BY Zenon, <1>3, <1>5, <1>7, <1>8, <1>9, <1>10, <1>11 DEF GatewayInv

\* A report completes the task when it was the last one outstanding.
LEMMA ReportStep ==
  ASSUME GatewayTypeOK, CountedInv, NEW s \in Session,
         status[TaskOf[s]] # "none", reported' = reported \cup {s},
         NEW st \in {"failed", status[TaskOf[s]], "completed"},
         st = "completed" => SessionsOf[TaskOf[s]] \subseteq reported' \/ st = status[TaskOf[s]],
         status' = [status EXCEPT ![TaskOf[s]] = st]
  PROVE  /\ CountedInv'
         /\ status' \in [Task -> {"none", "running", "completed", "failed"}]
         /\ reported' \subseteq Session
         /\ \A t \in Task : status'[t] = "none" => status[t] = "none"
<1>1. TaskOf[s] \in Task
  BY Zenon, TaskOfFacts
<1>2. st \in {"none", "running", "completed", "failed"}
  BY <1>1 DEF GatewayTypeOK
<1>3. /\ status' \in [Task -> {"none", "running", "completed", "failed"}]
      /\ reported' \subseteq Session
  BY Zenon, <1>1, <1>2 DEF GatewayTypeOK
<1>4. \A t \in Task : status'[t] = IF t = TaskOf[s] THEN st ELSE status[t]
  BY Zenon, <1>1 DEF GatewayTypeOK
<1>5. \A t \in Task : status'[t] = "none" => status[t] = "none"
  <2>1. st # "none"
    OBVIOUS
  <2> QED BY Zenon, <1>4, <2>1
<1>6. ASSUME NEW t \in Task, status'[t] = "completed" PROVE SessionsOf[t] \subseteq reported'
  BY Zenon, <1>4, <1>6 DEF CountedInv
<1> QED BY Zenon, <1>3, <1>5, <1>6 DEF CountedInv

\* CompleteSession with what the trainer sent: only the task and its reports change.
LEMMA CallbackStep == ASSUME GatewayInv, NEW s \in Session, TrainerCallback(s) PROVE GatewayInv'
<1>1. PICK st : st = IF SessionsOf[TaskOf[s]] \subseteq reported' THEN "completed"
                     ELSE status[TaskOf[s]]
  BY Zenon
<1>2. /\ status[TaskOf[s]] # "none" /\ reported' = reported \cup {s}
      /\ UNCHANGED <<place, queue, closing>>
      /\ status' = [status EXCEPT ![TaskOf[s]] = st]
  BY Zenon, <1>1 DEF TrainerCallback, stages
<1>3. /\ st \in {"failed", status[TaskOf[s]], "completed"}
      /\ st = "completed" => SessionsOf[TaskOf[s]] \subseteq reported' \/ st = status[TaskOf[s]]
  BY Zenon, <1>1
<1>4. /\ CountedInv'
      /\ status' \in [Task -> {"none", "running", "completed", "failed"}]
      /\ reported' \subseteq Session
      /\ \A t \in Task : status'[t] = "none" => status[t] = "none"
  BY Zenon, <1>2, <1>3, ReportStep DEF GatewayInv
<1>5. DrainedInv'
  BY Zenon, <1>2, DrainedKept DEF GatewayInv, PoolDrained, AtWork
<1> QED
  BY Zenon, <1>2, <1>4, <1>5 DEF GatewayInv, GatewayTypeOK, QueuesInv, PoolsInv, AtWork,
     DispatcherInv, UnsubmittedInv

\* ApplySessionOutcome: the session leaves its POSTRUN worker and reports.
LEMMA PostRunStep == ASSUME GatewayInv, NEW s \in Session, runPostRun(s) PROVE GatewayInv'
<1>1. PICK st : st = TerminalStatus(s, reported \cup {s})
  BY Zenon
<1>2. /\ place[s] = "post" /\ Shift(s, "done") /\ reported' = reported \cup {s}
      /\ UNCHANGED <<queue, closing>>
      /\ status' = [status EXCEPT ![TaskOf[s]] = st]
  BY Zenon, <1>1 DEF runPostRun, Move, Shift
<1>3. status[TaskOf[s]] # "none"
  BY <1>2, TaskOfFacts DEF GatewayInv, UnsubmittedInv
<1>4. /\ st \in {"failed", status[TaskOf[s]], "completed"}
      /\ st = "completed" => SessionsOf[TaskOf[s]] \subseteq reported' \/ st = status[TaskOf[s]]
  BY <1>1, <1>2 DEF TerminalStatus
<1>5. /\ CountedInv'
      /\ status' \in [Task -> {"none", "running", "completed", "failed"}]
      /\ reported' \subseteq Session
      /\ \A t \in Task : status'[t] = "none" => status[t] = "none"
  BY Zenon, <1>2, <1>3, <1>4, ReportStep DEF GatewayInv
<1>6. /\ "done" \in Place /\ "done" \notin QueuePlaces /\ "post" \notin QueuePlaces
      /\ "done" \notin Dispatching /\ \A p \in Pools : "done" \notin Busy[p]
      /\ "post" # "none"
  BY StageFacts DEF Place, QueuePlaces, Dispatching, Pools
<1>7. StageInv'
  BY Zenon, <1>2, <1>6, InvStage, MoveStep
<1>8. UnsubmittedInv'
  BY Zenon, <1>2, <1>5, <1>6, UnsubmittedKept DEF GatewayInv
<1>9. GatewayTypeOK'
  BY Zenon, <1>2, <1>5, <1>6, ShiftFacts DEF GatewayInv, GatewayTypeOK
<1> QED BY Zenon, <1>5, <1>7, <1>8, <1>9 DEF GatewayInv, StageInv

\* The places from and to which the handlers move a session.
LEMMA PlaceFacts ==
  /\ \A b \in {"todo", "sendInit", "init", "dispatch", "sendRun", "run", "ran", "sendPost",
               "post", "dropped"} :
       b \in Place /\ b \notin QueuePlaces /\ b # "none"
  /\ \A p \in Stage : QueuePlace[p] \in Place
  /\ \A p \in Pools : {"sendInit", "dropped", "sendRun", "dispatch"} \cap Busy[p] = {}
  /\ {"ran", "sendPost", "dropped", "sendInit"} \cap Dispatching = {}
  /\ {"run", "ran", "sendPost"} = Busy["run"]
  /\ \A p \in Pools : p # "run" => {"run", "ran", "sendPost"} \cap Busy[p] = {}
  /\ {"dispatch", "sendRun"} = Dispatching
BY StageFacts DEF Place, QueuePlaces, Pools, Dispatching, Stage

\* Every handler of a session keeps the invariant.
LEMMA HandleStep == ASSUME GatewayInv, NEW s \in Session, Handle(s) PROVE GatewayInv'
<1>1. CASE StartSession(s)
  <2>1. PICK b \in {"sendInit", "dropped"} :
          Move(s, "todo", b) /\ UNCHANGED <<status, reported, queue, closing>>
    BY <1>1 DEF StartSession, service
  <2>2. /\ "todo" \in Place /\ b \in Place /\ b \notin QueuePlaces /\ "todo" \notin QueuePlaces
        /\ "todo" # "none" /\ b \notin Dispatching /\ \A p \in Pools : b \notin Busy[p]
    BY <2>1, PlaceFacts
  <2> QED BY Zenon, <2>1, <2>2, HandlerMove
<1>2. CASE SubmitInit(s)
  <2>1. Send(s, "sendInit", "init", "initQ") /\ UNCHANGED <<status, reported, closing>>
    BY Zenon, <1>2 DEF SubmitInit, service
  <2>2. /\ "init" \in Stage /\ "initQ" = QueuePlace["init"] /\ "initQ" \in Place
        /\ "sendInit" \in Place /\ "sendInit" \notin QueuePlaces /\ "sendInit" # "none"
    BY PlaceFacts, StageFacts DEF Stage, Place
  <2> QED BY Zenon, <2>1, <2>2, HandlerSend
<1>3. CASE RunInit(s)
  <2>1. Send(s, "init", "ready", "readyQ") /\ UNCHANGED <<status, reported, closing>>
    BY Zenon, <1>3 DEF RunInit, service
  <2>2. /\ "ready" \in Stage /\ "readyQ" = QueuePlace["ready"] /\ "readyQ" \in Place
        /\ "init" \in Place /\ "init" \notin QueuePlaces /\ "init" # "none"
    BY PlaceFacts, StageFacts DEF Stage, Place
  <2> QED BY Zenon, <2>1, <2>2, HandlerSend
<1>4. CASE CheckRun(s)
  <2>1. PICK b \in {"sendRun", "dropped"} :
          Move(s, "dispatch", b) /\ UNCHANGED <<status, reported, queue, closing>>
    BY <1>4 DEF CheckRun, service
  <2>2. /\ "dispatch" \in Place /\ b \in Place /\ b \notin QueuePlaces
        /\ "dispatch" \notin QueuePlaces
        /\ "dispatch" # "none" /\ "dispatch" \in Dispatching /\ \A p \in Pools : b \notin Busy[p]
    BY <2>1, PlaceFacts
  <2> QED BY Zenon, <2>1, <2>2, HandlerMove
<1>5. CASE SubmitRun(s)
  <2>1. Send(s, "sendRun", "run", "runQ") /\ UNCHANGED <<status, reported, closing>>
    BY Zenon, <1>5 DEF SubmitRun, service
  <2>2. /\ "run" \in Stage /\ "runQ" = QueuePlace["run"] /\ "runQ" \in Place
        /\ "sendRun" \in Place /\ "sendRun" \notin QueuePlaces /\ "sendRun" # "none"
    BY PlaceFacts, StageFacts DEF Stage, Place
  <2> QED BY Zenon, <2>1, <2>2, HandlerSend
<1>6. CASE ExecuteRun(s)
  <2>1. Move(s, "run", "ran") /\ UNCHANGED <<status, reported, queue, closing>>
    BY Zenon, <1>6 DEF ExecuteRun, service
  <2>2. /\ "run" \in Place /\ "ran" \in Place /\ "ran" \notin QueuePlaces
        /\ "run" \notin QueuePlaces
        /\ "run" # "none" /\ "ran" \notin Dispatching
        /\ \A p \in Pools : "ran" \in Busy[p] => "run" \in Busy[p]
    BY PlaceFacts
  <2> QED BY Zenon, <2>1, <2>2, HandlerMove
<1>7. CASE CheckPost(s)
  <2>1. PICK b \in {"sendPost", "dropped"} :
          Move(s, "ran", b) /\ UNCHANGED <<status, reported, queue, closing>>
    BY <1>7 DEF CheckPost, service
  <2>2. /\ "ran" \in Place /\ b \in Place /\ b \notin QueuePlaces
        /\ "ran" \notin QueuePlaces
        /\ "ran" # "none" /\ b \notin Dispatching
        /\ \A p \in Pools : b \in Busy[p] => "ran" \in Busy[p]
    BY <2>1, PlaceFacts
  <2> QED BY Zenon, <2>1, <2>2, HandlerMove
<1>8. CASE SubmitPost(s)
  <2>1. Send(s, "sendPost", "post", "postQ") /\ UNCHANGED <<status, reported, closing>>
    BY Zenon, <1>8 DEF SubmitPost, service
  <2>2. /\ "post" \in Stage /\ "postQ" = QueuePlace["post"] /\ "postQ" \in Place
        /\ "sendPost" \in Place /\ "sendPost" \notin QueuePlaces /\ "sendPost" # "none"
    BY PlaceFacts, StageFacts DEF Stage, Place
  <2> QED BY Zenon, <2>1, <2>2, HandlerSend
<1>9. CASE runPostRun(s)
  BY Zenon, <1>9, PostRunStep
<1> QED
  BY Zenon, <1>1, <1>2, <1>3, <1>4, <1>5, <1>6, <1>7, <1>8, <1>9 DEF Handle

\* The invariant holds at the start and is kept by every step.
LEMMA GatewayInductive ==
  /\ GatewayInit => GatewayInv
  /\ GatewayInv /\ [GatewayNext]_gatewayVars => GatewayInv'
<1>1. ASSUME GatewayInit PROVE GatewayInv
  <2>1. GatewayTypeOK
    <3>1. "none" \in Place /\ "open" \in SeqRange(CloseStep)
      BY ReachedFacts DEF Place
    <3>2. <<>> \in Seq(Session)
      OBVIOUS
    <3>3. queue \in [Stage -> Seq(Session)]
      BY Zenon, <1>1, <3>2 DEF GatewayInit
    <3>4. place \in [Session -> Place]
      BY Zenon, <1>1, <3>1 DEF GatewayInit
    <3>5. status \in [Task -> {"none", "running", "completed", "failed"}]
      BY Zenon, <1>1 DEF GatewayInit
    <3>6. reported \subseteq Session /\ closing \in SeqRange(CloseStep)
      BY Zenon, <1>1, <3>1 DEF GatewayInit
    <3> QED BY Zenon, <3>3, <3>4, <3>5, <3>6 DEF GatewayTypeOK
  <2>2. \A s \in Session : place[s] = "none"
    BY Zenon, <1>1 DEF GatewayInit
  <2>3. /\ "none" \notin QueuePlaces /\ "none" \notin Dispatching
        /\ \A p \in Pools : "none" \notin Busy[p]
    BY StageFacts DEF QueuePlaces, Dispatching, Pools
  <2>4. \A p \in Pools : AtWork(p) = {}
    BY Zenon, <2>2, <2>3 DEF AtWork
  <2>5. QueuesInv
    <3> SUFFICES ASSUME NEW p \in Stage PROVE QueueMatches(p, queue[p], place)
      BY Zenon DEF QueuesInv
    <3>1. queue[p] = <<>> /\ QueuePlace[p] \in QueuePlaces /\ Capacity[p] \in Nat
      BY <1>1, StageFacts DEF GatewayInit
    <3>2. /\ Len(queue[p]) <= Capacity[p] /\ Distinct(queue[p])
          /\ \A s : ~InQueue(queue[p], s)
      BY <3>1 DEF Distinct, InQueue
    <3> QED BY Zenon, <2>2, <2>3, <3>1, <3>2 DEF QueueMatches
  <2>6. PoolsInv
    <3>1. IsFiniteSet({}) /\ Cardinality({}) = 0
      BY Zenon, FS_EmptySet
    <3>2. \A p \in Pools : 0 <= Workers[p]
      BY StageFacts
    <3> QED BY Zenon, <2>4, <3>1, <3>2, StageFacts DEF PoolsInv
  <2>7. DispatcherInv /\ UnsubmittedInv
    BY Zenon, <2>2, <2>3, SessionsOfFacts DEF DispatcherInv, UnsubmittedInv, Dispatching
  <2>8. DrainedInv
    <3>1. ~Reached("run") /\ ~Reached("post")
      BY <1>1, ReachedFacts DEF GatewayInit
    <3> QED BY Zenon, <3>1 DEF DrainedInv
  <2>9. CountedInv
    BY <1>1 DEF GatewayInit, CountedInv
  <2> QED BY Zenon, <2>1, <2>5, <2>6, <2>7, <2>8, <2>9 DEF GatewayInv
<1>2. ASSUME GatewayInv, [GatewayNext]_gatewayVars PROVE GatewayInv'
  <2>1. CASE TakeInit
    <3>1. Receive("init", "init") /\ UNCHANGED <<status, reported, closing>>
      BY Zenon, <2>1 DEF TakeInit, service
    <3>2. "init" \in Pools /\ "init" \in Place /\ "init" \in Busy["init"]
      BY StageFacts DEF Pools, Place
    <3> QED BY Zenon, <1>2, <3>1, <3>2, HandlerReceive
  <2>2. CASE TakeRun
    <3>1. Receive("run", "run") /\ UNCHANGED <<status, reported, closing>>
      BY Zenon, <2>2 DEF TakeRun, service
    <3>2. "run" \in Pools /\ "run" \in Place /\ "run" \in Busy["run"]
      BY StageFacts DEF Pools, Place
    <3> QED BY Zenon, <1>2, <3>1, <3>2, HandlerReceive
  <2>3. CASE TakePost
    <3>1. Receive("post", "post") /\ UNCHANGED <<status, reported, closing>>
      BY Zenon, <2>3 DEF TakePost, service
    <3>2. "post" \in Pools /\ "post" \in Place /\ "post" \in Busy["post"]
      BY StageFacts DEF Pools, Place
    <3> QED BY Zenon, <1>2, <3>1, <3>2, HandlerReceive
  <2>4. ASSUME UNCHANGED <<status, reported, place, queue, closing>> PROVE GatewayInv'
    <3>1. DrainedInv'
      BY Zenon, <1>2, <2>4, DrainedKept DEF GatewayInv, PoolDrained, AtWork
    <3> QED
      BY Zenon, <1>2, <2>4, <3>1 DEF GatewayInv, GatewayTypeOK, QueuesInv, PoolsInv, AtWork,
         DispatcherInv, UnsubmittedInv, CountedInv
  <2>5. ASSUME NEW s \in Session, Expire(s) PROVE GatewayInv'
    <3>1. UNCHANGED <<status, reported, place, queue, closing>>
      BY Zenon, <2>5 DEF Expire, service
    <3> QED BY Zenon, <2>4, <3>1
  <2>6. CASE UNCHANGED gatewayVars
    <3>1. UNCHANGED <<status, reported, place, queue, closing>>
      BY Zenon, <2>6 DEF gatewayVars, service, stages
    <3> QED BY Zenon, <2>4, <3>1
  <2> QED
    BY Zenon, <1>2, <2>1, <2>2, <2>3, <2>5, <2>6, DispatchStep, CloseStepInv, AcceptTaskStep,
       CallbackStep, HandleStep DEF GatewayNext, TakeNext
<1> QED BY Zenon, <1>1, <1>2

\* The invariant says of the queues, the pools and the dispatcher what
\* StagesIsolated says with sets.
LEMMA InvIsolated == GatewayInv => StagesIsolated
<1> SUFFICES ASSUME GatewayInv PROVE StagesIsolated
  OBVIOUS
<1>1. ASSUME NEW p \in Stage
      PROVE  /\ Len(queue[p]) <= Capacity[p]
             /\ Cardinality(SeqRange(queue[p])) = Len(queue[p])
             /\ SeqRange(queue[p]) = {s \in Session : place[s] = QueuePlace[p]}
  <2>1. QueueMatches(p, queue[p], place) /\ queue[p] \in Seq(Session)
    BY Zenon DEF GatewayInv, GatewayTypeOK, QueuesInv
  <2>2. Cardinality(SeqRange(queue[p])) = Len(queue[p])
    BY Zenon, <2>1, DistinctCount DEF QueueMatches
  <2>3. \A s : s \in SeqRange(queue[p]) <=> InQueue(queue[p], s)
    <3>1. DOMAIN queue[p] = 1..Len(queue[p])
      BY <2>1
    <3> QED BY Zenon, <3>1 DEF SeqRange, InQueue
  <2>4. SeqRange(queue[p]) \subseteq Session
    BY <2>1 DEF SeqRange
  <2> QED BY Zenon, <2>1, <2>2, <2>3, <2>4 DEF QueueMatches
<1>2. \A p \in DOMAIN Workers : Cardinality(AtWork(p)) <= Workers[p]
  BY Zenon DEF GatewayInv, PoolsInv
<1>3. PICK D : D = {s \in Session : place[s] \in {"dispatch", "sendRun"}}
  BY Zenon
<1>4. Cardinality(D) <= 1
  <2>1. CASE D = {}
    BY <2>1, FS_EmptySet
  <2>2. CASE D # {}
    <3>1. PICK d : d \in D
      BY Zenon, <2>2
    <3>2. D = {d}
      BY Zenon, <1>3, <3>1 DEF GatewayInv, DispatcherInv
    <3>3. Cardinality({d}) = 1
      BY Zenon, FS_Singleton
    <3> QED BY <3>2, <3>3
  <2> QED BY Zenon, <2>1, <2>2
<1> QED BY Zenon, <1>1, <1>2, <1>3, <1>4 DEF StagesIsolated

\* StagesSafe: whatever the sizes of the pools and the queues, a session is in at
\* most one queue, queues and pools stay within their bounds, and Close never closes
\* a queue under a worker that sends on it (gateway.go: stagePool, dispatchReady, Close).
THEOREM StagesStaySafe == GatewaySpec => []StagesSafe
<1>1. GatewayInv => WorkerSendsSafe
  <2> SUFFICES ASSUME GatewayInv, NEW s \in Session
               PROVE  /\ place[s] = "init" => ~Closed("ready")
                      /\ place[s] = "sendPost" => ~Closed("post")
    BY Zenon DEF WorkerSendsSafe
  <2>1. Closed("ready") => AtWork("init") = {}
    BY Zenon, ReachedOrder DEF Closed, GatewayInv, DrainedInv, PoolDrained
  <2>2. Closed("post") => AtWork("run") = {}
    BY Zenon, ReachedOrder DEF Closed, GatewayInv, DrainedInv, PoolDrained
  <2>3. "init" \in Busy["init"] /\ "sendPost" \in Busy["run"]
    BY StageFacts
  <2> QED BY Zenon, <2>1, <2>2, <2>3 DEF AtWork
<1>2. GatewayInv => StagesSafe
  BY Zenon, <1>1, InvIsolated DEF StagesSafe
<1> QED BY <1>2, GatewayInductive, PTL DEF GatewaySpec

\* A session that has been reported has a stored group, unless its trainer has
\* posted no trajectory.
GroupedInv == reported \subseteq groups \cup emptied

\* No step takes a stored group away but that of a trainer without a trajectory.
LEMMA GroupedStep == ASSUME GroupedInv, [GatewayNext]_gatewayVars PROVE GroupedInv'
<1>1. ASSUME UNCHANGED service PROVE GroupedInv'
  BY Zenon, <1>1 DEF GroupedInv, service
<1>2. ASSUME NEW s \in Session, TrainerCallback(s) PROVE GroupedInv'
  <2>1. reported' = reported \cup {s}
    BY Zenon, <1>2 DEF TrainerCallback
  <2>2. CASE groups' = groups \cup {s} /\ UNCHANGED emptied
    BY Zenon, <2>1, <2>2 DEF GroupedInv
  <2>3. CASE /\ groups' = IF Len(Sessions[TaskOf[s]]) > 1 THEN groups \ {s} ELSE groups
             /\ emptied' = emptied \cup {s}
    BY Zenon, <2>1, <2>3 DEF GroupedInv
  <2> QED BY Zenon, <1>2, <2>2, <2>3 DEF TrainerCallback
<1>3. ASSUME NEW s \in Session, Handle(s) PROVE GroupedInv'
  <2>1. CASE runPostRun(s)
    BY Zenon, <2>1 DEF runPostRun, GroupedInv
  <2>2. CASE ~runPostRun(s)
    <3>1. UNCHANGED service
      BY Zenon, <1>3, <2>2 DEF Handle, StartSession, SubmitInit, RunInit, CheckRun, SubmitRun,
         ExecuteRun, CheckPost, SubmitPost
    <3> QED BY Zenon, <1>1, <3>1
  <2> QED BY Zenon, <2>1, <2>2
<1>4. ASSUME NEW t \in Task, AcceptTask(t) PROVE GroupedInv'
  BY Zenon, <1>4 DEF AcceptTask, GroupedInv
<1>5. CASE TakeNext
  BY Zenon, <1>1, <1>5 DEF TakeNext, TakeInit, DispatchReady, TakeRun, TakePost
<1>6. CASE Close
  BY Zenon, <1>1, <1>6 DEF Close
<1>7. ASSUME NEW s \in Session, Expire(s) PROVE GroupedInv'
  BY Zenon, <1>1, <1>7 DEF Expire
<1>8. CASE UNCHANGED gatewayVars
  BY Zenon, <1>1, <1>8 DEF gatewayVars
<1> QED BY Zenon, <1>2, <1>3, <1>4, <1>5, <1>6, <1>7, <1>8 DEF GatewayNext

\* CompletedMeansAllReported: in whatever order the gateway's and the trainers'
\* reports arrive, a task is completed only when every session has a stored group,
\* unless the session's own trainer has posted no trajectory
\* (gateway_session.go: ApplySessionOutcome; service.go: CompleteSession).
THEOREM CompletedIsReported == GatewaySpec => []CompletedMeansAllReported
<1>1. GatewayInit => GroupedInv
  BY Zenon DEF GatewayInit, GroupedInv
<1>2. GatewayInv /\ GroupedInv => CompletedMeansAllReported
  BY Zenon DEF GatewayInv, CountedInv, GroupedInv, CompletedMeansAllReported
<1> QED BY <1>1, <1>2, GatewayInductive, GroupedStep, PTL DEF GatewaySpec
=============================================================================
