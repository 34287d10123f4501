--------------------------- MODULE RolloutProofs ---------------------------
(***************************************************************************)
(* Proofs about the rollouts: the trajectory builders of Trajectory and    *)
(* the tasks of RolloutService, for any callers, gateways, trainers and    *)
(* completion records.                                                     *)
(***************************************************************************)
EXTENDS RolloutService, FiniteSetTheorems, WellFoundedInduction, TLAPS

\* Induction over the numbers, for a set in place of a predicate.
LEMMA Induction ==
  ASSUME NEW S, 0 \in S, \A n \in Nat : n \in S => n + 1 \in S
  PROVE  \A n \in Nat : n \in S
<1>1. SUFFICES ASSUME NEW z \in Nat \ S PROVE FALSE
  BY Zenon
<1>2. PICK x \in Nat \ S : \A y \in Nat \ S : ~(<<y, x>> \in OpToRel(<, Nat))
  BY WFMin, NatLessThanWellFounded
<1>3. x \in Nat /\ x \notin S /\ \A y \in Nat \ S : ~(y < x)
  BY Zenon, <1>2 DEF OpToRel
<1>4. x # 0
  BY Zenon, <1>2
<1>5. \E y \in Nat : y < x /\ y + 1 = x
  <2>1. x - 1 \in Nat /\ x - 1 < x /\ x - 1 + 1 = x
    BY <1>3, <1>4
  <2> QED BY Zenon, <2>1
<1> QED BY Zenon, <1>3, <1>5

(***************************************************************************)
(* Chains and their texts.                                                 *)
(***************************************************************************)
Step == [tokens : Seq(Nat), mask : Seq({0, 1})]
Label == STRING \cup {""}
Chain == [id : Nat, prefix : Seq(Nat), partition : Label, steps : Seq(Step)]

\* f[m] is the text of a chain with its first m steps.
Texts(f, chain, n) ==
  f = [m \in 0..n |-> IF m = 0 THEN chain.prefix ELSE f[m - 1] \o chain.steps[m].tokens]

\* The recursion has a solution.
LEMMA TextsExist ==
  ASSUME NEW chain, NEW L \in Nat
  PROVE  \E f : Texts(f, chain, L)
<1> DEFINE S == {n \in Nat : \E f : Texts(f, chain, n)}
<1>1. 0 \in S
  <2>1. Texts([m \in 0..0 |-> chain.prefix], chain, 0)
    BY DEF Texts
  <2> QED BY Zenon, <2>1
<1>2. ASSUME NEW n \in Nat, n \in S PROVE n + 1 \in S
  <2>1. PICK f : Texts(f, chain, n)
    BY Zenon, <1>2
  <2> DEFINE g == [m \in 0..(n + 1) |-> IF m = n + 1 THEN f[n] \o chain.steps[n + 1].tokens ELSE f[m]]
  <2>2. \A m \in 0..n : f[m] = IF m = 0 THEN chain.prefix ELSE f[m - 1] \o chain.steps[m].tokens
    BY Zenon, <2>1 DEF Texts
  <2>3. ASSUME NEW m \in 0..(n + 1)
        PROVE  g[m] = IF m = 0 THEN chain.prefix ELSE g[m - 1] \o chain.steps[m].tokens
    <3>1. CASE m = 0
      <4>1. m \in 0..n /\ m # n + 1
        BY <3>1
      <4> QED BY Zenon, <2>2, <3>1, <4>1
    <3>2. CASE m \in 1..n
      <4>1. m \in 0..n /\ m - 1 \in 0..n /\ m # n + 1 /\ m - 1 # n + 1 /\ m # 0 /\ m - 1 \in 0..(n + 1)
        BY <3>2
      <4> QED BY Zenon, <2>2, <4>1
    <3>3. CASE m = n + 1
      <4>1. m # 0 /\ m - 1 = n /\ n \in 0..(n + 1) /\ n # n + 1
        BY <3>3
      <4> QED BY Zenon, <3>3, <4>1
    <3> QED BY <3>1, <3>2, <3>3
  <2>4. Texts(g, chain, n + 1)
    BY Zenon, <2>3 DEF Texts
  <2> QED BY <2>4
<1> HIDE DEF S
<1>3. \A n \in Nat : n \in S
  BY Zenon, <1>1, <1>2, Induction
<1> QED BY Zenon, <1>3 DEF S

\* The text of a chain grows by the tokens of each step.
LEMMA TextFacts ==
  ASSUME NEW chain, NEW L \in Nat, L = Len(chain.steps)
  PROVE  /\ chainSuffixPrefix(chain, 0) = chain.prefix
         /\ \A m \in 1..L : chainSuffixPrefix(chain, m)
                              = chainSuffixPrefix(chain, m - 1) \o chain.steps[m].tokens
<1> DEFINE text == CHOOSE f : Texts(f, chain, L)
<1>1. Texts(text, chain, L)
  BY Zenon, TextsExist
<1>2. \A m : chainSuffixPrefix(chain, m) = text[m]
  BY DEF chainSuffixPrefix, Texts
<1> HIDE DEF text
<1>3. \A m \in 0..L : text[m] = IF m = 0 THEN chain.prefix ELSE text[m - 1] \o chain.steps[m].tokens
  BY Zenon, <1>1 DEF Texts
<1>4. 0 \in 0..L /\ \A m \in 1..L : m \in 0..L /\ m # 0
  OBVIOUS
<1> QED BY Zenon, <1>2, <1>3, <1>4

\* Chains that start with the same steps start with the same text.
LEMMA SameText ==
  ASSUME NEW c, NEW d, NEW K \in Nat, NEW L \in Nat, K = Len(c.steps), L = Len(d.steps), K <= L,
         d.prefix = c.prefix, \A j \in 1..K : d.steps[j] = c.steps[j]
  PROVE  \A m \in 0..K : chainSuffixPrefix(d, m) = chainSuffixPrefix(c, m)
<1> DEFINE S == {n \in Nat : n <= K => chainSuffixPrefix(d, n) = chainSuffixPrefix(c, n)}
<1>1. 0 \in S
  <2>1. chainSuffixPrefix(d, 0) = chainSuffixPrefix(c, 0)
    BY Zenon, TextFacts
  <2> QED BY Zenon, <2>1
<1>2. ASSUME NEW n \in Nat, n \in S PROVE n + 1 \in S
  <2>1. ASSUME n + 1 <= K PROVE chainSuffixPrefix(d, n + 1) = chainSuffixPrefix(c, n + 1)
    <3>1. n <= K /\ n + 1 \in 1..K /\ n + 1 \in 1..L /\ (n + 1) - 1 = n
      BY <2>1
    <3>2. chainSuffixPrefix(d, n) = chainSuffixPrefix(c, n)
      BY Zenon, <1>2, <3>1
    <3>3. chainSuffixPrefix(c, n + 1) = chainSuffixPrefix(c, n) \o c.steps[n + 1].tokens
      BY Zenon, <3>1, TextFacts
    <3>4. chainSuffixPrefix(d, n + 1) = chainSuffixPrefix(d, n) \o d.steps[n + 1].tokens
      BY Zenon, <3>1, TextFacts
    <3> QED BY Zenon, <3>1, <3>2, <3>3, <3>4
  <2> QED BY <2>1
<1> HIDE DEF S
<1>3. \A n \in Nat : n \in S
  BY Zenon, <1>1, <1>2, Induction
<1>4. \A m \in 0..K : m \in Nat /\ m <= K
  OBVIOUS
<1> QED BY Zenon, <1>3, <1>4 DEF S

\* A text is a sequence of tokens.
LEMMA TextTokens ==
  ASSUME NEW c \in Chain
  PROVE  /\ Len(c.steps) \in Nat
         /\ \A m \in 0..Len(c.steps) : chainSuffixPrefix(c, m) \in Seq(Nat)
<1>1. PICK L : L = Len(c.steps)
  BY Zenon
<1>2. L \in Nat /\ c.prefix \in Seq(Nat) /\ \A m \in 1..L : c.steps[m].tokens \in Seq(Nat)
  <2>1. c.steps \in Seq(Step) /\ c.prefix \in Seq(Nat)
    BY DEF Chain
  <2>2. L \in Nat /\ \A m \in 1..L : c.steps[m] \in Step
    BY <1>1, <2>1
  <2>3. \A s \in Step : s.tokens \in Seq(Nat)
    BY DEF Step
  <2> QED BY Zenon, <2>1, <2>2, <2>3
<1> DEFINE S == {n \in Nat : n <= L => chainSuffixPrefix(c, n) \in Seq(Nat)}
<1>3. 0 \in S
  <2>1. chainSuffixPrefix(c, 0) \in Seq(Nat)
    BY Zenon, <1>1, <1>2, TextFacts
  <2> QED BY Zenon, <2>1
<1>4. ASSUME NEW n \in Nat, n \in S PROVE n + 1 \in S
  <2>1. ASSUME n + 1 <= L PROVE chainSuffixPrefix(c, n + 1) \in Seq(Nat)
    <3>1. n <= L /\ n + 1 \in 1..L /\ (n + 1) - 1 = n
      BY <1>2, <2>1
    <3>2. chainSuffixPrefix(c, n) \in Seq(Nat) /\ c.steps[n + 1].tokens \in Seq(Nat)
      BY Zenon, <1>2, <1>4, <3>1
    <3>3. chainSuffixPrefix(c, n + 1) = chainSuffixPrefix(c, n) \o c.steps[n + 1].tokens
      BY Zenon, <1>1, <1>2, <3>1, TextFacts
    <3>4. \A s, t \in Seq(Nat) : s \o t \in Seq(Nat)
      OBVIOUS
    <3> QED BY Zenon, <3>2, <3>3, <3>4
  <2> QED BY <2>1
<1> HIDE DEF S
<1>5. \A n \in Nat : n \in S
  BY Zenon, <1>3, <1>4, Induction
<1>6. \A m \in 0..L : m \in Nat /\ m <= L
  BY <1>2
<1> QED BY Zenon, <1>1, <1>2, <1>5, <1>6 DEF S

(***************************************************************************)
(* One record more.                                                        *)
(***************************************************************************)
\* Where the steps of chains are.
LEMMA StepsOfFacts ==
  ASSUME NEW chains
  PROVE  /\ \A k \in DOMAIN chains : \A j \in DOMAIN chains[k].steps : <<k, j>> \in StepsOf(chains)
         /\ \A p \in StepsOf(chains) : \E k \in DOMAIN chains : \E j \in DOMAIN chains[k].steps :
              p = <<k, j>> /\ p[1] = k /\ p[2] = j
<1>1. ASSUME NEW k \in DOMAIN chains, NEW j \in DOMAIN chains[k].steps
      PROVE  <<k, j>> \in StepsOf(chains)
  <2>1. <<k, j>> \in {k} \X DOMAIN chains[k].steps
    BY SMT
  <2> QED BY Zenon, <2>1 DEF StepsOf
<1>2. ASSUME NEW p \in StepsOf(chains)
      PROVE  \E k \in DOMAIN chains : \E j \in DOMAIN chains[k].steps :
               p = <<k, j>> /\ p[1] = k /\ p[2] = j
  <2>1. PICK k \in DOMAIN chains : p \in {k} \X DOMAIN chains[k].steps
    BY Zenon DEF StepsOf
  <2>2. PICK J : J = DOMAIN chains[k].steps
    BY Zenon
  <2>3. \E j \in J : p = <<k, j>> /\ p[1] = k /\ p[2] = j
    <3>1. p \in {k} \X J
      BY Zenon, <2>1, <2>2
    <3> QED BY <3>1
  <2> QED BY Zenon, <2>2, <2>3
<1> QED BY Zenon, <1>1, <1>2

\* The chains after have the steps of those before, one that trains on rec, and
\* besides it only masked ones.
AddsOne(before, after, rec) ==
  /\ \A p \in StepsOf(before) :
       /\ p \in StepsOf(after) /\ after[p[1]].steps[p[2]] = before[p[1]].steps[p[2]]
       /\ \A r : TrainsOn(before[p[1]], p[2], r) => TrainsOn(after[p[1]], p[2], r)
  /\ \E q \in StepsOf(after) \ StepsOf(before) :
       /\ TrainsOn(after[q[1]], q[2], rec)
       /\ \A p \in StepsOf(after) \ StepsOf(before) :
            p # q => 1 \notin Range(after[p[1]].steps[p[2]].mask)

Sampled(records) == {r \in records : r.sampled # <<>>}

\* at places each sampled record at a step that trains on it.
Places(at, chains, records) ==
  /\ at \in Injection(Sampled(records), StepsOf(chains))
  /\ \A r \in Sampled(records) : TrainsOn(chains[at[r][1]], at[r][2], r)
  /\ \A p \in StepsOf(chains) \ Range(at) : 1 \notin Range(chains[p[1]].steps[p[2]].mask)

\* Faithful is about such places.
LEMMA FaithfulPlaces ==
  \A chains, records : Faithful(chains, records) <=> \E at : Places(at, chains, records)
BY Zenon DEF Faithful, Places, Sampled

\* Chains stay faithful with one record more.
LEMMA FaithfulAdd ==
  ASSUME NEW before, NEW after, NEW records, NEW rec, rec \notin records, rec.sampled # <<>>,
         Faithful(before, records), AddsOne(before, after, rec)
  PROVE  Faithful(after, records \cup {rec})
<1>1. PICK at : Places(at, before, records)
  BY Zenon, FaithfulPlaces
<1>2. PICK q \in StepsOf(after) \ StepsOf(before) :
        /\ TrainsOn(after[q[1]], q[2], rec)
        /\ \A p \in StepsOf(after) \ StepsOf(before) :
             p # q => 1 \notin Range(after[p[1]].steps[p[2]].mask)
  BY Zenon DEF AddsOne
<1>3. PICK A : A = Sampled(records)
  BY Zenon
<1>4. Sampled(records \cup {rec}) = A \cup {rec} /\ rec \notin A
  BY Zenon, <1>3 DEF Sampled
<1>5. /\ at \in [A -> StepsOf(before)] /\ \A r, s \in A : at[r] = at[s] => r = s
      /\ \A r \in A : TrainsOn(before[at[r][1]], at[r][2], r)
      /\ DOMAIN at = A
  BY Zenon, <1>1, <1>3 DEF Places, Injection, IsInjective
<1> DEFINE to == [r \in A \cup {rec} |-> IF r = rec THEN q ELSE at[r]]
<1>6. /\ to[rec] = q /\ \A r \in A : to[r] = at[r]
      /\ DOMAIN to = A \cup {rec}
  BY Zenon, <1>4
<1>7. ASSUME NEW r \in A PROVE at[r] \in StepsOf(before) /\ at[r] \in StepsOf(after) /\ at[r] # q
  <2>1. at[r] \in StepsOf(before)
    BY Zenon, <1>5
  <2>2. \A p \in StepsOf(before) : p \in StepsOf(after)
    BY Zenon DEF AddsOne
  <2> QED BY Zenon, <2>1, <2>2
<1>8. to \in [A \cup {rec} -> StepsOf(after)]
  BY Zenon, <1>2, <1>7
<1> HIDE DEF to
<1>9. \A r, s \in A \cup {rec} : to[r] = to[s] => r = s
  <2>1. ASSUME NEW r \in A PROVE to[r] # to[rec]
    BY Zenon, <1>6, <1>7, <2>1
  <2>2. ASSUME NEW r \in A, NEW s \in A, to[r] = to[s] PROVE r = s
    BY Zenon, <1>5, <1>6, <2>2
  <2> QED BY Zenon, <2>1, <2>2
<1>10. to \in Injection(A \cup {rec}, StepsOf(after))
  BY Zenon, <1>6, <1>8, <1>9 DEF Injection, IsInjective
<1>11. ASSUME NEW r \in A \cup {rec} PROVE TrainsOn(after[to[r][1]], to[r][2], r)
  <2>1. CASE r = rec
    BY Zenon, <1>2, <1>6, <2>1
  <2>2. CASE r \in A
    <3>1. TrainsOn(before[at[r][1]], at[r][2], r) /\ at[r] \in StepsOf(before)
      BY Zenon, <1>5, <1>7, <2>2
    <3>2. TrainsOn(after[at[r][1]], at[r][2], r)
      BY Zenon, <3>1 DEF AddsOne
    <3> QED BY Zenon, <1>6, <2>2, <3>2
  <2> QED BY Zenon, <2>1, <2>2
<1>12. ASSUME NEW p \in StepsOf(after) \ Range(to) PROVE 1 \notin Range(after[p[1]].steps[p[2]].mask)
  <2>1. p # q /\ \A r \in A : p # at[r]
    BY Zenon, <1>6 DEF Range
  <2>2. CASE p \in StepsOf(before)
    <3>1. p \notin Range(at)
      BY Zenon, <1>5, <2>1 DEF Range
    <3>2. 1 \notin Range(before[p[1]].steps[p[2]].mask)
      BY Zenon, <1>1, <2>2, <3>1 DEF Places
    <3>3. after[p[1]].steps[p[2]] = before[p[1]].steps[p[2]]
      BY Zenon, <2>2 DEF AddsOne
    <3> QED BY Zenon, <3>2, <3>3
  <2>3. CASE p \notin StepsOf(before)
    BY Zenon, <1>2, <2>1, <2>3
  <2> QED BY Zenon, <2>2, <2>3
<1>13. Places(to, after, records \cup {rec})
  BY Zenon, <1>4, <1>10, <1>11, <1>12 DEF Places
<1> QED BY Zenon, <1>13, FaithfulPlaces

\* A record without sampled tokens changes nothing.
LEMMA FaithfulSkip ==
  ASSUME NEW chains, NEW records, NEW rec, rec.sampled = <<>>, Faithful(chains, records)
  PROVE  Faithful(chains, records \cup {rec})
<1>1. Sampled(records \cup {rec}) = Sampled(records)
  BY Zenon DEF Sampled
<1> QED BY Zenon, <1>1, FaithfulPlaces DEF Places

\* No chain trains on no record.
LEMMA FaithfulNone == Faithful(<<>>, {})
<1>1. PICK at : at = [r \in {} |-> 0]
  BY Zenon
<1>2. DOMAIN at = {} /\ Sampled({}) = {} /\ at \in [{} -> StepsOf(<<>>)]
  BY Zenon, <1>1 DEF Sampled
<1>3. at \in Injection({}, StepsOf(<<>>))
  BY Zenon, <1>2 DEF Injection, IsInjective
<1>4. StepsOf(<<>>) = {}
  <2>1. DOMAIN <<>> = {}
    BY SMT
  <2> QED BY Zenon, <2>1 DEF StepsOf
<1>5. Places(at, <<>>, {})
  BY Zenon, <1>2, <1>3, <1>4 DEF Places
<1> QED BY Zenon, <1>5, FaithfulPlaces

\* d is c with further steps.
Grown(c, d) ==
  /\ c \in Chain /\ d \in Chain /\ d.prefix = c.prefix /\ Len(c.steps) <= Len(d.steps)
  /\ \A j \in 1..Len(c.steps) : d.steps[j] = c.steps[j]

\* A chain that grows still trains on what it did.
LEMMA GrownTrains ==
  ASSUME NEW c, NEW d, Grown(c, d), NEW j \in DOMAIN c.steps
  PROVE  /\ j \in DOMAIN d.steps /\ d.steps[j] = c.steps[j]
         /\ \A r : TrainsOn(c, j, r) => TrainsOn(d, j, r)
<1>1. PICK K, L : K = Len(c.steps) /\ L = Len(d.steps)
  BY Zenon
<1>2. c \in Chain /\ d \in Chain
  BY Zenon DEF Grown
<1>3. K \in Nat /\ L \in Nat /\ DOMAIN c.steps = 1..K /\ DOMAIN d.steps = 1..L
  <2>1. c.steps \in Seq(Step) /\ d.steps \in Seq(Step)
    BY <1>2 DEF Chain
  <2> QED BY <1>1, <2>1
<1>4. K <= L /\ d.prefix = c.prefix /\ \A i \in 1..K : d.steps[i] = c.steps[i]
  BY Zenon, <1>1 DEF Grown
<1>5. j \in 1..K /\ j \in 1..L /\ j - 1 \in 0..K
  BY <1>3, <1>4
<1>6. chainSuffixPrefix(d, j - 1) = chainSuffixPrefix(c, j - 1)
  BY Zenon, <1>1, <1>3, <1>4, <1>5, SameText
<1> QED BY Zenon, <1>3, <1>4, <1>5, <1>6 DEF TrainsOn

\* One chain is new or has grown, by a step that trains on rec and masked ones.
LEMMA AddsAt ==
  ASSUME NEW before \in Seq(Chain), NEW after \in Seq(Chain), NEW i \in DOMAIN after,
         \A k \in DOMAIN before : k \in DOMAIN after,
         \A k \in DOMAIN after : k # i => k \in DOMAIN before /\ after[k] = before[k],
         NEW old, old = IF i \in DOMAIN before THEN DOMAIN before[i].steps ELSE {},
         i \in DOMAIN before => Grown(before[i], after[i]),
         NEW m \in DOMAIN after[i].steps, m \notin old, NEW rec, TrainsOn(after[i], m, rec),
         \A j \in DOMAIN after[i].steps :
           j \notin old /\ j # m => 1 \notin Range(after[i].steps[j].mask)
  PROVE  AddsOne(before, after, rec)
<1>1. ASSUME NEW p \in StepsOf(before)
      PROVE  /\ p \in StepsOf(after) /\ after[p[1]].steps[p[2]] = before[p[1]].steps[p[2]]
             /\ \A r : TrainsOn(before[p[1]], p[2], r) => TrainsOn(after[p[1]], p[2], r)
  <2>1. PICK k \in DOMAIN before : \E j \in DOMAIN before[k].steps : p = <<k, j>> /\ p[1] = k /\ p[2] = j
    BY Zenon, StepsOfFacts
  <2>2. PICK j \in DOMAIN before[k].steps : p = <<k, j>> /\ p[1] = k /\ p[2] = j
    BY Zenon, <2>1
  <2>3. k \in DOMAIN after
    BY Zenon
  <2>4. /\ j \in DOMAIN after[k].steps /\ after[k].steps[j] = before[k].steps[j]
        /\ \A r : TrainsOn(before[k], j, r) => TrainsOn(after[k], j, r)
    <3>1. CASE k = i
      BY Zenon, <3>1, GrownTrains
    <3>2. CASE k # i
      <4>1. after[k] = before[k]
        BY Zenon, <2>3, <3>2
      <4> QED BY Zenon, <4>1
    <3> QED BY Zenon, <3>1, <3>2
  <2>5. p \in StepsOf(after)
    BY Zenon, <2>2, <2>3, <2>4, StepsOfFacts
  <2> QED BY Zenon, <2>2, <2>4, <2>5
<1>2. PICK q : q = <<i, m>> /\ q[1] = i /\ q[2] = m
  <2>1. <<i, m>>[1] = i /\ <<i, m>>[2] = m
    BY SMT
  <2> QED BY Zenon, <2>1
<1>3. q \in StepsOf(after) /\ TrainsOn(after[q[1]], q[2], rec)
  BY Zenon, <1>2, StepsOfFacts
<1>4. q \notin StepsOf(before)
  <2>1. ASSUME q \in StepsOf(before) PROVE FALSE
    <3>1. PICK k \in DOMAIN before : \E j \in DOMAIN before[k].steps : q = <<k, j>> /\ q[1] = k /\ q[2] = j
      BY Zenon, <2>1, StepsOfFacts
    <3>2. PICK j \in DOMAIN before[k].steps : q = <<k, j>> /\ q[1] = k /\ q[2] = j
      BY Zenon, <3>1
    <3> QED BY Zenon, <1>2, <3>2
  <2> QED BY Zenon, <2>1
<1>5. ASSUME NEW p \in StepsOf(after), p \notin StepsOf(before), p # q
      PROVE  1 \notin Range(after[p[1]].steps[p[2]].mask)
  <2>1. PICK k \in DOMAIN after : \E j \in DOMAIN after[k].steps : p = <<k, j>> /\ p[1] = k /\ p[2] = j
    BY Zenon, StepsOfFacts
  <2>2. PICK j \in DOMAIN after[k].steps : p = <<k, j>> /\ p[1] = k /\ p[2] = j
    BY Zenon, <2>1
  <2>3. k = i
    <3>1. ASSUME k # i PROVE FALSE
      <4>1. k \in DOMAIN before /\ j \in DOMAIN before[k].steps
        BY Zenon, <3>1
      <4> QED BY Zenon, <1>5, <2>2, <4>1, StepsOfFacts
    <3> QED BY Zenon, <3>1
  <2>4. j \notin old
    <3>1. ASSUME j \in old PROVE FALSE
      <4>1. i \in DOMAIN before /\ j \in DOMAIN before[i].steps
        BY Zenon, <3>1
      <4> QED BY Zenon, <1>5, <2>2, <2>3, <4>1, StepsOfFacts
    <3> QED BY Zenon, <3>1
  <2>5. j # m
    BY Zenon, <1>2, <1>5, <2>2, <2>3
  <2> QED BY Zenon, <2>2, <2>3, <2>4, <2>5
<1> QED BY Zenon, <1>1, <1>3, <1>4, <1>5 DEF AddsOne

\* Steps are steps, and what lies between two completions is masked.
LEMMA StepFacts ==
  /\ \A rec \in CompletionRecord : assistantStep(rec) \in Step
  /\ \A tokens \in Seq(Nat) : /\ interstitialStep(tokens) \in Step
                              /\ interstitialStep(tokens).tokens = tokens
                              /\ 1 \notin Range(interstitialStep(tokens).mask)
<1>1. ASSUME NEW n \in Nat
      PROVE  /\ lossMaskOnes(n) \in Seq({0, 1}) /\ lossMaskZeros(n) \in Seq({0, 1})
             /\ 1 \notin Range(lossMaskZeros(n))
  BY DEF lossMaskOnes, lossMaskZeros, Range
<1>2. ASSUME NEW rec \in CompletionRecord PROVE assistantStep(rec) \in Step
  <2>1. rec.sampled \in Seq(Nat)
    BY DEF CompletionRecord
  <2>2. lossMaskOnes(Len(rec.sampled)) \in Seq({0, 1})
    <3>1. Len(rec.sampled) \in Nat
      BY <2>1
    <3> QED BY Zenon, <1>1, <3>1
  <2> QED BY <2>1, <2>2 DEF assistantStep, Step
<1>3. ASSUME NEW tokens \in Seq(Nat)
      PROVE  /\ interstitialStep(tokens) \in Step /\ interstitialStep(tokens).tokens = tokens
             /\ 1 \notin Range(interstitialStep(tokens).mask)
  <2>1. Len(tokens) \in Nat
    OBVIOUS
  <2>2. PICK z : z = lossMaskZeros(Len(tokens))
    BY Zenon
  <2>3. z \in Seq({0, 1}) /\ 1 \notin Range(z)
    BY Zenon, <1>1, <2>1, <2>2
  <2>4. interstitialStep(tokens) = [tokens |-> tokens, mask |-> z]
    BY Zenon, <2>2 DEF interstitialStep
  <2> QED BY <2>3, <2>4 DEF Step
<1> QED BY Zenon, <1>2, <1>3

\* A new chain starts with a step that trains on its record.
LEMMA AddsNew ==
  ASSUME NEW chains \in Seq(Chain), NEW rec \in CompletionRecord, NEW label \in Label
  PROVE  /\ Append(chains, NewChain(rec, label)) \in Seq(Chain)
         /\ AddsOne(chains, Append(chains, NewChain(rec, label)), rec)
<1>1. PICK c : c = NewChain(rec, label)
  BY Zenon
<1>2. /\ c.steps = <<assistantStep(rec)>> /\ c.prefix = rec.prompt /\ c \in Chain
  <2>1. PICK a : a = assistantStep(rec)
    BY Zenon
  <2>2. a \in Step
    BY Zenon, <2>1, StepFacts
  <2>3. rec.id \in Nat /\ rec.prompt \in Seq(Nat)
    BY DEF CompletionRecord
  <2>4. <<a>> \in Seq(Step)
    BY <2>2
  <2>5. c = [id |-> rec.id, prefix |-> rec.prompt, partition |-> label, steps |-> <<a>>]
    BY Zenon, <1>1, <2>1 DEF NewChain
  <2>6. c.steps = <<a>> /\ c.prefix = rec.prompt /\ c \in Chain
    BY <2>3, <2>4, <2>5 DEF Chain
  <2> QED BY Zenon, <2>1, <2>6
<1>3. PICK after : after = Append(chains, c)
  BY Zenon
<1>4. PICK i : i = Len(chains) + 1
  BY Zenon
<1>5. /\ after \in Seq(Chain) /\ i \in DOMAIN after /\ after[i] = c /\ i \notin DOMAIN chains
      /\ \A k \in DOMAIN chains : k \in DOMAIN after
      /\ \A k \in DOMAIN after : k # i => k \in DOMAIN chains /\ after[k] = chains[k]
  BY <1>2, <1>3, <1>4
<1>6. DOMAIN c.steps = {1} /\ c.steps[1] = assistantStep(rec) /\ Len(c.steps) = 1 /\ 1 - 1 = 0
  BY <1>2
<1>7. TrainsOn(c, 1, rec)
  <2>1. 1 \in Nat
    OBVIOUS
  <2>2. chainSuffixPrefix(c, 0) = rec.prompt
    BY Zenon, <1>2, <1>6, <2>1, TextFacts
  <2> QED BY Zenon, <1>6, <2>2 DEF TrainsOn
<1>8. AddsOne(chains, after, rec)
  <2>1. \A j \in DOMAIN after[i].steps : j = 1
    BY Zenon, <1>5, <1>6
  <2>2. 1 \in DOMAIN after[i].steps /\ TrainsOn(after[i], 1, rec)
    BY Zenon, <1>5, <1>6, <1>7
  <2>3. PICK old : old = IF i \in DOMAIN chains THEN DOMAIN chains[i].steps ELSE {}
    BY Zenon
  <2>4. 1 \notin old
    BY Zenon, <1>5, <2>3
  <2> QED BY Zenon, <1>5, <2>1, <2>2, <2>3, <2>4, AddsAt
<1> QED BY Zenon, <1>1, <1>3, <1>5, <1>8

\* A place past the first K, but not the last.
LEMMA PastFacts ==
  ASSUME NEW K \in Nat, NEW n \in Nat, NEW j \in 1..(K + n), j \notin 1..K, j # K + n
  PROVE  j - K \in 1..n /\ j - K \in 1..(n - 1) /\ j = K + (j - K)
OBVIOUS

\* A chain that is extended by steps, the last of which trains on rec and the
\* others of which are masked.
LEMMA AddsSteps ==
  ASSUME NEW chains \in Seq(Chain), NEW rec, NEW i \in DOMAIN chains, NEW new \in Seq(Step),
         NEW n \in Nat \ {0}, n = Len(new), new[n] = assistantStep(rec),
         \A j \in 1..(n - 1) : 1 \notin Range(new[j].mask),
         \A d : Grown(chains[i], d) /\ Len(d.steps) = Len(chains[i].steps) + n
                  /\ (\A j \in 1..n : d.steps[Len(chains[i].steps) + j] = new[j])
                => chainSuffixPrefix(d, (Len(chains[i].steps) + n) - 1) = rec.prompt
  PROVE  /\ Extend(chains, i, new) \in Seq(Chain)
         /\ AddsOne(chains, Extend(chains, i, new), rec)
<1>1. PICK c : c = chains[i]
  BY Zenon
<1>2. PICK K : K = Len(c.steps)
  BY Zenon
<1>3. c \in Chain
  BY <1>1
<1>4. c.steps \in Seq(Step)
  BY <1>3 DEF Chain
<1>5. PICK steps : steps = c.steps \o new
  BY Zenon
<1>6. /\ K \in Nat /\ DOMAIN c.steps = 1..K /\ steps \in Seq(Step) /\ Len(steps) = K + n
      /\ DOMAIN steps = 1..(K + n)
      /\ \A j \in 1..K : steps[j] = c.steps[j]
      /\ \A j \in 1..n : steps[K + j] = new[j]
  BY <1>2, <1>4, <1>5
<1>7. PICK d : d = [c EXCEPT !.steps = steps]
  BY Zenon
<1>8. d \in Chain /\ d.steps = steps /\ d.prefix = c.prefix
  BY Zenon, <1>3, <1>6, <1>7 DEF Chain
<1>9. PICK after : after = Extend(chains, i, new)
  BY Zenon
<1>10. after = [chains EXCEPT ![i] = d]
  BY Zenon, <1>1, <1>5, <1>7, <1>9 DEF Extend
<1>11. /\ after \in Seq(Chain) /\ DOMAIN after = DOMAIN chains /\ after[i] = d
       /\ \A k \in DOMAIN after : k # i => after[k] = chains[k]
  BY <1>8, <1>10
<1>12. Grown(c, d)
  <2>1. Len(d.steps) = K + n /\ K <= K + n
    BY <1>6, <1>8
  <2> QED BY Zenon, <1>2, <1>3, <1>6, <1>8, <2>1 DEF Grown
<1>13. chainSuffixPrefix(d, (K + n) - 1) = rec.prompt
  BY Zenon, <1>1, <1>2, <1>6, <1>8, <1>12
<1>14. TrainsOn(d, K + n, rec)
  <2>1. n \in 1..n
    OBVIOUS
  <2>2. steps[K + n] = new[n]
    BY Zenon, <1>6, <2>1
  <2>3. d.steps[K + n] = assistantStep(rec)
    BY Zenon, <1>8, <2>2
  <2> QED BY Zenon, <1>13, <2>3 DEF TrainsOn
<1>15. K + n \in DOMAIN d.steps /\ K + n \notin 1..K
  BY <1>6, <1>8
<1>16. ASSUME NEW j \in DOMAIN d.steps, j \notin 1..K, j # K + n
       PROVE  1 \notin Range(d.steps[j].mask)
  <2>1. K \in Nat /\ j \in 1..(K + n)
    BY Zenon, <1>6, <1>8, <1>16
  <2>2. j - K \in 1..n /\ j - K \in 1..(n - 1) /\ j = K + (j - K)
    BY Zenon, <1>16, <2>1, PastFacts
  <2>3. steps[K + (j - K)] = new[j - K]
    BY Zenon, <1>6, <2>2
  <2>4. d.steps[j] = new[j - K]
    BY Zenon, <1>8, <2>2, <2>3
  <2> QED BY Zenon, <2>2, <2>4
<1>17. AddsOne(chains, after, rec)
  <2>1. PICK old : old = IF i \in DOMAIN chains THEN DOMAIN chains[i].steps ELSE {}
    BY Zenon
  <2>2. old = 1..K
    BY Zenon, <1>1, <1>6, <2>1
  <2>3. \A k \in DOMAIN chains : k \in DOMAIN after
    BY Zenon, <1>11
  <2>4. \A k \in DOMAIN after : k # i => k \in DOMAIN chains /\ after[k] = chains[k]
    BY Zenon, <1>11
  <2>5. i \in DOMAIN after /\ Grown(chains[i], after[i])
    BY Zenon, <1>1, <1>11, <1>12
  <2>6. K + n \in DOMAIN after[i].steps /\ K + n \notin old /\ TrainsOn(after[i], K + n, rec)
    BY Zenon, <1>11, <1>14, <1>15, <2>2
  <2>7. \A j \in DOMAIN after[i].steps :
          j \notin old /\ j # K + n => 1 \notin Range(after[i].steps[j].mask)
    BY Zenon, <1>11, <1>16, <2>2
  <2> QED BY Zenon, <1>11, <2>1, <2>3, <2>4, <2>5, <2>6, <2>7, AddsAt
<1> QED BY Zenon, <1>9, <1>11, <1>17

\* The least of a set of positions is one of them.
LEMMA FirstFacts ==
  ASSUME NEW S \in SUBSET Nat, First(S) > 0
  PROVE  First(S) \in S
<1>1. S # {}
  BY DEF First
<1>2. \E i \in S : \A j \in S : i <= j
  <2>1. PICK z \in S : TRUE
    BY Zenon, <1>1
  <2>2. PICK x \in S : \A y \in S : ~(<<y, x>> \in OpToRel(<, Nat))
    BY <2>1, WFMin, NatLessThanWellFounded
  <2>3. x \in Nat /\ \A y \in S : y \in Nat /\ ~(y < x)
    BY Zenon, <2>2 DEF OpToRel
  <2>4. \A y \in S : x <= y
    BY <2>3
  <2> QED BY Zenon, <2>2, <2>4
<1> QED BY Zenon, <1>1, <1>2 DEF First

\* A chain whose text is the record's prompt takes the record's step.
LEMMA AddsExact ==
  ASSUME NEW chains \in Seq(Chain), NEW rec \in CompletionRecord, NEW i \in DOMAIN chains,
         chainSuffix(chains[i]) = rec.prompt
  PROVE  /\ Extend(chains, i, <<assistantStep(rec)>>) \in Seq(Chain)
         /\ AddsOne(chains, Extend(chains, i, <<assistantStep(rec)>>), rec)
<1>1. PICK new, c, K : new = <<assistantStep(rec)>> /\ c = chains[i] /\ K = Len(c.steps)
  BY Zenon
<1>2. assistantStep(rec) \in Step
  BY Zenon, StepFacts
<1>3. new \in Seq(Step) /\ 1 = Len(new) /\ new[1] = assistantStep(rec)
  BY <1>1, <1>2
<1>4. 1 \in Nat \ {0} /\ \A j \in 1..(1 - 1) : 1 \notin Range(new[j].mask)
  OBVIOUS
<1>5. c \in Chain /\ K \in Nat
  <2>1. c \in Chain
    BY <1>1
  <2> QED BY Zenon, <1>1, <2>1, TextTokens
<1>6. K \in 0..K /\ (K + 1) - 1 = K
  BY <1>5
<1>7. ASSUME NEW d, Grown(c, d) PROVE chainSuffixPrefix(d, (K + 1) - 1) = rec.prompt
  <2>1. d \in Chain /\ d.prefix = c.prefix /\ K <= Len(d.steps)
        /\ \A j \in 1..K : d.steps[j] = c.steps[j]
    BY Zenon, <1>1, <1>7 DEF Grown
  <2>2. Len(d.steps) \in Nat
    BY Zenon, <2>1, TextTokens
  <2>3. chainSuffixPrefix(d, K) = chainSuffixPrefix(c, K)
    BY Zenon, <1>1, <1>5, <1>6, <2>1, <2>2, SameText
  <2> QED BY Zenon, <1>1, <1>6, <2>3 DEF chainSuffix
<1> QED BY Zenon, <1>1, <1>3, <1>4, <1>7, AddsSteps

\* Sequences of the same length with the same elements are the same.
LEMMA SameSequence ==
  ASSUME NEW X, NEW s \in Seq(X), NEW t \in Seq(X), Len(s) = Len(t), \A i \in 1..Len(s) : s[i] = t[i]
  PROVE  s = t
<1>1. PICK n : n = Len(s)
  BY Zenon
<1>2. \A w \in Seq(X) : Len(w) = n => w = [i \in 1..n |-> w[i]]
  OBVIOUS
<1>3. s = [i \in 1..n |-> s[i]] /\ t = [i \in 1..n |-> t[i]]
  BY Zenon, <1>1, <1>2
<1>4. [i \in 1..n |-> s[i]] = [i \in 1..n |-> t[i]]
  BY Zenon, <1>1
<1> QED BY Zenon, <1>3, <1>4

\* A prefix and what is left of a sequence after it make up the sequence.
LEMMA PrefixRest ==
  ASSUME NEW s \in Seq(Nat), NEW t \in Seq(Nat), tokenIDsHasPrefix(s, t)
  PROVE  /\ SubSeq(s, Len(t) + 1, Len(s)) \in Seq(Nat)
         /\ t \o SubSeq(s, Len(t) + 1, Len(s)) = s
<1>1. Len(t) <= Len(s) /\ \A i \in 1..Len(t) : s[i] = t[i]
  BY Zenon DEF tokenIDsHasPrefix
<1>2. PICK n, m, r : n = Len(t) /\ m = Len(s) /\ r = SubSeq(s, Len(t) + 1, Len(s))
  BY Zenon
<1>3. n \in Nat /\ m \in Nat /\ n <= m /\ DOMAIN s = 1..m /\ DOMAIN t = 1..n
  BY <1>1, <1>2
<1>4. r \in Seq(Nat) /\ Len(r) = m - n /\ \A i \in 1..(m - n) : r[i] = s[n + i]
  BY <1>2, <1>3
<1>5. PICK u : u = t \o r
  BY Zenon
<1>6. u \in Seq(Nat) /\ Len(u) = m
  BY <1>2, <1>3, <1>4, <1>5
<1>7. ASSUME NEW i \in 1..m PROVE u[i] = s[i]
  <2>1. CASE i <= n
    <3>1. u[i] = t[i] /\ i \in 1..n
      BY <1>2, <1>3, <1>4, <1>5, <2>1
    <3> QED BY Zenon, <1>1, <1>2, <3>1
  <2>2. CASE i > n
    <3>1. i - n \in 1..(m - n) /\ n + (i - n) = i
      BY <1>3, <2>2
    <3>2. u[i] = r[i - n]
      BY <1>2, <1>3, <1>4, <1>5, <2>2, <3>1
    <3>3. r[i - n] = s[n + (i - n)]
      BY Zenon, <1>4, <3>1
    <3> QED BY Zenon, <3>1, <3>2, <3>3
  <2> QED BY <1>3, <2>1, <2>2
<1>8. u = s
  BY Zenon, <1>2, <1>6, <1>7, SameSequence
<1> QED BY Zenon, <1>2, <1>4, <1>5, <1>8

\* A chain whose text is a prefix of the record's prompt takes what is between
\* them as a masked step, and the record's step.
LEMMA AddsPolar ==
  ASSUME NEW chains \in Seq(Chain), NEW rec \in CompletionRecord, NEW i \in DOMAIN chains,
         tokenIDsHasPrefix(rec.prompt, chainSuffix(chains[i]))
  PROVE  /\ Extend(chains, i, PolarSteps(chains[i], rec)) \in Seq(Chain)
         /\ AddsOne(chains, Extend(chains, i, PolarSteps(chains[i], rec)), rec)
<1>1. PICK c, K : c = chains[i] /\ K = Len(c.steps)
  BY Zenon
<1>2. c \in Chain /\ K \in Nat
  <2>1. c \in Chain
    BY <1>1
  <2> QED BY Zenon, <1>1, <2>1, TextTokens
<1>3. K \in 0..K /\ K + 1 \in 1..(K + 2) /\ (K + 1) - 1 = K /\ (K + 2) - 1 = K + 1
  BY <1>2
<1>4. chainSuffix(c) \in Seq(Nat)
  BY Zenon, <1>1, <1>2, <1>3, TextTokens DEF chainSuffix
<1>5. rec.prompt \in Seq(Nat)
  BY DEF CompletionRecord
<1>6. PICK b : b = interstitialTokens(c, rec.prompt)
  BY Zenon
<1>7. b \in Seq(Nat) /\ chainSuffix(c) \o b = rec.prompt
  <2>1. tokenIDsHasPrefix(rec.prompt, chainSuffix(c))
    BY Zenon, <1>1
  <2> QED BY Zenon, <1>4, <1>5, <1>6, <2>1, PrefixRest DEF interstitialTokens
<1>8. CASE b = <<>>
  <2>1. chainSuffix(c) = rec.prompt
    BY <1>4, <1>7, <1>8
  <2>2. PolarSteps(chains[i], rec) = <<assistantStep(rec)>>
    BY Zenon, <1>1, <1>6, <1>8 DEF PolarSteps
  <2> QED BY Zenon, <1>1, <2>1, <2>2, AddsExact
<1>9. CASE b # <<>>
  <2>1. PICK new : new = <<interstitialStep(b), assistantStep(rec)>>
    BY Zenon
  <2>2. PolarSteps(chains[i], rec) = new
    BY Zenon, <1>1, <1>6, <1>9, <2>1 DEF PolarSteps
  <2>3. /\ assistantStep(rec) \in Step /\ interstitialStep(b) \in Step
        /\ interstitialStep(b).tokens = b /\ 1 \notin Range(interstitialStep(b).mask)
    BY Zenon, <1>7, StepFacts
  <2>4. /\ new \in Seq(Step) /\ 2 = Len(new) /\ new[2] = assistantStep(rec)
        /\ new[1] = interstitialStep(b) /\ 2 \in Nat \ {0} /\ 1 \in 1..2
    BY <2>1, <2>3
  <2>5. \A j \in 1..(2 - 1) : 1 \notin Range(new[j].mask)
    <3>1. \A j \in 1..(2 - 1) : j = 1
      OBVIOUS
    <3> QED BY Zenon, <2>3, <2>4, <3>1
  <2>6. ASSUME NEW d, Grown(c, d), Len(d.steps) = K + 2,
               \A j \in 1..2 : d.steps[K + j] = new[j]
        PROVE  chainSuffixPrefix(d, (K + 2) - 1) = rec.prompt
    <3>1. d \in Chain /\ d.prefix = c.prefix /\ K <= K + 2
          /\ \A j \in 1..K : d.steps[j] = c.steps[j]
      BY Zenon, <1>1, <2>6 DEF Grown
    <3>2. K + 2 \in Nat
      BY <1>2
    <3>3. chainSuffixPrefix(d, K) = chainSuffixPrefix(c, K)
      <4>1. PICK L : L = K + 2
        BY Zenon
      <4>2. L \in Nat /\ L = Len(d.steps) /\ K <= L
        BY Zenon, <2>6, <3>1, <3>2, <4>1
      <4>3. K = Len(c.steps) /\ K \in Nat /\ K \in 0..K
        BY Zenon, <1>1, <1>2, <1>3
      <4>4. \A m \in 0..K : chainSuffixPrefix(d, m) = chainSuffixPrefix(c, m)
        BY Zenon, <3>1, <4>2, <4>3, SameText
      <4> QED BY Zenon, <4>3, <4>4
    <3>4. chainSuffixPrefix(d, K + 1) = chainSuffixPrefix(d, (K + 1) - 1) \o d.steps[K + 1].tokens
      BY Zenon, <1>3, <2>6, <3>2, TextFacts
    <3>5. d.steps[K + 1].tokens = b
      BY Zenon, <2>3, <2>4, <2>6
    <3> QED BY Zenon, <1>1, <1>3, <1>7, <3>3, <3>4, <3>5 DEF chainSuffix
  <2>7. /\ Extend(chains, i, new) \in Seq(Chain)
        /\ AddsOne(chains, Extend(chains, i, new), rec)
    BY Zenon, <1>1, <2>4, <2>5, <2>6, AddsSteps
  <2> QED BY Zenon, <2>2, <2>7
<1> QED BY Zenon, <1>8, <1>9

\* Each builder adds a record so.
LEMMA AddRecordAdds ==
  ASSUME NEW builder, NEW chains \in Seq(Chain), NEW rec \in CompletionRecord
  PROVE  /\ AddRecord(builder, chains, rec) \in Seq(Chain)
         /\ AddsOne(chains, AddRecord(builder, chains, rec), rec)
<1>1. rec.partition \in Label /\ "" \in Label
  <2>1. rec.partition \in STRING
    BY DEF CompletionRecord
  <2> QED BY Zenon, <2>1 DEF Label
<1>2. DOMAIN chains \in SUBSET Nat
  OBVIOUS
<1>3. CASE builder = "v1"
  <2>1. PICK S : S = {i \in DOMAIN chains : rec.prompt = chainSuffix(chains[i])}
    BY Zenon
  <2>2. CASE First(S) > 0
    <3>1. PICK i : i = First(S)
      BY Zenon
    <3>2. i \in DOMAIN chains /\ chainSuffix(chains[i]) = rec.prompt
      <4>1. S \in SUBSET Nat
        BY Zenon, <1>2, <2>1
      <4> QED BY Zenon, <2>1, <2>2, <3>1, <4>1, FirstFacts
    <3>3. AddRecord(builder, chains, rec) = Extend(chains, i, <<assistantStep(rec)>>)
      BY Zenon, <1>3, <2>1, <2>2, <3>1 DEF AddRecord, findExtendableChain
    <3> QED BY Zenon, <3>2, <3>3, AddsExact
  <2>3. CASE ~(First(S) > 0)
    <3>1. AddRecord(builder, chains, rec) = Append(chains, NewChain(rec, ""))
      BY <1>3, <2>1, <2>3 DEF AddRecord, findExtendableChain
    <3> QED BY Zenon, <1>1, <3>1, AddsNew
  <2> QED BY Zenon, <2>2, <2>3
<1>4. CASE builder = "prefix_merge"
  <2>1. builder # "v1"
    BY <1>4
  <2>2. PICK S : S = {i \in DOMAIN chains :
                        /\ chainPartitionCompatible(chains[i], rec)
                        /\ tokenIDsHasPrefix(rec.prompt, chainSuffix(chains[i]))
                        /\ ~hasEOTInterstitialBoundary(chains[i], rec.prompt)}
    BY Zenon
  <2>3. CASE First(S) > 0
    <3>1. PICK i : i = First(S)
      BY Zenon
    <3>2. i \in DOMAIN chains /\ tokenIDsHasPrefix(rec.prompt, chainSuffix(chains[i]))
      <4>1. S \in SUBSET Nat
        BY Zenon, <1>2, <2>2
      <4> QED BY Zenon, <2>2, <2>3, <3>1, <4>1, FirstFacts
    <3>3. AddRecord(builder, chains, rec) = Extend(chains, i, PolarSteps(chains[i], rec))
      BY Zenon, <1>4, <2>1, <2>2, <2>3, <3>1 DEF AddRecord, findPolarExtendableChain
    <3> QED BY Zenon, <3>2, <3>3, AddsPolar
  <2>4. CASE ~(First(S) > 0)
    <3>1. AddRecord(builder, chains, rec) = Append(chains, NewChain(rec, rec.partition))
      BY Zenon, <1>4, <2>1, <2>2, <2>4 DEF AddRecord, findPolarExtendableChain
    <3> QED BY Zenon, <1>1, <3>1, AddsNew
  <2> QED BY Zenon, <2>3, <2>4
<1>5. CASE builder # "v1" /\ builder # "prefix_merge"
  <2>1. ~(0 > 0)
    OBVIOUS
  <2>2. AddRecord(builder, chains, rec) = Append(chains, NewChain(rec, ""))
    BY Zenon, <1>5, <2>1 DEF AddRecord
  <2> QED BY Zenon, <1>1, <2>2, AddsNew
<1> QED BY Zenon, <1>3, <1>4, <1>5

(***************************************************************************)
(* Sorting.                                                                *)
(***************************************************************************)
IsFunction(f) == f = [x \in DOMAIN f |-> f[x]]

\* before is a strict total order of S.
TotalOrder(S, before) ==
  /\ \A x \in S : <<x, x>> \notin before
  /\ \A x, y \in S : x # y => <<x, y>> \in before \/ <<y, x>> \in before
  /\ \A x, y, z \in S : <<x, y>> \in before /\ <<y, z>> \in before => <<x, z>> \in before

Below(S, before, x) == {y \in S : <<y, x>> \in before}

\* A set of n numbers from 1 on.
LEMMA UpTo ==
  ASSUME NEW n \in Nat PROVE IsFiniteSet(1..n) /\ Cardinality(1..n) = n
<1>1. 1 \in Int /\ n \in Int
  OBVIOUS
<1>2. IsFiniteSet(1..n) /\ Cardinality(1..n) = IF 1 > n THEN 0 ELSE n - 1 + 1
  BY Zenon, <1>1, FS_Interval
<1> QED BY <1>2

\* A member further up in the order has more members below it.
LEMMA BelowGrows ==
  ASSUME NEW S, IsFiniteSet(S), NEW before, TotalOrder(S, before),
         NEW x \in S, NEW y \in S, <<x, y>> \in before
  PROVE  Cardinality(Below(S, before, x)) < Cardinality(Below(S, before, y))
<1>1. PICK X, Y : X = Below(S, before, x) /\ Y = Below(S, before, y)
  BY Zenon
<1>2. X \subseteq Y /\ x \in Y /\ x \notin X /\ Y \subseteq S
  BY Zenon, <1>1 DEF Below, TotalOrder
<1>3. IsFiniteSet(Y)
  BY Zenon, <1>2, FS_Subset
<1>4. /\ IsFiniteSet(X) /\ Cardinality(X) <= Cardinality(Y) /\ Cardinality(X) # Cardinality(Y)
  BY Zenon, <1>2, <1>3, FS_Subset
<1>5. Cardinality(X) \in Nat /\ Cardinality(Y) \in Nat
  BY Zenon, <1>3, <1>4, FS_CardinalityType
<1>6. Cardinality(X) < Cardinality(Y)
  BY <1>4, <1>5
<1> QED BY Zenon, <1>1, <1>6

\* f lists each member of S once.
Enumerates(f, S) ==
  /\ IsFunction(f) /\ DOMAIN f = 1..Cardinality(S)
  /\ \A n \in 1..Cardinality(S) : f[n] \in S
  /\ \A m, n \in 1..Cardinality(S) : f[m] = f[n] => m = n
  /\ \A x \in S : \E n \in 1..Cardinality(S) : f[n] = x

Nth(S, before, n) == CHOOSE x \in S : Cardinality({y \in S : <<y, x>> \in before}) = n - 1

\* Ordered lists each member of a totally ordered finite set once.
LEMMA OrderedFacts ==
  ASSUME NEW S, IsFiniteSet(S), NEW before, TotalOrder(S, before)
  PROVE  Enumerates(Ordered(S, before), S)
<1>1. PICK N : N = Cardinality(S)
  BY Zenon
<1>2. N \in Nat
  BY Zenon, <1>1, FS_CardinalityType
<1> DEFINE rank == [x \in S |-> Cardinality(Below(S, before, x)) + 1]
<1>3. ASSUME NEW x \in S
      PROVE  Cardinality(Below(S, before, x)) \in Nat /\ Cardinality(Below(S, before, x)) < N
  <2>1. PICK X : X = Below(S, before, x)
    BY Zenon
  <2>2. X \subseteq S /\ x \notin X
    BY Zenon, <2>1 DEF Below, TotalOrder
  <2>3. IsFiniteSet(X) /\ Cardinality(X) <= N /\ Cardinality(X) # N
    BY Zenon, <1>1, <2>2, FS_Subset
  <2>4. Cardinality(X) \in Nat
    BY Zenon, <2>3, FS_CardinalityType
  <2>5. Cardinality(X) < N
    BY <1>2, <2>3, <2>4
  <2> QED BY Zenon, <2>1, <2>4, <2>5
<1>4. ASSUME NEW x \in S, NEW y \in S,
             Cardinality(Below(S, before, x)) = Cardinality(Below(S, before, y))
      PROVE  x = y
  <2>1. ASSUME NEW u \in S, NEW v \in S, <<u, v>> \in before
        PROVE  Cardinality(Below(S, before, u)) # Cardinality(Below(S, before, v))
    <3>1. Cardinality(Below(S, before, u)) < Cardinality(Below(S, before, v))
      BY Zenon, <2>1, BelowGrows
    <3> QED BY <1>3, <3>1
  <2> QED BY Zenon, <1>4, <2>1 DEF TotalOrder
<1>5. rank \in Injection(S, 1..N)
  <2>1. ASSUME NEW x \in S PROVE rank[x] \in 1..N
    BY <1>2, <1>3
  <2>2. ASSUME NEW x \in S, NEW y \in S, rank[x] = rank[y] PROVE x = y
    <3>1. Cardinality(Below(S, before, x)) = Cardinality(Below(S, before, y))
      BY <1>3, <2>2
    <3> QED BY Zenon, <1>4, <3>1
  <2>3. rank \in [S -> 1..N]
    BY Zenon, <2>1
  <2> QED BY Zenon, <2>2, <2>3 DEF Injection, IsInjective
<1>6. rank \in Surjection(S, 1..N)
  <2>1. IsFiniteSet(1..N) /\ Cardinality(1..N) = N
    BY Zenon, <1>2, UpTo
  <2> HIDE DEF rank
  <2> QED BY Zenon, <1>1, <1>5, <2>1, FS_Injection
<1>7. ASSUME NEW n \in 1..N
      PROVE  /\ Ordered(S, before)[n] \in S
             /\ Cardinality(Below(S, before, Ordered(S, before)[n])) = n - 1
  <2>1. PICK x \in S : rank[x] = n
    BY Zenon, <1>6 DEF Surjection
  <2>2. Cardinality(Below(S, before, x)) = n - 1
    BY <1>3, <2>1
  <2>3. Ordered(S, before)[n] = CHOOSE y \in S : Cardinality(Below(S, before, y)) = n - 1
    BY Zenon, <1>1 DEF Ordered, Below
  <2> QED BY Zenon, <2>2, <2>3
<1>8. ASSUME NEW m \in 1..N, NEW n \in 1..N, Ordered(S, before)[m] = Ordered(S, before)[n] PROVE m = n
  <2>1. m - 1 = n - 1
    BY Zenon, <1>7, <1>8
  <2> QED BY <1>2, <2>1
<1>9. ASSUME NEW x \in S PROVE \E n \in 1..N : Ordered(S, before)[n] = x
  <2>1. PICK n : n = Cardinality(Below(S, before, x)) + 1
    BY Zenon
  <2>2. n \in 1..N /\ Cardinality(Below(S, before, x)) = n - 1
    BY <1>2, <1>3, <2>1
  <2> QED BY Zenon, <1>4, <1>7, <2>2
<1>10. IsFunction(Ordered(S, before)) /\ DOMAIN Ordered(S, before) = 1..N
  <2>1. PICK f : f = Ordered(S, before)
    BY Zenon
  <2>2. f = [n \in 1..N |-> Nth(S, before, n)]
    BY Zenon, <1>1, <2>1 DEF Ordered, Nth
  <2>3. IsFunction(f) /\ DOMAIN f = 1..N
    BY Zenon, <2>2 DEF IsFunction
  <2> QED BY Zenon, <2>1, <2>3
<1> QED BY Zenon, <1>1, <1>7, <1>8, <1>9, <1>10 DEF Enumerates

\* Records by time, then id, then place.
Earlier(records, i, j) ==
  \/ records[i].at < records[j].at
  \/ records[i].at = records[j].at /\ records[i].id < records[j].id
  \/ records[i].at = records[j].at /\ records[i].id = records[j].id /\ i < j

\* That is a strict total order of the places.
LEMMA EarlierTotal ==
  ASSUME NEW records \in Seq(CompletionRecord), NEW before,
         before = {ij \in (DOMAIN records) \X (DOMAIN records) : Earlier(records, ij[1], ij[2])}
  PROVE  TotalOrder(DOMAIN records, before)
<1>1. PICK D : D = DOMAIN records
  BY Zenon
<1>2. D \subseteq Nat
  BY <1>1
<1>3. PICK at, id : /\ at = [i \in D |-> records[i].at] /\ id = [i \in D |-> records[i].id]
  BY Zenon
<1>4. \A i \in D : at[i] \in Nat /\ id[i] \in Nat
  <2>1. \A i \in D : records[i] \in CompletionRecord
    BY <1>1
  <2>2. \A r \in CompletionRecord : r.at \in Nat /\ r.id \in Nat
    BY DEF CompletionRecord
  <2> QED BY Zenon, <1>3, <2>1, <2>2
<1>5. ASSUME NEW i \in D, NEW j \in D
      PROVE  <<i, j>> \in before <=>
               \/ at[i] < at[j]
               \/ at[i] = at[j] /\ id[i] < id[j]
               \/ at[i] = at[j] /\ id[i] = id[j] /\ i < j
  <2>1. <<i, j>> \in before <=> Earlier(records, i, j)
    <3>1. before = {ij \in D \X D : Earlier(records, ij[1], ij[2])}
      BY Zenon, <1>1
    <3>2. <<i, j>> \in D \X D /\ <<i, j>>[1] = i /\ <<i, j>>[2] = j
      OBVIOUS
    <3> QED BY Zenon, <3>1, <3>2
  <2> QED BY Zenon, <1>3, <2>1 DEF Earlier
<1>6. \A i \in D : <<i, i>> \notin before
  <2> SUFFICES ASSUME NEW i \in D PROVE <<i, i>> \notin before
    BY Zenon
  <2>1. ~(at[i] < at[i]) /\ ~(id[i] < id[i]) /\ ~(i < i)
    BY <1>2, <1>4
  <2> QED BY Zenon, <1>5, <2>1
<1>7. \A i, j \in D : i # j => <<i, j>> \in before \/ <<j, i>> \in before
  <2> SUFFICES ASSUME NEW i \in D, NEW j \in D, i # j
               PROVE  <<i, j>> \in before \/ <<j, i>> \in before
    BY Zenon
  <2>1. /\ at[i] < at[j] \/ at[j] < at[i] \/ at[i] = at[j]
        /\ id[i] < id[j] \/ id[j] < id[i] \/ id[i] = id[j]
        /\ i < j \/ j < i
    BY <1>2, <1>4
  <2> QED BY Zenon, <1>5, <2>1
<1>8. \A i, j, k \in D : <<i, j>> \in before /\ <<j, k>> \in before => <<i, k>> \in before
  <2> SUFFICES ASSUME NEW i \in D, NEW j \in D, NEW k \in D, <<i, j>> \in before, <<j, k>> \in before
               PROVE  <<i, k>> \in before
    BY Zenon
  <2>1. PICK ai, aj, ak, di, dj, dk :
          /\ ai = at[i] /\ aj = at[j] /\ ak = at[k] /\ di = id[i] /\ dj = id[j] /\ dk = id[k]
    BY Zenon
  <2>2. /\ ai \in Nat /\ aj \in Nat /\ ak \in Nat /\ di \in Nat /\ dj \in Nat /\ dk \in Nat
        /\ i \in Nat /\ j \in Nat /\ k \in Nat
    BY Zenon, <1>2, <1>4, <2>1
  <2>3. ai < aj \/ (ai = aj /\ di < dj) \/ (ai = aj /\ di = dj /\ i < j)
    BY Zenon, <1>5, <2>1
  <2>4. aj < ak \/ (aj = ak /\ dj < dk) \/ (aj = ak /\ dj = dk /\ j < k)
    BY Zenon, <1>5, <2>1
  <2>5. ai < ak \/ (ai = ak /\ di < dk) \/ (ai = ak /\ di = dk /\ i < k)
    BY <2>2, <2>3, <2>4
  <2> QED BY Zenon, <1>5, <2>1, <2>5
<1> QED BY Zenon, <1>1, <1>6, <1>7, <1>8 DEF TotalOrder

\* Sorting keeps the records, and repeats none.
LEMMA SortFacts ==
  ASSUME NEW records \in Seq(CompletionRecord)
  PROVE  /\ sortCompletionRecords(records) \in Seq(CompletionRecord)
         /\ Range(sortCompletionRecords(records)) = Range(records)
         /\ IsInjective(records) => IsInjective(sortCompletionRecords(records))
<1>1. PICK D, N : D = DOMAIN records /\ N = Len(records)
  BY Zenon
<1>2. PICK before : before = {ij \in D \X D : Earlier(records, ij[1], ij[2])}
  BY Zenon
<1>3. PICK order : order = Ordered(D, before)
  BY Zenon
<1>4. PICK sorted : sorted = sortCompletionRecords(records)
  BY Zenon
<1>5. sorted = [n \in D |-> records[order[n]]]
  BY Zenon, <1>1, <1>2, <1>3, <1>4 DEF sortCompletionRecords, Earlier
<1>6. N \in Nat /\ D = 1..N /\ \A i \in D : records[i] \in CompletionRecord
  BY <1>1
<1>7. IsFiniteSet(D) /\ Cardinality(D) = N
  BY Zenon, <1>6, UpTo
<1>8. Enumerates(order, D)
  BY Zenon, <1>1, <1>2, <1>3, <1>7, EarlierTotal, OrderedFacts
<1>9. /\ \A n \in D : order[n] \in D
      /\ \A m, n \in D : order[m] = order[n] => m = n
      /\ \A i \in D : \E n \in D : order[n] = i
  BY Zenon, <1>6, <1>7, <1>8 DEF Enumerates
<1>10. sorted \in Seq(CompletionRecord)
  <2>1. \A n \in D : records[order[n]] \in CompletionRecord
    BY Zenon, <1>6, <1>9
  <2>2. sorted \in [1..N -> CompletionRecord]
    BY Zenon, <1>5, <1>6, <2>1
  <2> QED BY <1>6, <2>2
<1>11. DOMAIN sorted = D /\ \A n \in D : sorted[n] = records[order[n]]
  BY Zenon, <1>5
<1>12. Range(sorted) = Range(records)
  <2>1. \A n \in D : \E i \in D : sorted[n] = records[i]
    BY Zenon, <1>9, <1>11
  <2>2. ASSUME NEW i \in D PROVE \E n \in D : records[i] = sorted[n]
    <3>1. PICK n \in D : order[n] = i
      BY Zenon, <1>9
    <3>2. sorted[n] = records[i]
      BY Zenon, <1>11, <3>1
    <3> QED BY Zenon, <3>2
  <2>3. Range(sorted) = {sorted[n] : n \in D} /\ Range(records) = {records[i] : i \in D}
    BY Zenon, <1>1, <1>11 DEF Range
  <2>4. {sorted[n] : n \in D} = {records[i] : i \in D}
    BY SMT, <2>1, <2>2
  <2> QED BY Zenon, <2>3, <2>4
<1>13. ASSUME IsInjective(records) PROVE IsInjective(sorted)
  <2>1. \A i, j \in D : records[i] = records[j] => i = j
    BY Zenon, <1>1, <1>13 DEF IsInjective
  <2>2. ASSUME NEW m \in D, NEW n \in D, sorted[m] = sorted[n] PROVE m = n
    <3>1. sorted[m] = records[order[m]] /\ sorted[n] = records[order[n]]
      BY Zenon, <1>11
    <3>2. records[order[m]] = records[order[n]]
      BY Zenon, <2>2, <3>1
    <3>3. order[m] \in D /\ order[n] \in D
      BY Zenon, <1>9
    <3>4. order[m] = order[n]
      BY Zenon, <2>1, <3>2, <3>3
    <3> QED BY Zenon, <1>9, <3>4
  <2> QED BY Zenon, <1>11, <2>2 DEF IsInjective
<1> QED BY Zenon, <1>4, <1>10, <1>12, <1>13

(***************************************************************************)
(* What a builder makes of the records.                                    *)
(***************************************************************************)
\* What is built with one record more, and f[m] is built from the first m.
WithRecord(builder, chains, rec) ==
  IF rec.sampled = <<>> THEN chains ELSE AddRecord(builder, chains, rec)

Builds(f, builder, sorted, n) ==
  f = [m \in 0..n |-> IF m = 0 THEN <<>> ELSE WithRecord(builder, f[m - 1], sorted[m])]

\* The recursion has a solution.
LEMMA BuildsExist ==
  ASSUME NEW builder, NEW sorted, NEW L \in Nat
  PROVE  \E f : Builds(f, builder, sorted, L)
<1> DEFINE S == {n \in Nat : \E f : Builds(f, builder, sorted, n)}
<1>1. 0 \in S
  <2>1. Builds([m \in 0..0 |-> <<>>], builder, sorted, 0)
    BY DEF Builds
  <2> QED BY Zenon, <2>1
<1>2. ASSUME NEW n \in Nat, n \in S PROVE n + 1 \in S
  <2>1. PICK f : Builds(f, builder, sorted, n)
    BY Zenon, <1>2
  <2> DEFINE g == [m \in 0..(n + 1) |-> IF m = n + 1 THEN WithRecord(builder, f[n], sorted[n + 1]) ELSE f[m]]
  <2>2. \A m \in 0..n : f[m] = IF m = 0 THEN <<>> ELSE WithRecord(builder, f[m - 1], sorted[m])
    BY Zenon, <2>1 DEF Builds
  <2>3. ASSUME NEW m \in 0..(n + 1)
        PROVE  g[m] = IF m = 0 THEN <<>> ELSE WithRecord(builder, g[m - 1], sorted[m])
    <3>1. CASE m = 0
      <4>1. m \in 0..n /\ m # n + 1
        BY <3>1
      <4> QED BY Zenon, <2>2, <3>1, <4>1
    <3>2. CASE m \in 1..n
      <4>1. m \in 0..n /\ m - 1 \in 0..n /\ m # n + 1 /\ m - 1 # n + 1 /\ m # 0 /\ m - 1 \in 0..(n + 1)
        BY <3>2
      <4> QED BY Zenon, <2>2, <4>1
    <3>3. CASE m = n + 1
      <4>1. m # 0 /\ m - 1 = n /\ n \in 0..(n + 1) /\ n # n + 1
        BY <3>3
      <4> QED BY Zenon, <3>3, <4>1
    <3> QED BY <3>1, <3>2, <3>3
  <2>4. Builds(g, builder, sorted, n + 1)
    BY Zenon, <2>3 DEF Builds
  <2> QED BY <2>4
<1> HIDE DEF S
<1>3. \A n \in Nat : n \in S
  BY Zenon, <1>1, <1>2, Induction
<1> QED BY Zenon, <1>3 DEF S

\* Chains built from distinct records are faithful to them.
LEMMA BuildFaithful ==
  ASSUME NEW builder, NEW sorted \in Seq(CompletionRecord), IsInjective(sorted)
  PROVE  Faithful(Build(builder, sorted), Range(sorted))
<1>1. PICK L : L = Len(sorted)
  BY Zenon
<1>2. L \in Nat /\ DOMAIN sorted = 1..L /\ \A n \in 1..L : sorted[n] \in CompletionRecord
  BY <1>1
<1> DEFINE built == CHOOSE f : Builds(f, builder, sorted, L)
<1>3. Builds(built, builder, sorted, L)
  BY Zenon, <1>2, BuildsExist
<1>4. Build(builder, sorted) = built[L]
  BY Zenon, <1>1 DEF Build, Builds, WithRecord
<1> HIDE DEF built
<1>5. \A m \in 0..L : built[m] = IF m = 0 THEN <<>> ELSE WithRecord(builder, built[m - 1], sorted[m])
  BY Zenon, <1>3 DEF Builds
<1> DEFINE Upto(n) == {sorted[i] : i \in 1..n}
           S == {n \in Nat : n <= L => built[n] \in Seq(Chain) /\ Faithful(built[n], Upto(n))}
<1>6. 0 \in S
  <2>1. 0 \in 0..L
    BY <1>2
  <2>2. built[0] = <<>>
    BY Zenon, <1>5, <2>1
  <2>3. Upto(0) = {} /\ <<>> \in Seq(Chain)
    OBVIOUS
  <2>4. Faithful(<<>>, {})
    BY Zenon, FaithfulNone
  <2>5. built[0] \in Seq(Chain) /\ Faithful(built[0], Upto(0))
    BY Zenon, <2>2, <2>3, <2>4
  <2> HIDE DEF Upto
  <2> QED BY Zenon, <2>5
<1>7. ASSUME NEW n \in Nat, n \in S PROVE n + 1 \in S
  <2>1. ASSUME n + 1 <= L
        PROVE  built[n + 1] \in Seq(Chain) /\ Faithful(built[n + 1], Upto(n + 1))
    <3>1. n <= L /\ n + 1 \in 0..L /\ n + 1 \in 1..L /\ n + 1 # 0 /\ (n + 1) - 1 = n
      BY <1>2, <2>1
    <3>2. built[n] \in Seq(Chain) /\ Faithful(built[n], Upto(n))
      BY Zenon, <1>7, <3>1
    <3>3. PICK rec, chains, after, R : /\ rec = sorted[n + 1] /\ chains = built[n]
                                       /\ after = built[n + 1] /\ R = Upto(n)
      BY Zenon
    <3>4. rec \in CompletionRecord
      BY Zenon, <1>2, <3>1, <3>3
    <3>5. after = WithRecord(builder, chains, rec)
      BY Zenon, <1>5, <3>1, <3>3
    <3>6. Upto(n + 1) = R \cup {rec}
      <4>1. \A i : i \in 1..(n + 1) <=> i \in 1..n \/ i = n + 1
        OBVIOUS
      <4> QED BY Zenon, <3>3, <4>1
    <3>7. rec \notin R
      <4>1. \A i \in 1..n : i # n + 1 /\ i \in 1..L
        BY <3>1, <1>2
      <4> QED BY Zenon, <1>2, <3>1, <3>3, <4>1 DEF IsInjective
    <3> HIDE DEF Upto
    <3>8. CASE rec.sampled = <<>>
      <4>1. after = chains
        BY Zenon, <3>5, <3>8 DEF WithRecord
      <4>2. Faithful(chains, R \cup {rec})
        BY Zenon, <3>2, <3>3, <3>8, FaithfulSkip
      <4> QED BY Zenon, <3>2, <3>3, <3>6, <4>1, <4>2
    <3>9. CASE rec.sampled # <<>>
      <4>1. after = AddRecord(builder, chains, rec)
        BY Zenon, <3>5, <3>9 DEF WithRecord
      <4>2. after \in Seq(Chain) /\ AddsOne(chains, after, rec)
        BY Zenon, <3>2, <3>3, <3>4, <4>1, AddRecordAdds
      <4>3. Faithful(after, R \cup {rec})
        BY Zenon, <3>2, <3>3, <3>7, <3>9, <4>2, FaithfulAdd
      <4> QED BY Zenon, <3>3, <3>6, <4>2, <4>3
    <3> QED BY Zenon, <3>8, <3>9
  <2> HIDE DEF Upto
  <2> QED BY <2>1
<1> HIDE DEF S
<1>8. \A n \in Nat : n \in S
  BY Zenon, <1>6, <1>7, Induction
<1>9. L <= L
  BY <1>2
<1>10. Faithful(built[L], Upto(L))
  BY Zenon, <1>2, <1>8, <1>9 DEF S
<1>11. Upto(L) = Range(sorted)
  BY Zenon, <1>2 DEF Range
<1> HIDE DEF Upto
<1> QED BY Zenon, <1>4, <1>10, <1>11

\* Whatever the builder and the strategy, the trajectory group assembled from
\* distinct completion records is faithful to them (trajectory.go,
\* trajectory_builder.go).
THEOREM BuilderFaithful ==
  ASSUME NEW records \in Seq(CompletionRecord), IsInjective(records), NEW builder, NEW strategy
  PROVE  Faithful(assembleTrajectoryGroup(records, builder, strategy), Range(records))
<1>1. PICK sorted : sorted = sortCompletionRecords(records)
  BY Zenon
<1>2. sorted \in Seq(CompletionRecord) /\ Range(sorted) = Range(records) /\ IsInjective(sorted)
  BY Zenon, <1>1, SortFacts
<1>3. \A b : Faithful(Build(b, sorted), Range(records))
  BY Zenon, <1>2, BuildFaithful
<1>4. \E b : assembleTrajectoryGroup(records, builder, strategy) = Build(b, sorted)
  BY Zenon, <1>1 DEF assembleTrajectoryGroup, BuildTrajectory, BuildTrajectoryGroup,
                     buildPerRequest, buildPrefixMergePolar
<1> QED BY Zenon, <1>3, <1>4
-----------------------------------------------------------------------------
(***************************************************************************)
(* The service: the inductive invariants.                                  *)
(***************************************************************************)
IsCall(k) == k = [pc |-> k.pc, i |-> k.i, group |-> k.group]
IsSession(k) == k = [task |-> k.task, stage |-> k.stage, group |-> k.group, timedOut |-> k.timedOut]
IsTask(k) ==
  k = [status |-> k.status, num |-> k.num, sessions |-> k.sessions, failed |-> k.failed,
       group |-> k.group, groups |-> k.groups, partials |-> k.partials,
       strategy |-> k.strategy, offline |-> k.offline]

\* A task with its sessions; a running one has not heard from all of them.
TaskOK(k) ==
  /\ IsTask(k)
  /\ k.num \in Nat \ {0}
  /\ IsFunction(k.sessions) /\ DOMAIN k.sessions = 1..k.num
  /\ IsGroup(k.group)
  /\ IsFunction(k.groups) /\ IsFiniteSet(DOMAIN k.groups)
  /\ DOMAIN k.groups \subseteq Range(k.sessions)
  /\ \A s \in DOMAIN k.groups : IsGroup(k.groups[s])
  /\ k.num > 1 /\ k.status = "running" => Cardinality(DOMAIN k.groups) < k.num

CallsInv ==
  /\ IsFunction(call) /\ DOMAIN call = Caller
  /\ \A c \in Caller : IsCall(call[c]) /\ call[c].i \in Nat /\ IsGroup(call[c].group)

TasksInv ==
  /\ IsFunction(tasks) /\ DOMAIN tasks \subseteq Caller
  /\ \A t \in DOMAIN tasks : TaskOK(tasks[t])

\* A caller makes its task once, and starts the sessions of the task it made.
CallersInv ==
  \A c \in Caller :
    /\ call[c].pc = "start" => c \notin DOMAIN tasks /\ call[c].i = 0
    /\ call[c].pc = "gateway" => c \in DOMAIN tasks /\ call[c].i < tasks[c].num

\* A session of the gateway is one of its task.
SessionsInv ==
  /\ IsFunction(session)
  /\ \A s \in DOMAIN session :
       /\ IsSession(session[s]) /\ IsGroup(session[s].group)
       /\ session[s].task \in DOMAIN tasks
       /\ s \in Range(tasks[session[s].task].sessions)

ShapeInv == workload \in Workload /\ CallsInv /\ TasksInv /\ CallersInv /\ SessionsInv

\* The registered nodes D in the order of their ids.
ActiveOf(D) == Ordered(D, {mn \in D \X D : mn[1] < mn[2]})

\* Since the nodes last changed, sessions were dealt out along the sorted nodes,
\* ending at the position before idx.
DealtInTurn(D, idx, dealt) ==
  /\ D \subseteq Node /\ IsFiniteSet(D)
  /\ idx \in Nat /\ dealt \in Seq(D) /\ Len(dealt) <= idx
  /\ \A i \in 1..Len(dealt) :
       dealt[i] = ActiveOf(D)[((idx - Len(dealt) + (i - 1)) % Cardinality(D)) + 1]

NodesInv == IsFunction(registry) /\ DealtInTurn(DOMAIN registry, nextIdx, recent)

\* Who holds a group: a caller, a gateway session, or a task for itself or for
\* one of its sessions.
CallHolds(ca, h, g) == \E c \in Caller : h = <<"call", c>> /\ g = ca[c].group
SessionHolds(se, h, g) == \E s \in DOMAIN se : h = <<"session", s>> /\ g = se[s].group
TaskHolds(ta, h, g) ==
  \E t \in DOMAIN ta :
    \/ h = <<"task", t>> /\ g = ta[t].group
    \/ \E s \in DOMAIN ta[t].groups : h = <<"report", t, s>> /\ g = ta[t].groups[s]

Holds(ca, se, ta, h, g) == CallHolds(ca, h, g) \/ SessionHolds(se, h, g) \/ TaskHolds(ta, h, g)

\* The holders train faithfully on records in taken, no two on the same.
Owned(ca, se, ta, taken) ==
  /\ \A h, g : Holds(ca, se, ta, h, g) => Faithful(g.chains, g.records) /\ g.records \subseteq taken
  /\ \A h, g, k, f : Holds(ca, se, ta, h, g) /\ Holds(ca, se, ta, k, f) /\ h # k
                       => g.records \cap f.records = {}

\* The queue holds different records of those captured so far, and so does d,
\* what was taken: none of them is in both, and what is in neither was dropped.
Queue(d) ==
  /\ captured \in 0..Len(Record)
  /\ capture \in Seq(CompletionRecord) /\ IsInjective(capture)
  /\ Range(capture) \cap d = {}
  /\ Range(capture) \cup d \subseteq {Record[i] : i \in 1..captured}

HoldInv == \E d : Queue(d) /\ Owned(call, session, tasks, d)

(***************************************************************************)
(* Maps, calls and tasks after a step.                                     *)
(***************************************************************************)
\* Replacing the value of a key, if it is there.
LEMMA ExceptFacts ==
  ASSUME NEW m, IsFunction(m), NEW k, NEW v
  PROVE  /\ IsFunction([m EXCEPT ![k] = v]) /\ DOMAIN [m EXCEPT ![k] = v] = DOMAIN m
         /\ k \in DOMAIN m => [m EXCEPT ![k] = v][k] = v
         /\ \A x \in DOMAIN m : x # k => [m EXCEPT ![k] = v][x] = m[x]
BY Zenon DEF IsFunction

\* The caller c is now at p with the index n and the group g; the others are
\* where they were.
CallSet(c, p, n, g) ==
  /\ call'[c].pc = p /\ call'[c].i = n /\ call'[c].group = g
  /\ \A d \in Caller \ {c} : call'[d] = call[d]

\* A map of calls in which c has the given fields and the others those of call.
Row(f, c, p, n, g) ==
  /\ IsFunction(f) /\ DOMAIN f = Caller
  /\ f[c] = [pc |-> p, i |-> n, group |-> g]
  /\ \A d \in Caller \ {c} : f[d] = call[d]

\* Setting one field of a call.
LEMMA RowFacts ==
  ASSUME NEW c \in Caller, NEW f, NEW a, NEW b, NEW e, Row(f, c, a, b, e), NEW v
  PROVE  /\ Row([f EXCEPT ![c].pc = v], c, v, b, e)
         /\ Row([f EXCEPT ![c].i = v], c, a, v, e)
         /\ Row([f EXCEPT ![c].group = v], c, a, b, v)
<1>1. PICK k : k = [pc |-> a, i |-> b, group |-> e]
  BY Zenon
<1>2. /\ [k EXCEPT !.pc = v] = [pc |-> v, i |-> b, group |-> e]
      /\ [k EXCEPT !.i = v] = [pc |-> a, i |-> v, group |-> e]
      /\ [k EXCEPT !.group = v] = [pc |-> a, i |-> b, group |-> v]
  BY <1>1
<1>3. /\ [f EXCEPT ![c].pc = v] = [f EXCEPT ![c] = [pc |-> v, i |-> b, group |-> e]]
      /\ [f EXCEPT ![c].i = v] = [f EXCEPT ![c] = [pc |-> a, i |-> v, group |-> e]]
      /\ [f EXCEPT ![c].group = v] = [f EXCEPT ![c] = [pc |-> a, i |-> b, group |-> v]]
  BY Zenon, <1>1, <1>2 DEF Row
<1>4. ASSUME NEW w
      PROVE  /\ IsFunction([f EXCEPT ![c] = w]) /\ DOMAIN [f EXCEPT ![c] = w] = Caller
             /\ [f EXCEPT ![c] = w][c] = w
             /\ \A d \in Caller \ {c} : [f EXCEPT ![c] = w][d] = call[d]
  BY Zenon, ExceptFacts DEF Row
<1> QED BY Zenon, <1>3, <1>4 DEF Row

\* The ways in which an action sets its caller's fields.
LEMMA CallFacts ==
  ASSUME CallsInv, NEW c \in Caller, NEW p, NEW n \in Nat, NEW g, IsGroup(g),
         \/ call' = [call EXCEPT ![c].pc = p] /\ n = call[c].i /\ g = call[c].group
         \/ call' = [call EXCEPT ![c].pc = p, ![c].group = g] /\ n = call[c].i
         \/ call' = [call EXCEPT ![c].i = n, ![c].pc = p] /\ g = call[c].group
         \/ call' = [call EXCEPT ![c].pc = p, ![c].group = g, ![c].i = n]
  PROVE  CallsInv' /\ CallSet(c, p, n, g)
<1>1. Row(call, c, call[c].pc, call[c].i, call[c].group)
  BY Zenon DEF CallsInv, IsCall, Row
<1>2. Row(call', c, p, n, g)
  <2>1. CASE call' = [call EXCEPT ![c].pc = p] /\ n = call[c].i /\ g = call[c].group
    BY Zenon, <1>1, <2>1, RowFacts
  <2>2. CASE call' = [call EXCEPT ![c].pc = p, ![c].group = g] /\ n = call[c].i
    <3>1. PICK f : f = [call EXCEPT ![c].pc = p]
      BY Zenon
    <3>2. call' = [f EXCEPT ![c].group = g]
      BY <2>2, <3>1
    <3>3. Row(f, c, p, n, call[c].group)
      BY Zenon, <1>1, <2>2, <3>1, RowFacts
    <3> QED BY Zenon, <3>2, <3>3, RowFacts
  <2>3. CASE call' = [call EXCEPT ![c].i = n, ![c].pc = p] /\ g = call[c].group
    <3>1. PICK f : f = [call EXCEPT ![c].i = n]
      BY Zenon
    <3>2. call' = [f EXCEPT ![c].pc = p]
      BY <2>3, <3>1
    <3>3. Row(f, c, call[c].pc, n, g)
      BY Zenon, <1>1, <2>3, <3>1, RowFacts
    <3> QED BY Zenon, <3>2, <3>3, RowFacts
  <2>4. CASE call' = [call EXCEPT ![c].pc = p, ![c].group = g, ![c].i = n]
    <3>1. PICK f : f = [call EXCEPT ![c].pc = p]
      BY Zenon
    <3>2. PICK h : h = [f EXCEPT ![c].group = g]
      BY Zenon
    <3>3. call' = [h EXCEPT ![c].i = n]
      BY <2>4, <3>1, <3>2
    <3>4. Row(f, c, p, call[c].i, call[c].group)
      BY Zenon, <1>1, <3>1, RowFacts
    <3>5. Row(h, c, p, call[c].i, g)
      BY Zenon, <3>2, <3>4, RowFacts
    <3> QED BY Zenon, <3>3, <3>5, RowFacts
  <2> QED BY Zenon, <2>1, <2>2, <2>3, <2>4
<1>3. PICK l : l = [pc |-> p, i |-> n, group |-> g]
  BY Zenon
<1>4. l.pc = p /\ l.i = n /\ l.group = g /\ IsCall(l)
  BY <1>3 DEF IsCall
<1> QED BY Zenon, <1>2, <1>3, <1>4 DEF CallsInv, CallSet, Row

(***************************************************************************)
(* What reports do to a task.                                              *)
(***************************************************************************)
\* l is task k but for its status, its groups and what no property looks at.
TaskLike(l, k, st, g, gs) ==
  /\ IsTask(l) /\ l.num = k.num /\ l.sessions = k.sessions /\ l.strategy = k.strategy
  /\ l.status = st /\ l.group = g /\ l.groups = gs

\* Setting one field of a task.
LEMMA TaskFields ==
  ASSUME NEW k, IsTask(k), NEW v
  PROVE  /\ TaskLike(k, k, k.status, k.group, k.groups)
         /\ TaskLike([k EXCEPT !.status = v], k, v, k.group, k.groups)
         /\ TaskLike([k EXCEPT !.failed = v], k, k.status, k.group, k.groups)
         /\ TaskLike([k EXCEPT !.partials = v], k, k.status, k.group, k.groups)
         /\ TaskLike([k EXCEPT !.group = v], k, k.status, v, k.groups)
         /\ TaskLike([k EXCEPT !.groups = v], k, k.status, k.group, v)
<1>1. k = [status |-> k.status, num |-> k.num, sessions |-> k.sessions, failed |-> k.failed,
           group |-> k.group, groups |-> k.groups, partials |-> k.partials,
           strategy |-> k.strategy, offline |-> k.offline]
  BY Zenon DEF IsTask
<1>2. PICK a, b, c, d, e, f, g, h, i :
        /\ a = k.status /\ b = k.num /\ c = k.sessions /\ d = k.failed /\ e = k.group
        /\ f = k.groups /\ g = k.partials /\ h = k.strategy /\ i = k.offline
  BY Zenon
<1>3. k = [status |-> a, num |-> b, sessions |-> c, failed |-> d, group |-> e, groups |-> f,
           partials |-> g, strategy |-> h, offline |-> i]
  BY Zenon, <1>1, <1>2
<1>4. TaskLike([k EXCEPT !.status = v], k, v, k.group, k.groups)
  BY <1>3 DEF TaskLike, IsTask
<1>5. TaskLike([k EXCEPT !.failed = v], k, k.status, k.group, k.groups)
  BY <1>3 DEF TaskLike, IsTask
<1>6. TaskLike([k EXCEPT !.partials = v], k, k.status, k.group, k.groups)
  BY <1>3 DEF TaskLike, IsTask
<1>7. TaskLike([k EXCEPT !.group = v], k, k.status, v, k.groups)
  BY <1>3 DEF TaskLike, IsTask
<1>8. TaskLike([k EXCEPT !.groups = v], k, k.status, k.group, v)
  BY <1>3 DEF TaskLike, IsTask
<1> QED BY Zenon, <1>4, <1>5, <1>6, <1>7, <1>8 DEF TaskLike

\* Setting one field more of a task.
LEMMA TaskSet ==
  ASSUME NEW k, NEW l, NEW st, NEW g, NEW gs, TaskLike(l, k, st, g, gs), NEW v
  PROVE  /\ TaskLike([l EXCEPT !.status = v], k, v, g, gs)
         /\ TaskLike([l EXCEPT !.failed = v], k, st, g, gs)
         /\ TaskLike([l EXCEPT !.group = v], k, st, v, gs)
         /\ TaskLike([l EXCEPT !.groups = v], k, st, g, v)
<1>1. ASSUME NEW m, NEW a, NEW b, NEW c, TaskLike(m, l, a, b, c) PROVE TaskLike(m, k, a, b, c)
  BY Zenon, <1>1 DEF TaskLike
<1>2. /\ IsTask(l) /\ l.status = st /\ l.group = g /\ l.groups = gs
  BY Zenon DEF TaskLike
<1>3. /\ TaskLike([l EXCEPT !.status = v], l, v, l.group, l.groups)
      /\ TaskLike([l EXCEPT !.failed = v], l, l.status, l.group, l.groups)
      /\ TaskLike([l EXCEPT !.group = v], l, l.status, v, l.groups)
      /\ TaskLike([l EXCEPT !.groups = v], l, l.status, l.group, v)
  BY Zenon, <1>2, TaskFields
<1> QED BY Zenon, <1>1, <1>2, <1>3

\* Task k has become l: nothing was stored, or the group g as the task's or as
\* that of its session s.
TaskStep(k, l, s, g) ==
  /\ TaskOK(l) /\ l.num = k.num /\ l.sessions = k.sessions /\ l.strategy = k.strategy
  /\ \/ l.group = k.group /\ l.groups = k.groups
     \/ l.group = g /\ l.groups = k.groups
     \/ l.group = k.group /\ l.groups = Put(k.groups, s, g)

\* A task that changes its status, but not back to running.
LEMMA StatusStep ==
  ASSUME NEW k, TaskOK(k), NEW l, NEW st, NEW s, NEW g, IsGroup(g),
         \/ TaskLike(l, k, st, k.group, k.groups)
         \/ TaskLike(l, k, st, g, k.groups),
         st # "running" \/ st = k.status
  PROVE  TaskStep(k, l, s, g)
BY Zenon DEF TaskStep, TaskLike, TaskOK

\* A session's group is stored; the task goes on running only if one is missing.
LEMMA StoreStep ==
  ASSUME NEW k, TaskOK(k), NEW l, NEW st, NEW s \in Range(k.sessions), NEW g, IsGroup(g),
         TaskLike(l, k, st, k.group, Put(k.groups, s, g)),
         k.num > 1 /\ st = "running" => Cardinality(DOMAIN Put(k.groups, s, g)) < k.num
  PROVE  TaskStep(k, l, s, g)
<1>1. PICK p : p = Put(k.groups, s, g)
  BY Zenon
<1>2. /\ IsFunction(p) /\ DOMAIN p = DOMAIN k.groups \cup {s} /\ p[s] = g
      /\ \A x \in DOMAIN k.groups : x # s => p[x] = k.groups[x]
  <2>1. PICK m : m = k.groups
    BY Zenon
  <2>2. /\ IsFunction(Put(m, s, g)) /\ DOMAIN Put(m, s, g) = DOMAIN m \cup {s}
        /\ Put(m, s, g)[s] = g
        /\ \A x \in DOMAIN m : x # s => Put(m, s, g)[x] = m[x]
    BY Zenon DEF Put, IsFunction
  <2> QED BY Zenon, <1>1, <2>1, <2>2
<1>3. IsFiniteSet(DOMAIN p)
  BY Zenon, <1>2, FS_AddElement DEF TaskOK
<1>4. DOMAIN p \subseteq Range(k.sessions) /\ \A x \in DOMAIN p : IsGroup(p[x])
  BY Zenon, <1>2 DEF TaskOK
<1>5. TaskOK(l)
  BY Zenon, <1>1, <1>2, <1>3, <1>4 DEF TaskOK, TaskLike
<1> QED BY Zenon, <1>1, <1>5 DEF TaskStep, TaskLike

\* A task that has heard from no session yet.
FreshTask(k) == TaskOK(k) /\ k.group = NoGroup /\ DOMAIN k.groups = {}

\* A new task is well formed.
LEMMA NewTaskOK ==
  ASSUME NEW num \in Nat, num # 0, NEW sessions, IsFunction(sessions), DOMAIN sessions = 1..num,
         NEW strategy, NEW offline
  PROVE  FreshTask(NewTask(num, sessions, strategy, offline))
<1>1. PICK k, e : k = NewTask(num, sessions, strategy, offline) /\ e = [s \in {} |-> 0]
  BY Zenon
<1>2. DOMAIN e = {} /\ IsFunction(e)
  BY Zenon, <1>1 DEF IsFunction
<1>3. /\ k = [status |-> "running", num |-> num, sessions |-> sessions, failed |-> FALSE,
              group |-> NoGroup, groups |-> e, partials |-> {},
              strategy |-> strategy, offline |-> offline]
  BY Zenon, <1>1 DEF NewTask
<1>4. /\ k.num = num /\ k.sessions = sessions /\ k.group = NoGroup /\ k.groups = e
      /\ IsTask(k)
  BY <1>3 DEF IsTask
<1>5. IsGroup(NoGroup)
  BY DEF IsGroup, NoGroup
<1>6. IsFiniteSet(DOMAIN k.groups) /\ Cardinality(DOMAIN k.groups) = 0
  BY Zenon, <1>2, <1>4, FS_EmptySet
<1>7. 0 < num
  OBVIOUS
<1> QED BY Zenon, <1>1, <1>2, <1>4, <1>5, <1>6, <1>7 DEF TaskOK, FreshTask

\* Reported leaves a task running only if one of its sessions has not reported.
LEMMA ReportedFacts ==
  ASSUME NEW k, IsTask(k), k.num \in Nat, IsFiniteSet(DOMAIN k.groups)
  PROVE  \E st : /\ TaskLike(Reported(k), k, st, k.group, k.groups)
                 /\ st = "running" => Cardinality(DOMAIN k.groups) < k.num
<1>1. Cardinality(DOMAIN k.groups) \in Nat
  BY Zenon, FS_CardinalityType
<1>2. CASE Done(k)
  <2>1. Reported(k) = [k EXCEPT !.status = "completed"]
    BY Zenon, <1>2 DEF Reported
  <2>2. "completed" # "running"
    OBVIOUS
  <2> QED BY Zenon, <2>1, <2>2, TaskFields
<1>3. CASE ~Done(k)
  <2>1. Reported(k) = k
    BY Zenon, <1>3 DEF Reported
  <2>2. Cardinality(DOMAIN k.groups) < k.num
    BY <1>1, <1>3 DEF Done
  <2> QED BY Zenon, <2>1, <2>2, TaskFields
<1> QED BY Zenon, <1>2, <1>3

\* CompleteSession stores the reported group with the task or with the session.
LEMMA CompleteFacts ==
  ASSUME NEW k, TaskOK(k), NEW s, NEW g, IsGroup(g)
  PROVE  TaskStep(k, CompleteSession(k, s, g), s, g)
<1>1. PICK kept : kept = WithPartial(k, g)
  BY Zenon
<1>2. TaskLike(kept, k, k.status, k.group, k.groups)
  <2>1. CASE g.partial = 0
    BY Zenon, <1>1, <2>1, TaskFields DEF WithPartial, TaskOK
  <2>2. CASE g.partial # 0
    <3>1. PICK v : kept = [k EXCEPT !.partials = v]
      BY Zenon, <1>1, <2>2 DEF WithPartial
    <3> QED BY Zenon, <3>1, TaskFields DEF TaskOK
  <2> QED BY Zenon, <2>1, <2>2
<1>3. CASE ~Multi(k)
  <2>1. PICK v : v = IF g.none THEN kept.group ELSE g
    BY Zenon
  <2>2. PICK l : l = [kept EXCEPT !.status = "completed"]
    BY Zenon
  <2>3. CompleteSession(k, s, g) = [l EXCEPT !.group = v]
    <3>1. CompleteSession(k, s, g)
            = [kept EXCEPT !.status = "completed", !.group = IF g.none THEN @ ELSE g]
      BY Zenon, <1>1, <1>3 DEF CompleteSession
    <3>2. l.group = kept.group
      BY Zenon, <1>2, <2>2, TaskFields DEF TaskLike
    <3>3. [kept EXCEPT !.status = "completed", !.group = IF g.none THEN @ ELSE g]
            = [l EXCEPT !.group = IF g.none THEN @ ELSE g]
      BY <2>2
    <3> QED BY Zenon, <2>1, <3>1, <3>2, <3>3
  <2>4. TaskLike(l, k, "completed", k.group, k.groups)
    BY Zenon, <1>2, <2>2, TaskSet
  <2>5. TaskLike([l EXCEPT !.group = v], k, "completed", v, k.groups)
    BY Zenon, <2>4, TaskSet
  <2>6. v = k.group \/ v = g
    BY Zenon, <1>2, <2>1 DEF TaskLike
  <2>7. "completed" # "running"
    OBVIOUS
  <2>8. \/ TaskLike([l EXCEPT !.group = v], k, "completed", k.group, k.groups)
        \/ TaskLike([l EXCEPT !.group = v], k, "completed", g, k.groups)
    BY Zenon, <2>5, <2>6
  <2>9. TaskStep(k, [l EXCEPT !.group = v], s, g)
    <3>1. PICK m : m = [l EXCEPT !.group = v]
      BY Zenon
    <3>2. \/ TaskLike(m, k, "completed", k.group, k.groups)
          \/ TaskLike(m, k, "completed", g, k.groups)
      BY Zenon, <2>8, <3>1
    <3>3. TaskStep(k, m, s, g)
      BY Zenon, <2>7, <3>2, StatusStep
    <3> QED BY Zenon, <3>1, <3>3
  <2> QED BY Zenon, <2>3, <2>9
<1>4. CASE Multi(k) /\ s \notin Range(k.sessions)
  <2>1. CompleteSession(k, s, g) = kept
    BY Zenon, <1>1, <1>4 DEF CompleteSession
  <2> QED BY Zenon, <1>2, <2>1, StatusStep
<1>5. CASE Multi(k) /\ s \in Range(k.sessions)
  <2>1. PICK l : l = [kept EXCEPT !.groups = Put(k.groups, s, g)]
    BY Zenon
  <2>2. TaskLike(l, k, k.status, k.group, Put(k.groups, s, g))
    BY Zenon, <1>2, <2>1, TaskSet
  <2>3. CompleteSession(k, s, g) = Reported(l)
    BY Zenon, <1>1, <1>2, <1>5, <2>1 DEF CompleteSession, TaskLike
  <2>4. IsFiniteSet(DOMAIN l.groups)
    <3>1. DOMAIN l.groups = DOMAIN k.groups \cup {s}
      BY Zenon, <2>2 DEF TaskLike, Put
    <3> QED BY Zenon, <3>1, FS_AddElement DEF TaskOK
  <2>5. l.num \in Nat
    BY <2>2 DEF TaskLike, TaskOK
  <2>6. PICK st : /\ TaskLike(Reported(l), l, st, l.group, l.groups)
                  /\ st = "running" => Cardinality(DOMAIN l.groups) < l.num
    BY Zenon, <2>2, <2>4, <2>5, ReportedFacts DEF TaskLike
  <2>7. TaskLike(Reported(l), k, st, k.group, Put(k.groups, s, g))
    BY Zenon, <2>2, <2>6 DEF TaskLike
  <2>8. st = "running" => Cardinality(DOMAIN Put(k.groups, s, g)) < k.num
    BY Zenon, <2>2, <2>6 DEF TaskLike
  <2> QED BY Zenon, <1>5, <2>3, <2>7, <2>8, StoreStep
<1> QED BY Zenon, <1>3, <1>4, <1>5

\* The gateway's outcome of a session is stored with the task or with the session.
LEMMA OutcomeFacts ==
  ASSUME NEW k, TaskOK(k), NEW s \in Range(k.sessions), NEW g, IsGroup(g), NEW late
  PROVE  TaskStep(k, applyTerminalStatus(storeSessionGroup(k, s, g), late), s, g)
<1>1. PICK l : l = storeSessionGroup(k, s, g)
  BY Zenon
<1>2. "failed" # "running" /\ "completed" # "running"
  OBVIOUS
<1>3. CASE Multi(k)
  <2>1. TaskLike(l, k, k.status, k.group, Put(k.groups, s, g))
    BY Zenon, <1>1, <1>3, TaskFields DEF storeSessionGroup, TaskOK
  <2>2. Multi(l)
    BY Zenon, <1>3, <2>1 DEF Multi, TaskLike
  <2>3. IsFiniteSet(DOMAIN l.groups)
    <3>1. DOMAIN l.groups = DOMAIN k.groups \cup {s}
      <4>1. DOMAIN Put(k.groups, s, g) = DOMAIN k.groups \cup {s}
        BY Zenon DEF Put
      <4> QED BY Zenon, <2>1, <4>1 DEF TaskLike
    <3> QED BY Zenon, <3>1, FS_AddElement DEF TaskOK
  <2>4. l.num \in Nat
    BY <2>1 DEF TaskLike, TaskOK
  <2>5. CASE late
    <3>1. PICK m : m = [l EXCEPT !.status = "failed"]
      BY Zenon
    <3>2. applyTerminalStatus(l, late) = [m EXCEPT !.failed = TRUE]
      BY <2>2, <2>5, <3>1 DEF applyTerminalStatus
    <3>3. TaskLike(m, k, "failed", k.group, Put(k.groups, s, g))
      BY Zenon, <2>1, <3>1, TaskSet
    <3>4. TaskLike([m EXCEPT !.failed = TRUE], k, "failed", k.group, Put(k.groups, s, g))
      BY Zenon, <3>3, TaskSet
    <3> QED BY Zenon, <1>1, <1>2, <3>2, <3>4, StoreStep
  <2>6. CASE ~late
    <3>1. applyTerminalStatus(l, late) = Reported(l)
      BY Zenon, <2>2, <2>6 DEF applyTerminalStatus
    <3>2. PICK st : /\ TaskLike(Reported(l), l, st, l.group, l.groups)
                    /\ st = "running" => Cardinality(DOMAIN l.groups) < l.num
      BY Zenon, <2>1, <2>3, <2>4, ReportedFacts DEF TaskLike
    <3>3. TaskLike(Reported(l), k, st, k.group, Put(k.groups, s, g))
      BY Zenon, <2>1, <3>2 DEF TaskLike
    <3>4. st = "running" => Cardinality(DOMAIN Put(k.groups, s, g)) < k.num
      BY Zenon, <2>1, <3>2 DEF TaskLike
    <3> QED BY Zenon, <1>1, <3>1, <3>3, <3>4, StoreStep
  <2> QED BY Zenon, <2>5, <2>6
<1>4. CASE ~Multi(k)
  <2>1. TaskLike(l, k, k.status, g, k.groups)
    BY Zenon, <1>1, <1>4, TaskFields DEF storeSessionGroup, TaskOK
  <2>2. ~Multi(l)
    BY Zenon, <1>4, <2>1 DEF Multi, TaskLike
  <2>3. PICK st : st = IF late THEN "failed" ELSE "completed"
    BY Zenon
  <2>4. PICK m : m = [l EXCEPT !.status = st]
    BY Zenon
  <2>5. PICK v : applyTerminalStatus(l, late) = [m EXCEPT !.failed = v]
    <3>1. applyTerminalStatus(l, late)
            = [l EXCEPT !.status = IF late THEN "failed" ELSE "completed", !.failed = @ \/ late]
      BY Zenon, <2>2 DEF applyTerminalStatus
    <3>2. [l EXCEPT !.status = IF late THEN "failed" ELSE "completed", !.failed = @ \/ late]
            = [m EXCEPT !.failed = @ \/ late]
      BY <2>3, <2>4
    <3>3. [m EXCEPT !.failed = @ \/ late] = [m EXCEPT !.failed = m.failed \/ late]
      BY Zenon
    <3> QED BY Zenon, <3>1, <3>2, <3>3
  <2>6. TaskLike(m, k, st, g, k.groups)
    BY Zenon, <2>1, <2>4, TaskSet
  <2>7. TaskLike([m EXCEPT !.failed = v], k, st, g, k.groups)
    BY Zenon, <2>6, TaskSet
  <2>8. st # "running"
    BY Zenon, <1>2, <2>3
  <2> QED BY Zenon, <1>1, <2>5, <2>7, <2>8, StatusStep
<1> QED BY Zenon, <1>3, <1>4

(***************************************************************************)
(* ShapeInv is kept.                                                       *)
(***************************************************************************)
\* Groups have the fields of a group, and evaluations add to the rewards only.
LEMMA GroupFacts ==
  /\ IsGroup(NoGroup) /\ NoGroup.chains = <<>> /\ NoGroup.records = {}
  /\ \A chains, records :
       /\ IsGroup(Group(chains, records))
       /\ Group(chains, records).chains = chains /\ Group(chains, records).records = records
  /\ \A g, x : IsGroup(g) => /\ IsGroup(ApplyEvaluations(g, x))
                             /\ ApplyEvaluations(g, x).chains = g.chains
                             /\ ApplyEvaluations(g, x).records = g.records
<1>1. IsGroup(NoGroup) /\ NoGroup.chains = <<>> /\ NoGroup.records = {}
  BY DEF IsGroup, NoGroup
<1>2. ASSUME NEW chains, NEW records
      PROVE  /\ IsGroup(Group(chains, records))
             /\ Group(chains, records).chains = chains /\ Group(chains, records).records = records
  BY DEF IsGroup, Group
<1>3. ASSUME NEW g, NEW x, IsGroup(g)
      PROVE  /\ IsGroup(ApplyEvaluations(g, x))
             /\ ApplyEvaluations(g, x).chains = g.chains
             /\ ApplyEvaluations(g, x).records = g.records
  <2>1. CASE g.none \/ x
    BY Zenon, <1>3, <2>1 DEF ApplyEvaluations
  <2>2. CASE ~(g.none \/ x)
    <3>1. PICK r : r = g.rewards \o Plugins
      BY Zenon
    <3>2. ApplyEvaluations(g, x) = [g EXCEPT !.rewards = r]
      BY Zenon, <2>2, <3>1 DEF ApplyEvaluations
    <3>3. PICK a, b, c, d, e : g = [chains |-> a, records |-> b, rewards |-> c,
                                    partial |-> d, none |-> e]
      BY Zenon, <1>3 DEF IsGroup
    <3> QED BY <3>2, <3>3 DEF IsGroup
  <2> QED BY Zenon, <2>1, <2>2
<1> QED BY Zenon, <1>1, <1>2, <1>3

\* A task is added.
LEMMA TasksAdd ==
  ASSUME TasksInv, NEW c \in Caller, NEW k, TaskOK(k), tasks' = Put(tasks, c, k)
  PROVE  /\ TasksInv' /\ DOMAIN tasks' = DOMAIN tasks \cup {c} /\ tasks'[c] = k
         /\ \A t \in DOMAIN tasks : t # c => tasks'[t] = tasks[t]
<1>1. /\ IsFunction(tasks') /\ DOMAIN tasks' = DOMAIN tasks \cup {c} /\ tasks'[c] = k
      /\ \A t \in DOMAIN tasks : t # c => tasks'[t] = tasks[t]
  BY Zenon DEF Put, IsFunction
<1> QED BY Zenon, <1>1 DEF TasksInv

\* One task changes.
LEMMA TasksChange ==
  ASSUME TasksInv, NEW t, NEW l, t \in DOMAIN tasks => TaskOK(l), tasks' = [tasks EXCEPT ![t] = l]
  PROVE  /\ TasksInv' /\ DOMAIN tasks' = DOMAIN tasks
         /\ t \in DOMAIN tasks => tasks'[t] = l
         /\ \A u \in DOMAIN tasks : u # t => tasks'[u] = tasks[u]
<1>1. /\ IsFunction(tasks') /\ DOMAIN tasks' = DOMAIN tasks
      /\ t \in DOMAIN tasks => tasks'[t] = l
      /\ \A u \in DOMAIN tasks : u # t => tasks'[u] = tasks[u]
  BY Zenon, ExceptFacts DEF TasksInv
<1> QED BY Zenon, <1>1 DEF TasksInv

\* The tasks and their sessions are still there, and no others than those in C.
TasksGrow(C) ==
  /\ DOMAIN tasks \subseteq DOMAIN tasks' /\ DOMAIN tasks' \subseteq DOMAIN tasks \cup C
  /\ \A t \in DOMAIN tasks :
       tasks'[t].num = tasks[t].num /\ tasks'[t].sessions = tasks[t].sessions

\* The sessions keep their tasks.
LEMMA SessionsKept ==
  ASSUME ShapeInv, NEW C, TasksGrow(C), session' = session
  PROVE  SessionsInv'
BY Zenon DEF ShapeInv, SessionsInv, TasksGrow

\* A step of one caller.
LEMMA CallerStep ==
  ASSUME ShapeInv, workload' = workload, NEW c \in Caller, CallsInv', NEW p, NEW n, NEW g,
         CallSet(c, p, n, g), p # "start",
         p = "gateway" => c \in DOMAIN tasks' /\ n < tasks'[c].num,
         TasksInv', TasksGrow({c}), SessionsInv'
  PROVE  ShapeInv'
<1>1. ASSUME NEW d \in Caller, d # c
      PROVE  /\ call'[d].pc = "start" => d \notin DOMAIN tasks' /\ call'[d].i = 0
             /\ call'[d].pc = "gateway" => d \in DOMAIN tasks' /\ call'[d].i < tasks'[d].num
  <2>1. call'[d] = call[d]
    BY Zenon, <1>1 DEF CallSet
  <2> QED BY Zenon, <1>1, <2>1 DEF ShapeInv, CallersInv, TasksGrow
<1>2. CallersInv'
  BY Zenon, <1>1 DEF CallSet, CallersInv
<1> QED BY Zenon, <1>2 DEF ShapeInv

\* A step in which no caller moves.
LEMMA OtherStep ==
  ASSUME ShapeInv, workload' = workload, call' = call, TasksInv', TasksGrow({}), SessionsInv'
  PROVE  ShapeInv'
<1>1. CallsInv'
  BY Zenon DEF ShapeInv, CallsInv
<1>2. CallersInv'
  BY Zenon DEF ShapeInv, CallersInv, TasksGrow
<1> QED BY Zenon, <1>1, <1>2 DEF ShapeInv

\* A step of a caller that changes neither tasks nor sessions.
LEMMA CallOnlyStep ==
  ASSUME ShapeInv, workload' = workload, NEW c \in Caller, CallsInv', NEW p, NEW n, NEW g,
         CallSet(c, p, n, g), p \notin {"start", "gateway"}, UNCHANGED taskVars
  PROVE  ShapeInv'
<1>1. tasks' = tasks /\ session' = session
  BY Zenon DEF taskVars
<1>2. TasksInv' /\ TasksGrow({c})
  BY Zenon, <1>1 DEF ShapeInv, TasksInv, TasksGrow
<1>3. SessionsInv'
  BY Zenon, <1>1, <1>2, SessionsKept
<1>4. p # "start" /\ p # "gateway"
  BY Zenon
<1> QED BY Zenon, <1>2, <1>3, <1>4, CallerStep

\* A task changes as a report, a failure or a read changes it, with its caller.
LEMMA TaskChangeStep ==
  ASSUME ShapeInv, workload' = workload, NEW c \in Caller, CallsInv', NEW p, NEW n, NEW h,
         CallSet(c, p, n, h), p \notin {"start", "gateway"}, session' = session,
         NEW t, NEW l, NEW s, NEW g, t \in DOMAIN tasks => TaskStep(tasks[t], l, s, g),
         tasks' = [tasks EXCEPT ![t] = l]
  PROVE  ShapeInv'
<1>1. t \in DOMAIN tasks => TaskOK(l)
  BY Zenon DEF TaskStep
<1>2. /\ TasksInv' /\ DOMAIN tasks' = DOMAIN tasks
      /\ t \in DOMAIN tasks => tasks'[t] = l
      /\ \A u \in DOMAIN tasks : u # t => tasks'[u] = tasks[u]
  BY Zenon, <1>1, TasksChange DEF ShapeInv
<1>3. TasksGrow({c})
  BY Zenon, <1>2 DEF TasksGrow, TaskStep
<1>4. SessionsInv'
  BY Zenon, <1>3, SessionsKept
<1>5. p # "start" /\ p # "gateway"
  BY Zenon
<1> QED BY Zenon, <1>2, <1>3, <1>4, <1>5, CallerStep

(***************************************************************************)
(* The effect of each action.                                              *)
(***************************************************************************)
\* The caller c moves to p and has the index n and the group g.
Moves(c, p, n, g) == CallsInv' /\ CallSet(c, p, n, g) /\ workload' = workload

\* Going to p, with or without another group, is such a move.
LEMMA GotoFacts ==
  ASSUME ShapeInv, NEW c \in Caller, NEW p, workload' = workload
  PROVE  /\ Goto(c, p) => Moves(c, p, call[c].i, call[c].group)
         /\ \A g : IsGroup(g) /\ Carry(c, p, g) => Moves(c, p, call[c].i, g)
<1>1. CallsInv /\ call[c].i \in Nat /\ IsGroup(call[c].group)
  BY Zenon DEF ShapeInv, CallsInv
<1>2. ASSUME Goto(c, p) PROVE Moves(c, p, call[c].i, call[c].group)
  BY Zenon, <1>1, <1>2, CallFacts DEF Goto, Moves
<1>3. ASSUME NEW g, IsGroup(g), Carry(c, p, g) PROVE Moves(c, p, call[c].i, g)
  BY Zenon, <1>1, <1>3, CallFacts DEF Carry, Moves
<1> QED BY Zenon, <1>2, <1>3

\* A task is made, or refused.
MakesTask(c, p) ==
  /\ call[c].pc = "start"
  /\ Moves(c, p, call[c].i, call[c].group)
  /\ \/ tasks' = tasks /\ p = "done"
     \/ \E k : FreshTask(k) /\ tasks' = Put(tasks, c, k)
  /\ session' = session

\* SubmitTask makes a task of as many sessions as samples were asked for.
LEMMA SubmitFacts ==
  ASSUME ShapeInv, NEW c \in Caller, SubmitTask(c)
  PROVE  \E p \in {"gateway", "done"} : MakesTask(c, p)
<1>1. PICK num : num = NumSamples(c)
  BY Zenon
<1>2. PICK ids : ids = SessionIDs(c)
  BY Zenon
<1>3. PICK k : k = NewTask(num, ids, Op(c).strategy, FALSE)
  BY Zenon
<1>4. call[c].pc = "start" /\ Op(c).op = "submit" /\ workload' = workload /\ session' = session
  BY Zenon DEF SubmitTask, At
<1>5. num \in Nat /\ num # 0
  <2>1. Op(c).num \in Int
    BY Zenon, <1>4, WorkloadAssumption DEF ShapeInv, Op
  <2> QED BY <1>1, <2>1 DEF NumSamples
<1>6. IsFunction(ids) /\ DOMAIN ids = 1..num
  <2>1. CASE num = 1
    <3>1. ids = <<c>>
      BY Zenon, <1>1, <1>2, <2>1 DEF SessionIDs
    <3> QED BY <2>1, <3>1 DEF IsFunction
  <2>2. CASE num # 1
    <3>1. ids = [i \in 1..num |-> SessionName[c][i]]
      BY Zenon, <1>1, <1>2, <2>2 DEF SessionIDs
    <3> QED BY Zenon, <3>1 DEF IsFunction
  <2> QED BY Zenon, <2>1, <2>2
<1>7. FreshTask(k)
  <2>1. FreshTask(NewTask(num, ids, Op(c).strategy, FALSE))
    BY Zenon, <1>5, <1>6, NewTaskOK
  <2> QED BY Zenon, <1>3, <2>1
<1>8. PICK refused \in BOOLEAN, valid \in BOOLEAN :
        IF valid /\ ~refused
        THEN tasks' = Put(tasks, c, k) /\ Goto(c, IF Gateway THEN "gateway" ELSE "done")
        ELSE Goto(c, "done") /\ UNCHANGED tasks
  <2>1. PICK valid \in BOOLEAN :
          valid = (NumSamples(c) <= MaxSamples /\ normalizeBuilderStrategy(Op(c).strategy))
    BY Zenon
  <2>2. k = NewTask(NumSamples(c), SessionIDs(c), Op(c).strategy, FALSE)
    BY Zenon, <1>1, <1>2, <1>3
  <2> QED BY Zenon, <2>1, <2>2 DEF SubmitTask
<1>9. PICK p \in {"gateway", "done"} : Goto(c, p) /\ (tasks' = Put(tasks, c, k) \/ (tasks' = tasks /\ p = "done"))
  <2>1. CASE valid /\ ~refused /\ Gateway
    BY Zenon, <1>8, <2>1
  <2>2. CASE valid /\ ~refused /\ ~Gateway
    BY Zenon, <1>8, <2>2
  <2>3. CASE ~(valid /\ ~refused)
    BY Zenon, <1>8, <2>3
  <2> QED BY Zenon, <2>1, <2>2, <2>3
<1>10. Moves(c, p, call[c].i, call[c].group)
  BY Zenon, <1>4, <1>9, GotoFacts
<1> QED BY Zenon, <1>4, <1>7, <1>9, <1>10 DEF MakesTask

\* GenerateOfflineTask makes a task of as many sessions as there are sources.
LEMMA OfflineFacts ==
  ASSUME ShapeInv, NEW c \in Caller, GenerateOfflineTask(c)
  PROVE  \E p \in {"offlineDrain", "done"} : MakesTask(c, p)
<1>1. PICK ids : ids = Op(c).sources
  BY Zenon
<1>2. PICK k : k = NewTask(Len(ids), ids, Op(c).strategy, TRUE)
  BY Zenon
<1>3. call[c].pc = "start" /\ Op(c).op = "offline" /\ workload' = workload /\ session' = session
  BY Zenon DEF GenerateOfflineTask, At
<1>4. ids \in Seq(Range(ids))
  BY Zenon, <1>1, <1>3, WorkloadAssumption DEF ShapeInv, Op
<1>5. \/ Len(ids) \in 1..MaxSamples /\ tasks' = Put(tasks, c, k) /\ Goto(c, "offlineDrain")
      \/ tasks' = tasks /\ Goto(c, "done")
  BY Zenon, <1>1, <1>2 DEF GenerateOfflineTask
<1>6. CASE Len(ids) \in 1..MaxSamples /\ tasks' = Put(tasks, c, k) /\ Goto(c, "offlineDrain")
  <2>1. Len(ids) \in Nat /\ Len(ids) # 0
    BY <1>4, <1>6, LimitsAssumption
  <2>2. IsFunction(ids) /\ DOMAIN ids = 1..Len(ids)
    BY <1>4 DEF IsFunction
  <2>3. FreshTask(k)
    <3>1. FreshTask(NewTask(Len(ids), ids, Op(c).strategy, TRUE))
      BY Zenon, <2>1, <2>2, NewTaskOK
    <3> QED BY Zenon, <1>2, <3>1
  <2>4. Moves(c, "offlineDrain", call[c].i, call[c].group)
    BY Zenon, <1>3, <1>6, GotoFacts
  <2> QED BY Zenon, <1>3, <1>6, <2>3, <2>4 DEF MakesTask
<1>7. CASE tasks' = tasks /\ Goto(c, "done")
  <2>1. Moves(c, "done", call[c].i, call[c].group)
    BY Zenon, <1>3, <1>7, GotoFacts
  <2> QED BY Zenon, <1>3, <1>7, <2>1 DEF MakesTask
<1> QED BY Zenon, <1>5, <1>6, <1>7

\* Making a task keeps the shapes.
LEMMA MakesTaskShape ==
  ASSUME ShapeInv, NEW c \in Caller, NEW p \in {"gateway", "offlineDrain", "done"},
         MakesTask(c, p)
  PROVE  ShapeInv'
<1>1. p # "start"
  OBVIOUS
<1>2. CASE tasks' = tasks /\ p = "done"
  <2>1. p \notin {"start", "gateway"}
    BY <1>2
  <2> QED BY Zenon, <1>2, <2>1, CallOnlyStep DEF MakesTask, Moves, taskVars
<1>3. ASSUME NEW k, FreshTask(k), tasks' = Put(tasks, c, k) PROVE ShapeInv'
  <2>1. c \notin DOMAIN tasks /\ call[c].i = 0
    BY Zenon DEF ShapeInv, CallersInv, MakesTask
  <2>2. /\ TasksInv' /\ DOMAIN tasks' = DOMAIN tasks \cup {c} /\ tasks'[c] = k
        /\ \A t \in DOMAIN tasks : t # c => tasks'[t] = tasks[t]
    BY Zenon, <1>3, TasksAdd DEF ShapeInv, FreshTask
  <2>3. TasksGrow({c})
    BY Zenon, <2>1, <2>2 DEF TasksGrow
  <2>4. SessionsInv'
    BY Zenon, <2>3, SessionsKept DEF MakesTask
  <2>5. c \in DOMAIN tasks' /\ call[c].i < tasks'[c].num
    <3>1. k.num \in Nat \ {0}
      BY Zenon, <1>3 DEF FreshTask, TaskOK
    <3> QED BY <2>1, <2>2, <3>1
  <2> QED BY Zenon, <1>1, <2>2, <2>3, <2>4, <2>5, CallerStep DEF MakesTask, Moves
<1> QED BY Zenon, <1>2, <1>3 DEF MakesTask

\* startGatewaySessions hands the next session of the task to the gateway.
LEMMA StartFacts ==
  ASSUME ShapeInv, NEW c \in Caller, startGatewaySessions(c)
  PROVE  /\ ShapeInv' /\ tasks' = tasks
         /\ \E p, n, s : Moves(c, p, n, call[c].group)
                         /\ DOMAIN session' = DOMAIN session \cup {s} /\ session'[s].group = NoGroup
                         /\ \A r \in DOMAIN session : r # s => session'[r] = session[r]
<1>1. PICK n : n = call[c].i + 1
  BY Zenon
<1>2. PICK s : s = tasks[c].sessions[n]
  BY Zenon
<1>3. PICK k : k = [task |-> c, stage |-> "ready", group |-> NoGroup, timedOut |-> FALSE]
  BY Zenon
<1>4. PICK p : p = IF n = Len(tasks[c].sessions) THEN "done" ELSE "gateway"
  BY Zenon
<1>5. /\ call[c].pc = "gateway" /\ workload' = workload /\ tasks' = tasks
      /\ session' = Put(session, s, k)
      /\ call' = [call EXCEPT ![c].i = n, ![c].pc = p]
  BY Zenon, <1>1, <1>2, <1>3, <1>4 DEF startGatewaySessions, At
<1>6. c \in DOMAIN tasks /\ call[c].i < tasks[c].num /\ TaskOK(tasks[c]) /\ call[c].i \in Nat
      /\ CallsInv /\ IsGroup(call[c].group)
  BY Zenon, <1>5 DEF ShapeInv, CallersInv, TasksInv, CallsInv
<1>7. /\ n \in Nat /\ n \in 1..tasks[c].num /\ Len(tasks[c].sessions) = tasks[c].num
      /\ n < tasks[c].num \/ n = tasks[c].num
  <2>1. tasks[c].num \in Nat /\ DOMAIN tasks[c].sessions = 1..tasks[c].num
    BY Zenon, <1>6 DEF TaskOK
  <2>2. Len(tasks[c].sessions) = tasks[c].num
    BY <1>6, <2>1 DEF TaskOK, IsFunction
  <2> QED BY <1>1, <1>6, <2>1, <2>2
<1>8. Moves(c, p, n, call[c].group)
  BY Zenon, <1>5, <1>6, <1>7, CallFacts DEF Moves
<1>9. /\ IsFunction(session') /\ DOMAIN session' = DOMAIN session \cup {s} /\ session'[s] = k
      /\ \A r \in DOMAIN session : r # s => session'[r] = session[r]
  BY Zenon, <1>5 DEF Put, IsFunction
<1>10. IsSession(k) /\ k.group = NoGroup /\ k.task = c
  BY <1>3 DEF IsSession
<1>11. s \in Range(tasks[c].sessions)
  BY Zenon, <1>2, <1>6, <1>7 DEF Range, TaskOK
<1>12. SessionsInv'
  <2>1. IsGroup(k.group)
    BY Zenon, <1>10, GroupFacts
  <2>2. SessionsInv
    BY Zenon DEF ShapeInv
  <2> QED BY Zenon, <1>5, <1>6, <1>9, <1>10, <1>11, <2>1, <2>2 DEF SessionsInv
<1>13. TasksInv' /\ TasksGrow({c})
  BY Zenon, <1>5 DEF ShapeInv, TasksInv, TasksGrow
<1>14. p # "start" /\ (p = "gateway" => c \in DOMAIN tasks' /\ n < tasks'[c].num)
  BY <1>4, <1>5, <1>6, <1>7
<1>15. ShapeInv'
  BY Zenon, <1>8, <1>12, <1>13, <1>14, CallerStep DEF Moves
<1> QED BY Zenon, <1>5, <1>8, <1>9, <1>10, <1>15

\* No task changes, or task t does, and g may be stored in it for the session s.
Stores(t, s, g) ==
  \/ tasks' = tasks
  \/ \E l : (t \in DOMAIN tasks => TaskStep(tasks[t], l, s, g)) /\ tasks' = [tasks EXCEPT ![t] = l]

\* A caller that moves on, and stores something or nothing, keeps the shapes.
LEMMA StoresShape ==
  ASSUME ShapeInv, NEW c \in Caller, NEW p, NEW n, NEW g, Moves(c, p, n, g),
         p \notin {"start", "gateway"}, session' = session, NEW t, NEW s, NEW x, Stores(t, s, x)
  PROVE  ShapeInv'
<1>1. CASE tasks' = tasks
  BY Zenon, <1>1, CallOnlyStep DEF Moves, taskVars
<1>2. ASSUME NEW l, t \in DOMAIN tasks => TaskStep(tasks[t], l, s, x),
             tasks' = [tasks EXCEPT ![t] = l]
      PROVE  ShapeInv'
  BY Zenon, <1>2, TaskChangeStep DEF Moves
<1> QED BY Zenon, <1>1, <1>2 DEF Stores

\* The group of a drain.
LEMMA DrainGroup ==
  \A strategy : /\ IsGroup(BuildFromDrainWithConfig(strategy))
                /\ BuildFromDrainWithConfig(strategy).chains
                     = assembleTrajectoryGroup(Drained, workload.builder, strategy)
                /\ BuildFromDrainWithConfig(strategy).records = Range(Drained)
BY Zenon, GroupFacts DEF BuildFromDrainWithConfig

\* c takes the group of a drain, and no task changes.
TakesDrain(c) ==
  \E p, n, strategy : /\ Moves(c, p, n, BuildFromDrainWithConfig(strategy)) /\ p \notin {"start", "gateway"}
                      /\ DrainCapture /\ tasks' = tasks

\* c drains in vain, and keeps its group.
DrainsInVain(c) ==
  \E p, n, t, s : /\ Moves(c, p, n, call[c].group) /\ p \notin {"start", "gateway"} /\ DrainFails
                  /\ Stores(t, s, NoGroup)

\* OfflineDrain takes the group of a drain, or marks the task failed.
LEMMA OfflineDrainFacts ==
  ASSUME ShapeInv, NEW c \in Caller, OfflineDrain(c)
  PROVE  session' = session /\ (TakesDrain(c) \/ DrainsInVain(c))
<1>1. /\ workload' = workload /\ session' = session
      /\ CallsInv /\ call[c].i \in Nat /\ IsGroup(call[c].group)
  BY Zenon DEF OfflineDrain, ShapeInv, CallsInv
<1>2. PICK g, n : g = BuildFromDrainWithConfig(tasks[c].strategy) /\ n = call[c].i + 1
  BY Zenon
<1>3. IsGroup(g) /\ n \in Nat
  <2>1. IsGroup(g)
    BY Zenon, <1>2, DrainGroup
  <2> QED BY <1>1, <1>2, <2>1
<1>4. \/ DrainSucceeds(g) /\ tasks' = tasks
         /\ call' = [call EXCEPT ![c].pc = "complete", ![c].group = g, ![c].i = n]
      \/ DrainFails /\ tasks' = [tasks EXCEPT ![c] = markTaskFailed(tasks[c])] /\ Goto(c, "snapshot")
  BY Zenon, <1>2 DEF OfflineDrain
<1>5. CASE /\ DrainSucceeds(g) /\ tasks' = tasks
           /\ call' = [call EXCEPT ![c].pc = "complete", ![c].group = g, ![c].i = n]
  <2>1. Moves(c, "complete", n, g)
    BY Zenon, <1>1, <1>3, <1>5, CallFacts DEF Moves
  <2>2. "complete" \notin {"start", "gateway"}
    OBVIOUS
  <2>3. DrainCapture
    BY Zenon, <1>5 DEF DrainSucceeds
  <2> QED BY Zenon, <1>1, <1>2, <1>5, <2>1, <2>2, <2>3 DEF TakesDrain
<1>6. CASE DrainFails /\ tasks' = [tasks EXCEPT ![c] = markTaskFailed(tasks[c])] /\ Goto(c, "snapshot")
  <2>1. Moves(c, "snapshot", call[c].i, call[c].group)
    BY Zenon, <1>1, <1>6, GotoFacts
  <2>2. "snapshot" \notin {"start", "gateway"} /\ "failed" # "running"
    OBVIOUS
  <2>3. ASSUME c \in DOMAIN tasks PROVE TaskStep(tasks[c], markTaskFailed(tasks[c]), c, NoGroup)
    <3>1. PICK k, l : k = tasks[c] /\ l = [k EXCEPT !.status = "failed"]
      BY Zenon
    <3>2. TaskOK(k) /\ IsTask(k)
      BY Zenon, <2>3, <3>1 DEF ShapeInv, TasksInv, TaskOK
    <3>3. markTaskFailed(k) = [l EXCEPT !.failed = TRUE]
      BY <3>1 DEF markTaskFailed
    <3>4. TaskLike(l, k, "failed", k.group, k.groups)
      BY Zenon, <3>1, <3>2, TaskFields
    <3>5. TaskLike(markTaskFailed(k), k, "failed", k.group, k.groups)
      <4>1. TaskLike([l EXCEPT !.failed = TRUE], k, "failed", k.group, k.groups)
        BY Zenon, <3>4, TaskSet
      <4> QED BY Zenon, <3>3, <4>1
    <3>6. TaskStep(k, markTaskFailed(k), c, NoGroup)
      BY Zenon, <2>2, <3>2, <3>5, StatusStep, GroupFacts
    <3> QED BY Zenon, <3>1, <3>6
  <2>4. Stores(c, c, NoGroup)
    BY Zenon, <1>6, <2>3 DEF Stores
  <2> QED BY Zenon, <1>1, <1>6, <2>1, <2>2, <2>4 DEF DrainsInVain
<1> QED BY Zenon, <1>4, <1>5, <1>6

\* EvaluateSession carries on the group that was posted or drained.
LEMMA EvaluateFacts ==
  ASSUME ShapeInv, NEW c \in Caller, EvaluateSession(c)
  PROVE  /\ session' = session /\ tasks' = tasks
         /\ \E p, g, x : /\ Moves(c, p, call[c].i, ApplyEvaluations(g, x)) /\ p \notin {"start", "gateway"}
                      /\ IsGroup(g)
                      /\ \/ g = call[c].group
                         \/ g.chains = <<>> /\ g.records = {}
<1>1. /\ workload' = workload /\ session' = session /\ tasks' = tasks /\ IsGroup(call[c].group)
  BY Zenon DEF EvaluateSession, ShapeInv, CallsInv, taskVars
<1>2. PICK p, g, x : Carry(c, p, ApplyEvaluations(g, x)) /\ p \in {"apply", "done"}
                  /\ (g = call[c].group \/ (g = Op(c).group /\ Op(c).op = "complete"))
  BY Zenon DEF EvaluateSession, At
<1>3. Op(c).op = "complete" => IsGroup(Op(c).group) /\ Op(c).group.chains = <<>>
                                /\ Op(c).group.records = {}
  BY Zenon, WorkloadAssumption DEF ShapeInv, Op
<1>4. IsGroup(g) /\ (g = call[c].group \/ (g.chains = <<>> /\ g.records = {}))
  BY Zenon, <1>1, <1>2, <1>3
<1>5. IsGroup(ApplyEvaluations(g, x))
  BY Zenon, <1>4, GroupFacts
<1>6. Moves(c, p, call[c].i, ApplyEvaluations(g, x))
  BY Zenon, <1>1, <1>2, <1>5, GotoFacts
<1>7. p \notin {"start", "gateway"}
  BY <1>2
<1> QED BY Zenon, <1>1, <1>4, <1>6, <1>7

\* The caller gives up its group, which a task may keep.
GivesGroup(c) ==
  \E p, t, s : /\ Moves(c, p, call[c].i, NoGroup) /\ p \notin {"start", "gateway"}
               /\ Stores(t, s, call[c].group)

\* ApplySession stores the group the caller carries.
LEMMA ApplyFacts ==
  ASSUME ShapeInv, NEW c \in Caller, ApplySession(c)
  PROVE  session' = session /\ GivesGroup(c)
<1>1. PICK t, s, g, p : t = CompletedTask(c) /\ s = CompletedSession(c) /\ g = call[c].group
                        /\ p = AfterReport(c)
  BY Zenon
<1>2. /\ workload' = workload /\ session' = session /\ Carry(c, p, NoGroup) /\ IsGroup(g)
      /\ tasks' = [tasks EXCEPT ![t] = CompleteSession(tasks[t], s, g)]
  BY Zenon, <1>1 DEF ApplySession, ShapeInv, CallsInv
<1>3. t \in DOMAIN tasks => TaskStep(tasks[t], CompleteSession(tasks[t], s, g), s, g)
  BY Zenon, <1>2, CompleteFacts DEF ShapeInv, TasksInv
<1>4. Moves(c, p, call[c].i, NoGroup)
  BY Zenon, <1>2, GotoFacts, GroupFacts
<1>5. p \notin {"start", "gateway"}
  BY <1>1 DEF AfterReport
<1>6. Stores(t, s, g)
  BY Zenon, <1>2, <1>3 DEF Stores
<1> QED BY Zenon, <1>1, <1>2, <1>4, <1>5, <1>6 DEF GivesGroup

\* GetTaskStore stores the group the caller carries if the task has none.
LEMMA StoreFacts ==
  ASSUME ShapeInv, NEW c \in Caller, GetTaskStore(c)
  PROVE  session' = session /\ GivesGroup(c)
<1>1. PICK t, g : t = ReadTask(c) /\ g = call[c].group
  BY Zenon
<1>2. /\ workload' = workload /\ session' = session /\ Carry(c, "done", NoGroup) /\ IsGroup(g)
      /\ \/ tasks' = tasks
         \/ tasks' = [tasks EXCEPT ![t] = [tasks[t] EXCEPT !.group = g]]
  BY Zenon, <1>1 DEF GetTaskStore, ShapeInv, CallsInv
<1>3. ASSUME t \in DOMAIN tasks PROVE TaskStep(tasks[t], [tasks[t] EXCEPT !.group = g], t, g)
  <2>1. PICK k : k = tasks[t]
    BY Zenon
  <2>2. TaskOK(k) /\ IsTask(k)
    BY Zenon, <1>3, <2>1 DEF ShapeInv, TasksInv, TaskOK
  <2>3. TaskLike([k EXCEPT !.group = g], k, k.status, g, k.groups)
    BY Zenon, <2>2, TaskFields
  <2>4. TaskStep(k, [k EXCEPT !.group = g], t, g)
    BY Zenon, <1>2, <2>2, <2>3, StatusStep
  <2> QED BY Zenon, <2>1, <2>4
<1>4. Moves(c, "done", call[c].i, NoGroup)
  BY Zenon, <1>2, GotoFacts, GroupFacts
<1>5. "done" \notin {"start", "gateway"}
  OBVIOUS
<1>6. Stores(t, t, g)
  BY Zenon, <1>2, <1>3 DEF Stores
<1> QED BY Zenon, <1>1, <1>2, <1>4, <1>5, <1>6 DEF GivesGroup

\* The caller moves on, and nothing else changes.
MovesOn(c) ==
  /\ \E p : Moves(c, p, call[c].i, call[c].group) /\ p \notin {"start", "gateway"}
  /\ UNCHANGED taskVars

\* GetTaskDrain takes the group of a drain, or keeps none of it.
LEMMA GetDrainFacts ==
  ASSUME ShapeInv, NEW c \in Caller, GetTaskDrain(c)
  PROVE  session' = session /\ (TakesDrain(c) \/ (MovesOn(c) /\ (DrainCapture \/ UNCHANGED captureVars)))
<1>1. workload' = workload /\ session' = session /\ tasks' = tasks
  BY Zenon DEF GetTaskDrain, taskVars
<1>2. PICK g : g = BuildFromDrainWithConfig(tasks[ReadTask(c)].strategy)
  BY Zenon
<1>3. "done" \notin {"start", "gateway"} /\ "store" \notin {"start", "gateway"}
  OBVIOUS
<1>4. \/ Carry(c, "store", g) /\ DrainCapture
      \/ Goto(c, "done") /\ (DrainCapture \/ UNCHANGED captureVars)
  BY Zenon, <1>2 DEF GetTaskDrain, DrainSucceeds, DrainFails
<1>5. CASE Carry(c, "store", g) /\ DrainCapture
  <2>1. IsGroup(g)
    BY Zenon, <1>2, DrainGroup
  <2>2. Moves(c, "store", call[c].i, g)
    BY Zenon, <1>1, <1>5, <2>1, GotoFacts
  <2> QED BY Zenon, <1>1, <1>2, <1>3, <1>5, <2>2 DEF TakesDrain
<1>6. CASE Goto(c, "done") /\ (DrainCapture \/ UNCHANGED captureVars)
  <2>1. Moves(c, "done", call[c].i, call[c].group)
    BY Zenon, <1>1, <1>6, GotoFacts
  <2> QED BY Zenon, <1>1, <1>3, <1>6, <2>1 DEF MovesOn, taskVars
<1> QED BY Zenon, <1>4, <1>5, <1>6

\* The calls that only look at tasks, or at none.
LEMMA MovesOnFacts ==
  ASSUME ShapeInv, NEW c \in Caller,
         GetTask(c) \/ RegisterNode(c) \/ RegistryRegister(c) \/ HeartbeatNode(c)
  PROVE  MovesOn(c) /\ UNCHANGED captureVars
<1>1. workload' = workload /\ UNCHANGED taskVars /\ UNCHANGED captureVars
  BY Zenon DEF GetTask, RegisterNode, RegistryRegister, HeartbeatNode
<1>2. PICK p \in {"drain", "done", "registry"} : Goto(c, p)
  <2>1. CASE GetTask(c)
    <3>1. \E build \in BOOLEAN : Goto(c, IF build THEN "drain" ELSE "done")
      BY Zenon, <2>1 DEF GetTask
    <3>2. PICK build \in BOOLEAN : Goto(c, IF build THEN "drain" ELSE "done")
      BY Zenon, <3>1
    <3>3. CASE build
      BY Zenon, <3>2, <3>3
    <3>4. CASE ~build
      BY Zenon, <3>2, <3>4
    <3> QED BY Zenon, <3>3, <3>4
  <2> QED BY Zenon, <2>1 DEF RegisterNode, RegistryRegister, HeartbeatNode
<1>3. p \notin {"start", "gateway"}
  OBVIOUS
<1>4. Moves(c, p, call[c].i, call[c].group)
  BY Zenon, <1>1, <1>2, GotoFacts
<1> QED BY Zenon, <1>1, <1>3, <1>4 DEF MovesOn

(***************************************************************************)
(* The gateway's sessions.                                                 *)
(***************************************************************************)
\* Session s changes: its group is now g; the others stay.
SessionSet(s, g) ==
  /\ SessionsInv' /\ DOMAIN session' = DOMAIN session /\ session'[s].group = g
  /\ \A r \in DOMAIN session : r # s => session'[r] = session[r]
  /\ workload' = workload /\ call' = call

\* A session set to a value that belongs to the same task.
LEMMA SessionFacts ==
  ASSUME ShapeInv, NEW s \in DOMAIN session, NEW k, IsSession(k), IsGroup(k.group),
         k.task = session[s].task, session' = [session EXCEPT ![s] = k],
         TasksGrow({}), workload' = workload, call' = call
  PROVE  SessionSet(s, k.group)
<1>1. /\ IsFunction(session') /\ DOMAIN session' = DOMAIN session /\ session'[s] = k
      /\ \A r \in DOMAIN session : r # s => session'[r] = session[r]
  BY Zenon, ExceptFacts DEF ShapeInv, SessionsInv
<1>2. SessionsInv
  BY Zenon DEF ShapeInv
<1>3. ASSUME NEW r \in DOMAIN session'
      PROVE  /\ IsSession(session'[r]) /\ IsGroup(session'[r].group)
             /\ session'[r].task \in DOMAIN tasks'
             /\ r \in Range(tasks'[session'[r].task].sessions)
  <2>1. r \in DOMAIN session /\ session'[r].task = session[r].task
    BY Zenon, <1>1, <1>3
  <2>2. session[r].task \in DOMAIN tasks' /\ r \in Range(tasks'[session[r].task].sessions)
    BY Zenon, <1>2, <2>1 DEF SessionsInv, TasksGrow
  <2>3. IsSession(session'[r]) /\ IsGroup(session'[r].group)
    BY Zenon, <1>1, <1>2, <2>1 DEF SessionsInv
  <2> QED BY Zenon, <2>1, <2>2, <2>3
<1> QED BY Zenon, <1>1, <1>3 DEF SessionSet, SessionsInv

\* l is a session of the same task as k, with the group g.
SessionLike(l, k, g) == IsSession(l) /\ l.group = g /\ l.task = k.task

\* The ways in which an action sets a session's fields.
LEMMA SessionFields ==
  ASSUME NEW k, IsSession(k), NEW a, NEW g, NEW b
  PROVE  /\ SessionLike([k EXCEPT !.stage = a], k, k.group)
         /\ SessionLike(Outcome(k, g, b), k, g)
         /\ SessionLike([k EXCEPT !.stage = a, !.group = g], k, g)
<1>1. PICK t, c, d, e : k = [task |-> t, stage |-> c, group |-> d, timedOut |-> e]
  BY Zenon DEF IsSession
<1>2. PICK l : l = [k EXCEPT !.stage = a]
  BY Zenon
<1>3. l = [task |-> t, stage |-> a, group |-> d, timedOut |-> e]
  BY <1>1, <1>2
<1>4. [l EXCEPT !.group = g] = [task |-> t, stage |-> a, group |-> g, timedOut |-> e]
  BY <1>3
<1>5. [k EXCEPT !.stage = a, !.group = g] = [task |-> t, stage |-> a, group |-> g, timedOut |-> e]
  <2>1. [k EXCEPT !.stage = a, !.group = g] = [l EXCEPT !.group = g]
    BY <1>2
  <2> QED BY Zenon, <1>4, <2>1
<1>6. Outcome(k, g, b) = [task |-> t, stage |-> "report", group |-> g, timedOut |-> b]
  <2>1. PICK m : m = [k EXCEPT !.stage = "report"]
    BY Zenon
  <2>2. PICK n : n = [m EXCEPT !.group = g]
    BY Zenon
  <2>3. Outcome(k, g, b) = [n EXCEPT !.timedOut = b]
    BY <2>1, <2>2 DEF Outcome
  <2>4. m = [task |-> t, stage |-> "report", group |-> d, timedOut |-> e]
    BY <1>1, <2>1
  <2>5. n = [task |-> t, stage |-> "report", group |-> g, timedOut |-> e]
    BY <2>4, <2>2
  <2>6. [n EXCEPT !.timedOut = b] = [task |-> t, stage |-> "report", group |-> g, timedOut |-> b]
    BY <2>5
  <2> QED BY Zenon, <2>3, <2>6
<1>7. ASSUME NEW x, NEW y, NEW z, NEW m, m = [task |-> t, stage |-> x, group |-> y, timedOut |-> z]
      PROVE  IsSession(m) /\ m.group = y /\ m.task = t
  BY <1>7 DEF IsSession
<1>8. k.task = t /\ k.group = d
  BY <1>1
<1>9. IsSession(l) /\ l.group = d /\ l.task = t
  BY Zenon, <1>3, <1>7
<1>10. PICK m : m = [k EXCEPT !.stage = a, !.group = g]
  BY Zenon
<1>11. IsSession(m) /\ m.group = g /\ m.task = t
  <2>1. m = [task |-> t, stage |-> a, group |-> g, timedOut |-> e]
    BY Zenon, <1>5, <1>10
  <2> QED BY Zenon, <1>7, <2>1
<1>12. PICK n : n = Outcome(k, g, b)
  BY Zenon
<1>13. IsSession(n) /\ n.group = g /\ n.task = t
  <2>1. n = [task |-> t, stage |-> "report", group |-> g, timedOut |-> b]
    BY Zenon, <1>6, <1>12
  <2> QED BY Zenon, <1>7, <2>1
<1> QED BY Zenon, <1>2, <1>8, <1>9, <1>10, <1>11, <1>12, <1>13 DEF SessionLike

\* assignTaskToNode changes no group.
LEMMA AssignFacts ==
  ASSUME ShapeInv, NEW s \in DOMAIN session, assignTaskToNode(s)
  PROVE  SessionSet(s, session[s].group) /\ tasks' = tasks /\ UNCHANGED captureVars
<1>1. PICK k : k = session[s]
  BY Zenon
<1>2. /\ workload' = workload /\ call' = call /\ tasks' = tasks /\ UNCHANGED captureVars
      /\ session' = [session EXCEPT ![s] = [k EXCEPT !.stage = "running"]]
  BY Zenon, <1>1 DEF assignTaskToNode
<1>3. IsSession(k) /\ IsGroup(k.group)
  BY Zenon, <1>1 DEF ShapeInv, SessionsInv
<1>4. PICK l : l = [k EXCEPT !.stage = "running"]
  BY Zenon
<1>5. IsSession(l) /\ l.group = k.group /\ l.task = k.task
  <2>1. SessionLike([k EXCEPT !.stage = "running"], k, k.group)
    BY Zenon, <1>3, SessionFields
  <2> QED BY Zenon, <1>4, <2>1 DEF SessionLike
<1>6. TasksGrow({})
  BY Zenon, <1>2 DEF TasksGrow
<1>7. session' = [session EXCEPT ![s] = l] /\ IsGroup(l.group) /\ l.task = session[s].task
  BY Zenon, <1>1, <1>2, <1>3, <1>4, <1>5
<1>8. SessionSet(s, l.group)
  BY Zenon, <1>2, <1>5, <1>6, <1>7, SessionFacts
<1> QED BY Zenon, <1>1, <1>2, <1>5, <1>8

\* capturePostRun takes the group of a drain, or an empty one.
LEMMA PostRunFacts ==
  ASSUME ShapeInv, NEW s \in DOMAIN session, capturePostRun(s)
  PROVE  /\ tasks' = tasks
         /\ \/ \E strategy : SessionSet(s, BuildFromDrainWithConfig(strategy)) /\ DrainCapture
            \/ SessionSet(s, Group(<<>>, {})) /\ DrainFails
<1>1. workload' = workload /\ call' = call /\ tasks' = tasks
  BY Zenon DEF capturePostRun
<1>2. PICK g, strategy, late :
        /\ session' = [session EXCEPT ![s] = Outcome(session[s], g, late)]
        /\ \/ g = BuildFromDrainWithConfig(strategy) /\ DrainCapture
           \/ g = Group(<<>>, {}) /\ DrainFails
  BY Zenon DEF capturePostRun, DrainSucceeds
<1>3. IsGroup(g)
  <2>1. IsGroup(BuildFromDrainWithConfig(strategy)) /\ IsGroup(Group(<<>>, {}))
    BY Zenon, DrainGroup, GroupFacts
  <2> QED BY Zenon, <1>2, <2>1
<1>4. PICK k, l : k = session[s] /\ l = Outcome(k, g, late)
  BY Zenon
<1>5. IsSession(k)
  BY Zenon, <1>4 DEF ShapeInv, SessionsInv
<1>6. IsSession(l) /\ l.group = g /\ l.task = k.task
  <2>1. SessionLike(Outcome(k, g, late), k, g)
    BY Zenon, <1>5, SessionFields
  <2> QED BY Zenon, <1>4, <2>1 DEF SessionLike
<1>7. TasksGrow({})
  BY Zenon, <1>1 DEF TasksGrow
<1>8. session' = [session EXCEPT ![s] = l] /\ IsGroup(l.group) /\ l.task = session[s].task
  BY Zenon, <1>2, <1>3, <1>4, <1>6
<1>9. SessionSet(s, l.group)
  BY Zenon, <1>1, <1>6, <1>7, <1>8, SessionFacts
<1>10. SessionSet(s, g)
  BY Zenon, <1>6, <1>9
<1> QED BY Zenon, <1>1, <1>2, <1>10

\* ApplySessionOutcome stores the group of the session.
LEMMA ApplyOutcomeFacts ==
  ASSUME ShapeInv, NEW s \in DOMAIN session, ApplySessionOutcome(s)
  PROVE  /\ SessionSet(s, NoGroup) /\ UNCHANGED captureVars
         /\ TasksInv' /\ TasksGrow({})
         /\ \E t : Stores(t, s, session[s].group)
<1>1. PICK k, t, g : k = session[s] /\ t = k.task /\ g = k.group
  BY Zenon
<1>2. PICK u : u = applyTerminalStatus(storeSessionGroup(tasks[t], s, g), k.timedOut)
  BY Zenon
<1>3. /\ workload' = workload /\ call' = call /\ UNCHANGED captureVars
      /\ tasks' = [tasks EXCEPT ![t] = u]
      /\ session' = [session EXCEPT ![s] = [k EXCEPT !.stage = "done", !.group = NoGroup]]
  BY Zenon, <1>1, <1>2 DEF ApplySessionOutcome
<1>4. IsSession(k) /\ IsGroup(g) /\ t \in DOMAIN tasks /\ s \in Range(tasks[t].sessions)
  BY Zenon, <1>1 DEF ShapeInv, SessionsInv
<1>5. TaskOK(tasks[t])
  BY Zenon, <1>4 DEF ShapeInv, TasksInv
<1>6. TaskStep(tasks[t], applyTerminalStatus(storeSessionGroup(tasks[t], s, g), k.timedOut), s, g)
  BY Zenon, <1>4, <1>5, OutcomeFacts
<1>7. TaskStep(tasks[t], u, s, g)
  BY Zenon, <1>2, <1>6
<1>8. TaskOK(u)
  BY Zenon, <1>7 DEF TaskStep
<1>9. /\ TasksInv' /\ DOMAIN tasks' = DOMAIN tasks
      /\ t \in DOMAIN tasks => tasks'[t] = u
      /\ \A v \in DOMAIN tasks : v # t => tasks'[v] = tasks[v]
  BY Zenon, <1>3, <1>8, TasksChange DEF ShapeInv
<1>10. TasksGrow({})
  BY Zenon, <1>7, <1>9 DEF TasksGrow, TaskStep
<1>11. PICK l : l = [k EXCEPT !.stage = "done", !.group = NoGroup]
  BY Zenon
<1>12. IsSession(l) /\ l.group = NoGroup /\ l.task = k.task
  <2>1. SessionLike([k EXCEPT !.stage = "done", !.group = NoGroup], k, NoGroup)
    BY Zenon, <1>4, SessionFields
  <2> QED BY Zenon, <1>11, <2>1 DEF SessionLike
<1>13. session' = [session EXCEPT ![s] = l] /\ IsGroup(l.group) /\ l.task = session[s].task
  BY Zenon, <1>1, <1>3, <1>11, <1>12, GroupFacts
<1>14. SessionSet(s, l.group)
  BY Zenon, <1>3, <1>10, <1>12, <1>13, SessionFacts
<1>15. Stores(t, s, session[s].group)
  BY Zenon, <1>1, <1>3, <1>7 DEF Stores
<1> QED BY Zenon, <1>3, <1>9, <1>10, <1>12, <1>14, <1>15

\* A step of the gateway's sessions keeps the shapes.
LEMMA SessionShape ==
  ASSUME ShapeInv, NEW s \in DOMAIN session,
         assignTaskToNode(s) \/ capturePostRun(s) \/ ApplySessionOutcome(s)
  PROVE  ShapeInv'
<1>1. \E g : SessionSet(s, g)
  BY Zenon, AssignFacts, PostRunFacts, ApplyOutcomeFacts
<1>2. SessionsInv' /\ workload' = workload /\ call' = call
  BY Zenon, <1>1 DEF SessionSet
<1>3. TasksInv' /\ TasksGrow({})
  <2>1. CASE ApplySessionOutcome(s)
    BY Zenon, <2>1, ApplyOutcomeFacts
  <2>2. CASE tasks' = tasks
    BY Zenon, <2>2 DEF ShapeInv, TasksInv, TasksGrow
  <2> QED BY Zenon, <2>1, <2>2, AssignFacts, PostRunFacts
<1> QED BY Zenon, <1>2, <1>3, OtherStep

\* A step of a caller keeps the shapes.
LEMMA CallerShape ==
  ASSUME ShapeInv, NEW c \in Caller,
         \/ SubmitTask(c) \/ startGatewaySessions(c) \/ GenerateOfflineTask(c) \/ OfflineDrain(c)
         \/ EvaluateSession(c) \/ ApplySession(c)
         \/ GetTask(c) \/ GetTaskDrain(c) \/ GetTaskStore(c)
         \/ RegisterNode(c) \/ RegistryRegister(c) \/ HeartbeatNode(c)
  PROVE  ShapeInv'
<1>1. ASSUME session' = session, TakesDrain(c) PROVE ShapeInv'
  <2>1. PICK p, n, g : Moves(c, p, n, g) /\ p \notin {"start", "gateway"} /\ tasks' = tasks
    BY Zenon, <1>1 DEF TakesDrain
  <2> QED BY Zenon, <1>1, <2>1, StoresShape DEF Stores
<1>2. ASSUME session' = session, DrainsInVain(c) PROVE ShapeInv'
  BY Zenon, <1>2, StoresShape DEF DrainsInVain
<1>3. ASSUME session' = session, GivesGroup(c) PROVE ShapeInv'
  BY Zenon, <1>3, StoresShape DEF GivesGroup
<1>4. ASSUME MovesOn(c) PROVE ShapeInv'
  BY Zenon, <1>4, CallOnlyStep DEF MovesOn, Moves
<1>5. CASE SubmitTask(c)
  <2>1. PICK p \in {"gateway", "done"} : MakesTask(c, p)
    BY Zenon, <1>5, SubmitFacts
  <2>2. p \in {"gateway", "offlineDrain", "done"}
    BY Zenon
  <2> QED BY Zenon, <2>1, <2>2, MakesTaskShape
<1>6. CASE GenerateOfflineTask(c)
  <2>1. PICK p \in {"offlineDrain", "done"} : MakesTask(c, p)
    BY Zenon, <1>6, OfflineFacts
  <2>2. p \in {"gateway", "offlineDrain", "done"}
    BY Zenon
  <2> QED BY Zenon, <2>1, <2>2, MakesTaskShape
<1>7. CASE startGatewaySessions(c)
  BY Zenon, <1>7, StartFacts
<1>8. CASE OfflineDrain(c)
  BY Zenon, <1>1, <1>2, <1>8, OfflineDrainFacts
<1>9. CASE EvaluateSession(c)
  <2>1. PICK p, g, x : Moves(c, p, call[c].i, ApplyEvaluations(g, x)) /\ p \notin {"start", "gateway"}
    BY Zenon, <1>9, EvaluateFacts
  <2>2. session' = session /\ tasks' = tasks
    BY Zenon, <1>9, EvaluateFacts
  <2> QED BY Zenon, <2>1, <2>2, StoresShape DEF Stores
<1>10. CASE ApplySession(c)
  BY Zenon, <1>3, <1>10, ApplyFacts
<1>11. CASE GetTaskDrain(c)
  BY Zenon, <1>1, <1>4, <1>11, GetDrainFacts
<1>12. CASE GetTaskStore(c)
  BY Zenon, <1>3, <1>12, StoreFacts
<1>13. CASE GetTask(c) \/ RegisterNode(c) \/ RegistryRegister(c) \/ HeartbeatNode(c)
  BY Zenon, <1>4, <1>13, MovesOnFacts
<1> QED BY Zenon, <1>5, <1>6, <1>7, <1>8, <1>9, <1>10, <1>11, <1>12, <1>13

\* The shapes hold at the start.
LEMMA ShapeInit == Init => ShapeInv
<1> SUFFICES ASSUME Init PROVE ShapeInv
  OBVIOUS
<1>1. ASSUME NEW c \in Caller
      PROVE  /\ IsCall(call[c]) /\ call[c].i \in Nat /\ IsGroup(call[c].group)
             /\ call[c].pc = "start" /\ call[c].i = 0
  <2>1. call[c] = [pc |-> "start", i |-> 0, group |-> NoGroup]
    BY Zenon DEF Init
  <2>2. IsCall(call[c]) /\ call[c].i \in Nat /\ call[c].group = NoGroup /\ call[c].pc = "start"
        /\ call[c].i = 0
    BY <2>1 DEF IsCall
  <2> QED BY Zenon, <2>2, GroupFacts
<1>2. CallsInv
  <2>1. IsFunction(call) /\ DOMAIN call = Caller
    BY Zenon DEF Init, IsFunction
  <2> QED BY Zenon, <1>1, <2>1 DEF CallsInv
<1>3. /\ IsFunction(tasks) /\ DOMAIN tasks = {} /\ IsFunction(session) /\ DOMAIN session = {}
  BY Zenon DEF Init, IsFunction
<1>4. "start" # "gateway"
  OBVIOUS
<1>5. workload \in Workload
  BY Zenon DEF Init
<1> QED BY Zenon, <1>1, <1>2, <1>3, <1>4, <1>5 DEF ShapeInv, TasksInv, CallersInv, SessionsInv

\* The shapes are kept by every step.
LEMMA ShapeInductive == ShapeInv /\ [Next]_vars => ShapeInv'
<1> SUFFICES ASSUME ShapeInv, [Next]_vars PROVE ShapeInv'
  OBVIOUS
<1>1. ASSUME workload' = workload, call' = call, UNCHANGED taskVars PROVE ShapeInv'
  <2>1. tasks' = tasks /\ session' = session
    BY Zenon, <1>1 DEF taskVars
  <2>2. TasksInv' /\ TasksGrow({}) /\ SessionsInv'
    BY Zenon, <2>1 DEF ShapeInv, TasksInv, SessionsInv, TasksGrow
  <2> QED BY Zenon, <1>1, <2>2, OtherStep
<1>2. CASE Capture \/ Tick \/ DeregisterStaleNodes \/ StartStaleNodeReaper \/ UNCHANGED vars
  BY Zenon, <1>1, <1>2 DEF Capture, Tick, DeregisterStaleNodes, StartStaleNodeReaper, vars
<1> QED BY Zenon, <1>2, CallerShape, SessionShape DEF Next

\* The shapes always hold.
LEMMA ShapeAlways == Spec => []ShapeInv
BY ShapeInit, ShapeInductive, PTL DEF Spec

(***************************************************************************)
(* Status reads and running tasks.                                         *)
(***************************************************************************)
\* The steps of one caller.
CallerNext(c) ==
  \/ SubmitTask(c) \/ startGatewaySessions(c) \/ GenerateOfflineTask(c) \/ OfflineDrain(c)
  \/ EvaluateSession(c) \/ ApplySession(c)
  \/ GetTask(c) \/ GetTaskDrain(c) \/ GetTaskStore(c)
  \/ RegisterNode(c) \/ RegistryRegister(c) \/ HeartbeatNode(c)

\* A step moves one caller at most: its own.
LEMMA OneCaller ==
  ASSUME ShapeInv, NEW c \in Caller, CallerNext(c)
  PROVE  \E p, n, g : Moves(c, p, n, g)
<1>1. CASE SubmitTask(c) \/ GenerateOfflineTask(c)
  BY Zenon, <1>1, SubmitFacts, OfflineFacts DEF MakesTask
<1>2. CASE OfflineDrain(c)
  BY Zenon, <1>2, OfflineDrainFacts DEF TakesDrain, DrainsInVain
<1>3. CASE GetTaskDrain(c)
  BY Zenon, <1>3, GetDrainFacts DEF TakesDrain, MovesOn
<1>4. CASE ApplySession(c) \/ GetTaskStore(c)
  BY Zenon, <1>4, ApplyFacts, StoreFacts DEF GivesGroup
<1>5. CASE GetTask(c) \/ RegisterNode(c) \/ RegistryRegister(c) \/ HeartbeatNode(c)
  BY Zenon, <1>5, MovesOnFacts DEF MovesOn
<1>6. CASE startGatewaySessions(c) \/ EvaluateSession(c)
  BY Zenon, <1>6, StartFacts, EvaluateFacts
<1> QED BY Zenon, <1>1, <1>2, <1>3, <1>4, <1>5, <1>6 DEF CallerNext

\* A caller at "store" can only store.
LEMMA StoreOnly ==
  ASSUME NEW c \in Caller, CallerNext(c), call[c].pc = "store"
  PROVE  GetTaskStore(c)
<1>1. /\ "store" # "start" /\ "store" # "gateway" /\ "store" # "offlineDrain" /\ "store" # "complete"
      /\ "store" # "apply" /\ "store" # "snapshot" /\ "store" # "drain" /\ "store" # "registry"
  OBVIOUS
<1> QED BY Zenon, <1>1 DEF CallerNext, SubmitTask, startGatewaySessions, GenerateOfflineTask,
    OfflineDrain, EvaluateSession, ApplySession, GetTask, GetTaskDrain, RegisterNode,
    RegistryRegister, HeartbeatNode, At

\* A step in which a caller goes from "store" to "done" leaves the groups that
\* tasks already have.
LEMMA StoreKeeps ==
  ASSUME ShapeInv, [Next]_vars, NEW c \in Caller, call[c].pc = "store", call'[c].pc = "done",
         NEW t \in DOMAIN tasks, ~tasks[t].group.none
  PROVE  tasks'[t].group = tasks[t].group
<1>1. call' # call
  <2>1. "store" # "done"
    OBVIOUS
  <2> QED BY Zenon, <2>1
<1>2. PICK d \in Caller : CallerNext(d)
  BY Zenon, <1>1 DEF Next, vars, CallerNext, Capture, Tick, DeregisterStaleNodes,
    StartStaleNodeReaper, assignTaskToNode, capturePostRun, ApplySessionOutcome
<1>3. d = c
  <2>1. ASSUME d # c PROVE FALSE
    <3>1. c \in Caller \ {d}
      BY Zenon, <2>1
    <3>2. call'[c] = call[c]
      BY Zenon, <1>2, <3>1, OneCaller DEF Moves, CallSet
    <3>3. "store" # "done"
      OBVIOUS
    <3> QED BY Zenon, <3>2, <3>3
  <2> QED BY Zenon, <2>1
<1>4. GetTaskStore(c)
  BY Zenon, <1>2, <1>3, StoreOnly
<1>5. PICK u : u = ReadTask(c)
  BY Zenon
<1>6. \/ tasks[u].group.none /\ tasks' = [tasks EXCEPT ![u] = [tasks[u] EXCEPT !.group = call[c].group]]
      \/ tasks' = tasks
  BY Zenon, <1>4, <1>5 DEF GetTaskStore
<1>7. CASE tasks[u].group.none /\ tasks' = [tasks EXCEPT ![u] = [tasks[u] EXCEPT !.group = call[c].group]]
  <2>1. t # u
    BY Zenon, <1>7
  <2> QED BY Zenon, <1>7, <2>1, ExceptFacts DEF ShapeInv, TasksInv
<1> QED BY Zenon, <1>6, <1>7

\* A status read that drained the queue never replaces the group a session has
\* reported meanwhile, for any workload and any number of callers, nodes and
\* faults (service.go: GetTask).
THEOREM ReadsNeverReplace == Spec => ReadsKeepReports
<1>1. ShapeInv /\ [Next]_vars
        => [\A c \in Caller : call[c].pc = "store" /\ call'[c].pc = "done" =>
              \A t \in DOMAIN tasks : ~tasks[t].group.none => tasks'[t].group = tasks[t].group]_vars
  BY Zenon, StoreKeeps
<1> QED BY <1>1, ShapeAlways, PTL DEF Spec, ReadsKeepReports

\* As many indices are without a report as sessions are, if no session is named twice.
LEMMA OpenCount ==
  ASSUME NEW n \in Nat, NEW f, IsFunction(f), DOMAIN f = 1..n, IsInjective(f),
         NEW G, G \subseteq Range(f), IsFiniteSet(G)
  PROVE  Cardinality({i \in DOMAIN f : f[i] \notin G}) = n - Cardinality(G)
<1> DEFINE A == {i \in 1..n : f[i] \in G}
           g == [i \in A |-> f[i]]
<1>1. IsFiniteSet(1..n) /\ Cardinality(1..n) = n
  <2>1. 1 \in Int /\ n \in Int
    OBVIOUS
  <2>2. /\ IsFiniteSet(1..n)
        /\ Cardinality(1..n) = IF 1 > n THEN 0 ELSE n - 1 + 1
    BY Zenon, <2>1, FS_Interval
  <2> QED BY <2>2
<1>2. {i \in DOMAIN f : f[i] \notin G} = (1..n) \ A
  BY Zenon
<1>3. A \subseteq 1..n /\ (1..n) \cap A = A
  BY Zenon
<1>4. g \in [A -> G] /\ \A x \in G : \E i \in A : g[i] = x
  <2>1. \A x \in G : \E i \in 1..n : f[i] = x
    BY Zenon DEF Range
  <2> QED BY Zenon, <2>1
<1>5. \A i, j \in A : g[i] = g[j] => i = j
  BY Zenon, <1>3 DEF IsInjective
<1> HIDE DEF A, g
<1>6. ExistsBijection(A, G)
  <2>1. g \in Injection(A, G)
    BY Zenon, <1>4, <1>5 DEF Injection, IsInjective
  <2>2. g \in Surjection(A, G)
    BY Zenon, <1>4 DEF Surjection
  <2> QED BY Zenon, <2>1, <2>2 DEF ExistsBijection, Bijection
<1>7. IsFiniteSet(A)
  BY Zenon, <1>1, <1>3, FS_Subset
<1>8. Cardinality(G) = Cardinality(A)
  BY Zenon, <1>6, <1>7, FS_Bijection
<1>9. Cardinality((1..n) \ A) = Cardinality(1..n) - Cardinality((1..n) \cap A)
  BY Zenon, <1>1, FS_Difference
<1> QED BY Zenon, <1>1, <1>2, <1>3, <1>8, <1>9

\* The shapes imply that a running task waits.
LEMMA ShapeWaiting == ShapeInv => RunningMeansWaiting
<1> SUFFICES ASSUME ShapeInv, NEW t \in DOMAIN FleetStatus
             PROVE  /\ FleetStatus[t] >= 1
                    /\ Multi(tasks[t]) /\ IsInjective(tasks[t].sessions) =>
                         FleetStatus[t] = Cardinality({i \in DOMAIN tasks[t].sessions :
                                            tasks[t].sessions[i] \notin DOMAIN tasks[t].groups})
  BY Zenon DEF RunningMeansWaiting
<1>1. PICK k, n, G : k = tasks[t] /\ n = Cardinality(DOMAIN k.groups) /\ G = DOMAIN k.groups
  BY Zenon
<1>2. /\ t \in DOMAIN tasks /\ k.status = "running"
      /\ FleetStatus[t] = IF Multi(k) /\ G # {} THEN k.num - n ELSE k.num
  BY Zenon, <1>1 DEF FleetStatus
<1>3. TaskOK(k)
  BY Zenon, <1>1, <1>2 DEF ShapeInv, TasksInv
<1>4. k.num \in Nat \ {0} /\ n \in Nat /\ (Multi(k) => n < k.num) /\ IsFiniteSet(G)
      /\ (G = {} => n = 0)
  BY Zenon, <1>1, <1>2, <1>3, FS_CardinalityType, FS_EmptySet DEF TaskOK, Multi
<1>5. FleetStatus[t] >= 1
  BY <1>2, <1>4
<1>6. ASSUME Multi(k), IsInjective(k.sessions)
      PROVE  FleetStatus[t] = Cardinality({i \in DOMAIN k.sessions : k.sessions[i] \notin G})
  <2>1. FleetStatus[t] = k.num - n
    BY <1>2, <1>4, <1>6
  <2>2. k.num \in Nat
    BY <1>4
  <2>3. PICK f, m : f = k.sessions /\ m = k.num
    BY Zenon
  <2>4. /\ IsFunction(f) /\ DOMAIN f = 1..m /\ IsInjective(f) /\ G \subseteq Range(f) /\ m \in Nat
    BY Zenon, <1>1, <1>3, <1>6, <2>2, <2>3 DEF TaskOK
  <2>5. Cardinality({i \in DOMAIN f : f[i] \notin G}) = m - Cardinality(G)
    BY Zenon, <1>4, <2>4, OpenCount
  <2> QED BY Zenon, <1>1, <2>1, <2>3, <2>5
<1> QED BY Zenon, <1>1, <1>5, <1>6

\* A running task waits for at least one session, and counts those it waits for,
\* whatever reports, gateway outcomes and offline drains come in whichever order
\* (service.go: CompleteSession, FleetStatus; gateway_session.go).
THEOREM RunningTaskWaits == Spec => []RunningMeansWaiting
BY ShapeAlways, ShapeWaiting, PTL

(***************************************************************************)
(* Sessions are dealt out in turn.                                         *)
(***************************************************************************)
\* The nodes are totally ordered by their ids.
LEMMA ActiveFacts ==
  ASSUME NEW D, D \subseteq Node, IsFiniteSet(D)
  PROVE  Enumerates(ActiveOf(D), D)
<1>1. PICK before : before = {mn \in D \X D : mn[1] < mn[2]}
  BY Zenon
<1>2. D \subseteq Nat
  BY Zenon, LimitsAssumption
<1>3. \A x, y \in D : <<x, y>> \in before <=> x < y
  BY <1>1
<1>4. TotalOrder(D, before)
  <2>1. \A x, y, z \in D : ~(x < x) /\ (x # y => x < y \/ y < x) /\ (x < y /\ y < z => x < z)
    BY <1>2
  <2> QED BY Zenon, <1>3, <2>1 DEF TotalOrder
<1>5. ActiveOf(D) = Ordered(D, before)
  BY Zenon, <1>1 DEF ActiveOf
<1> QED BY Zenon, <1>4, <1>5, OrderedFacts

\* Two numbers less than n apart have different remainders.
LEMMA RemaindersDiffer ==
  ASSUME NEW n \in Nat \ {0}, NEW a \in Nat, NEW b \in Nat, a < b, b - a < n
  PROVE  a % n # b % n
<1>1. a = n * (a \div n) + (a % n) /\ (a \div n) \in Nat /\ a % n \in Nat
  OBVIOUS
<1>2. b = n * (b \div n) + (b % n) /\ (b \div n) \in Nat /\ b % n \in Nat
  OBVIOUS
<1>3. PICK p, q, r, s : p = a \div n /\ q = b \div n /\ r = a % n /\ s = b % n
  BY Zenon
<1>4. ASSUME r = s PROVE FALSE
  <2>1. p \in Nat /\ q \in Nat /\ n * p \in Nat /\ n * q \in Nat /\ r \in Nat
    BY <1>1, <1>2, <1>3
  <2>2. a = n * p + r /\ b = n * q + r
    BY Zenon, <1>1, <1>2, <1>3, <1>4
  <2>3. n * p < n * q /\ n * q < n * p + n
    BY <2>1, <2>2
  <2>4. CASE q <= p
    <3>1. n * q <= n * p
      BY <2>1, <2>4
    <3> QED BY <2>1, <2>3, <3>1
  <2>5. CASE q >= p + 1
    <3>1. n * q >= n * (p + 1)
      BY <2>1, <2>5
    <3>2. n * (p + 1) = n * p + n
      BY <2>1
    <3> QED BY <2>1, <2>3, <3>1, <3>2
  <2> QED BY <2>1, <2>4, <2>5
<1> QED BY Zenon, <1>3, <1>4

\* Nothing has been dealt out since the nodes changed.
LEMMA DealtNone ==
  ASSUME NEW D, D \subseteq Node, IsFiniteSet(D), NEW idx \in Nat
  PROVE  DealtInTurn(D, idx, <<>>)
<1>1. <<>> \in Seq(D) /\ Len(<<>>) = 0 /\ Len(<<>>) <= idx
  OBVIOUS
<1>2. \A i \in 1..Len(<<>>) : FALSE
  BY <1>1
<1> QED BY Zenon, <1>1, <1>2 DEF DealtInTurn

\* The next node in turn.
LEMMA DealtNext ==
  ASSUME NEW D, D # {}, NEW idx, NEW dealt, DealtInTurn(D, idx, dealt),
         NEW x, x = ActiveOf(D)[(idx % Cardinality(D)) + 1]
  PROVE  DealtInTurn(D, idx + 1, Append(dealt, x))
<1>1. PICK n, k, A : n = Cardinality(D) /\ k = Len(dealt) /\ A = ActiveOf(D)
  BY Zenon
<1>2. /\ D \subseteq Node /\ IsFiniteSet(D) /\ idx \in Nat /\ dealt \in Seq(D) /\ k <= idx
      /\ \A i \in 1..k : dealt[i] = A[((idx - k + (i - 1)) % n) + 1]
  BY Zenon, <1>1 DEF DealtInTurn
<1>3. n \in Nat /\ n # 0 /\ k \in Nat
  <2>1. n \in Nat /\ n # 0
    BY Zenon, <1>1, <1>2, FS_CardinalityType, FS_EmptySet
  <2>2. k \in Nat
    BY <1>1, <1>2
  <2> QED BY Zenon, <2>1, <2>2
<1>4. (idx % n) + 1 \in 1..n
  BY <1>2, <1>3
<1>5. x \in D /\ x = A[(idx % n) + 1]
  BY Zenon, <1>1, <1>2, <1>4, ActiveFacts DEF Enumerates
<1>6. PICK e : e = Append(dealt, x)
  BY Zenon
<1>7. e \in Seq(D) /\ Len(e) = k + 1 /\ e[k + 1] = x /\ \A i \in 1..k : e[i] = dealt[i]
  BY <1>1, <1>2, <1>5, <1>6
<1>8. ASSUME NEW i \in 1..Len(e)
      PROVE  e[i] = A[(((idx + 1) - Len(e) + (i - 1)) % n) + 1]
  <2>1. (idx + 1) - Len(e) = idx - k
    BY <1>2, <1>3, <1>7
  <2>2. CASE i = k + 1
    <3>1. idx - k + (i - 1) = idx
      BY <1>2, <1>3, <2>2
    <3> QED BY Zenon, <1>5, <1>7, <2>1, <2>2, <3>1
  <2>3. CASE i # k + 1
    <3>1. i \in 1..k
      BY <1>3, <1>7, <2>3
    <3> QED BY Zenon, <1>2, <1>7, <2>1, <3>1
  <2> QED BY Zenon, <2>2, <2>3
<1>9. idx + 1 \in Nat /\ Len(e) <= idx + 1
  BY <1>2, <1>3, <1>7
<1>10. DealtInTurn(D, idx + 1, e)
  BY Zenon, <1>1, <1>2, <1>7, <1>8, <1>9 DEF DealtInTurn
<1> QED BY Zenon, <1>6, <1>10

\* Sessions are assigned in turn.
LEMMA NodesInTurn == NodesInv => AssignedInTurn
<1> SUFFICES ASSUME NodesInv, NEW i \in DOMAIN recent, NEW j \in DOMAIN recent,
                    i < j, j - i < Cardinality(DOMAIN registry)
             PROVE  recent[i] # recent[j]
  BY Zenon DEF AssignedInTurn
<1>1. PICK D, n, k, A : D = DOMAIN registry /\ n = Cardinality(D) /\ k = Len(recent) /\ A = ActiveOf(D)
  BY Zenon
<1>2. /\ D \subseteq Node /\ IsFiniteSet(D) /\ nextIdx \in Nat /\ recent \in Seq(D) /\ k <= nextIdx
      /\ \A h \in 1..k : recent[h] = A[((nextIdx - k + (h - 1)) % n) + 1]
  BY Zenon, <1>1 DEF NodesInv, DealtInTurn
<1>3. i \in 1..k /\ j \in 1..k /\ k \in Nat
  BY <1>1, <1>2
<1>4. n \in Nat
  BY Zenon, <1>1, <1>2, FS_CardinalityType
<1>5. n \in Nat \ {0} /\ j - i < n
  BY <1>1, <1>3, <1>4
<1>6. PICK a, b : a = nextIdx - k + (i - 1) /\ b = nextIdx - k + (j - 1)
  BY Zenon
<1>7. a \in Nat /\ b \in Nat /\ a < b /\ b - a < n
  <2>1. nextIdx \in Nat /\ k <= nextIdx
    BY Zenon, <1>2
  <2> QED BY <1>3, <1>5, <1>6, <2>1
<1>8. a % n # b % n
  BY Zenon, <1>5, <1>7, RemaindersDiffer
<1>9. (a % n) + 1 \in 1..n /\ (b % n) + 1 \in 1..n /\ (a % n) + 1 # (b % n) + 1
  BY <1>5, <1>7, <1>8
<1>10. A[(a % n) + 1] # A[(b % n) + 1]
  BY Zenon, <1>1, <1>2, <1>9, ActiveFacts DEF Enumerates
<1> QED BY Zenon, <1>2, <1>3, <1>6, <1>10

\* The nodes stay registered, and nothing is dealt out.
LEMMA NodesKept ==
  ASSUME NodesInv, IsFunction(registry'), DOMAIN registry' = DOMAIN registry,
         nextIdx' = nextIdx, recent' = recent
  PROVE  NodesInv'
BY Zenon DEF NodesInv

\* The nodes change.
LEMMA NodesChanged ==
  ASSUME NodesInv, IsFunction(registry'), DOMAIN registry' \subseteq Node,
         IsFiniteSet(DOMAIN registry'), nextIdx' = nextIdx, recent' = <<>>
  PROVE  NodesInv'
<1>1. nextIdx \in Nat
  BY Zenon DEF NodesInv, DealtInTurn
<1>2. DealtInTurn(DOMAIN registry', nextIdx, <<>>)
  BY Zenon, <1>1, DealtNone
<1> QED BY Zenon, <1>2 DEF NodesInv

\* A node registers, for the first time or again.
LEMMA RegisterNodes ==
  ASSUME NodesInv, ShapeInv, NEW c \in Caller, RegistryRegister(c)
  PROVE  NodesInv'
<1>1. PICK x : x = Op(c).node
  BY Zenon
<1>2. /\ registry' = Put(registry, x, clock) /\ nextIdx' = nextIdx
      /\ recent' = IF x \in DOMAIN registry THEN recent ELSE <<>>
      /\ Op(c).op = "register"
  BY Zenon, <1>1 DEF RegistryRegister, At
<1>3. x \in Node
  BY Zenon, <1>1, <1>2, WorkloadAssumption DEF ShapeInv, Op
<1>4. IsFunction(registry') /\ DOMAIN registry' = DOMAIN registry \cup {x}
  BY Zenon, <1>2 DEF Put, IsFunction
<1>5. CASE x \in DOMAIN registry
  <2>1. DOMAIN registry' = DOMAIN registry
    BY Zenon, <1>4, <1>5
  <2> QED BY Zenon, <1>2, <1>4, <1>5, <2>1, NodesKept
<1>6. CASE x \notin DOMAIN registry
  <2>1. DOMAIN registry \subseteq Node /\ IsFiniteSet(DOMAIN registry)
    BY Zenon DEF NodesInv, DealtInTurn
  <2>2. DOMAIN registry' \subseteq Node /\ IsFiniteSet(DOMAIN registry')
    BY Zenon, <1>3, <1>4, <2>1, FS_AddElement
  <2> QED BY Zenon, <1>2, <1>4, <1>6, <2>2, NodesChanged
<1> QED BY Zenon, <1>5, <1>6

\* A heartbeat changes no more than a time.
LEMMA HeartbeatNodes ==
  ASSUME NodesInv, NEW c \in Caller, HeartbeatNode(c)
  PROVE  NodesInv'
<1>1. PICK x : x = Op(c).node
  BY Zenon
<1>2. /\ registry' = [registry EXCEPT ![x] = clock] \/ registry' = registry
      /\ nextIdx' = nextIdx /\ recent' = recent
  BY Zenon, <1>1 DEF HeartbeatNode
<1>3. IsFunction(registry)
  BY Zenon DEF NodesInv
<1>4. IsFunction(registry') /\ DOMAIN registry' = DOMAIN registry
  <2>1. CASE registry' = [registry EXCEPT ![x] = clock]
    BY Zenon, <1>3, <2>1 DEF IsFunction
  <2> QED BY Zenon, <1>2, <1>3, <2>1
<1> QED BY Zenon, <1>2, <1>4, NodesKept

\* Stale nodes go.
LEMMA StaleNodes ==
  ASSUME NodesInv, DeregisterStaleNodes
  PROVE  NodesInv'
<1>1. PICK stale : /\ registry' = [x \in DOMAIN registry \ stale |-> registry[x]]
                   /\ recent' = <<>> /\ nextIdx' = nextIdx
  BY Zenon DEF DeregisterStaleNodes
<1>2. IsFunction(registry') /\ DOMAIN registry' = DOMAIN registry \ stale
  BY Zenon, <1>1 DEF IsFunction
<1>3. DOMAIN registry \subseteq Node /\ IsFiniteSet(DOMAIN registry)
  BY Zenon DEF NodesInv, DealtInTurn
<1>4. DOMAIN registry' \subseteq Node /\ IsFiniteSet(DOMAIN registry')
  BY Zenon, <1>2, <1>3, FS_Difference
<1> QED BY Zenon, <1>1, <1>2, <1>4, NodesChanged

\* A session is assigned to the next node.
LEMMA AssignNodes ==
  ASSUME NodesInv, NEW s \in DOMAIN session, assignTaskToNode(s)
  PROVE  NodesInv'
<1>1. AssignTask(session[s].task, s) /\ registry' = registry
  BY Zenon DEF assignTaskToNode
<1>2. IsFunction(registry) /\ DealtInTurn(DOMAIN registry, nextIdx, recent)
  BY Zenon DEF NodesInv
<1>3. CASE DOMAIN registry = {}
  <2>1. nextIdx' = nextIdx /\ recent' = recent
    BY Zenon, <1>1, <1>3 DEF AssignTask
  <2> QED BY Zenon, <1>1, <1>2, <2>1, NodesKept
<1>4. CASE DOMAIN registry # {}
  <2>1. PICK D, A, x : D = DOMAIN registry /\ A = ActiveOf(D) /\ x = A[(nextIdx % Cardinality(D)) + 1]
    BY Zenon
  <2>2. getActiveNodesLocked = A
    BY Zenon, <2>1 DEF getActiveNodesLocked, ActiveOf
  <2>3. Len(A) = Cardinality(D)
    <3>1. DOMAIN A = 1..Cardinality(D) /\ Cardinality(D) \in Nat /\ IsFunction(A)
      BY Zenon, <1>2, <2>1, ActiveFacts, FS_CardinalityType DEF DealtInTurn, Enumerates
    <3> QED BY <3>1 DEF IsFunction
  <2>4. Selected(getActiveNodesLocked) = x
    BY Zenon, <2>1, <2>2, <2>3 DEF Selected
  <2>5. nextIdx' = nextIdx + 1 /\ recent' = Append(recent, x)
    BY Zenon, <1>1, <1>4, <2>4 DEF AssignTask
  <2>6. DealtInTurn(D, nextIdx + 1, Append(recent, x))
    BY Zenon, <1>2, <1>4, <2>1, DealtNext
  <2> QED BY Zenon, <1>1, <1>2, <2>1, <2>5, <2>6 DEF NodesInv
<1> QED BY Zenon, <1>3, <1>4

\* No node is registered at first.
LEMMA NodesInit == Init => NodesInv
<1> SUFFICES ASSUME Init PROVE NodesInv
  OBVIOUS
<1>1. IsFunction(registry) /\ DOMAIN registry = {} /\ nextIdx = 0 /\ recent = <<>>
  BY Zenon DEF Init, IsFunction
<1>2. nextIdx \in Nat
  BY <1>1
<1>3. DealtInTurn({}, nextIdx, <<>>)
  BY Zenon, <1>2, DealtNone, FS_EmptySet
<1> QED BY Zenon, <1>1, <1>3 DEF NodesInv

\* Sessions are dealt out in turn at every step.
LEMMA NodesInductive == NodesInv /\ ShapeInv /\ [Next]_vars => NodesInv'
<1> SUFFICES ASSUME NodesInv, ShapeInv, [Next]_vars PROVE NodesInv'
  OBVIOUS
<1>1. ASSUME registry' = registry, nextIdx' = nextIdx, recent' = recent PROVE NodesInv'
  BY Zenon, <1>1, NodesKept DEF NodesInv
<1>2. CASE Capture \/ Tick \/ StartStaleNodeReaper \/ UNCHANGED vars
  BY Zenon, <1>1, <1>2 DEF Capture, Tick, StartStaleNodeReaper, vars, nodeVars
<1>3. ASSUME NEW c \in Caller, CallerNext(c) PROVE NodesInv'
  <2>1. CASE RegistryRegister(c) \/ HeartbeatNode(c)
    BY Zenon, <2>1, RegisterNodes, HeartbeatNodes
  <2>2. CASE ~(RegistryRegister(c) \/ HeartbeatNode(c))
    <3>1. registry' = registry /\ nextIdx' = nextIdx /\ recent' = recent
      BY Zenon, <1>3, <2>2 DEF CallerNext, SubmitTask, startGatewaySessions, GenerateOfflineTask,
        OfflineDrain, EvaluateSession, ApplySession, GetTask, GetTaskDrain, GetTaskStore,
        RegisterNode, nodeVars
    <3> QED BY Zenon, <1>1, <3>1
  <2> QED BY Zenon, <2>1, <2>2
<1>4. ASSUME NEW s \in DOMAIN session, capturePostRun(s) \/ ApplySessionOutcome(s) PROVE NodesInv'
  BY Zenon, <1>1, <1>4 DEF capturePostRun, ApplySessionOutcome, nodeVars
<1> QED BY Zenon, <1>2, <1>3, <1>4, StaleNodes, AssignNodes DEF Next, CallerNext

\* While the nodes stay the same, no node gets a second session before every
\* other has had one, for any set of nodes (node_registry.go: AssignTask).
THEOREM SessionsDealtInTurn == Spec => []AssignedInTurn
BY ShapeAlways, NodesInit, NodesInductive, NodesInTurn, PTL DEF Spec

(***************************************************************************)
(* Groups and the records they train on.                                   *)
(***************************************************************************)
Empty(g) == g.chains = <<>> /\ g.records = {}
Same(g, f) == g.chains = f.chains /\ g.records = f.records

\* What a holder has after a step in which the group of x may go to y and a new
\* one, on records in new, may come to y.
Passed(ca, se, ta, x, y, new, h, g) ==
  \/ Empty(g)
  \/ h # x /\ \E f : Holds(ca, se, ta, h, f) /\ Same(g, f)
  \/ h = y /\ \E f : Holds(ca, se, ta, x, f) /\ Same(g, f)
  \/ h = y /\ Faithful(g.chains, g.records) /\ g.records \subseteq new

\* Such a step leaves no record with two holders.
LEMMA OwnedStep ==
  ASSUME NEW ca, NEW se, NEW ta, NEW T, Owned(ca, se, ta, T),
         NEW ca2, NEW se2, NEW ta2, NEW T2, T \subseteq T2, NEW x, NEW y,
         \A h, g : Holds(ca2, se2, ta2, h, g) => Passed(ca, se, ta, x, y, T2 \ T, h, g)
  PROVE  Owned(ca2, se2, ta2, T2)
<1>1. ASSUME NEW h, NEW f, Holds(ca, se, ta, h, f)
      PROVE  Faithful(f.chains, f.records) /\ f.records \subseteq T
  BY Zenon, <1>1 DEF Owned
<1>2. ASSUME NEW h, NEW g, Holds(ca2, se2, ta2, h, g)
      PROVE  Faithful(g.chains, g.records) /\ g.records \subseteq T2
  <2>1. CASE Empty(g)
    BY Zenon, <2>1, FaithfulNone DEF Empty
  <2>2. CASE \E f, k : Holds(ca, se, ta, k, f) /\ Same(g, f)
    <3>1. PICK f, k : Holds(ca, se, ta, k, f) /\ Same(g, f)
      BY Zenon, <2>2
    <3>2. Faithful(f.chains, f.records) /\ f.records \subseteq T
      BY Zenon, <1>1, <3>1
    <3> QED BY Zenon, <3>1, <3>2 DEF Same
  <2>3. CASE Faithful(g.chains, g.records) /\ g.records \subseteq T2 \ T
    BY Zenon, <2>3
  <2> QED BY Zenon, <1>2, <2>1, <2>2, <2>3 DEF Passed
<1>3. ASSUME NEW h, NEW g, NEW k, NEW f, Holds(ca2, se2, ta2, h, g), Holds(ca2, se2, ta2, k, f), h # k,
             NEW r, r \in g.records, r \in f.records
      PROVE  FALSE
  <2>1. ~Empty(g) /\ ~Empty(f)
    BY Zenon, <1>3 DEF Empty
  <2>2. ASSUME NEW h1, NEW g1, NEW h2, NEW g2, Holds(ca, se, ta, h1, g1), Holds(ca, se, ta, h2, g2),
               Same(g, g1), Same(f, g2), h1 # h2
        PROVE  FALSE
    <3>1. g1.records \cap g2.records = {}
      BY Zenon, <2>2 DEF Owned
    <3> QED BY Zenon, <1>3, <2>2, <3>1 DEF Same
  <2>3. ASSUME NEW h1, NEW g1, Holds(ca, se, ta, h1, g1), Same(g, g1) \/ Same(f, g1)
        PROVE  r \in T
    <3>1. g1.records \subseteq T
      BY Zenon, <1>1, <2>3
    <3> QED BY Zenon, <1>3, <2>3, <3>1 DEF Same
  <2>4. CASE h # x /\ \E g1 : Holds(ca, se, ta, h, g1) /\ Same(g, g1)
    BY Zenon, <1>3, <2>1, <2>2, <2>3, <2>4 DEF Passed
  <2>5. CASE h = y
    BY Zenon, <1>3, <2>1, <2>2, <2>3, <2>5 DEF Passed
  <2> QED BY Zenon, <1>3, <2>1, <2>4, <2>5 DEF Passed
<1>4. ASSUME NEW h, NEW g, NEW k, NEW f, Holds(ca2, se2, ta2, h, g), Holds(ca2, se2, ta2, k, f), h # k
      PROVE  g.records \cap f.records = {}
  BY Zenon, <1>3, <1>4
<1> QED BY Zenon, <1>2, <1>4 DEF Owned

\* The holders of different kinds differ.
LEMMA HolderKinds ==
  ASSUME NEW h, NEW g
  PROVE  /\ \A ca : CallHolds(ca, h, g) => h[1] = "call"
         /\ \A se : SessionHolds(se, h, g) => h[1] = "session"
         /\ \A ta : TaskHolds(ta, h, g) => h[1] \in {"task", "report"}
         /\ \A c, d : <<"call", c>> = <<"call", d>> => c = d
         /\ \A c, d : <<"session", c>> = <<"session", d>> => c = d
         /\ \A c : <<"call", c>>[1] = "call" /\ <<"session", c>>[1] = "session"
<1>1. /\ \A c : <<"call", c>>[1] = "call" /\ <<"session", c>>[1] = "session" /\ <<"task", c>>[1] = "task"
      /\ \A t, s : <<"report", t, s>>[1] = "report"
      /\ \A c, d : <<"call", c>> = <<"call", d>> => c = d
      /\ \A c, d : <<"session", c>> = <<"session", d>> => c = d
  OBVIOUS
<1>2. ASSUME NEW ca, CallHolds(ca, h, g) PROVE h[1] = "call"
  BY Zenon, <1>1, <1>2 DEF CallHolds
<1>3. ASSUME NEW se, SessionHolds(se, h, g) PROVE h[1] = "session"
  BY Zenon, <1>1, <1>3 DEF SessionHolds
<1>4. ASSUME NEW ta, TaskHolds(ta, h, g) PROVE h[1] \in {"task", "report"}
  BY Zenon, <1>1, <1>4 DEF TaskHolds
<1> QED BY Zenon, <1>1, <1>2, <1>3, <1>4

\* A caller's move changes what that caller holds.
LEMMA CallsHold ==
  ASSUME NEW c \in Caller, NEW p, NEW n, NEW x, Moves(c, p, n, x), NEW h, NEW g, CallHolds(call', h, g)
  PROVE  (h # <<"call", c>> /\ CallHolds(call, h, g)) \/ (h = <<"call", c>> /\ g = x)
<1>1. PICK d \in Caller : h = <<"call", d>> /\ g = call'[d].group
  BY Zenon DEF CallHolds
<1>2. CASE d = c
  BY Zenon, <1>1, <1>2 DEF Moves, CallSet
<1>3. CASE d # c
  <2>1. call'[d] = call[d]
    BY Zenon, <1>3 DEF Moves, CallSet
  <2>2. h # <<"call", c>>
    BY Zenon, <1>1, <1>3, HolderKinds
  <2> QED BY Zenon, <1>1, <2>1, <2>2 DEF CallHolds
<1> QED BY Zenon, <1>2, <1>3

\* Storing a group gives it to one holder.
LEMMA StoresHold ==
  ASSUME ShapeInv, NEW t, NEW s, NEW x, Stores(t, s, x)
  PROVE  \E y : \A h, g : TaskHolds(tasks', h, g) => TaskHolds(tasks, h, g) \/ (h = y /\ g = x)
<1>1. CASE tasks' = tasks
  BY Zenon, <1>1
<1>2. CASE \E l : (t \in DOMAIN tasks => TaskStep(tasks[t], l, s, x)) /\ tasks' = [tasks EXCEPT ![t] = l]
  <2>1. PICK l : (t \in DOMAIN tasks => TaskStep(tasks[t], l, s, x)) /\ tasks' = [tasks EXCEPT ![t] = l]
    BY Zenon, <1>2
  <2>2. IsFunction(tasks)
    BY Zenon DEF ShapeInv, TasksInv
  <2>3. /\ DOMAIN tasks' = DOMAIN tasks
        /\ t \in DOMAIN tasks => tasks'[t] = l
        /\ \A u \in DOMAIN tasks : u # t => tasks'[u] = tasks[u]
    BY Zenon, <2>1, <2>2, ExceptFacts
  <2>4. ASSUME NEW h, NEW g, NEW u \in DOMAIN tasks', u # t,
               \/ h = <<"task", u>> /\ g = tasks'[u].group
               \/ \E r \in DOMAIN tasks'[u].groups : h = <<"report", u, r>> /\ g = tasks'[u].groups[r]
        PROVE  TaskHolds(tasks, h, g)
    <3>1. u \in DOMAIN tasks /\ tasks'[u] = tasks[u]
      BY Zenon, <2>3, <2>4
    <3> QED BY Zenon, <2>4, <3>1 DEF TaskHolds
  <2>5. CASE t \notin DOMAIN tasks
    <3>1. ASSUME NEW h, NEW g, TaskHolds(tasks', h, g) PROVE TaskHolds(tasks, h, g)
      <4>1. PICK u \in DOMAIN tasks' :
              \/ h = <<"task", u>> /\ g = tasks'[u].group
              \/ \E r \in DOMAIN tasks'[u].groups : h = <<"report", u, r>> /\ g = tasks'[u].groups[r]
        BY Zenon, <3>1 DEF TaskHolds
      <4>2. u # t
        BY Zenon, <2>3, <2>5
      <4> QED BY Zenon, <2>4, <4>1, <4>2
    <3> QED BY Zenon, <3>1
  <2>6. CASE t \in DOMAIN tasks
    <3>1. PICK k : k = tasks[t]
      BY Zenon
    <3>2. tasks'[t] = l
      BY Zenon, <2>3, <2>6
    <3>3. \/ l.group = k.group /\ l.groups = k.groups
          \/ l.group = x /\ l.groups = k.groups
          \/ l.group = k.group /\ l.groups = Put(k.groups, s, x)
      BY Zenon, <2>1, <2>6, <3>1 DEF TaskStep
    <3>4. PICK y : y = IF l.groups = k.groups THEN <<"task", t>> ELSE <<"report", t, s>>
      BY Zenon
    <3>5. ASSUME NEW h, NEW g, h = <<"task", t>>, g = l.group
          PROVE  TaskHolds(tasks, h, g) \/ (h = y /\ g = x)
      <4>1. CASE g = k.group
        BY Zenon, <2>6, <3>1, <3>5, <4>1 DEF TaskHolds
      <4>2. CASE g = x /\ l.groups = k.groups
        BY Zenon, <3>4, <3>5, <4>2
      <4> QED BY Zenon, <3>3, <3>5, <4>1, <4>2
    <3>6. ASSUME NEW h, NEW g, NEW r \in DOMAIN l.groups, h = <<"report", t, r>>, g = l.groups[r]
          PROVE  TaskHolds(tasks, h, g) \/ (h = y /\ g = x)
      <4>1. CASE r \in DOMAIN k.groups /\ g = k.groups[r]
        BY Zenon, <2>6, <3>1, <3>6, <4>1 DEF TaskHolds
      <4>2. CASE l.groups = k.groups
        BY Zenon, <3>6, <4>1, <4>2
      <4>3. CASE l.groups # k.groups
        <5>1. l.groups = Put(k.groups, s, x)
          BY Zenon, <3>3, <4>3
        <5>2. PICK m : m = k.groups
          BY Zenon
        <5>3. DOMAIN Put(m, s, x) = DOMAIN m \cup {s} /\ Put(m, s, x)[s] = x
              /\ \A z \in DOMAIN m : z # s => Put(m, s, x)[z] = m[z]
          BY Zenon DEF Put
        <5>4. CASE r = s
          BY Zenon, <3>4, <3>6, <4>3, <5>1, <5>2, <5>3, <5>4
        <5>5. CASE r # s
          BY Zenon, <3>6, <4>1, <5>1, <5>2, <5>3, <5>5
        <5> QED BY Zenon, <5>4, <5>5
      <4> QED BY Zenon, <4>2, <4>3
    <3>7. ASSUME NEW h, NEW g, TaskHolds(tasks', h, g)
          PROVE  TaskHolds(tasks, h, g) \/ (h = y /\ g = x)
      <4>1. PICK u \in DOMAIN tasks' :
              \/ h = <<"task", u>> /\ g = tasks'[u].group
              \/ \E r \in DOMAIN tasks'[u].groups : h = <<"report", u, r>> /\ g = tasks'[u].groups[r]
        BY Zenon, <3>7 DEF TaskHolds
      <4>2. CASE u = t
        BY Zenon, <3>2, <3>5, <3>6, <4>1, <4>2
      <4>3. CASE u # t
        BY Zenon, <2>4, <4>1, <4>3
      <4> QED BY Zenon, <4>2, <4>3
    <3> QED BY Zenon, <3>7
  <2> QED BY Zenon, <2>5, <2>6
<1> QED BY Zenon, <1>1, <1>2 DEF Stores

\* A new task holds nothing.
LEMMA MakesHold ==
  ASSUME ShapeInv, NEW c \in Caller, NEW p, MakesTask(c, p), NEW h, NEW g, TaskHolds(tasks', h, g)
  PROVE  TaskHolds(tasks, h, g) \/ Empty(g)
<1>1. CASE tasks' = tasks
  BY Zenon, <1>1
<1>2. CASE \E k : FreshTask(k) /\ tasks' = Put(tasks, c, k)
  <2>1. PICK k : FreshTask(k) /\ tasks' = Put(tasks, c, k)
    BY Zenon, <1>2
  <2>2. /\ DOMAIN tasks' = DOMAIN tasks \cup {c} /\ tasks'[c] = k
        /\ \A t \in DOMAIN tasks : t # c => tasks'[t] = tasks[t]
    BY Zenon, <2>1 DEF Put
  <2>3. k.group = NoGroup /\ DOMAIN k.groups = {}
    BY Zenon, <2>1 DEF FreshTask
  <2>4. PICK u \in DOMAIN tasks' :
          \/ h = <<"task", u>> /\ g = tasks'[u].group
          \/ \E r \in DOMAIN tasks'[u].groups : h = <<"report", u, r>> /\ g = tasks'[u].groups[r]
    BY Zenon DEF TaskHolds
  <2>5. CASE u = c
    <3>1. g = NoGroup
      BY Zenon, <2>2, <2>3, <2>4, <2>5
    <3> QED BY Zenon, <3>1, GroupFacts DEF Empty
  <2>6. CASE u # c
    <3>1. u \in DOMAIN tasks /\ tasks'[u] = tasks[u]
      BY Zenon, <2>2, <2>6
    <3> QED BY Zenon, <2>4, <3>1 DEF TaskHolds
  <2> QED BY Zenon, <2>5, <2>6
<1> QED BY Zenon, <1>1, <1>2 DEF MakesTask

\* Session s has the group x now; the others are as they were.
SessionGets(s, x) ==
  /\ session'[s].group = x /\ DOMAIN session' \subseteq DOMAIN session \cup {s}
  /\ \A r \in DOMAIN session : r # s => session'[r] = session[r]

\* A session's step changes what that session holds.
LEMMA SessionsHold ==
  ASSUME NEW s, NEW x, SessionGets(s, x), NEW h, NEW g, SessionHolds(session', h, g)
  PROVE  (h # <<"session", s>> /\ SessionHolds(session, h, g)) \/ (h = <<"session", s>> /\ g = x)
<1>1. PICK r \in DOMAIN session' : h = <<"session", r>> /\ g = session'[r].group
  BY Zenon DEF SessionHolds
<1>2. CASE r = s
  BY Zenon, <1>1, <1>2 DEF SessionGets
<1>3. CASE r # s
  <2>1. r \in DOMAIN session /\ session'[r] = session[r]
    BY Zenon, <1>3 DEF SessionGets
  <2>2. h # <<"session", s>>
    BY Zenon, <1>1, <1>3, HolderKinds
  <2> QED BY Zenon, <1>1, <2>1, <2>2 DEF SessionHolds
<1> QED BY Zenon, <1>2, <1>3

(***************************************************************************)
(* The queue.                                                              *)
(***************************************************************************)
\* A part of a sequence.
LEMMA PartFacts ==
  ASSUME NEW X, NEW s \in Seq(X), NEW a \in Nat, NEW b \in 0..Len(s), a <= b
  PROVE  /\ SubSeq(s, a + 1, b) \in Seq(X) /\ DOMAIN SubSeq(s, a + 1, b) = 1..(b - a)
         /\ \A i \in 1..(b - a) : SubSeq(s, a + 1, b)[i] = s[a + i]
OBVIOUS

\* The values of a function, and what it is for them to be different.
LEMMA RangeFacts ==
  ASSUME NEW f, NEW D, DOMAIN f = D
  PROVE  /\ \A x : x \in Range(f) <=> \E i \in D : x = f[i]
         /\ IsInjective(f) <=> \A i, j \in D : f[i] = f[j] => i = j
BY Zenon DEF Range, IsInjective

\* The records captured so far are different ones.
LEMMA NextRecord ==
  ASSUME captured \in 0..Len(Record), captured < Len(Record)
  PROVE  /\ captured + 1 \in 0..Len(Record) /\ Record[captured + 1] \in CompletionRecord
         /\ 1..(captured + 1) = (1..captured) \cup {captured + 1}
         /\ Record[captured + 1] \notin {Record[i] : i \in 1..captured}
<1>1. PICK n, r : n = captured /\ r = Record
  BY Zenon
<1>2. r \in Seq(CompletionRecord) /\ \A i, j \in DOMAIN r : r[i] = r[j] => i = j
  BY Zenon, <1>1, RecordAssumption
<1>3. n \in 0..Len(r) /\ n < Len(r)
  BY Zenon, <1>1
<1>4. /\ n + 1 \in 0..Len(r) /\ r[n + 1] \in CompletionRecord /\ n + 1 \in DOMAIN r
      /\ 1..(n + 1) = (1..n) \cup {n + 1}
      /\ \A i \in 1..n : i \in DOMAIN r /\ i # n + 1
  BY SMT, <1>2, <1>3
<1>5. r[n + 1] \notin {r[i] : i \in 1..n}
  BY Zenon, <1>2, <1>4
<1> QED BY Zenon, <1>1, <1>4, <1>5

\* A captured record goes to the end of the queue, or is dropped.
LEMMA CaptureQueue ==
  ASSUME NEW d, Queue(d), Capture
  PROVE  Queue(d)'
<1>1. PICK n, q, S, x : /\ n = captured /\ q = capture /\ S = {Record[i] : i \in 1..n}
                        /\ x = Record[n + 1]
  BY Zenon
<1>2. /\ n \in 0..Len(Record) /\ q \in Seq(CompletionRecord) /\ IsInjective(q)
      /\ Range(q) \cap d = {} /\ Range(q) \cup d \subseteq S
  BY Zenon, <1>1 DEF Queue
<1>3. n < Len(Record) /\ captured' = n + 1 /\ (capture' = Append(q, x) \/ capture' = q)
  BY Zenon, <1>1 DEF Capture
<1>4. /\ n + 1 \in 0..Len(Record) /\ x \in CompletionRecord
      /\ 1..(n + 1) = (1..n) \cup {n + 1} /\ x \notin S
  BY Zenon, <1>1, <1>2, <1>3, NextRecord
<1>5. {Record[i] : i \in 1..(n + 1)} = S \cup {x}
  BY Zenon, <1>1, <1>4
<1>6. PICK r : r = Append(q, x)
  BY Zenon
<1>7. r \in Seq(CompletionRecord) /\ IsInjective(r) /\ Range(r) = Range(q) \cup {x}
  <2>1. PICK k : k = Len(q)
    BY Zenon
  <2>2. /\ r \in Seq(CompletionRecord) /\ k \in Nat /\ DOMAIN q = 1..k /\ DOMAIN r = 1..(k + 1)
        /\ \A i \in 1..k : r[i] = q[i]
        /\ r[k + 1] = x
    BY SMT, <1>2, <1>4, <1>6, <2>1
  <2>3. 1..(k + 1) = (1..k) \cup {k + 1} /\ k + 1 \notin 1..k
    BY SMT, <2>2
  <2>4. /\ \A y : y \in Range(q) <=> \E i \in 1..k : y = q[i]
        /\ IsInjective(q) <=> \A i, j \in 1..k : q[i] = q[j] => i = j
    BY Zenon, <2>2, RangeFacts
  <2>5. /\ \A y : y \in Range(r) <=> \E i \in 1..(k + 1) : y = r[i]
        /\ IsInjective(r) <=> \A i, j \in 1..(k + 1) : r[i] = r[j] => i = j
    BY Zenon, <2>2, RangeFacts
  <2>6. \A i \in 1..k : q[i] # x
    BY Zenon, <1>2, <1>4, <2>4
  <2>7. ASSUME NEW i \in 1..(k + 1), NEW j \in 1..(k + 1), r[i] = r[j] PROVE i = j
    <3>1. CASE i \in 1..k /\ j \in 1..k
      BY Zenon, <1>2, <2>2, <2>4, <2>7, <3>1
    <3>2. CASE i \in 1..k /\ j = k + 1
      BY Zenon, <2>2, <2>6, <2>7, <3>2
    <3>3. CASE i = k + 1 /\ j \in 1..k
      BY Zenon, <2>2, <2>6, <2>7, <3>3
    <3> QED BY Zenon, <2>3, <3>1, <3>2, <3>3
  <2>8. ASSUME NEW y PROVE y \in Range(r) <=> y \in Range(q) \cup {x}
    <3>1. ASSUME y \in Range(q) PROVE y \in Range(r)
      <4>1. PICK i \in 1..k : y = q[i]
        BY Zenon, <2>4, <3>1
      <4> QED BY Zenon, <2>2, <2>3, <2>5, <4>1
    <3>2. x \in Range(r)
      BY Zenon, <2>2, <2>3, <2>5
    <3>3. ASSUME y \in Range(r) PROVE y \in Range(q) \cup {x}
      <4>1. PICK i \in 1..(k + 1) : y = r[i]
        BY Zenon, <2>5, <3>3
      <4> QED BY Zenon, <2>2, <2>3, <2>4, <4>1
    <3> QED BY Zenon, <3>1, <3>2, <3>3
  <2> QED BY Zenon, <2>2, <2>5, <2>7, <2>8
<1>8. x \notin d
  BY Zenon, <1>2, <1>4
<1>9. CASE capture' = r
  <2>1. Range(r) \cap d = {} /\ Range(r) \cup d \subseteq S \cup {x}
    BY Zenon, <1>2, <1>7, <1>8
  <2> QED BY Zenon, <1>3, <1>4, <1>5, <1>7, <1>9, <2>1 DEF Queue
<1>10. CASE capture' = q
  <2>1. Range(q) \cup d \subseteq S \cup {x}
    BY Zenon, <1>2
  <2> QED BY Zenon, <1>2, <1>3, <1>4, <1>5, <1>10, <2>1 DEF Queue
<1> QED BY Zenon, <1>3, <1>6, <1>9, <1>10

\* A drain takes distinct records that nobody has taken before.
LEMMA DrainQueue ==
  ASSUME NEW d, Queue(d), DrainCapture
  PROVE  \E e : /\ Queue(e)' /\ d \subseteq e
                /\ Drained \in Seq(CompletionRecord) /\ IsInjective(Drained)
                /\ Range(Drained) \subseteq e \ d
<1>1. PICK S, s, k, m, q, r : /\ S = {Record[i] : i \in 1..captured} /\ s = capture /\ k = Take
                              /\ m = Len(capture) /\ q = Drained /\ r = capture'
  BY Zenon
<1>2. /\ captured \in 0..Len(Record) /\ s \in Seq(CompletionRecord) /\ IsInjective(s)
      /\ Range(s) \cap d = {} /\ Range(s) \cup d \subseteq S
  BY Zenon, <1>1 DEF Queue
<1>3. /\ k = (IF m < DrainLimit THEN m ELSE DrainLimit)
      /\ q = SubSeq(s, 1, k) /\ r = SubSeq(s, k + 1, m) /\ captured' = captured
  BY Zenon, <1>1 DEF Take, Drained, DrainCapture
<1>4. m \in Nat /\ k \in Nat /\ k <= m /\ DOMAIN s = 1..m
  <2>1. DrainLimit \in Nat
    BY Zenon, LimitsAssumption
  <2>2. m = Len(s)
    BY Zenon, <1>1
  <2> QED BY SMT, <1>2, <1>3, <2>1, <2>2
<1>5. /\ q \in Seq(CompletionRecord) /\ DOMAIN q = 1..k
      /\ \A i \in 1..k : q[i] = s[i]
  <2>1. m = Len(s)
    BY Zenon, <1>1
  <2>2. 0 \in Nat /\ 0 <= k /\ 0 + 1 = 1 /\ k - 0 = k /\ k \in 0..Len(s) /\ \A i \in 1..k : 0 + i = i
    BY SMT, <1>4, <2>1
  <2>3. PICK t : t = SubSeq(s, 0 + 1, k)
    BY Zenon
  <2>4. t \in Seq(CompletionRecord) /\ DOMAIN t = 1..(k - 0) /\ \A i \in 1..(k - 0) : t[i] = s[0 + i]
    <3>1. s \in Seq(CompletionRecord) /\ 0 \in Nat /\ k \in 0..Len(s) /\ 0 <= k
      BY Zenon, <1>2, <2>2
    <3> QED BY SMT, <2>3, <3>1, PartFacts
  <2> QED BY Zenon, <1>3, <2>2, <2>3, <2>4
<1>6. /\ r \in Seq(CompletionRecord) /\ DOMAIN r = 1..(m - k)
      /\ \A i \in 1..(m - k) : r[i] = s[k + i]
  <2>1. m = Len(s)
    BY Zenon, <1>1
  <2>2. m \in 0..Len(s)
    BY SMT, <1>4, <2>1
  <2>3. PICK t : t = SubSeq(s, k + 1, m)
    BY Zenon
  <2>4. t \in Seq(CompletionRecord) /\ DOMAIN t = 1..(m - k) /\ \A i \in 1..(m - k) : t[i] = s[k + i]
    <3>1. s \in Seq(CompletionRecord) /\ k \in Nat /\ m \in 0..Len(s) /\ k <= m
      BY Zenon, <1>2, <1>4, <2>2
    <3> QED BY SMT, <2>3, <3>1, PartFacts
  <2> QED BY Zenon, <1>3, <2>3, <2>4
<1>7. /\ \A i \in 1..k : i \in 1..m
      /\ \A i \in 1..(m - k) : k + i \in 1..m /\ \A j \in 1..k : j # k + i
      /\ \A i, j \in 1..(m - k) : k + i = k + j => i = j
  BY SMT, <1>4
<1>8. /\ \A y : y \in Range(s) <=> \E i \in 1..m : y = s[i]
      /\ \A i, j \in 1..m : s[i] = s[j] => i = j
  <2>1. /\ \A y : y \in Range(s) <=> \E i \in 1..m : y = s[i]
        /\ IsInjective(s) <=> \A i, j \in 1..m : s[i] = s[j] => i = j
    BY Zenon, <1>4, RangeFacts
  <2> QED BY Zenon, <1>2, <2>1
<1>9. IsInjective(q) /\ (\A y : y \in Range(q) <=> \E i \in 1..k : y = q[i])
  <2>1. \A i, j \in 1..k : q[i] = q[j] => i = j
    BY Zenon, <1>5, <1>7, <1>8
  <2> QED BY Zenon, <1>5, <2>1, RangeFacts
<1>10. IsInjective(r) /\ (\A y : y \in Range(r) <=> \E i \in 1..(m - k) : y = r[i])
  <2>1. ASSUME NEW i \in 1..(m - k), NEW j \in 1..(m - k), r[i] = r[j] PROVE i = j
    <3>1. s[k + i] = s[k + j] /\ k + i \in 1..m /\ k + j \in 1..m
      BY Zenon, <1>6, <1>7, <2>1
    <3> QED BY Zenon, <1>7, <1>8, <3>1
  <2> QED BY Zenon, <1>6, <2>1, RangeFacts
<1>11. Range(q) \subseteq Range(s) /\ Range(r) \subseteq Range(s) /\ Range(r) \cap Range(q) = {}
  <2>1. ASSUME NEW y \in Range(q) PROVE \E i \in 1..k : y = s[i]
    BY Zenon, <1>5, <1>9, <2>1
  <2>2. ASSUME NEW y \in Range(r) PROVE \E i \in 1..(m - k) : y = s[k + i]
    BY Zenon, <1>6, <1>10, <2>2
  <2>3. Range(q) \subseteq Range(s)
    BY Zenon, <1>7, <1>8, <2>1
  <2>4. Range(r) \subseteq Range(s)
    BY Zenon, <1>7, <1>8, <2>2
  <2>5. ASSUME NEW y \in Range(q), y \in Range(r) PROVE FALSE
    <3>1. PICK i \in 1..k : y = s[i]
      BY Zenon, <2>1
    <3>2. PICK j \in 1..(m - k) : y = s[k + j]
      BY Zenon, <2>2, <2>5
    <3>3. i \in 1..m /\ k + j \in 1..m /\ i # k + j
      BY Zenon, <1>7
    <3> QED BY Zenon, <1>8, <3>1, <3>2, <3>3
  <2> QED BY Zenon, <2>3, <2>4, <2>5
<1>12. PICK e : e = d \cup Range(q)
  BY Zenon
<1>13. /\ Range(r) \cap e = {} /\ Range(r) \cup e \subseteq S /\ d \subseteq e
       /\ Range(q) \subseteq e \ d
  BY Zenon, <1>2, <1>11, <1>12
<1>14. Queue(e)'
  BY Zenon, <1>1, <1>2, <1>3, <1>6, <1>10, <1>13 DEF Queue
<1> QED BY Zenon, <1>1, <1>5, <1>9, <1>13, <1>14

(***************************************************************************)
(* Every step keeps the records with their holders.                        *)
(***************************************************************************)
\* g is empty, or what f was, or trains faithfully on records taken meanwhile.
Becomes(g, f, d, e) ==
  Empty(g) \/ Same(g, f) \/ (Faithful(g.chains, g.records) /\ g.records \subseteq e \ d)

\* A caller changes its group, and others at most lose theirs.
LEMMA CallerHolds ==
  ASSUME NEW d, NEW e, Owned(call, session, tasks, d), d \subseteq e,
         NEW c \in Caller, NEW p, NEW n, NEW g, Moves(c, p, n, g), Becomes(g, call[c].group, d, e),
         \A h, f : SessionHolds(session', h, f) => SessionHolds(session, h, f) \/ Empty(f),
         \A h, f : TaskHolds(tasks', h, f) => TaskHolds(tasks, h, f) \/ Empty(f)
  PROVE  Owned(call', session', tasks', e)
<1>1. PICK y : y = <<"call", c>>
  BY Zenon
<1>2. y[1] = "call" /\ "call" # "session" /\ "call" \notin {"task", "report"}
  BY <1>1
<1>3. CallHolds(call, y, call[c].group)
  BY Zenon, <1>1 DEF CallHolds
<1>4. \A f : Same(f, f)
  BY Zenon DEF Same
<1>5. ASSUME NEW h, NEW f, Holds(call', session', tasks', h, f)
      PROVE  Passed(call, session, tasks, y, y, e \ d, h, f)
  <2>1. CASE CallHolds(call', h, f)
    <3>1. (h # y /\ CallHolds(call, h, f)) \/ (h = y /\ f = g)
      BY Zenon, <1>1, <2>1, CallsHold
    <3>2. CASE h # y /\ CallHolds(call, h, f)
      BY Zenon, <1>4, <3>2 DEF Passed, Holds
    <3>3. CASE h = y /\ f = g
      BY Zenon, <1>3, <3>3 DEF Passed, Holds, Becomes
    <3> QED BY Zenon, <3>1, <3>2, <3>3
  <2>2. CASE SessionHolds(session', h, f)
    <3>1. SessionHolds(session, h, f) \/ Empty(f)
      BY Zenon, <2>2
    <3>2. ASSUME SessionHolds(session, h, f) PROVE h # y
      <4>1. h[1] = "session"
        BY Zenon, <3>2, HolderKinds
      <4> QED BY Zenon, <1>2, <4>1
    <3> QED BY Zenon, <1>4, <3>1, <3>2 DEF Passed, Holds
  <2>3. CASE TaskHolds(tasks', h, f)
    <3>1. TaskHolds(tasks, h, f) \/ Empty(f)
      BY Zenon, <2>3
    <3>2. ASSUME TaskHolds(tasks, h, f) PROVE h # y
      <4>1. h[1] \in {"task", "report"}
        BY Zenon, <3>2, HolderKinds
      <4> QED BY Zenon, <1>2, <4>1
    <3> QED BY Zenon, <1>4, <3>1, <3>2 DEF Passed, Holds
  <2> QED BY Zenon, <1>5, <2>1, <2>2, <2>3 DEF Holds
<1> QED BY Zenon, <1>5, OwnedStep

\* A caller gives up its group, which a task may keep.
LEMMA GivesHolds ==
  ASSUME ShapeInv, NEW d, Owned(call, session, tasks, d), NEW c \in Caller,
         GivesGroup(c), session' = session
  PROVE  Owned(call', session', tasks', d)
<1>1. PICK p, t, s : Moves(c, p, call[c].i, NoGroup) /\ Stores(t, s, call[c].group)
  BY Zenon DEF GivesGroup
<1>2. PICK x, g : x = <<"call", c>> /\ g = call[c].group
  BY Zenon
<1>3. x[1] = "call" /\ "call" # "session" /\ "call" \notin {"task", "report"}
  BY <1>2
<1>4. PICK y : \A h, f : TaskHolds(tasks', h, f) => TaskHolds(tasks, h, f) \/ (h = y /\ f = g)
  <2>1. Stores(t, s, g)
    BY Zenon, <1>1, <1>2
  <2> QED BY Zenon, <2>1, StoresHold
<1>5. CallHolds(call, x, g)
  BY Zenon, <1>2 DEF CallHolds
<1>6. (\A f : Same(f, f)) /\ Empty(NoGroup)
  BY Zenon, GroupFacts DEF Same, Empty
<1>7. ASSUME NEW h, NEW f, Holds(call', session', tasks', h, f)
      PROVE  Passed(call, session, tasks, x, y, d \ d, h, f)
  <2>1. CASE CallHolds(call', h, f)
    <3>1. (h # x /\ CallHolds(call, h, f)) \/ (h = x /\ f = NoGroup)
      <4>1. (h # <<"call", c>> /\ CallHolds(call, h, f)) \/ (h = <<"call", c>> /\ f = NoGroup)
        <5>1. PICK n, z : n = call[c].i /\ z = NoGroup
          BY Zenon
        <5>2. Moves(c, p, n, z)
          BY Zenon, <1>1, <5>1
        <5>3. (h # <<"call", c>> /\ CallHolds(call, h, f)) \/ (h = <<"call", c>> /\ f = z)
          BY Zenon, <2>1, <5>2, CallsHold
        <5> QED BY Zenon, <5>1, <5>3
      <4> QED BY Zenon, <1>2, <4>1
    <3> QED BY Zenon, <1>6, <3>1 DEF Passed, Holds
  <2>2. CASE SessionHolds(session', h, f)
    <3>1. SessionHolds(session, h, f)
      BY Zenon, <2>2
    <3>2. h # x
      <4>1. h[1] = "session"
        BY Zenon, <3>1, HolderKinds
      <4> QED BY Zenon, <1>3, <4>1
    <3> QED BY Zenon, <1>6, <3>1, <3>2 DEF Passed, Holds
  <2>3. CASE TaskHolds(tasks', h, f)
    <3>1. TaskHolds(tasks, h, f) \/ (h = y /\ f = g)
      BY Zenon, <1>4, <2>3
    <3>2. ASSUME TaskHolds(tasks, h, f) PROVE h # x
      <4>1. h[1] \in {"task", "report"}
        BY Zenon, <3>2, HolderKinds
      <4> QED BY Zenon, <1>3, <4>1
    <3> QED BY Zenon, <1>5, <1>6, <3>1, <3>2 DEF Passed, Holds
  <2> QED BY Zenon, <1>7, <2>1, <2>2, <2>3 DEF Holds
<1>8. d \subseteq d
  BY Zenon
<1> QED BY Zenon, <1>7, <1>8, OwnedStep

\* A session changes its group.
LEMMA SessionHoldsNow ==
  ASSUME NEW d, NEW e, Owned(call, session, tasks, d), d \subseteq e,
         NEW s \in DOMAIN session, NEW g, SessionSet(s, g), Becomes(g, session[s].group, d, e),
         tasks' = tasks
  PROVE  Owned(call', session', tasks', e)
<1>1. PICK y : y = <<"session", s>>
  BY Zenon
<1>2. y[1] = "session" /\ "call" # "session" /\ "session" \notin {"task", "report"}
  BY <1>1
<1>3. SessionHolds(session, y, session[s].group)
  BY Zenon, <1>1 DEF SessionHolds
<1>4. \A f : Same(f, f)
  BY Zenon DEF Same
<1>5. SessionGets(s, g) /\ call' = call
  BY Zenon DEF SessionSet, SessionGets
<1>6. ASSUME NEW h, NEW f, Holds(call', session', tasks', h, f)
      PROVE  Passed(call, session, tasks, y, y, e \ d, h, f)
  <2>1. CASE SessionHolds(session', h, f)
    <3>1. (h # y /\ SessionHolds(session, h, f)) \/ (h = y /\ f = g)
      <4>1. (h # <<"session", s>> /\ SessionHolds(session, h, f)) \/ (h = <<"session", s>> /\ f = g)
        BY Zenon, <1>5, <2>1, SessionsHold
      <4> QED BY Zenon, <1>1, <4>1
    <3>2. CASE h # y /\ SessionHolds(session, h, f)
      BY Zenon, <1>4, <3>2 DEF Passed, Holds
    <3>3. CASE h = y /\ f = g
      BY Zenon, <1>3, <3>3 DEF Passed, Holds, Becomes
    <3> QED BY Zenon, <3>1, <3>2, <3>3
  <2>2. CASE CallHolds(call', h, f)
    <3>1. CallHolds(call, h, f)
      BY Zenon, <1>5, <2>2
    <3>2. h # y
      <4>1. h[1] = "call"
        BY Zenon, <3>1, HolderKinds
      <4> QED BY Zenon, <1>2, <4>1
    <3> QED BY Zenon, <1>4, <3>1, <3>2 DEF Passed, Holds
  <2>3. CASE TaskHolds(tasks', h, f)
    <3>1. TaskHolds(tasks, h, f)
      BY Zenon, <2>3
    <3>2. h # y
      <4>1. h[1] \in {"task", "report"}
        BY Zenon, <3>1, HolderKinds
      <4> QED BY Zenon, <1>2, <4>1
    <3> QED BY Zenon, <1>4, <3>1, <3>2 DEF Passed, Holds
  <2> QED BY Zenon, <1>6, <2>1, <2>2, <2>3 DEF Holds
<1> QED BY Zenon, <1>6, OwnedStep

\* A session gives up its group, which a task may keep.
LEMMA OutcomeHolds ==
  ASSUME ShapeInv, NEW d, Owned(call, session, tasks, d), NEW s \in DOMAIN session,
         SessionSet(s, NoGroup), NEW t, Stores(t, s, session[s].group)
  PROVE  Owned(call', session', tasks', d)
<1>1. SessionGets(s, NoGroup) /\ call' = call
  BY Zenon DEF SessionSet, SessionGets
<1>2. PICK x, g : x = <<"session", s>> /\ g = session[s].group
  BY Zenon
<1>3. x[1] = "session" /\ "call" # "session" /\ "session" \notin {"task", "report"}
  BY <1>2
<1>4. PICK y : \A h, f : TaskHolds(tasks', h, f) => TaskHolds(tasks, h, f) \/ (h = y /\ f = g)
  <2>1. Stores(t, s, g)
    BY Zenon, <1>2
  <2> QED BY Zenon, <2>1, StoresHold
<1>5. SessionHolds(session, x, g)
  BY Zenon, <1>2 DEF SessionHolds
<1>6. (\A f : Same(f, f)) /\ Empty(NoGroup)
  BY Zenon, GroupFacts DEF Same, Empty
<1>7. ASSUME NEW h, NEW f, Holds(call', session', tasks', h, f)
      PROVE  Passed(call, session, tasks, x, y, d \ d, h, f)
  <2>1. CASE SessionHolds(session', h, f)
    <3>1. (h # x /\ SessionHolds(session, h, f)) \/ (h = x /\ f = NoGroup)
      <4>1. (h # <<"session", s>> /\ SessionHolds(session, h, f)) \/ (h = <<"session", s>> /\ f = NoGroup)
        <5>1. PICK z : z = NoGroup
          BY Zenon
        <5>2. SessionGets(s, z)
          BY Zenon, <1>1, <5>1
        <5>3. (h # <<"session", s>> /\ SessionHolds(session, h, f)) \/ (h = <<"session", s>> /\ f = z)
          BY Zenon, <2>1, <5>2, SessionsHold
        <5> QED BY Zenon, <5>1, <5>3
      <4> QED BY Zenon, <1>2, <4>1
    <3> QED BY Zenon, <1>6, <3>1 DEF Passed, Holds
  <2>2. CASE CallHolds(call', h, f)
    <3>1. CallHolds(call, h, f)
      BY Zenon, <1>1, <2>2
    <3>2. h # x
      <4>1. h[1] = "call"
        BY Zenon, <3>1, HolderKinds
      <4> QED BY Zenon, <1>3, <4>1
    <3> QED BY Zenon, <1>6, <3>1, <3>2 DEF Passed, Holds
  <2>3. CASE TaskHolds(tasks', h, f)
    <3>1. TaskHolds(tasks, h, f) \/ (h = y /\ f = g)
      BY Zenon, <1>4, <2>3
    <3>2. ASSUME TaskHolds(tasks, h, f) PROVE h # x
      <4>1. h[1] \in {"task", "report"}
        BY Zenon, <3>2, HolderKinds
      <4> QED BY Zenon, <1>3, <4>1
    <3> QED BY Zenon, <1>5, <1>6, <3>1, <3>2 DEF Passed, Holds
  <2> QED BY Zenon, <1>7, <2>1, <2>2, <2>3 DEF Holds
<1>8. d \subseteq d
  BY Zenon
<1> QED BY Zenon, <1>7, <1>8, OwnedStep

\* What was taken stays taken, whether or not a drain empties the queue.
LEMMA QueueMoves ==
  ASSUME NEW d, Queue(d), DrainCapture \/ UNCHANGED captureVars
  PROVE  \E e : Queue(e)' /\ d \subseteq e
<1>1. CASE DrainCapture
  BY Zenon, <1>1, DrainQueue
<1>2. CASE UNCHANGED captureVars
  <2>1. Queue(d)'
    BY Zenon, <1>2 DEF Queue, captureVars
  <2> QED BY Zenon, <2>1
<1> QED BY Zenon, <1>1, <1>2

\* The group of a drain trains faithfully on records nobody has taken before.
LEMMA DrainedGroup ==
  ASSUME NEW d, Queue(d), DrainCapture, NEW strategy, NEW g, g = BuildFromDrainWithConfig(strategy)
  PROVE  \E e : /\ Queue(e)' /\ d \subseteq e /\ Faithful(g.chains, g.records)
                /\ g.records \subseteq e \ d
<1>1. PICK e : /\ Queue(e)' /\ d \subseteq e
               /\ Drained \in Seq(CompletionRecord) /\ IsInjective(Drained)
               /\ Range(Drained) \subseteq e \ d
  BY Zenon, DrainQueue
<1>2. PICK q, b : q = Drained /\ b = workload.builder
  BY Zenon
<1>3. q \in Seq(CompletionRecord) /\ IsInjective(q)
  BY Zenon, <1>1, <1>2
<1>4. Faithful(assembleTrajectoryGroup(q, b, strategy), Range(q))
  BY Zenon, <1>3, BuilderFaithful
<1>5. g.chains = assembleTrajectoryGroup(q, b, strategy) /\ g.records = Range(q)
  BY Zenon, <1>2, DrainGroup
<1> QED BY Zenon, <1>1, <1>2, <1>4, <1>5

\* A caller keeps its group, and a task may be made or marked.
LEMMA KeepsGroup ==
  ASSUME NEW d, Queue(d), Owned(call, session, tasks, d),
         DrainCapture \/ UNCHANGED captureVars,
         NEW c \in Caller, NEW p, NEW n, Moves(c, p, n, call[c].group),
         \A h, f : SessionHolds(session', h, f) => SessionHolds(session, h, f) \/ Empty(f),
         \A h, f : TaskHolds(tasks', h, f) => TaskHolds(tasks, h, f) \/ Empty(f)
  PROVE  HoldInv'
<1>1. PICK e : Queue(e)' /\ d \subseteq e
  BY Zenon, QueueMoves
<1>2. PICK g : g = call[c].group
  BY Zenon
<1>3. Becomes(g, call[c].group, d, e) /\ Moves(c, p, n, g)
  BY Zenon, <1>2 DEF Becomes, Same
<1>4. Owned(call', session', tasks', e)
  BY Zenon, <1>1, <1>3, CallerHolds
<1> QED BY Zenon, <1>1, <1>4 DEF HoldInv

\* A caller takes the group of a drain.
LEMMA TakesHold ==
  ASSUME NEW d, Queue(d), Owned(call, session, tasks, d),
         NEW c \in Caller, TakesDrain(c), session' = session
  PROVE  HoldInv'
<1>1. PICK p, n, strategy : /\ Moves(c, p, n, BuildFromDrainWithConfig(strategy))
                            /\ DrainCapture /\ tasks' = tasks
  BY Zenon DEF TakesDrain
<1>2. PICK g : g = BuildFromDrainWithConfig(strategy)
  BY Zenon
<1>3. PICK e : /\ Queue(e)' /\ d \subseteq e /\ Faithful(g.chains, g.records)
               /\ g.records \subseteq e \ d
  BY Zenon, <1>1, <1>2, DrainedGroup
<1>4. Becomes(g, call[c].group, d, e) /\ Moves(c, p, n, g)
  BY Zenon, <1>1, <1>2, <1>3 DEF Becomes
<1>5. /\ \A h, f : SessionHolds(session', h, f) => SessionHolds(session, h, f) \/ Empty(f)
      /\ \A h, f : TaskHolds(tasks', h, f) => TaskHolds(tasks, h, f) \/ Empty(f)
  BY Zenon, <1>1
<1>6. Owned(call', session', tasks', e)
  BY Zenon, <1>3, <1>4, <1>5, CallerHolds
<1> QED BY Zenon, <1>3, <1>6 DEF HoldInv

\* The callers' steps.
LEMMA CallerHoldInv ==
  ASSUME ShapeInv, HoldInv, NEW c \in Caller, CallerNext(c)
  PROVE  HoldInv'
<1>1. PICK d : Queue(d) /\ Owned(call, session, tasks, d)
  BY Zenon DEF HoldInv
<1>2. ASSUME session' = session
      PROVE  \A h, f : SessionHolds(session', h, f) => SessionHolds(session, h, f) \/ Empty(f)
  BY Zenon, <1>2
<1>3. ASSUME tasks' = tasks
      PROVE  \A h, f : TaskHolds(tasks', h, f) => TaskHolds(tasks, h, f) \/ Empty(f)
  BY Zenon, <1>3
<1>4. CASE SubmitTask(c) \/ GenerateOfflineTask(c)
  <2>1. PICK p : MakesTask(c, p)
    BY Zenon, <1>4, SubmitFacts, OfflineFacts
  <2>2. UNCHANGED captureVars
    BY Zenon, <1>4 DEF SubmitTask, GenerateOfflineTask
  <2>3. session' = session /\ Moves(c, p, call[c].i, call[c].group)
    BY Zenon, <2>1 DEF MakesTask
  <2>4. \A h, f : TaskHolds(tasks', h, f) => TaskHolds(tasks, h, f) \/ Empty(f)
    BY Zenon, <2>1, MakesHold
  <2>5. PICK n : n = call[c].i
    BY Zenon
  <2>6. Moves(c, p, n, call[c].group)
    BY Zenon, <2>3, <2>5
  <2> QED BY Zenon, <1>1, <1>2, <2>2, <2>3, <2>4, <2>6, KeepsGroup
<1>5. CASE startGatewaySessions(c)
  <2>1. UNCHANGED captureVars
    BY Zenon, <1>5 DEF startGatewaySessions
  <2>2. tasks' = tasks
    BY Zenon, <1>5, StartFacts
  <2>3. PICK p, n, s : Moves(c, p, n, call[c].group)
                       /\ DOMAIN session' = DOMAIN session \cup {s} /\ session'[s].group = NoGroup
                       /\ \A r \in DOMAIN session : r # s => session'[r] = session[r]
    BY Zenon, <1>5, StartFacts
  <2>4. PICK z : z = NoGroup
    BY Zenon
  <2>5. SessionGets(s, z) /\ Empty(z)
    BY Zenon, <2>3, <2>4, GroupFacts DEF SessionGets, Empty
  <2>6. \A h, f : SessionHolds(session', h, f) => SessionHolds(session, h, f) \/ Empty(f)
    BY Zenon, <2>5, SessionsHold
  <2> QED BY Zenon, <1>1, <1>3, <2>1, <2>2, <2>3, <2>6, KeepsGroup
<1>6. ASSUME session' = session, TakesDrain(c) PROVE HoldInv'
  BY Zenon, <1>1, <1>6, TakesHold
<1>7. ASSUME session' = session, DrainsInVain(c) PROVE HoldInv'
  <2>1. PICK p, n, t, s : Moves(c, p, n, call[c].group) /\ DrainFails /\ Stores(t, s, NoGroup)
    BY Zenon, <1>7 DEF DrainsInVain
  <2>2. PICK z : z = NoGroup
    BY Zenon
  <2>3. Stores(t, s, z) /\ Empty(z)
    BY Zenon, <2>1, <2>2, GroupFacts DEF Empty
  <2>4. PICK y : \A h, f : TaskHolds(tasks', h, f) => TaskHolds(tasks, h, f) \/ (h = y /\ f = z)
    BY Zenon, <2>3, StoresHold
  <2>5. \A h, f : TaskHolds(tasks', h, f) => TaskHolds(tasks, h, f) \/ Empty(f)
    BY Zenon, <2>3, <2>4
  <2>6. DrainCapture \/ UNCHANGED captureVars
    BY Zenon, <2>1 DEF DrainFails
  <2> QED BY Zenon, <1>1, <1>2, <1>7, <2>1, <2>5, <2>6, KeepsGroup
<1>8. CASE OfflineDrain(c)
  BY Zenon, <1>6, <1>7, <1>8, OfflineDrainFacts
<1>9. ASSUME MovesOn(c), DrainCapture \/ UNCHANGED captureVars PROVE HoldInv'
  <2>1. PICK p : Moves(c, p, call[c].i, call[c].group)
    BY Zenon, <1>9 DEF MovesOn
  <2>2. tasks' = tasks /\ session' = session
    BY Zenon, <1>9 DEF MovesOn, taskVars
  <2>3. PICK n : n = call[c].i
    BY Zenon
  <2>4. Moves(c, p, n, call[c].group)
    BY Zenon, <2>1, <2>3
  <2> QED BY Zenon, <1>1, <1>2, <1>3, <1>9, <2>2, <2>4, KeepsGroup
<1>10. CASE GetTaskDrain(c)
  BY Zenon, <1>6, <1>9, <1>10, GetDrainFacts
<1>11. CASE GetTask(c) \/ RegisterNode(c) \/ RegistryRegister(c) \/ HeartbeatNode(c)
  BY Zenon, <1>9, <1>11, MovesOnFacts
<1>12. CASE EvaluateSession(c)
  <2>1. session' = session /\ tasks' = tasks
    BY Zenon, <1>12, EvaluateFacts
  <2>2. Queue(d)' /\ d \subseteq d
    <3>1. UNCHANGED captureVars
      BY Zenon, <1>12 DEF EvaluateSession
    <3> QED BY Zenon, <1>1, <3>1 DEF Queue, captureVars
  <2>3. PICK p, g, x : /\ Moves(c, p, call[c].i, ApplyEvaluations(g, x)) /\ IsGroup(g)
                       /\ g = call[c].group \/ (g.chains = <<>> /\ g.records = {})
    BY Zenon, <1>12, EvaluateFacts
  <2>4. PICK n, f : n = call[c].i /\ f = ApplyEvaluations(g, x)
    BY Zenon
  <2>5. Moves(c, p, n, f) /\ f.chains = g.chains /\ f.records = g.records
    BY Zenon, <2>3, <2>4, GroupFacts
  <2>6. Becomes(f, call[c].group, d, d)
    BY Zenon, <2>3, <2>5 DEF Becomes, Same, Empty
  <2>7. Owned(call', session', tasks', d)
    BY Zenon, <1>1, <1>2, <1>3, <2>1, <2>2, <2>5, <2>6, CallerHolds
  <2> QED BY Zenon, <2>2, <2>7 DEF HoldInv
<1>13. CASE ApplySession(c) \/ GetTaskStore(c)
  <2>1. session' = session /\ GivesGroup(c)
    BY Zenon, <1>13, ApplyFacts, StoreFacts
  <2>2. Queue(d)'
    <3>1. UNCHANGED captureVars
      BY Zenon, <1>13 DEF ApplySession, GetTaskStore
    <3> QED BY Zenon, <1>1, <3>1 DEF Queue, captureVars
  <2>3. Owned(call', session', tasks', d)
    BY Zenon, <1>1, <2>1, GivesHolds
  <2> QED BY Zenon, <2>2, <2>3 DEF HoldInv
<1> QED BY Zenon, <1>4, <1>5, <1>8, <1>10, <1>11, <1>12, <1>13 DEF CallerNext

\* The sessions' steps.
LEMMA SessionHoldInv ==
  ASSUME ShapeInv, HoldInv, NEW s \in DOMAIN session,
         assignTaskToNode(s) \/ capturePostRun(s) \/ ApplySessionOutcome(s)
  PROVE  HoldInv'
<1>1. PICK d : Queue(d) /\ Owned(call, session, tasks, d)
  BY Zenon DEF HoldInv
<1>2. ASSUME UNCHANGED captureVars PROVE Queue(d)' /\ d \subseteq d
  BY Zenon, <1>1, <1>2 DEF Queue, captureVars
<1>3. CASE assignTaskToNode(s)
  <2>1. SessionSet(s, session[s].group) /\ tasks' = tasks /\ UNCHANGED captureVars
    BY Zenon, <1>3, AssignFacts
  <2>2. PICK g : g = session[s].group
    BY Zenon
  <2>3. SessionSet(s, g) /\ Becomes(g, session[s].group, d, d)
    BY Zenon, <2>1, <2>2 DEF Becomes, Same
  <2>4. Owned(call', session', tasks', d)
    BY Zenon, <1>1, <1>2, <2>1, <2>3, SessionHoldsNow
  <2> QED BY Zenon, <1>2, <2>1, <2>4 DEF HoldInv
<1>4. CASE capturePostRun(s)
  <2>1. tasks' = tasks
    BY Zenon, <1>4, PostRunFacts
  <2>2. ASSUME NEW strategy, SessionSet(s, BuildFromDrainWithConfig(strategy)), DrainCapture
        PROVE  HoldInv'
    <3>1. PICK g : g = BuildFromDrainWithConfig(strategy)
      BY Zenon
    <3>2. PICK e : /\ Queue(e)' /\ d \subseteq e /\ Faithful(g.chains, g.records)
                   /\ g.records \subseteq e \ d
      BY Zenon, <1>1, <2>2, <3>1, DrainedGroup
    <3>3. SessionSet(s, g) /\ Becomes(g, session[s].group, d, e)
      BY Zenon, <2>2, <3>1, <3>2 DEF Becomes
    <3>4. Owned(call', session', tasks', e)
      BY Zenon, <1>1, <2>1, <3>2, <3>3, SessionHoldsNow
    <3> QED BY Zenon, <3>2, <3>4 DEF HoldInv
  <2>3. ASSUME SessionSet(s, Group(<<>>, {})), DrainFails PROVE HoldInv'
    <3>1. PICK g : g = Group(<<>>, {})
      BY Zenon
    <3>2. DrainCapture \/ UNCHANGED captureVars
      BY Zenon, <2>3 DEF DrainFails
    <3>3. PICK e : Queue(e)' /\ d \subseteq e
      BY Zenon, <1>1, <3>2, QueueMoves
    <3>4. SessionSet(s, g) /\ Becomes(g, session[s].group, d, e)
      BY Zenon, <2>3, <3>1, GroupFacts DEF Becomes, Empty
    <3>5. Owned(call', session', tasks', e)
      BY Zenon, <1>1, <2>1, <3>3, <3>4, SessionHoldsNow
    <3> QED BY Zenon, <3>3, <3>5 DEF HoldInv
  <2> QED BY Zenon, <1>4, <2>2, <2>3, PostRunFacts
<1>5. CASE ApplySessionOutcome(s)
  <2>1. SessionSet(s, NoGroup) /\ UNCHANGED captureVars /\ \E t : Stores(t, s, session[s].group)
    BY Zenon, <1>5, ApplyOutcomeFacts
  <2>2. Owned(call', session', tasks', d)
    BY Zenon, <1>1, <2>1, OutcomeHolds
  <2> QED BY Zenon, <1>2, <2>1, <2>2 DEF HoldInv
<1> QED BY Zenon, <1>3, <1>4, <1>5

\* Nobody holds anything at the start.
LEMMA HoldInit == Init => HoldInv
<1> SUFFICES ASSUME Init PROVE HoldInv
  BY Zenon
<1>1. /\ call = [c \in Caller |-> [pc |-> "start", i |-> 0, group |-> NoGroup]]
      /\ DOMAIN tasks = {} /\ DOMAIN session = {} /\ captured = 0 /\ capture = <<>>
  BY Zenon DEF Init
<1>2. Queue({})
  <2>1. Record \in Seq(CompletionRecord)
    BY Zenon, RecordAssumption
  <2>2. 0 \in 0..Len(Record) /\ <<>> \in Seq(CompletionRecord) /\ DOMAIN <<>> = {}
    BY SMT, <2>1
  <2>3. IsInjective(<<>>) /\ Range(<<>>) = {}
    BY Zenon, <2>2 DEF IsInjective, Range
  <2> QED BY Zenon, <1>1, <2>2, <2>3 DEF Queue
<1>3. ASSUME NEW h, NEW g, Holds(call, session, tasks, h, g)
      PROVE  Empty(g)
  <2>1. PICK c \in Caller : g = call[c].group
    BY Zenon, <1>1, <1>3 DEF Holds, CallHolds, SessionHolds, TaskHolds
  <2>2. call[c].group = NoGroup
    BY <1>1
  <2> QED BY Zenon, <2>1, <2>2, GroupFacts DEF Empty
<1>4. Owned(call, session, tasks, {})
  <2>1. ASSUME NEW h, NEW g, Holds(call, session, tasks, h, g)
        PROVE  g.chains = <<>> /\ g.records = {}
    BY Zenon, <1>3, <2>1 DEF Empty
  <2> QED BY Zenon, <2>1, FaithfulNone DEF Owned
<1> QED BY Zenon, <1>2, <1>4 DEF HoldInv

\* Every step keeps it so.
LEMMA HoldInductive == ShapeInv /\ HoldInv /\ [Next]_vars => HoldInv'
<1> SUFFICES ASSUME ShapeInv, HoldInv, [Next]_vars PROVE HoldInv'
  BY Zenon
<1>1. PICK d : Queue(d) /\ Owned(call, session, tasks, d)
  BY Zenon DEF HoldInv
<1>2. ASSUME UNCHANGED <<call, tasks, session>>, Queue(d)' PROVE HoldInv'
  BY Zenon, <1>1, <1>2 DEF HoldInv
<1>3. CASE Capture
  <2>1. UNCHANGED <<call, tasks, session>>
    BY Zenon, <1>3 DEF Capture, taskVars
  <2> QED BY Zenon, <1>1, <1>2, <1>3, <2>1, CaptureQueue
<1>4. CASE Tick \/ DeregisterStaleNodes \/ StartStaleNodeReaper
  <2>1. UNCHANGED <<call, tasks, session, captured, capture>>
    BY Zenon, <1>4 DEF Tick, DeregisterStaleNodes, StartStaleNodeReaper, taskVars, captureVars
  <2> QED BY Zenon, <1>1, <1>2, <2>1 DEF Queue
<1>5. ASSUME NEW c \in Caller, CallerNext(c) PROVE HoldInv'
  BY Zenon, <1>5, CallerHoldInv
<1>6. ASSUME NEW s \in DOMAIN session,
             assignTaskToNode(s) \/ capturePostRun(s) \/ ApplySessionOutcome(s)
      PROVE  HoldInv'
  BY Zenon, <1>6, SessionHoldInv
<1>7. CASE UNCHANGED vars
  <2>1. UNCHANGED <<call, tasks, session, captured, capture>>
    BY Zenon, <1>7 DEF vars, taskVars, captureVars
  <2> QED BY Zenon, <1>1, <1>2, <2>1 DEF Queue
<1> QED BY Zenon, <1>3, <1>4, <1>5, <1>6, <1>7 DEF Next, CallerNext

\* What tasks store is held.
LEMMA HoldFaithful == HoldInv => GroupsFaithful
<1> SUFFICES ASSUME HoldInv PROVE GroupsFaithful
  BY Zenon
<1>1. PICK d : Owned(call, session, tasks, d)
  BY Zenon DEF HoldInv
<1>2. ASSUME NEW p \in Stored PROVE Holds(call, session, tasks, p, StoredGroup(p))
  <2>1. CASE \E t \in DOMAIN tasks : p = <<"task", t>>
    <3>1. PICK t \in DOMAIN tasks : p = <<"task", t>>
      BY Zenon, <2>1
    <3>2. p[1] = "task" /\ p[2] = t
      BY <3>1
    <3>3. StoredGroup(p) = tasks[t].group
      BY Zenon, <3>2 DEF StoredGroup
    <3> QED BY Zenon, <3>1, <3>3 DEF Holds, TaskHolds
  <2>2. CASE \E t \in DOMAIN tasks : \E s \in DOMAIN tasks[t].groups : p = <<"report", t, s>>
    <3>1. PICK t \in DOMAIN tasks : \E s \in DOMAIN tasks[t].groups : p = <<"report", t, s>>
      BY Zenon, <2>2
    <3>2. PICK s \in DOMAIN tasks[t].groups : p = <<"report", t, s>>
      BY Zenon, <3>1
    <3>3. p[1] # "task" /\ p[2] = t /\ p[3] = s
      BY <3>2
    <3>4. StoredGroup(p) = tasks[t].groups[s]
      BY Zenon, <3>3 DEF StoredGroup
    <3> QED BY Zenon, <3>2, <3>4 DEF Holds, TaskHolds
  <2> QED BY Zenon, <2>1, <2>2 DEF Stored
<1> QED BY Zenon, <1>1, <1>2 DEF Owned, GroupsFaithful

\* A stored group trains on each of its records once, after exactly the prompt
\* the model was given, and on nothing else, and no record is in two groups:
\* for any records, builders, workload, callers, nodes and faults
\* (trajectory.go, trajectory_builder.go, client.go: BuildFromDrainWithConfig).
THEOREM GroupsStayFaithful == Spec => []GroupsFaithful
<1>1. Spec => [](ShapeInv /\ HoldInv)
  BY ShapeInit, ShapeInductive, HoldInit, HoldInductive, PTL DEF Spec
<1> QED BY <1>1, HoldFaithful, PTL
=============================================================================
