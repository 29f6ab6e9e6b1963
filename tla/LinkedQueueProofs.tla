------------------------- MODULE LinkedQueueProofs -------------------------
(***************************************************************************)
(* Proofs about the linked lists of the price levels and their pool of     *)
(* nodes.  The properties of LinkedQueue speak of walks along the links,   *)
(* which are recursive functions; a walk is shown to visit exactly the     *)
(* nodes of any sequence the links lead along (WalkAlong), so that the     *)
(* rest reasons about sequences.  Levels, orders, the initial size of the  *)
(* pool and the size of its extensions are arbitrary.                      *)
(***************************************************************************)
EXTENDS LinkedQueue, CommonLemmas, FiniteSetTheorems

-----------------------------------------------------------------------------
(* Walks.                                                                  *)

(* f satisfies the recursion of Reached.                                   *)
Solves(f, start, link) ==
  f = [k \in 0 .. MaxNodes |-> IF k = 0 THEN start ELSE IF f[k - 1] = Nil THEN Nil ELSE link[f[k - 1]]]

(* What a walk reaches is what any solution of its recursion says.         *)
LEMMA ReachedIs ==
  ASSUME NEW start, NEW link, NEW f, Solves(f, start, link)
  PROVE  \A k \in 0 .. MaxNodes : Reached(start, link)[k] = f[k]
  <1> DEFINE g == Reached(start, link)
  <1>1. g = [k \in 0 .. MaxNodes |-> IF k = 0 THEN start
                                     ELSE IF g[k - 1] = Nil THEN Nil ELSE link[g[k - 1]]]
    BY DEF Reached, Solves
  <1> HIDE DEF g
  <1> DEFINE T == {k \in 0 .. MaxNodes : g[k] # f[k]}
  <1>2. SUFFICES ASSUME T # {} PROVE FALSE
    BY DEF g
  <1>3. T \in SUBSET Nat /\ T \subseteq 0 .. MaxNodes /\ MaxNodes \in Nat
    BY <1>2, SizeAssumption
  <1>4. PICK k \in T : \A j \in T : k <= j
    BY <1>2, <1>3, LeastNat
  <1>5. k \in 0 .. MaxNodes /\ g[k] # f[k] /\ k \in Nat
    BY <1>3, <1>4
  <1>9. \A j \in 0 .. MaxNodes : j \notin T => g[j] = f[j]
    OBVIOUS
  <1> HIDE DEF T
  <1>6. CASE k = 0
    <2>1. g[k] = start
      BY <1>1, <1>5, <1>6
    <2>2. f[k] = start
      BY <1>5, <1>6 DEF Solves
    <2>3. QED
      BY <1>5, <2>1, <2>2
  <1>7. CASE k # 0
    <2>1. k - 1 \in 0 .. MaxNodes /\ k - 1 \notin T
      BY <1>3, <1>4, <1>5, <1>7
    <2>2. g[k - 1] = f[k - 1]
      BY <1>9, <2>1
    <2>3. g[k] = IF g[k - 1] = Nil THEN Nil ELSE link[g[k - 1]]
      BY <1>1, <1>5, <1>7
    <2>4. f[k] = IF f[k - 1] = Nil THEN Nil ELSE link[f[k - 1]]
      BY <1>5, <1>7 DEF Solves
    <2>5. QED
      BY <1>5, <2>2, <2>3, <2>4
  <1>8. QED
    BY <1>6, <1>7

LEMMA Numbered == ASSUME NEW n \in Nat PROVE IsFiniteSet(1 .. n) /\ Cardinality(1 .. n) = n
  <1>1. 1 \in Int /\ n \in Int
    OBVIOUS
  <1>2. IsFiniteSet(1 .. n) /\ Cardinality(1 .. n) = IF 1 > n THEN 0 ELSE n - 1 + 1
    BY <1>1, FS_Interval, Zenon
  <1>3. QED
    BY <1>2

LEMMA NumberedFromZero == ASSUME NEW n \in Nat PROVE Cardinality(0 .. n - 1) = n
  <1>1. 0 \in Int /\ n - 1 \in Int
    OBVIOUS
  <1>2. Cardinality(0 .. n - 1) = IF 0 > n - 1 THEN 0 ELSE n - 1 - 0 + 1
    BY <1>1, FS_Interval, Zenon
  <1>3. QED
    BY <1>2

LEMMA InjectiveShort ==
  ASSUME NEW c \in Seq(Nodes), IsInjective(c) PROVE Len(c) \in 0 .. MaxNodes
  <1>1. Len(c) \in Nat /\ MaxNodes \in Nat /\ c \in [1 .. Len(c) -> Nodes]
    BY LenProperties, SizeAssumption
  <1>2. c \in Injection(1 .. Len(c), Nodes)
    BY <1>1 DEF Injection, IsInjective
  <1>3. /\ IsFiniteSet(Nodes) /\ Cardinality(Nodes) = MaxNodes
        /\ IsFiniteSet(1 .. Len(c)) /\ Cardinality(1 .. Len(c)) = Len(c)
    BY <1>1, Numbered DEF Nodes
  <1>4. Cardinality(1 .. Len(c)) <= Cardinality(Nodes)
    BY <1>2, <1>3, FS_Injection
  <1>5. QED
    BY <1>1, <1>3, <1>4

(* The links from start lead along c and end there.                        *)
Leads(start, link, c) ==
  /\ start = IF c = << >> THEN Nil ELSE c[1]
  /\ \A i \in 1 .. Len(c) : link[c[i]] = IF i = Len(c) THEN Nil ELSE c[i + 1]

LEMMA WalkAlong ==
  ASSUME NEW c \in Seq(Nodes), IsInjective(c), NEW start, NEW link, Leads(start, link, c)
  PROVE  Walk(start, link) = c
  <1> DEFINE n == Len(c)
             f == [k \in 0 .. MaxNodes |-> IF k < n THEN c[k + 1] ELSE Nil]
             g == Reached(start, link)
  <1>1. /\ n \in Nat /\ n <= MaxNodes /\ MaxNodes \in Nat
        /\ \A i \in 1 .. n : c[i] \in Nodes /\ c[i] # Nil
        /\ c = [i \in 1 .. n |-> c[i]] /\ (c = << >> <=> n = 0)
    <2>1. n \in 0 .. MaxNodes /\ MaxNodes \in Nat
      BY InjectiveShort, SizeAssumption
    <2>2. \A i \in 1 .. n : c[i] \in Nodes /\ c[i] # Nil
      <3>1. \A i \in 1 .. n : c[i] \in Nodes
        BY ElementOfSeq
      <3>2. \A x \in Nodes : x # Nil
        BY DEF Nodes, Nil
      <3>3. QED
        BY <3>1, <3>2
    <2>3. c = [i \in 1 .. n |-> c[i]] /\ (c = << >> <=> n = 0)
      BY EmptySeq, LenProperties
    <2>4. QED
      BY <2>1, <2>2, <2>3
  <1>2. \A i \in 1 .. n : link[c[i]] = IF i = n THEN Nil ELSE c[i + 1]
    BY DEF Leads
  <1>3. start = IF n = 0 THEN Nil ELSE c[1]
    BY <1>1 DEF Leads
  <1> HIDE DEF n
  <1>4. \A k \in 0 .. MaxNodes : f[k] = IF k = 0 THEN start
                                        ELSE IF f[k - 1] = Nil THEN Nil ELSE link[f[k - 1]]
    <2>1. SUFFICES ASSUME NEW k \in 0 .. MaxNodes
                   PROVE  f[k] = IF k = 0 THEN start
                                 ELSE IF f[k - 1] = Nil THEN Nil ELSE link[f[k - 1]]
      OBVIOUS
    <2>2. CASE k = 0
      BY <1>1, <1>3, <2>2
    <2>3. CASE k # 0 /\ k - 1 < n
      <3>1. k \in 1 .. n /\ k - 1 \in 0 .. MaxNodes /\ f[k - 1] = c[k] /\ c[k] # Nil
        BY <1>1, <2>3
      <3>2. f[k] = IF k = n THEN Nil ELSE c[k + 1]
        BY <1>1, <2>3, <3>1
      <3>3. QED
        BY <1>2, <2>3, <3>1, <3>2
    <2>4. CASE k # 0 /\ ~ (k - 1 < n)
      BY <1>1, <2>4
    <2>5. QED
      BY <2>2, <2>3, <2>4
  <1>5. Solves(f, start, link)
    BY <1>4 DEF Solves
  <1>6. \A k \in 0 .. MaxNodes : g[k] = f[k]
    <2> HIDE DEF f, g
    <2>1. \A k \in 0 .. MaxNodes : Reached(start, link)[k] = f[k]
      BY <1>5, ReachedIs
    <2>2. QED
      BY <2>1 DEF g
  <1> HIDE DEF g
  <1>7. {k \in 0 .. MaxNodes : g[k] # Nil} = 0 .. n - 1
    <2>1. \A k \in 0 .. MaxNodes : g[k] # Nil <=> k < n
      <3>1. \A k \in 0 .. MaxNodes : k < n => k + 1 \in 1 .. n
        BY <1>1
      <3>2. QED
        BY <1>1, <1>6, <3>1
    <2>2. 0 .. n - 1 \subseteq 0 .. MaxNodes /\ \A k \in 0 .. MaxNodes : k < n <=> k \in 0 .. n - 1
      BY <1>1
    <2> HIDE DEF f
    <2>3. QED
      BY <2>1, <2>2
  <1>8. Cardinality(0 .. n - 1) = n
    BY <1>1, NumberedFromZero
  <1>9. ASSUME NEW i \in 1 .. n PROVE g[i - 1] = c[i]
    <2>1. i - 1 \in 0 .. MaxNodes /\ i - 1 < n /\ (i - 1) + 1 = i
      BY <1>1
    <2>2. f[i - 1] = c[i]
      BY <2>1
    <2> HIDE DEF f
    <2>3. QED
      BY <1>6, <2>1, <2>2
  <1>10. Walk(start, link) = [i \in 1 .. n |-> g[i - 1]]
    BY <1>7, <1>8 DEF Walk, g
  <1>11. QED
    BY <1>1, <1>9, <1>10

-----------------------------------------------------------------------------
(* Chains: the nodes of a list from its head to its tail.                  *)

NodeOrNil == Nodes \cup {Nil}

ListType(q) ==
  q \in [head : [Levels -> NodeOrNil], tail : [Levels -> NodeOrNil],
         prev : [Nodes -> NodeOrNil], next : [Nodes -> NodeOrNil]]

FirstOf(c) == IF c = << >> THEN Nil ELSE c[1]

LastOf(c) == IF c = << >> THEN Nil ELSE c[Len(c)]

(* The list of level l in q consists of the nodes c.                       *)
Linked(q, l, c) ==
  /\ q.head[l] = FirstOf(c)
  /\ q.tail[l] = LastOf(c)
  /\ \A i \in 1 .. Len(c) : q.next[c[i]] = IF i = Len(c) THEN Nil ELSE c[i + 1]
  /\ \A i \in 1 .. Len(c) : q.prev[c[i]] = IF i = 1 THEN Nil ELSE c[i - 1]

LEMMA ReverseFacts ==
  ASSUME NEW S, NEW c \in Seq(S)
  PROVE  /\ Reverse(c) \in Seq(S) /\ Len(Reverse(c)) = Len(c)
         /\ \A i \in 1 .. Len(c) : Reverse(c)[i] = c[Len(c) - i + 1]
         /\ IsInjective(c) => IsInjective(Reverse(c))
  <1>1. Len(c) \in Nat /\ \A i \in 1 .. Len(c) : c[i] \in S /\ Len(c) - i + 1 \in 1 .. Len(c)
    BY LenProperties, ElementOfSeq
  <1> DEFINE n == Len(c)
             r == [i \in 1 .. n |-> c[n - i + 1]]
  <1>2. Reverse(c) = r
    BY DEF Reverse
  <1>3. r \in [1 .. n -> S] /\ n \in Nat
    BY <1>1
  <1>4. r \in Seq(S) /\ Len(r) = n
    <2> HIDE DEF r, n
    <2>1. QED
      BY <1>3, Tabulated
  <1>5. \A i \in 1 .. n : r[i] = c[n - i + 1]
    OBVIOUS
  <1>6. ASSUME IsInjective(c), NEW a \in 1 .. n, NEW b \in 1 .. n, r[a] = r[b] PROVE a = b
    <2>1. DOMAIN c = 1 .. n
      BY LenProperties
    <2>2. n - a + 1 \in 1 .. n /\ n - b + 1 \in 1 .. n /\ c[n - a + 1] = c[n - b + 1]
      BY <1>3, <1>6
    <2>3. n - a + 1 = n - b + 1
      BY <1>6, <2>1, <2>2 DEF IsInjective
    <2>4. QED
      BY <1>3, <2>3
  <1>7. IsInjective(c) => IsInjective(r)
    BY <1>6 DEF IsInjective
  <1>8. QED
    BY <1>2, <1>4, <1>5, <1>7

(* A walk from the head finds the chain, one from the tail its reverse.    *)
LEMMA LinkedWalks ==
  ASSUME NEW q, NEW l, NEW c \in Seq(Nodes), IsInjective(c), Linked(q, l, c)
  PROVE  Walk(q.head[l], q.next) = c /\ Walk(q.tail[l], q.prev) = Reverse(c)
  <1>1. Leads(q.head[l], q.next, c)
    BY DEF Leads, Linked, FirstOf
  <1>2. /\ Reverse(c) \in Seq(Nodes) /\ Len(Reverse(c)) = Len(c) /\ IsInjective(Reverse(c))
        /\ \A i \in 1 .. Len(c) : Reverse(c)[i] = c[Len(c) - i + 1]
    BY ReverseFacts
  <1> DEFINE n == Len(c)
             r == Reverse(c)
  <1>3. n \in Nat /\ (c = << >> <=> n = 0) /\ (r = << >> <=> n = 0)
    BY <1>2, EmptySeq, LenProperties
  <1>4. q.tail[l] = IF r = << >> THEN Nil ELSE r[1]
    <2>1. q.tail[l] = IF c = << >> THEN Nil ELSE c[n]
      BY DEF Linked, LastOf
    <2>2. n # 0 => r[1] = c[n]
      BY <1>2, <1>3
    <2> HIDE DEF n, r
    <2>3. QED
      BY <1>3, <2>1, <2>2
  <1>5. ASSUME NEW i \in 1 .. n PROVE q.prev[r[i]] = IF i = n THEN Nil ELSE r[i + 1]
    <2>1. n - i + 1 \in 1 .. n /\ r[i] = c[n - i + 1]
      BY <1>2, <1>3
    <2>2. q.prev[c[n - i + 1]] = IF n - i + 1 = 1 THEN Nil ELSE c[(n - i + 1) - 1]
      BY <2>1 DEF Linked
    <2>3. i # n => i + 1 \in 1 .. n /\ r[i + 1] = c[(n - i + 1) - 1]
      <3>1. i # n => i + 1 \in 1 .. n /\ n - (i + 1) + 1 = (n - i + 1) - 1
        BY <1>3
      <3>2. QED
        BY <1>2, <3>1
    <2>4. n - i + 1 = 1 <=> i = n
      BY <1>3
    <2> HIDE DEF n, r
    <2>5. QED
      BY <2>1, <2>2, <2>3, <2>4
  <1>6. Leads(q.tail[l], q.prev, r)
    BY <1>2, <1>4, <1>5 DEF Leads
  <1>7. QED
    BY <1>1, <1>2, <1>6, WalkAlong

-----------------------------------------------------------------------------
(* What the list operations do to a chain.                                 *)

LEMMA AppendEffect ==
  ASSUME NEW q, ListType(q), NEW l \in Levels, NEW n \in Nodes
  PROVE  /\ ListType(ListAppend(q, l, n))
         /\ \A k \in Levels : ListAppend(q, l, n).head[k] = IF k = l /\ q.tail[l] = Nil THEN n ELSE q.head[k]
         /\ \A k \in Levels : ListAppend(q, l, n).tail[k] = IF k = l THEN n ELSE q.tail[k]
         /\ \A x \in Nodes : ListAppend(q, l, n).prev[x] = IF x = n THEN q.tail[l] ELSE q.prev[x]
         /\ \A x \in Nodes : ListAppend(q, l, n).next[x] = IF x = q.tail[l] THEN n
                                                           ELSE IF x = n THEN Nil ELSE q.next[x]
  <1> DEFINE w == ListAppend(q, l, n)
             t == q.tail[l]
  <1>1. /\ q.head \in [Levels -> NodeOrNil] /\ q.tail \in [Levels -> NodeOrNil]
        /\ q.prev \in [Nodes -> NodeOrNil] /\ q.next \in [Nodes -> NodeOrNil]
        /\ q = [head |-> q.head, tail |-> q.tail, prev |-> q.prev, next |-> q.next]
    BY DEF ListType
  <1>2. t \in NodeOrNil /\ n \in NodeOrNil /\ Nil \in NodeOrNil /\ \A x \in Nodes : x # Nil
    BY <1>1 DEF NodeOrNil, Nodes, Nil
  <1>3. CASE t = Nil
    <2>1. w = [head |-> [q.head EXCEPT ![l] = n], tail |-> [q.tail EXCEPT ![l] = n],
               prev |-> [q.prev EXCEPT ![n] = Nil], next |-> [q.next EXCEPT ![n] = Nil]]
      BY <1>1, <1>3 DEF ListAppend
    <2>2. /\ w.head = [q.head EXCEPT ![l] = n] /\ w.tail = [q.tail EXCEPT ![l] = n]
          /\ w.prev = [q.prev EXCEPT ![n] = Nil] /\ w.next = [q.next EXCEPT ![n] = Nil]
      BY <2>1
    <2>3. ListType(w)
      BY <1>1, <1>2, <2>1 DEF ListType
    <2> HIDE DEF w
    <2>4. QED
      BY <1>1, <1>2, <1>3, <2>2, <2>3 DEF w
  <1>4. CASE t # Nil
    <2>1. w = [head |-> q.head, tail |-> [q.tail EXCEPT ![l] = n], prev |-> [q.prev EXCEPT ![n] = t],
               next |-> [[q.next EXCEPT ![n] = Nil] EXCEPT ![t] = n]]
      BY <1>1, <1>4 DEF ListAppend
    <2>2. /\ w.head = q.head /\ w.tail = [q.tail EXCEPT ![l] = n]
          /\ w.prev = [q.prev EXCEPT ![n] = t] /\ w.next = [[q.next EXCEPT ![n] = Nil] EXCEPT ![t] = n]
      BY <2>1
    <2>5. /\ [q.tail EXCEPT ![l] = n] \in [Levels -> NodeOrNil]
          /\ [q.prev EXCEPT ![n] = t] \in [Nodes -> NodeOrNil]
          /\ [[q.next EXCEPT ![n] = Nil] EXCEPT ![t] = n] \in [Nodes -> NodeOrNil]
      BY <1>1, <1>2
    <2>3. ListType(w)
      BY <1>1, <2>1, <2>5 DEF ListType
    <2> HIDE DEF w
    <2>4. QED
      BY <1>1, <1>2, <1>4, <2>2, <2>3 DEF w
  <1>5. QED
    BY <1>3, <1>4

LEMMA RemoveEffect ==
  ASSUME NEW q, ListType(q), NEW l \in Levels, NEW n \in Nodes
  PROVE  /\ ListType(ListRemove(q, l, n))
         /\ \A k \in Levels : ListRemove(q, l, n).head[k] = IF k = l /\ q.prev[n] = Nil THEN q.next[n]
                                                            ELSE q.head[k]
         /\ \A k \in Levels : ListRemove(q, l, n).tail[k] = IF k = l /\ q.next[n] = Nil THEN q.prev[n]
                                                            ELSE q.tail[k]
         /\ \A x \in Nodes : ListRemove(q, l, n).next[x] = IF x = n THEN Nil
                                                           ELSE IF x = q.prev[n] THEN q.next[n] ELSE q.next[x]
         /\ \A x \in Nodes : ListRemove(q, l, n).prev[x] = IF x = n THEN Nil
                                                           ELSE IF x = q.next[n] THEN q.prev[n] ELSE q.prev[x]
  <1> DEFINE w == ListRemove(q, l, n)
             b == q.prev[n]
             a == q.next[n]
  <1>1. /\ q.head \in [Levels -> NodeOrNil] /\ q.tail \in [Levels -> NodeOrNil]
        /\ q.prev \in [Nodes -> NodeOrNil] /\ q.next \in [Nodes -> NodeOrNil]
    BY DEF ListType
  <1>2. a \in NodeOrNil /\ b \in NodeOrNil /\ Nil \in NodeOrNil
    BY <1>1 DEF NodeOrNil
  <1> DEFINE hd == IF b = Nil THEN [q.head EXCEPT ![l] = a] ELSE q.head
             tl == IF a = Nil THEN [q.tail EXCEPT ![l] = b] ELSE q.tail
             nx == [m \in Nodes |-> IF m = n THEN Nil ELSE IF m = b THEN a ELSE q.next[m]]
             pv == [m \in Nodes |-> IF m = n THEN Nil ELSE IF m = a THEN b ELSE q.prev[m]]
  <1>3. w = [head |-> hd, tail |-> tl, next |-> nx, prev |-> pv]
    BY DEF ListRemove
  <1>4. hd \in [Levels -> NodeOrNil] /\ \A k \in Levels : hd[k] = IF k = l /\ b = Nil THEN a ELSE q.head[k]
    BY <1>1, <1>2
  <1>5. tl \in [Levels -> NodeOrNil] /\ \A k \in Levels : tl[k] = IF k = l /\ a = Nil THEN b ELSE q.tail[k]
    BY <1>1, <1>2
  <1>6. nx \in [Nodes -> NodeOrNil] /\ pv \in [Nodes -> NodeOrNil]
    BY <1>1, <1>2
  <1>7. /\ \A x \in Nodes : nx[x] = IF x = n THEN Nil ELSE IF x = b THEN a ELSE q.next[x]
        /\ \A x \in Nodes : pv[x] = IF x = n THEN Nil ELSE IF x = a THEN b ELSE q.prev[x]
    OBVIOUS
  <1> HIDE DEF hd, tl, nx, pv, a, b, w
  <1>8. ListType(w) /\ w.head = hd /\ w.tail = tl /\ w.next = nx /\ w.prev = pv
    BY <1>3, <1>4, <1>5, <1>6 DEF ListType
  <1>9. QED
    BY <1>4, <1>5, <1>7, <1>8 DEF w, a, b

LEMMA ChainFacts ==
  ASSUME NEW c \in Seq(Nodes), IsInjective(c)
  PROVE  /\ Len(c) \in Nat /\ (c = << >> <=> Len(c) = 0)
         /\ \A i \in 1 .. Len(c) : c[i] \in Nodes /\ c[i] \in ToSet(c) /\ c[i] # Nil
         /\ \A x \in ToSet(c) : \E i \in 1 .. Len(c) : c[i] = x
         /\ \A i, j \in 1 .. Len(c) : c[i] = c[j] => i = j
         /\ ToSet(c) \subseteq Nodes
  <1>1. Len(c) \in Nat /\ (c = << >> <=> Len(c) = 0) /\ DOMAIN c = 1 .. Len(c)
    BY LenProperties, EmptySeq
  <1>2. /\ \A i \in 1 .. Len(c) : c[i] \in Nodes /\ c[i] \in ToSet(c)
        /\ \A x \in ToSet(c) : \E i \in 1 .. Len(c) : c[i] = x
        /\ ToSet(c) \subseteq Nodes
    BY ToSetFacts, ElementOfSeq
  <1>3. \A i, j \in 1 .. Len(c) : c[i] = c[j] => i = j
    BY <1>1 DEF IsInjective
  <1>4. \A x \in Nodes : x # Nil
    BY DEF Nodes, Nil
  <1>5. QED
    BY <1>1, <1>2, <1>3, <1>4

(* A list none of whose own pointers an operation touches stays as it is.  *)
LEMMA LinkedFrame ==
  ASSUME NEW q, NEW w, NEW l, NEW c \in Seq(Nodes), Linked(q, l, c),
         w.head[l] = q.head[l], w.tail[l] = q.tail[l],
         \A x \in ToSet(c) : w.next[x] = q.next[x],
         \A x \in ToSet(c) : w.prev[x] = q.prev[x]
  PROVE  Linked(w, l, c)
  <1>1. \A i \in 1 .. Len(c) : c[i] \in ToSet(c)
    BY ToSetFacts
  <1>2. QED
    BY <1>1 DEF Linked

LEMMA AppendLinked ==
  ASSUME NEW q, ListType(q), NEW l \in Levels, NEW c \in Seq(Nodes), IsInjective(c), Linked(q, l, c),
         NEW n \in Nodes, n \notin ToSet(c)
  PROVE  Linked(ListAppend(q, l, n), l, Append(c, n))
  <1> DEFINE w == ListAppend(q, l, n)
             d == Append(c, n)
             m == Len(c)
             t == q.tail[l]
  <1>1. /\ m \in Nat /\ (c = << >> <=> m = 0)
        /\ \A i \in 1 .. m : c[i] \in Nodes /\ c[i] \in ToSet(c) /\ c[i] # Nil
        /\ \A i, j \in 1 .. m : c[i] = c[j] => i = j
    BY ChainFacts
  <1>2. /\ w.head[l] = IF t = Nil THEN n ELSE q.head[l]
        /\ w.tail[l] = n
        /\ \A x \in Nodes : w.prev[x] = IF x = n THEN t ELSE q.prev[x]
        /\ \A x \in Nodes : w.next[x] = IF x = t THEN n ELSE IF x = n THEN Nil ELSE q.next[x]
    BY AppendEffect
  <1>3. /\ d \in Seq(Nodes) /\ Len(d) = m + 1 /\ d # << >>
        /\ \A i \in 1 .. m : d[i] = c[i]
        /\ d[m + 1] = n
    BY AppendFacts
  <1>4. /\ q.head[l] = IF m = 0 THEN Nil ELSE c[1]
        /\ t = IF m = 0 THEN Nil ELSE c[m]
        /\ \A i \in 1 .. m : q.next[c[i]] = IF i = m THEN Nil ELSE c[i + 1]
        /\ \A i \in 1 .. m : q.prev[c[i]] = IF i = 1 THEN Nil ELSE c[i - 1]
    BY <1>1 DEF Linked, FirstOf, LastOf
  <1>5. (t = Nil <=> m = 0) /\ t # n /\ \A i \in 1 .. m : c[i] # n /\ (c[i] = t <=> i = m)
    <2>1. \A i \in 1 .. m : c[i] # n
      BY <1>1
    <2>2. n # Nil
      BY DEF Nodes, Nil
    <2> HIDE DEF m, t
    <2>3. QED
      BY <1>1, <1>4, <2>1, <2>2
  <1> HIDE DEF m, t, w, d
  <1>6. w.head[l] = FirstOf(d) /\ w.tail[l] = LastOf(d)
    <2>1. m # 0 => d[1] = c[1]
      BY <1>1, <1>3
    <2>2. m = 0 => d[1] = n
      BY <1>3
    <2>3. FirstOf(d) = d[1] /\ LastOf(d) = d[m + 1]
      BY <1>3 DEF FirstOf, LastOf
    <2>4. QED
      BY <1>2, <1>3, <1>4, <1>5, <2>1, <2>2, <2>3
  <1>7. ASSUME NEW i \in 1 .. Len(d) PROVE w.next[d[i]] = IF i = Len(d) THEN Nil ELSE d[i + 1]
    <2>1. CASE i = m + 1
      BY <1>2, <1>3, <1>5, <2>1
    <2>2. CASE i # m + 1 /\ i = m
      <3>1. i \in 1 .. m /\ d[i] = c[m] /\ c[m] \in Nodes /\ c[m] = t /\ d[i + 1] = n
        BY <1>1, <1>3, <1>5, <2>2
      <3>2. QED
        BY <1>2, <1>3, <2>2, <3>1
    <2>3. CASE i # m + 1 /\ i # m
      <3>1. i \in 1 .. m /\ i + 1 \in 1 .. m
        BY <1>1, <1>3, <2>3
      <3>2. d[i] = c[i] /\ d[i + 1] = c[i + 1] /\ c[i] \in Nodes /\ c[i] # t /\ c[i] # n
        BY <1>1, <1>3, <1>5, <2>3, <3>1
      <3>3. w.next[c[i]] = q.next[c[i]] /\ q.next[c[i]] = c[i + 1]
        BY <1>2, <1>4, <2>3, <3>1, <3>2
      <3>4. QED
        BY <1>3, <2>3, <3>2, <3>3
    <2>4. QED
      BY <2>1, <2>2, <2>3
  <1>8. ASSUME NEW i \in 1 .. Len(d) PROVE w.prev[d[i]] = IF i = 1 THEN Nil ELSE d[i - 1]
    <2>1. CASE i = m + 1
      <3>1. d[i] = n /\ w.prev[n] = t
        BY <1>2, <1>3, <2>1
      <3>2. CASE m = 0
        BY <1>5, <2>1, <3>1, <3>2
      <3>3. CASE m # 0
        <4>1. m \in 1 .. m /\ i # 1 /\ i - 1 = m
          BY <1>1, <2>1, <3>3
        <4>2. d[i - 1] = c[m] /\ c[m] = t
          BY <1>3, <1>5, <4>1
        <4>3. QED
          BY <3>1, <4>1, <4>2
      <3>4. QED
        BY <3>2, <3>3
    <2>2. CASE i # m + 1
      <3>1. i \in 1 .. m /\ (i # 1 => i - 1 \in 1 .. m)
        BY <1>1, <1>3, <2>2
      <3>2. d[i] = c[i] /\ (i # 1 => d[i - 1] = c[i - 1]) /\ c[i] \in Nodes /\ c[i] # n
        BY <1>1, <1>3, <1>5, <3>1
      <3>3. QED
        BY <1>2, <1>4, <3>1, <3>2
    <2>3. QED
      BY <2>1, <2>2
  <1>9. QED
    BY <1>6, <1>7, <1>8 DEF Linked, w, d

LEMMA RemoveLinked ==
  ASSUME NEW q, ListType(q), NEW l \in Levels, NEW c \in Seq(Nodes), IsInjective(c), Linked(q, l, c),
         NEW k \in 1 .. Len(c)
  PROVE  Linked(ListRemove(q, l, c[k]), l, RemoveAt(c, k))
  <1> DEFINE m == Len(c)
             n == c[k]
             b == q.prev[n]
             a == q.next[n]
             w == ListRemove(q, l, n)
             d == RemoveAt(c, k)
  <1>1. /\ m \in Nat /\ (c = << >> <=> m = 0) /\ k \in 1 .. m
        /\ \A i \in 1 .. m : c[i] \in Nodes /\ c[i] # Nil
        /\ \A i, j \in 1 .. m : c[i] = c[j] => i = j
    BY ChainFacts
  <1>2. /\ w.head[l] = IF b = Nil THEN a ELSE q.head[l]
        /\ w.tail[l] = IF a = Nil THEN b ELSE q.tail[l]
        /\ \A x \in Nodes : w.next[x] = IF x = n THEN Nil ELSE IF x = b THEN a ELSE q.next[x]
        /\ \A x \in Nodes : w.prev[x] = IF x = n THEN Nil ELSE IF x = a THEN b ELSE q.prev[x]
    <2>1. n \in Nodes
      BY <1>1
    <2> HIDE DEF n
    <2>2. QED
      BY <2>1, RemoveEffect
  <1>3. /\ d \in Seq(Nodes) /\ Len(d) = m - 1
        /\ \A i \in 1 .. m - 1 : d[i] = IF i < k THEN c[i] ELSE c[i + 1]
        /\ (d = << >> <=> m = 1)
    <2>1. /\ d \in Seq(Nodes) /\ Len(d) = m - 1
          /\ \A i \in 1 .. m - 1 : d[i] = IF i < k THEN c[i] ELSE c[i + 1]
      BY RemoveAtFacts
    <2>2. d = << >> <=> Len(d) = 0
      BY <2>1, EmptySeq
    <2> HIDE DEF d, m
    <2>3. QED
      BY <1>1, <2>1, <2>2
  <1>4. /\ q.head[l] = c[1] /\ q.tail[l] = c[m]
        /\ \A i \in 1 .. m : q.next[c[i]] = IF i = m THEN Nil ELSE c[i + 1]
        /\ \A i \in 1 .. m : q.prev[c[i]] = IF i = 1 THEN Nil ELSE c[i - 1]
    BY <1>1 DEF Linked, FirstOf, LastOf
  <1>5. a = IF k = m THEN Nil ELSE c[k + 1]
    BY <1>1, <1>4
  <1>6. b = IF k = 1 THEN Nil ELSE c[k - 1]
    BY <1>1, <1>4
  <1>7. /\ n \in Nodes
        /\ \A i \in 1 .. m : (c[i] = n <=> i = k) /\ (c[i] = b <=> i = k - 1) /\ (c[i] = a <=> i = k + 1)
    <2>1. \A i \in 1 .. m : c[i] = n <=> i = k
      BY <1>1
    <2>2. \A i \in 1 .. m : c[i] = b <=> i = k - 1
      <3> HIDE DEF b, m
      <3>1. QED
        BY <1>1, <1>6
    <2>3. \A i \in 1 .. m : c[i] = a <=> i = k + 1
      <3> HIDE DEF a, m
      <3>1. QED
        BY <1>1, <1>5
    <2>4. QED
      BY <1>1, <2>1, <2>2, <2>3
  <1> HIDE DEF m, n, a, b, w, d
  <1>8. w.head[l] = FirstOf(d)
    <2>1. CASE k = 1
      <3>1. w.head[l] = IF m = 1 THEN Nil ELSE c[2]
        BY <1>2, <1>5, <1>6, <2>1
      <3>2. m # 1 => d[1] = c[2]
        BY <1>1, <1>3, <2>1
      <3>3. QED
        BY <1>3, <3>1, <3>2 DEF FirstOf
    <2>2. CASE k # 1
      <3>1. k - 1 \in 1 .. m /\ m # 1
        BY <1>1, <2>2
      <3>2. w.head[l] = c[1]
        BY <1>1, <1>2, <1>4, <1>6, <2>2, <3>1
      <3>3. d[1] = c[1]
        BY <1>1, <1>3, <2>2
      <3>4. QED
        BY <1>3, <3>1, <3>2, <3>3 DEF FirstOf
    <2>3. QED
      BY <2>1, <2>2
  <1>9. w.tail[l] = LastOf(d)
    <2>1. CASE k = m
      <3>1. w.tail[l] = IF m = 1 THEN Nil ELSE c[m - 1]
        BY <1>2, <1>5, <1>6, <2>1
      <3>2. m # 1 => d[m - 1] = c[m - 1]
        BY <1>1, <1>3, <2>1
      <3>3. QED
        BY <1>3, <3>1, <3>2 DEF LastOf
    <2>2. CASE k # m
      <3>1. k + 1 \in 1 .. m /\ m # 1
        BY <1>1, <2>2
      <3>2. w.tail[l] = c[m]
        BY <1>1, <1>2, <1>4, <1>5, <2>2, <3>1
      <3>3. d[m - 1] = c[m]
        BY <1>1, <1>3, <2>2
      <3>4. QED
        BY <1>3, <3>1, <3>2, <3>3 DEF LastOf
    <2>3. QED
      BY <2>1, <2>2
  <1>10. ASSUME NEW i \in 1 .. Len(d)
         PROVE  /\ w.next[d[i]] = IF i = Len(d) THEN Nil ELSE d[i + 1]
                /\ w.prev[d[i]] = IF i = 1 THEN Nil ELSE d[i - 1]
    <2>0. i \in 1 .. m - 1 /\ i \in 1 .. m /\ i + 1 \in 1 .. m
      BY <1>1, <1>3
    <2>1. CASE i < k
      <3>1. d[i] = c[i] /\ c[i] \in Nodes /\ c[i] # n /\ c[i] # a
        BY <1>1, <1>3, <1>7, <2>0, <2>1
      <3>2. w.next[d[i]] = IF i = k - 1 THEN a ELSE q.next[c[i]]
        BY <1>2, <1>7, <2>0, <3>1
      <3>3. w.prev[d[i]] = q.prev[c[i]]
        BY <1>2, <3>1
      <3>4. w.next[d[i]] = IF i = Len(d) THEN Nil ELSE d[i + 1]
        <4>1. CASE i = k - 1
          BY <1>1, <1>3, <1>5, <2>0, <3>2, <4>1
        <4>2. CASE i # k - 1
          <5>1. i + 1 \in 1 .. m - 1 /\ i + 1 < k /\ i # Len(d) /\ i # m
            BY <1>1, <1>3, <2>0, <2>1, <4>2
          <5>2. QED
            BY <1>3, <1>4, <2>0, <3>2, <4>2, <5>1
        <4>3. QED
          BY <4>1, <4>2
      <3>5. w.prev[d[i]] = IF i = 1 THEN Nil ELSE d[i - 1]
        <4>1. i # 1 => i - 1 \in 1 .. m - 1 /\ i - 1 < k
          BY <1>1, <2>0, <2>1
        <4>2. QED
          BY <1>3, <1>4, <2>0, <3>3, <4>1
      <3>6. QED
        BY <3>4, <3>5
    <2>2. CASE ~ (i < k)
      <3>1. d[i] = c[i + 1] /\ c[i + 1] \in Nodes /\ c[i + 1] # n /\ c[i + 1] # b
        BY <1>1, <1>3, <1>7, <2>0, <2>2
      <3>2. w.prev[d[i]] = IF i = k THEN b ELSE q.prev[c[i + 1]]
        <4>1. c[i + 1] = a <=> i = k
          BY <1>1, <1>7, <2>0
        <4>2. QED
          BY <1>2, <3>1, <4>1
      <3>3. w.next[d[i]] = q.next[c[i + 1]]
        BY <1>2, <3>1
      <3>4. w.next[d[i]] = IF i = Len(d) THEN Nil ELSE d[i + 1]
        <4>1. q.next[c[i + 1]] = IF i + 1 = m THEN Nil ELSE c[(i + 1) + 1]
          BY <1>4, <2>0
        <4>2. i + 1 # m => i + 1 \in 1 .. m - 1 /\ ~ (i + 1 < k)
          BY <1>1, <2>0, <2>2
        <4>3. i + 1 = m <=> i = Len(d)
          BY <1>1, <1>3, <2>0
        <4>4. QED
          BY <1>3, <3>3, <4>1, <4>2, <4>3
      <3>5. w.prev[d[i]] = IF i = 1 THEN Nil ELSE d[i - 1]
        <4>1. CASE i = k
          <5>1. i # 1 => i - 1 \in 1 .. m - 1 /\ i - 1 < k
            BY <1>1, <2>0, <4>1
          <5>2. QED
            BY <1>3, <1>6, <3>2, <4>1, <5>1
        <4>2. CASE i # k
          <5>1. i - 1 \in 1 .. m - 1 /\ ~ (i - 1 < k) /\ i # 1 /\ i + 1 # 1 /\ (i + 1) - 1 = i /\ (i - 1) + 1 = i
            BY <1>1, <2>0, <2>2, <4>2
          <5>2. q.prev[c[i + 1]] = c[i] /\ d[i - 1] = c[i]
            BY <1>3, <1>4, <2>0, <5>1
          <5>3. QED
            BY <3>2, <4>2, <5>1, <5>2
        <4>3. QED
          BY <4>1, <4>2
      <3>6. QED
        BY <3>4, <3>5
    <2>3. QED
      BY <2>1, <2>2
  <1>11. QED
    BY <1>8, <1>9, <1>10 DEF Linked, w, d, n

-----------------------------------------------------------------------------
(* The lists of all levels: ch gives each level its chain.                 *)

WellLinked(q, ch) ==
  /\ ListType(q)
  /\ ch \in [Levels -> Seq(Nodes)]
  /\ \A l \in Levels : IsInjective(ch[l]) /\ Linked(q, l, ch[l])
  /\ \A k, l \in Levels : k # l => ToSet(ch[k]) \cap ToSet(ch[l]) = {}

OnNoChain(ch, n) == \A l \in Levels : n \notin ToSet(ch[l])

LEMMA AppendWell ==
  ASSUME NEW q, NEW ch, WellLinked(q, ch), NEW l \in Levels, NEW n \in Nodes, OnNoChain(ch, n)
  PROVE  WellLinked(ListAppend(q, l, n), [ch EXCEPT ![l] = Append(ch[l], n)])
  <1> DEFINE w == ListAppend(q, l, n)
             dh == [ch EXCEPT ![l] = Append(ch[l], n)]
  <1>1. /\ ListType(q) /\ ch \in [Levels -> Seq(Nodes)]
        /\ \A k \in Levels : ch[k] \in Seq(Nodes) /\ IsInjective(ch[k]) /\ Linked(q, k, ch[k])
        /\ \A k \in Levels : n \notin ToSet(ch[k])
    BY DEF WellLinked, OnNoChain
  <1>2. /\ Append(ch[l], n) \in Seq(Nodes) /\ IsInjective(Append(ch[l], n))
        /\ ToSet(Append(ch[l], n)) = ToSet(ch[l]) \cup {n}
    BY <1>1, InjectiveAppend
  <1>3. Linked(w, l, Append(ch[l], n))
    BY <1>1, AppendLinked
  <1>4. dh \in [Levels -> Seq(Nodes)] /\ dh[l] = Append(ch[l], n) /\ \A k \in Levels : k # l => dh[k] = ch[k]
    BY <1>1, <1>2
  <1>5. /\ ListType(w)
        /\ \A k \in Levels : k # l => w.head[k] = q.head[k] /\ w.tail[k] = q.tail[k]
        /\ \A x \in Nodes : w.prev[x] = IF x = n THEN q.tail[l] ELSE q.prev[x]
        /\ \A x \in Nodes : w.next[x] = IF x = q.tail[l] THEN n ELSE IF x = n THEN Nil ELSE q.next[x]
    BY <1>1, AppendEffect
  <1>6. q.tail[l] # Nil => q.tail[l] \in ToSet(ch[l])
    <2>1. q.tail[l] = LastOf(ch[l])
      BY <1>1 DEF Linked
    <2>2. Len(ch[l]) \in Nat /\ (ch[l] = << >> <=> Len(ch[l]) = 0)
          /\ \A i \in 1 .. Len(ch[l]) : ch[l][i] \in ToSet(ch[l])
      BY <1>1, ChainFacts
    <2>3. QED
      BY <2>1, <2>2 DEF LastOf
  <1> HIDE DEF w, dh
  <1>7. ASSUME NEW k \in Levels, k # l PROVE Linked(w, k, ch[k])
    <2>1. ToSet(ch[k]) \subseteq Nodes /\ ToSet(ch[k]) \cap ToSet(ch[l]) = {}
      BY <1>1, <1>7, ChainFacts DEF WellLinked
    <2>2. \A x \in ToSet(ch[k]) : x \in Nodes /\ x # n /\ x # q.tail[l]
      <3>1. \A x \in Nodes : x # Nil
        BY DEF Nodes, Nil
      <3>2. QED
        BY <1>1, <1>6, <2>1, <3>1
    <2>3. \A x \in ToSet(ch[k]) : w.next[x] = q.next[x]
      BY <1>5, <2>2
    <2>4. \A x \in ToSet(ch[k]) : w.prev[x] = q.prev[x]
      BY <1>5, <2>2
    <2>5. w.head[k] = q.head[k] /\ w.tail[k] = q.tail[k] /\ ch[k] \in Seq(Nodes) /\ Linked(q, k, ch[k])
      BY <1>1, <1>5, <1>7
    <2>6. QED
      BY <2>3, <2>4, <2>5, LinkedFrame
  <1>8. \A k \in Levels : IsInjective(dh[k]) /\ Linked(w, k, dh[k])
    BY <1>1, <1>2, <1>3, <1>4, <1>7
  <1>9. \A j, k \in Levels : j # k => ToSet(dh[j]) \cap ToSet(dh[k]) = {}
    <2>1. \A j, k \in Levels : j # k => ToSet(ch[j]) \cap ToSet(ch[k]) = {}
      BY DEF WellLinked
    <2>2. \A k \in Levels : k # l => ToSet(dh[k]) = ToSet(ch[k])
      BY <1>4
    <2>3. ToSet(dh[l]) = ToSet(ch[l]) \cup {n}
      BY <1>2, <1>4
    <2>4. QED
      BY <1>1, <2>1, <2>2, <2>3
  <1>10. QED
    BY <1>4, <1>5, <1>8, <1>9 DEF WellLinked, w, dh

LEMMA RemoveWell ==
  ASSUME NEW q, NEW ch, WellLinked(q, ch), NEW l \in Levels, NEW i \in 1 .. Len(ch[l])
  PROVE  /\ WellLinked(ListRemove(q, l, ch[l][i]), [ch EXCEPT ![l] = RemoveAt(ch[l], i)])
         /\ OnNoChain([ch EXCEPT ![l] = RemoveAt(ch[l], i)], ch[l][i])
  <1> DEFINE n == ch[l][i]
             w == ListRemove(q, l, n)
             dh == [ch EXCEPT ![l] = RemoveAt(ch[l], i)]
  <1>1. /\ ListType(q) /\ ch \in [Levels -> Seq(Nodes)]
        /\ \A k \in Levels : ch[k] \in Seq(Nodes) /\ IsInjective(ch[k]) /\ Linked(q, k, ch[k])
        /\ \A j, k \in Levels : j # k => ToSet(ch[j]) \cap ToSet(ch[k]) = {}
    BY DEF WellLinked
  <1>2. /\ RemoveAt(ch[l], i) \in Seq(Nodes) /\ IsInjective(RemoveAt(ch[l], i))
        /\ ToSet(RemoveAt(ch[l], i)) = ToSet(ch[l]) \ {n}
    BY <1>1, InjectiveRemoveAt
  <1>3. Linked(w, l, RemoveAt(ch[l], i))
    BY <1>1, RemoveLinked
  <1>4. dh \in [Levels -> Seq(Nodes)] /\ dh[l] = RemoveAt(ch[l], i) /\ \A k \in Levels : k # l => dh[k] = ch[k]
    BY <1>1, <1>2
  <1>5. n \in Nodes /\ n \in ToSet(ch[l])
    BY <1>1, ChainFacts
  <1>6. /\ q.prev[n] # Nil => q.prev[n] \in ToSet(ch[l])
        /\ q.next[n] # Nil => q.next[n] \in ToSet(ch[l])
    <2>1. /\ q.next[n] = IF i = Len(ch[l]) THEN Nil ELSE ch[l][i + 1]
          /\ q.prev[n] = IF i = 1 THEN Nil ELSE ch[l][i - 1]
      BY <1>1 DEF Linked
    <2>2. Len(ch[l]) \in Nat /\ \A j \in 1 .. Len(ch[l]) : ch[l][j] \in ToSet(ch[l])
      BY <1>1, ChainFacts
    <2>3. (i # Len(ch[l]) => i + 1 \in 1 .. Len(ch[l])) /\ (i # 1 => i - 1 \in 1 .. Len(ch[l]))
      BY <2>2
    <2>4. QED
      BY <2>1, <2>2, <2>3
  <1> HIDE DEF n
  <1>7. /\ ListType(w)
        /\ \A k \in Levels : k # l => w.head[k] = q.head[k] /\ w.tail[k] = q.tail[k]
        /\ \A x \in Nodes : w.next[x] = IF x = n THEN Nil ELSE IF x = q.prev[n] THEN q.next[n] ELSE q.next[x]
        /\ \A x \in Nodes : w.prev[x] = IF x = n THEN Nil ELSE IF x = q.next[n] THEN q.prev[n] ELSE q.prev[x]
    BY <1>1, <1>5, RemoveEffect
  <1> HIDE DEF w, dh
  <1>8. ASSUME NEW k \in Levels, k # l PROVE Linked(w, k, ch[k])
    <2>1. ToSet(ch[k]) \subseteq Nodes /\ ToSet(ch[k]) \cap ToSet(ch[l]) = {}
      BY <1>1, <1>8, ChainFacts
    <2>2. \A x \in ToSet(ch[k]) : x \in Nodes /\ x # n /\ x # q.prev[n] /\ x # q.next[n]
      <3>1. \A x \in Nodes : x # Nil
        BY DEF Nodes, Nil
      <3>2. QED
        BY <1>5, <1>6, <2>1, <3>1
    <2>3. \A x \in ToSet(ch[k]) : w.next[x] = q.next[x]
      BY <1>7, <2>2
    <2>4. \A x \in ToSet(ch[k]) : w.prev[x] = q.prev[x]
      BY <1>7, <2>2
    <2>5. w.head[k] = q.head[k] /\ w.tail[k] = q.tail[k] /\ ch[k] \in Seq(Nodes) /\ Linked(q, k, ch[k])
      BY <1>1, <1>7, <1>8
    <2>6. QED
      BY <2>3, <2>4, <2>5, LinkedFrame
  <1>9. \A k \in Levels : IsInjective(dh[k]) /\ Linked(w, k, dh[k])
    BY <1>1, <1>2, <1>3, <1>4, <1>8
  <1>10. (\A k \in Levels : k # l => ToSet(dh[k]) = ToSet(ch[k])) /\ ToSet(dh[l]) = ToSet(ch[l]) \ {n}
    BY <1>2, <1>4
  <1>11. \A j, k \in Levels : j # k => ToSet(dh[j]) \cap ToSet(dh[k]) = {}
    BY <1>1, <1>10
  <1>12. OnNoChain(dh, n)
    BY <1>1, <1>5, <1>10 DEF OnNoChain
  <1>13. QED
    BY <1>4, <1>7, <1>9, <1>11, <1>12 DEF WellLinked, w, dh, n

(* A fresh node may have its links reset (acquire).            *)
LEMMA ResetWell ==
  ASSUME NEW q, NEW ch, WellLinked(q, ch), NEW n \in Nodes, OnNoChain(ch, n)
  PROVE  WellLinked([q EXCEPT !.prev[n] = Nil, !.next[n] = Nil], ch)
  <1> DEFINE w == [q EXCEPT !.prev[n] = Nil, !.next[n] = Nil]
  <1>1. /\ ListType(q) /\ ch \in [Levels -> Seq(Nodes)]
        /\ \A k \in Levels : ch[k] \in Seq(Nodes) /\ IsInjective(ch[k]) /\ Linked(q, k, ch[k])
        /\ \A k \in Levels : n \notin ToSet(ch[k])
    BY DEF WellLinked, OnNoChain
  <1>2. /\ q.prev \in [Nodes -> NodeOrNil] /\ q.next \in [Nodes -> NodeOrNil] /\ Nil \in NodeOrNil
        /\ w = [head |-> q.head, tail |-> q.tail, prev |-> [q.prev EXCEPT ![n] = Nil],
                next |-> [q.next EXCEPT ![n] = Nil]]
    <2>1. /\ q.prev \in [Nodes -> NodeOrNil] /\ q.next \in [Nodes -> NodeOrNil] /\ Nil \in NodeOrNil
          /\ q = [head |-> q.head, tail |-> q.tail, prev |-> q.prev, next |-> q.next]
      BY <1>1 DEF ListType, NodeOrNil
    <2> DEFINE p == [q EXCEPT !.prev[n] = Nil]
    <2>2. p = [head |-> q.head, tail |-> q.tail, prev |-> [q.prev EXCEPT ![n] = Nil], next |-> q.next]
      BY <2>1
    <2>3. w = [p EXCEPT !.next[n] = Nil]
      OBVIOUS
    <2> HIDE DEF p, w
    <2>4. QED
      BY <2>1, <2>2, <2>3
  <1>3. /\ w.head = q.head /\ w.tail = q.tail
        /\ w.prev = [q.prev EXCEPT ![n] = Nil] /\ w.next = [q.next EXCEPT ![n] = Nil]
    BY <1>2
  <1>4. ListType(w)
    BY <1>1, <1>2 DEF ListType
  <1> HIDE DEF w
  <1>5. ASSUME NEW k \in Levels PROVE Linked(w, k, ch[k])
    <2>1. \A x \in ToSet(ch[k]) : x \in Nodes /\ x # n
      BY <1>1, ChainFacts
    <2>2. \A x \in ToSet(ch[k]) : w.next[x] = q.next[x]
      BY <1>2, <1>3, <2>1
    <2>3. \A x \in ToSet(ch[k]) : w.prev[x] = q.prev[x]
      BY <1>2, <1>3, <2>1
    <2>4. w.head[k] = q.head[k] /\ w.tail[k] = q.tail[k] /\ ch[k] \in Seq(Nodes) /\ Linked(q, k, ch[k])
      BY <1>1, <1>3
    <2>5. QED
      BY <2>2, <2>3, <2>4, LinkedFrame
  <1>6. QED
    BY <1>1, <1>4, <1>5 DEF WellLinked, w

-----------------------------------------------------------------------------
(* The invariant.  Chains is what the links say the queues are; the pool   *)
(* owns the other nodes, and order_nodes and node.order are inverse.       *)

Chains == [l \in Levels |-> Forward(l)]

PoolOK ==
  /\ born \in 0 .. MaxNodes
  /\ pool \in Seq(1 .. born) /\ IsInjective(pool)
  /\ in_pool \in [Nodes -> BOOLEAN]
  /\ \A n \in Nodes : in_pool[n] <=> n \in ToSet(pool)

NodesOwned ==
  /\ \A n \in 1 .. born : ~ in_pool[n] => \E l \in Levels : n \in ToSet(Chains[l])
  /\ \A l \in Levels : \A n \in ToSet(Chains[l]) : n \in 1 .. born /\ ~ in_pool[n]

EntriesOK ==
  /\ holds \in [Nodes -> Members \cup {Nobody}]
  /\ order_nodes \in [Levels -> [Members -> NodeOrNil]]
  /\ \A l \in Levels : \A n \in ToSet(Chains[l]) : holds[n] \in Members /\ order_nodes[l][holds[n]] = n
  /\ \A l \in Levels, m \in Members :
        order_nodes[l][m] # Nil => /\ order_nodes[l][m] \in ToSet(Chains[l])
                                   /\ holds[order_nodes[l][m]] = m

QueueInv == WellLinked(Lists, Chains) /\ PoolOK /\ NodesOwned /\ EntriesOK

LEMMA ChainsAre ==
  ASSUME NEW ch, WellLinked(Lists, ch)
  PROVE  Chains = ch /\ \A l \in Levels : Backward(l) = Reverse(ch[l])
  <1>1. /\ ch \in [Levels -> Seq(Nodes)]
        /\ \A l \in Levels : ch[l] \in Seq(Nodes) /\ IsInjective(ch[l]) /\ Linked(Lists, l, ch[l])
    BY DEF WellLinked
  <1>2. /\ Lists.head = head /\ Lists.tail = tail /\ Lists.prev = prev /\ Lists.next = next
    BY DEF Lists
  <1>3. ASSUME NEW l \in Levels PROVE Forward(l) = ch[l] /\ Backward(l) = Reverse(ch[l])
    <2>1. Walk(Lists.head[l], Lists.next) = ch[l] /\ Walk(Lists.tail[l], Lists.prev) = Reverse(ch[l])
      BY <1>1, LinkedWalks
    <2>2. QED
      BY <1>2, <2>1 DEF Forward, Backward
  <1>4. Chains \in [Levels -> Seq(Nodes)] /\ \A l \in Levels : Chains[l] = ch[l]
    BY <1>1, <1>3 DEF Chains
  <1>5. Chains = ch
    BY <1>1, <1>4
  <1>6. QED
    BY <1>3, <1>5

LEMMA ChainsBecome ==
  ASSUME NEW q, NEW ch, WellLinked(q, ch), BecomeLists(q)
  PROVE  Chains' = ch /\ WellLinked(Lists', Chains')
  <1>1. /\ ListType(q) /\ ch \in [Levels -> Seq(Nodes)]
        /\ \A l \in Levels : ch[l] \in Seq(Nodes) /\ IsInjective(ch[l]) /\ Linked(q, l, ch[l])
    BY DEF WellLinked
  <1>2. head' = q.head /\ tail' = q.tail /\ prev' = q.prev /\ next' = q.next
    BY DEF BecomeLists
  <1>3. q = [head |-> q.head, tail |-> q.tail, prev |-> q.prev, next |-> q.next]
    BY <1>1 DEF ListType
  <1>4. Lists' = q
    BY <1>2, <1>3 DEF Lists
  <1>5. ASSUME NEW l \in Levels PROVE Forward(l)' = ch[l]
    <2>1. Walk(q.head[l], q.next) = ch[l]
      BY <1>1, LinkedWalks
    <2>2. Forward(l)' = Walk(head'[l], next')
      BY DEF Forward, Walk, Reached
    <2>3. QED
      BY <1>2, <2>1, <2>2
  <1>6. Chains' = [l \in Levels |-> Forward(l)']
    BY DEF Chains
  <1>7. Chains' = ch
    BY <1>1, <1>5, <1>6
  <1>8. QED
    BY <1>4, <1>7

LEMMA InvFacts ==
  ASSUME QueueInv
  PROVE  /\ WellLinked(Lists, Chains)
         /\ Chains \in [Levels -> Seq(Nodes)]
         /\ \A l \in Levels : /\ Chains[l] = Forward(l) /\ Chains[l] \in Seq(Nodes) /\ IsInjective(Chains[l])
                              /\ ToSet(Chains[l]) \subseteq Nodes
         /\ \A k, l \in Levels : k # l => ToSet(Chains[k]) \cap ToSet(Chains[l]) = {}
         /\ \A l \in Levels : head[l] = FirstOf(Chains[l])
         /\ born \in Nat /\ born <= MaxNodes /\ 1 .. born \subseteq Nodes
  <1>1. /\ WellLinked(Lists, Chains) /\ Chains \in [Levels -> Seq(Nodes)]
        /\ \A l \in Levels : IsInjective(Chains[l]) /\ Linked(Lists, l, Chains[l])
        /\ \A k, l \in Levels : k # l => ToSet(Chains[k]) \cap ToSet(Chains[l]) = {}
    BY DEF QueueInv, WellLinked
  <1>2. \A l \in Levels : Chains[l] = Forward(l)
    BY DEF Chains
  <1>3. ASSUME NEW l \in Levels PROVE ToSet(Chains[l]) \subseteq Nodes
    <2>1. Chains[l] \in Seq(Nodes)
      BY <1>1
    <2>2. QED
      BY <2>1, ToSetFacts
  <1>4. \A l \in Levels : head[l] = FirstOf(Chains[l])
    <2>1. Lists.head = head
      BY DEF Lists
    <2>2. QED
      BY <1>1, <2>1 DEF Linked
  <1>5. born \in Nat /\ born <= MaxNodes /\ 1 .. born \subseteq Nodes
    BY SizeAssumption DEF QueueInv, PoolOK, Nodes
  <1>6. QED
    BY <1>1, <1>2, <1>3, <1>4, <1>5

-----------------------------------------------------------------------------
(* The pool.                                                               *)

(* The free nodes acquire chooses from, after _preallocate if need be.     *)
LEMMA FreeFacts ==
  ASSUME PoolOK, NEW free, free = IF pool = << >> THEN Grown ELSE pool,
         NEW b, b = IF pool = << >> THEN born + Batch ELSE born, b <= MaxNodes
  PROVE  /\ b \in 0 .. MaxNodes /\ born <= b
         /\ free \in Seq(1 .. b) /\ free # << >> /\ IsInjective(free)
         /\ \A x : x \in ToSet(free) <=> x \in ToSet(pool) \/ x \in born + 1 .. b
         /\ ToSet(pool) \subseteq 1 .. born
  <1>1. /\ born \in Nat /\ Batch \in Nat \ {0} /\ MaxNodes \in Nat /\ born <= MaxNodes
        /\ pool \in Seq(1 .. born) /\ IsInjective(pool)
    BY SizeAssumption DEF PoolOK
  <1>2. ToSet(pool) \subseteq 1 .. born
    BY <1>1, ToSetFacts
  <1>3. CASE pool # << >>
    <2>1. free = pool /\ b = born
      BY <1>3
    <2>2. born + 1 .. b = {}
      BY <1>1, <2>1
    <2>3. QED
      BY <1>1, <1>2, <1>3, <2>1, <2>2
  <1>4. CASE pool = << >>
    <2> DEFINE g == [i \in 1 .. Batch |-> born + i]
    <2>1. b = born + Batch /\ b \in Nat
      BY <1>1, <1>4
    <2>2. g \in [1 .. Batch -> 1 .. b] /\ Batch \in Nat
      BY <1>1, <2>1
    <2>3. g \in Seq(1 .. b) /\ Len(g) = Batch
      <3> HIDE DEF g
      <3>1. QED
        BY <2>2, Tabulated
    <2>4. free = g
      <3>1. free = << >> \o g
        BY <1>4 DEF Grown
      <3> HIDE DEF g
      <3>2. QED
        BY <2>3, <3>1, ConcatEmptySeq
    <2>5. IsInjective(g)
      BY <1>1 DEF IsInjective
    <2>6. ToSet(pool) = {}
      BY <1>2, <1>1, <1>4, ToSetFacts
    <2>7. \A x : x \in ToSet(g) <=> x \in born + 1 .. b
      <3>1. ASSUME NEW x \in born + 1 .. b PROVE x \in ToSet(g)
        <4>1. x - born \in 1 .. Batch /\ g[x - born] = x
          BY <1>1, <2>1
        <4> HIDE DEF g
        <4>2. QED
          BY <2>3, <4>1, ToSetFacts
      <3>2. ASSUME NEW x \in ToSet(g) PROVE x \in born + 1 .. b
        <4>1. PICK i \in 1 .. Len(g) : g[i] = x
          <5> HIDE DEF g
          <5>1. QED
            BY <2>3, <3>2, ToSetFacts
        <4>2. QED
          BY <1>1, <2>1, <2>3, <4>1
      <3>3. QED
        BY <3>1, <3>2
    <2>8. g # << >>
      <3> HIDE DEF g
      <3>1. QED
        BY <1>1, <2>3, EmptySeq
    <2> HIDE DEF g
    <2>9. QED
      BY <1>1, <1>2, <2>1, <2>3, <2>4, <2>5, <2>6, <2>7, <2>8
  <1>5. QED
    BY <1>3, <1>4

LEMMA AcquireFacts ==
  ASSUME PoolOK, NEW n \in Nodes, NEW m, Acquire(n, m)
  PROVE  /\ PoolOK' /\ born \in Nat /\ born' \in Nat /\ born <= born' /\ born' <= MaxNodes
         /\ n \in 1 .. born' /\ ~ in_pool'[n] /\ (n \in 1 .. born => in_pool[n])
         /\ \A x \in 1 .. born' : x # n /\ ~ in_pool'[x] => x \in 1 .. born /\ ~ in_pool[x]
         /\ \A x \in 1 .. born : ~ in_pool[x] => ~ in_pool'[x]
         /\ holds' = [holds EXCEPT ![n] = m]
  <1> DEFINE free == IF pool = << >> THEN Grown ELSE pool
             b == IF pool = << >> THEN born + Batch ELSE born
  <1>1. /\ n = Head(free) /\ pool' = Tail(free) /\ born' = b
        /\ in_pool' = [x \in Nodes |-> x # n /\ (in_pool[x] \/ x \in ToSet(free))]
        /\ holds' = [holds EXCEPT ![n] = m] /\ (pool = << >> => born + Batch <= MaxNodes)
    BY DEF Acquire
  <1>2. born \in Nat /\ MaxNodes \in Nat /\ born <= MaxNodes
    BY SizeAssumption DEF PoolOK
  <1>3. b <= MaxNodes
    BY <1>1, <1>2
  <1>4. /\ b \in 0 .. MaxNodes /\ born <= b
        /\ free \in Seq(1 .. b) /\ free # << >> /\ IsInjective(free)
        /\ \A x : x \in ToSet(free) <=> x \in ToSet(pool) \/ x \in born + 1 .. b
        /\ ToSet(pool) \subseteq 1 .. born
    BY <1>3, FreeFacts
  <1> HIDE DEF free, b
  <1>5. /\ Tail(free) \in Seq(1 .. b) /\ IsInjective(Tail(free))
        /\ ToSet(Tail(free)) = ToSet(free) \ {n} /\ n \in ToSet(free)
    BY <1>1, <1>4, InjectiveTail
  <1>6. ToSet(free) \subseteq 1 .. b
    BY <1>4, ToSetFacts
  <1>7. \A x \in Nodes : in_pool[x] <=> x \in ToSet(pool)
    BY DEF PoolOK
  <1>8. in_pool' \in [Nodes -> BOOLEAN] /\ \A x \in Nodes : in_pool'[x] <=> x \in ToSet(pool')
    <2>1. \A x \in Nodes : in_pool'[x] <=> x # n /\ (in_pool[x] \/ x \in ToSet(free))
      BY <1>1, Zenon
    <2>2. in_pool' \in [Nodes -> BOOLEAN]
      BY <1>1
    <2>3. QED
      BY <1>1, <1>4, <1>5, <1>7, <2>1, <2>2
  <1>9. PoolOK'
    BY <1>1, <1>4, <1>5, <1>8 DEF PoolOK
  <1>10. 1 .. b \subseteq Nodes /\ 1 .. born \subseteq 1 .. b
    BY <1>2, <1>4 DEF Nodes
  <1>11. ASSUME NEW x \in 1 .. b, x # n, ~ in_pool'[x] PROVE x \in 1 .. born /\ ~ in_pool[x]
    <2>1. x \notin ToSet(free)
      BY <1>1, <1>5, <1>8, <1>10, <1>11
    <2>2. x \notin ToSet(pool) /\ x \notin born + 1 .. b
      BY <1>4, <2>1
    <2>3. QED
      BY <1>2, <1>4, <1>7, <1>10, <2>2
  <1>12. ASSUME NEW x \in 1 .. born, ~ in_pool[x] PROVE ~ in_pool'[x]
    <2>1. x \notin ToSet(pool) /\ x \notin born + 1 .. b
      BY <1>2, <1>7, <1>10, <1>12
    <2>2. QED
      BY <1>1, <1>4, <1>5, <1>8, <1>10, <2>1
  <1>13. n \in 1 .. b /\ ~ in_pool'[n]
    BY <1>1, <1>5, <1>6, <1>8
  <1>14. n \in 1 .. born => in_pool[n]
    BY <1>12, <1>13, <1>4, <1>5, <1>7, <1>2
  <1>15. born' = b /\ born' \in Nat /\ born <= born' /\ born' <= MaxNodes
    BY <1>1, <1>2, <1>4
  <1>16. \A x \in 1 .. born' : x # n /\ ~ in_pool'[x] => x \in 1 .. born /\ ~ in_pool[x]
    BY <1>11, <1>15
  <1>17. \A x \in 1 .. born : ~ in_pool[x] => ~ in_pool'[x]
    BY <1>12
  <1>18. QED
    BY <1>1, <1>2, <1>9, <1>13, <1>14, <1>15, <1>16, <1>17, Zenon

LEMMA ReleaseFacts ==
  ASSUME PoolOK, NEW n \in 1 .. born, ~ in_pool[n], Release(n)
  PROVE  /\ PoolOK' /\ born' = born
         /\ in_pool' = [in_pool EXCEPT ![n] = TRUE] /\ holds' = [holds EXCEPT ![n] = Nobody]
  <1>1. /\ pool' = Append(pool, n) /\ born' = born
        /\ in_pool' = [in_pool EXCEPT ![n] = TRUE] /\ holds' = [holds EXCEPT ![n] = Nobody]
    BY DEF Release
  <1>2. born \in Nat /\ born <= MaxNodes /\ MaxNodes \in Nat /\ n \in Nodes
    BY SizeAssumption DEF PoolOK, Nodes
  <1>3. n \notin ToSet(pool)
    BY <1>2 DEF PoolOK
  <1>4. pool' \in Seq(1 .. born) /\ IsInjective(pool') /\ ToSet(pool') = ToSet(pool) \cup {n}
    <2> DEFINE S == 1 .. born
    <2>1. pool \in Seq(S) /\ IsInjective(pool) /\ n \in S
      BY DEF PoolOK
    <2> HIDE DEF S
    <2>2. Append(pool, n) \in Seq(S) /\ IsInjective(Append(pool, n)) /\ ToSet(Append(pool, n)) = ToSet(pool) \cup {n}
      BY <1>3, <2>1, InjectiveAppend
    <2>3. QED
      BY <1>1, <2>2 DEF S
  <1>5. in_pool' \in [Nodes -> BOOLEAN] /\ \A x \in Nodes : in_pool'[x] <=> x \in ToSet(pool')
    <2>1. in_pool \in [Nodes -> BOOLEAN] /\ \A x \in Nodes : in_pool[x] <=> x \in ToSet(pool)
      BY DEF PoolOK
    <2>2. in_pool' \in [Nodes -> BOOLEAN]
      BY <1>1, <2>1
    <2>3. in_pool'[n] /\ \A x \in Nodes : x # n => in_pool'[x] = in_pool[x]
      BY <1>1, <1>2, <2>1
    <2>4. QED
      BY <1>4, <2>1, <2>2, <2>3
  <1>6. QED
    BY <1>1, <1>4, <1>5 DEF PoolOK

-----------------------------------------------------------------------------
(* The operations.                                                         *)

(* An order that joins a level.                                            *)
LEMMA AppendInv ==
  ASSUME QueueInv, NEW l \in Levels, NEW m \in Members, LevelAppend(l, m)
  PROVE  /\ QueueInv' /\ taken' = Nobody
         /\ \E n \in Nodes : /\ OnNoChain(Chains, n)
                             /\ Chains' = [Chains EXCEPT ![l] = Append(Chains[l], n)]
                             /\ holds' = [holds EXCEPT ![n] = m]
  <1>1. PICK n \in Nodes :
          /\ Acquire(n, m)
          /\ BecomeLists(ListAppend([Lists EXCEPT !.prev[n] = Nil, !.next[n] = Nil], l, n))
          /\ order_nodes' = [order_nodes EXCEPT ![l][m] = n]
    BY DEF LevelAppend
  <1>2. taken' = Nobody /\ \A k \in Levels : order_nodes[k][m] = Nil
    BY DEF LevelAppend
  <1> DEFINE dh == [Chains EXCEPT ![l] = Append(Chains[l], n)]
  <1>3. /\ PoolOK' /\ born \in Nat /\ born' \in Nat /\ born <= born' /\ born' <= MaxNodes
        /\ n \in 1 .. born' /\ ~ in_pool'[n] /\ (n \in 1 .. born => in_pool[n])
        /\ \A x \in 1 .. born' : x # n /\ ~ in_pool'[x] => x \in 1 .. born /\ ~ in_pool[x]
        /\ \A x \in 1 .. born : ~ in_pool[x] => ~ in_pool'[x]
        /\ holds' = [holds EXCEPT ![n] = m]
    BY <1>1, AcquireFacts DEF QueueInv
  <1>4. OnNoChain(Chains, n)
    BY <1>3 DEF OnNoChain, QueueInv, NodesOwned
  <1>5. WellLinked([Lists EXCEPT !.prev[n] = Nil, !.next[n] = Nil], Chains)
    BY <1>4, ResetWell DEF QueueInv
  <1>6. WellLinked(ListAppend([Lists EXCEPT !.prev[n] = Nil, !.next[n] = Nil], l, n), dh)
    BY <1>4, <1>5, AppendWell
  <1>7. Chains' = dh /\ WellLinked(Lists', Chains')
    BY <1>1, <1>6, ChainsBecome
  <1>8. /\ dh[l] = Append(Chains[l], n) /\ \A k \in Levels : k # l => dh[k] = Chains[k]
    BY InvFacts
  <1>9. /\ ToSet(dh[l]) = ToSet(Chains[l]) \cup {n}
        /\ \A k \in Levels : k # l => ToSet(dh[k]) = ToSet(Chains[k])
    <2>1. ToSet(Append(Chains[l], n)) = ToSet(Chains[l]) \cup {n}
      BY InvFacts, AppendFacts
    <2>2. QED
      BY <1>8, <2>1
  <1> HIDE DEF dh
  <1>10. NodesOwned'
    <2>1. ASSUME NEW x \in 1 .. born', ~ in_pool'[x] PROVE \E k \in Levels : x \in ToSet(dh[k])
      <3>1. CASE x = n
        BY <1>9, <3>1
      <3>2. CASE x # n
        <4>1. PICK k \in Levels : x \in ToSet(Chains[k])
          BY <1>3, <2>1, <3>2 DEF QueueInv, NodesOwned
        <4>2. QED
          BY <1>9, <4>1
      <3>3. QED
        BY <3>1, <3>2
    <2>2. ASSUME NEW k \in Levels, NEW x \in ToSet(dh[k]) PROVE x \in 1 .. born' /\ ~ in_pool'[x]
      <3>1. CASE x = n
        BY <1>3, <3>1
      <3>2. CASE x # n
        <4>1. x \in ToSet(Chains[k])
          BY <1>9, <2>2, <3>2
        <4>2. x \in 1 .. born /\ ~ in_pool[x]
          BY <4>1 DEF QueueInv, NodesOwned
        <4>3. QED
          BY <1>3, <4>2
      <3>3. QED
        BY <3>1, <3>2
    <2>3. QED
      BY <1>7, <2>1, <2>2 DEF NodesOwned
  <1>11. EntriesOK'
    <2>1. /\ holds \in [Nodes -> Members \cup {Nobody}]
          /\ order_nodes \in [Levels -> [Members -> NodeOrNil]]
          /\ \A k \in Levels : \A x \in ToSet(Chains[k]) : holds[x] \in Members /\ order_nodes[k][holds[x]] = x
          /\ \A k \in Levels, p \in Members :
                order_nodes[k][p] # Nil => /\ order_nodes[k][p] \in ToSet(Chains[k])
                                           /\ holds[order_nodes[k][p]] = p
      BY DEF QueueInv, EntriesOK
    <2>2. /\ holds' \in [Nodes -> Members \cup {Nobody}] /\ holds'[n] = m
          /\ \A x \in Nodes : x # n => holds'[x] = holds[x]
      BY <1>3, <2>1
    <2>3. /\ order_nodes' \in [Levels -> [Members -> NodeOrNil]] /\ order_nodes'[l][m] = n
          /\ \A k \in Levels, p \in Members : k # l \/ p # m => order_nodes'[k][p] = order_nodes[k][p]
      BY <1>1, <2>1 DEF NodeOrNil
    <2>4. \A k \in Levels : ToSet(Chains[k]) \subseteq Nodes /\ n \notin ToSet(Chains[k])
      BY <1>4, InvFacts DEF OnNoChain
    <2>5. \A x \in Nodes : x # Nil
      BY DEF Nodes, Nil
    <2>6. ASSUME NEW k \in Levels, NEW x \in ToSet(dh[k])
          PROVE  holds'[x] \in Members /\ order_nodes'[k][holds'[x]] = x
      <3>1. CASE x = n
        <4>1. k = l
          BY <1>9, <2>4, <2>6, <3>1
        <4>2. QED
          BY <2>2, <2>3, <3>1, <4>1
      <3>2. CASE x # n
        <4>1. x \in ToSet(Chains[k]) /\ x \in Nodes
          BY <1>9, <2>4, <2>6, <3>2
        <4>2. holds'[x] = holds[x] /\ holds[x] \in Members /\ order_nodes[k][holds[x]] = x /\ x # Nil
          BY <2>1, <2>2, <2>5, <3>2, <4>1
        <4>3. k # l \/ holds[x] # m
          BY <1>2, <4>2
        <4>4. QED
          BY <2>3, <4>2, <4>3
      <3>3. QED
        BY <3>1, <3>2
    <2>7. ASSUME NEW k \in Levels, NEW p \in Members, order_nodes'[k][p] # Nil
          PROVE  order_nodes'[k][p] \in ToSet(dh[k]) /\ holds'[order_nodes'[k][p]] = p
      <3>1. CASE k = l /\ p = m
        BY <1>9, <2>2, <2>3, <3>1
      <3>2. CASE k # l \/ p # m
        <4>1. order_nodes'[k][p] = order_nodes[k][p]
          BY <2>3, <3>2
        <4>2. order_nodes[k][p] \in ToSet(Chains[k]) /\ holds[order_nodes[k][p]] = p
          BY <2>1, <2>7, <4>1
        <4>3. order_nodes[k][p] \in ToSet(dh[k]) /\ order_nodes[k][p] \in Nodes /\ order_nodes[k][p] # n
          BY <1>9, <2>4, <4>2
        <4>4. QED
          BY <2>2, <4>1, <4>2, <4>3
      <3>3. QED
        BY <3>1, <3>2
    <2>8. QED
      BY <1>7, <2>2, <2>3, <2>6, <2>7 DEF EntriesOK
  <1>12. QED
    BY <1>2, <1>3, <1>4, <1>7, <1>10, <1>11 DEF QueueInv, dh

(* Whoever leaves a level, from its head or from anywhere: remove and      *)
(* pop_head do the same to the node.                                       *)
TakesOff(l, n) ==
  /\ BecomeLists(ListRemove(Lists, l, n))
  /\ order_nodes' = [order_nodes EXCEPT ![l][holds[n]] = Nil]
  /\ Release(n)
  /\ taken' = holds[n]

LEMMA TakesOffInv ==
  ASSUME QueueInv, NEW l \in Levels, NEW i \in 1 .. Len(Chains[l]), TakesOff(l, Chains[l][i])
  PROVE  /\ QueueInv' /\ taken' = holds[Chains[l][i]]
         /\ Chains' = [Chains EXCEPT ![l] = RemoveAt(Chains[l], i)]
         /\ holds' = [holds EXCEPT ![Chains[l][i]] = Nobody]
         /\ OnNoChain(Chains', Chains[l][i])
  <1> DEFINE n == Chains[l][i]
             m == holds[n]
             dh == [Chains EXCEPT ![l] = RemoveAt(Chains[l], i)]
  <1>1. /\ BecomeLists(ListRemove(Lists, l, n)) /\ order_nodes' = [order_nodes EXCEPT ![l][m] = Nil]
        /\ Release(n) /\ taken' = m
    BY DEF TakesOff
  <1>2. n \in ToSet(Chains[l]) /\ n \in Nodes
    BY InvFacts, ToSetFacts
  <1>3. /\ n \in 1 .. born /\ ~ in_pool[n] /\ m \in Members /\ order_nodes[l][m] = n
    BY <1>2 DEF QueueInv, NodesOwned, EntriesOK
  <1>4. WellLinked(ListRemove(Lists, l, n), dh) /\ OnNoChain(dh, n)
    BY RemoveWell DEF QueueInv
  <1>5. Chains' = dh /\ WellLinked(Lists', Chains')
    BY <1>1, <1>4, ChainsBecome
  <1>6. /\ dh[l] = RemoveAt(Chains[l], i) /\ \A k \in Levels : k # l => dh[k] = Chains[k]
    BY InvFacts
  <1>7. /\ ToSet(dh[l]) = ToSet(Chains[l]) \ {n}
        /\ \A k \in Levels : k # l => ToSet(dh[k]) = ToSet(Chains[k])
    <2>1. ToSet(RemoveAt(Chains[l], i)) = ToSet(Chains[l]) \ {n}
      BY InvFacts, InjectiveRemoveAt
    <2>2. QED
      BY <1>6, <2>1
  <1> HIDE DEF n, dh
  <1>8. /\ PoolOK' /\ born' = born /\ in_pool' = [in_pool EXCEPT ![n] = TRUE]
        /\ holds' = [holds EXCEPT ![n] = Nobody]
    BY <1>1, <1>3, ReleaseFacts DEF QueueInv
  <1>9. in_pool'[n] /\ \A x \in Nodes : x # n => in_pool'[x] = in_pool[x]
    BY <1>2, <1>8 DEF QueueInv, PoolOK
  <1>10. \A k \in Levels : ToSet(Chains[k]) \subseteq Nodes
    BY InvFacts
  <1>11. 1 .. born \subseteq Nodes
    BY InvFacts
  <1>12. NodesOwned'
    <2>1. ASSUME NEW x \in 1 .. born', ~ in_pool'[x] PROVE \E k \in Levels : x \in ToSet(dh[k])
      <3>1. x \in 1 .. born /\ x \in Nodes /\ x # n /\ ~ in_pool[x]
        BY <1>8, <1>9, <1>11, <2>1
      <3>2. PICK k \in Levels : x \in ToSet(Chains[k])
        BY <3>1 DEF QueueInv, NodesOwned
      <3>3. QED
        BY <1>7, <3>1, <3>2
    <2>2. ASSUME NEW k \in Levels, NEW x \in ToSet(dh[k]) PROVE x \in 1 .. born' /\ ~ in_pool'[x]
      <3>1. x \in ToSet(Chains[k]) /\ x # n
        BY <1>4, <1>7, <2>2 DEF OnNoChain
      <3>2. x \in 1 .. born /\ ~ in_pool[x] /\ x \in Nodes
        BY <1>10, <3>1 DEF QueueInv, NodesOwned
      <3>3. QED
        BY <1>8, <1>9, <3>1, <3>2
    <2>3. QED
      BY <1>5, <2>1, <2>2 DEF NodesOwned
  <1>13. EntriesOK'
    <2>1. /\ holds \in [Nodes -> Members \cup {Nobody}]
          /\ order_nodes \in [Levels -> [Members -> NodeOrNil]]
          /\ \A k \in Levels : \A x \in ToSet(Chains[k]) : holds[x] \in Members /\ order_nodes[k][holds[x]] = x
          /\ \A k \in Levels, p \in Members :
                order_nodes[k][p] # Nil => /\ order_nodes[k][p] \in ToSet(Chains[k])
                                           /\ holds[order_nodes[k][p]] = p
      BY DEF QueueInv, EntriesOK
    <2>2. /\ holds' \in [Nodes -> Members \cup {Nobody}]
          /\ \A x \in Nodes : x # n => holds'[x] = holds[x]
      BY <1>8, <2>1
    <2>3. /\ order_nodes' \in [Levels -> [Members -> NodeOrNil]] /\ order_nodes'[l][m] = Nil
          /\ \A k \in Levels, p \in Members : k # l \/ p # m => order_nodes'[k][p] = order_nodes[k][p]
      <3> HIDE DEF m
      <3>1. QED
        BY <1>1, <1>3, <2>1 DEF NodeOrNil
    <2> HIDE DEF m
    <2>4. ASSUME NEW k \in Levels, NEW x \in ToSet(dh[k])
          PROVE  holds'[x] \in Members /\ order_nodes'[k][holds'[x]] = x
      <3>1. x \in ToSet(Chains[k]) /\ x # n /\ x \in Nodes
        BY <1>4, <1>7, <1>10, <2>4 DEF OnNoChain
      <3>2. holds'[x] = holds[x] /\ holds[x] \in Members /\ order_nodes[k][holds[x]] = x
        BY <2>1, <2>2, <3>1
      <3>3. k # l \/ holds[x] # m
        BY <1>3, <3>1, <3>2
      <3>4. QED
        BY <2>3, <3>2, <3>3
    <2>5. ASSUME NEW k \in Levels, NEW p \in Members, order_nodes'[k][p] # Nil
          PROVE  order_nodes'[k][p] \in ToSet(dh[k]) /\ holds'[order_nodes'[k][p]] = p
      <3>1. k # l \/ p # m
        BY <2>3, <2>5
      <3>2. order_nodes'[k][p] = order_nodes[k][p]
        BY <2>3, <3>1
      <3>3. order_nodes[k][p] \in ToSet(Chains[k]) /\ holds[order_nodes[k][p]] = p
        BY <2>1, <2>5, <3>2
      <3>4. order_nodes[k][p] # n
        <4>1. CASE k = l
          BY <3>1, <3>3, <4>1 DEF m
        <4>2. CASE k # l
          BY <1>2, <3>3, <4>2, InvFacts
        <4>3. QED
          BY <4>1, <4>2
      <3>5. order_nodes[k][p] \in ToSet(dh[k]) /\ order_nodes[k][p] \in Nodes
        BY <1>7, <1>10, <3>3, <3>4
      <3>6. QED
        BY <2>2, <3>2, <3>3, <3>4, <3>5
    <2>6. QED
      BY <1>5, <2>2, <2>3, <2>4, <2>5 DEF EntriesOK
  <1>14. QED
    BY <1>1, <1>4, <1>5, <1>8, <1>12, <1>13 DEF QueueInv, dh, n

LEMMA RemoveTakesOff ==
  ASSUME QueueInv, NEW l \in Levels, NEW m \in Members, LevelRemove(l, m)
  PROVE  \E i \in 1 .. Len(Chains[l]) : TakesOff(l, Chains[l][i])
  <1> DEFINE n == order_nodes[l][m]
  <1>1. /\ n # Nil /\ BecomeLists(ListRemove(Lists, l, n))
        /\ order_nodes' = [order_nodes EXCEPT ![l][m] = Nil] /\ Release(n) /\ taken' = m
    BY DEF LevelRemove
  <1>2. n \in ToSet(Chains[l]) /\ holds[n] = m
    BY <1>1 DEF QueueInv, EntriesOK
  <1> HIDE DEF n
  <1>3. TakesOff(l, n)
    BY <1>1, <1>2 DEF TakesOff
  <1>4. PICK i \in 1 .. Len(Chains[l]) : Chains[l][i] = n
    BY <1>2, InvFacts, ChainFacts
  <1>5. QED
    BY <1>3, <1>4

LEMMA HeadIsFirst ==
  ASSUME QueueInv, NEW l \in Levels, head[l] # Nil
  PROVE  /\ Chains[l] # << >> /\ 1 \in 1 .. Len(Chains[l]) /\ head[l] = Chains[l][1]
         /\ holds[head[l]] \in Members /\ order_nodes[l][holds[head[l]]] = head[l]
  <1>1. head[l] = FirstOf(Chains[l]) /\ Chains[l] \in Seq(Nodes) /\ IsInjective(Chains[l])
    BY InvFacts
  <1>2. Chains[l] # << >> /\ head[l] = Chains[l][1]
    BY <1>1 DEF FirstOf
  <1>3. Len(Chains[l]) \in Nat /\ Len(Chains[l]) # 0 /\ \A i \in 1 .. Len(Chains[l]) : Chains[l][i] \in ToSet(Chains[l])
    BY <1>1, <1>2, ChainFacts
  <1>4. 1 \in 1 .. Len(Chains[l]) /\ head[l] \in ToSet(Chains[l])
    BY <1>2, <1>3
  <1>5. QED
    BY <1>2, <1>4 DEF QueueInv, EntriesOK

LEMMA PopTakesOff ==
  ASSUME QueueInv, NEW l \in Levels, PopHead(l)
  PROVE  Chains[l] # << >> /\ 1 \in 1 .. Len(Chains[l]) /\ TakesOff(l, Chains[l][1])
  <1>1. /\ head[l] # Nil /\ BecomeLists(ListRemove(Lists, l, head[l]))
        /\ order_nodes' = [order_nodes EXCEPT ![l][holds[head[l]]] = Nil]
        /\ Release(head[l]) /\ taken' = holds[head[l]]
    BY DEF PopHead
  <1>2. Chains[l] # << >> /\ 1 \in 1 .. Len(Chains[l]) /\ head[l] = Chains[l][1]
    BY <1>1, HeadIsFirst
  <1>3. TakesOff(l, head[l])
    BY <1>1 DEF TakesOff
  <1>4. QED
    BY <1>2, <1>3

(* An iceberg whose next tranche goes to the end of its queue.             *)
LEMMA ReplenishInv ==
  ASSUME QueueInv, NEW l \in Levels, Replenish(l)
  PROVE  /\ QueueInv' /\ taken' = Nobody /\ UNCHANGED holds
         /\ Chains[l] # << >> /\ 1 \in 1 .. Len(Chains[l])
         /\ Chains' = [Chains EXCEPT ![l] = Append(RemoveAt(Chains[l], 1), Chains[l][1])]
  <1> DEFINE n == Chains[l][1]
             bh == [Chains EXCEPT ![l] = RemoveAt(Chains[l], 1)]
             dh == [bh EXCEPT ![l] = Append(bh[l], n)]
             eh == [Chains EXCEPT ![l] = Append(RemoveAt(Chains[l], 1), n)]
  <1>1. /\ head[l] # Nil /\ taken' = Nobody /\ UNCHANGED <<holds, pool, in_pool, born, order_nodes>>
        /\ LET x == order_nodes[l][holds[head[l]]]
           IN  BecomeLists(ListAppend(ListRemove(Lists, l, x), l, x))
    BY DEF Replenish
  <1>2. /\ Chains[l] # << >> /\ 1 \in 1 .. Len(Chains[l])
        /\ head[l] = n /\ order_nodes[l][holds[head[l]]] = n
    BY <1>1, HeadIsFirst
  <1>3. n \in Nodes /\ n \in ToSet(Chains[l])
    BY <1>2, InvFacts, ChainFacts
  <1>4. WellLinked(ListRemove(Lists, l, n), bh) /\ OnNoChain(bh, n)
    BY <1>2, RemoveWell DEF QueueInv
  <1>5. WellLinked(ListAppend(ListRemove(Lists, l, n), l, n), dh)
    <2> HIDE DEF n, bh
    <2>1. QED
      BY <1>3, <1>4, AppendWell
  <1>6. dh = eh
    BY InvFacts
  <1> HIDE DEF dh, bh
  <1>7. Chains' = eh /\ WellLinked(Lists', Chains')
    <2>1. BecomeLists(ListAppend(ListRemove(Lists, l, n), l, n))
      BY <1>1, <1>2
    <2> HIDE DEF n, eh
    <2>2. QED
      BY <1>5, <1>6, <2>1, ChainsBecome
  <1>8. \A k \in Levels : ToSet(eh[k]) = ToSet(Chains[k])
    <2>1. RemoveAt(Chains[l], 1) \in Seq(Nodes) /\ ToSet(RemoveAt(Chains[l], 1)) = ToSet(Chains[l]) \ {n}
      BY <1>2, InvFacts, InjectiveRemoveAt
    <2>2. ToSet(Append(RemoveAt(Chains[l], 1), n)) = ToSet(RemoveAt(Chains[l], 1)) \cup {n}
      BY <1>3, <2>1, AppendFacts
    <2>3. eh[l] = Append(RemoveAt(Chains[l], 1), n) /\ \A k \in Levels : k # l => eh[k] = Chains[k]
      BY InvFacts
    <2>4. QED
      BY <1>3, <2>1, <2>2, <2>3
  <1> HIDE DEF eh
  <1>9. PoolOK'
    BY <1>1 DEF QueueInv, PoolOK
  <1>10. NodesOwned'
    <2>1. /\ \A x \in 1 .. born : ~ in_pool[x] => \E k \in Levels : x \in ToSet(eh[k])
          /\ \A k \in Levels : \A x \in ToSet(eh[k]) : x \in 1 .. born /\ ~ in_pool[x]
      BY <1>8 DEF QueueInv, NodesOwned
    <2>2. QED
      BY <1>1, <1>7, <2>1 DEF NodesOwned
  <1>11. EntriesOK'
    <2>1. /\ holds \in [Nodes -> Members \cup {Nobody}]
          /\ order_nodes \in [Levels -> [Members -> NodeOrNil]]
          /\ \A k \in Levels : \A x \in ToSet(eh[k]) : holds[x] \in Members /\ order_nodes[k][holds[x]] = x
          /\ \A k \in Levels, p \in Members :
                order_nodes[k][p] # Nil => /\ order_nodes[k][p] \in ToSet(eh[k])
                                           /\ holds[order_nodes[k][p]] = p
      BY <1>8 DEF QueueInv, EntriesOK
    <2>2. QED
      BY <1>1, <1>7, <2>1 DEF EntriesOK
  <1>12. QED
    BY <1>1, <1>2, <1>7, <1>9, <1>10, <1>11 DEF QueueInv, eh

LEMMA InitInv == Init => QueueInv /\ Chains = [l \in Levels |-> << >>]
  <1> SUFFICES ASSUME Init PROVE QueueInv /\ Chains = [l \in Levels |-> << >>]
    OBVIOUS
  <1> DEFINE ch == [l \in Levels |-> << >>]
  <1>1. ListType(Lists)
    BY DEF Init, Lists, ListType, NodeOrNil
  <1>2. \A l \in Levels : ch[l] = << >> /\ IsInjective(ch[l]) /\ ToSet(ch[l]) = {} /\ Len(ch[l]) = 0
    BY DEF IsInjective, ToSet
  <1>3. ch \in [Levels -> Seq(Nodes)]
    BY EmptySeq
  <1>4. Lists.head = head /\ Lists.tail = tail
    BY DEF Lists
  <1>5. \A l \in Levels : Linked(Lists, l, ch[l])
    BY <1>2, <1>4 DEF Init, Linked, FirstOf, LastOf
  <1> HIDE DEF ch
  <1>6. WellLinked(Lists, ch)
    BY <1>1, <1>2, <1>3, <1>5 DEF WellLinked
  <1>7. Chains = ch
    BY <1>6, ChainsAre
  <1>8. PoolOK
    <2>1. /\ pool = [i \in 1 .. Initial |-> i] /\ born = Initial /\ in_pool = [n \in Nodes |-> n <= Initial]
          /\ Initial \in Nat /\ MaxNodes \in Nat /\ Initial <= MaxNodes
      BY SizeAssumption DEF Init
    <2> DEFINE f == [i \in 1 .. Initial |-> i]
    <2>2. f \in [1 .. Initial -> 1 .. Initial]
      OBVIOUS
    <2>3. IsInjective(f)
      BY DEF IsInjective
    <2>4. \A i \in 1 .. Initial : f[i] = i
      OBVIOUS
    <2> HIDE DEF f
    <2>5. f \in Seq(1 .. Initial) /\ Len(f) = Initial
      BY <2>1, <2>2, Tabulated
    <2>6. \A n \in Nodes : n <= Initial <=> n \in ToSet(f)
      <3>1. ASSUME NEW n \in Nodes, n <= Initial PROVE n \in ToSet(f)
        <4>1. n \in 1 .. Initial /\ f[n] = n
          BY <2>1, <2>4, <3>1 DEF Nodes
        <4>2. QED
          BY <2>5, <4>1, ToSetFacts
      <3>2. ASSUME NEW n \in Nodes, n \in ToSet(f) PROVE n <= Initial
        <4>1. ToSet(f) \subseteq 1 .. Initial
          BY <2>5, ToSetFacts
        <4>2. QED
          BY <2>1, <3>2, <4>1
      <3>3. QED
        BY <3>1, <3>2
    <2>7. in_pool \in [Nodes -> BOOLEAN] /\ \A n \in Nodes : in_pool[n] <=> n \in ToSet(f)
      <3>1. \A n \in Nodes : in_pool[n] <=> n <= Initial
        BY <2>1
      <3>2. in_pool \in [Nodes -> BOOLEAN]
        BY <2>1
      <3>3. QED
        BY <2>6, <3>1, <3>2
    <2>8. pool = f
      BY <2>1 DEF f
    <2>9. QED
      BY <2>1, <2>3, <2>5, <2>7, <2>8 DEF PoolOK
  <1>9. NodesOwned
    <2>1. \A n \in 1 .. born : in_pool[n]
      <3>1. born = Initial /\ in_pool = [n \in Nodes |-> n <= Initial]
        BY DEF Init
      <3>2. \A n \in 1 .. Initial : n \in Nodes /\ n <= Initial
        BY SizeAssumption DEF Nodes
      <3>3. QED
        BY <3>1, <3>2
    <2>2. \A l \in Levels : ToSet(Chains[l]) = {}
      BY <1>2, <1>7
    <2>3. QED
      BY <2>1, <2>2 DEF NodesOwned
  <1>10. EntriesOK
    BY <1>2, <1>7 DEF Init, EntriesOK, NodeOrNil
  <1>11. QED
    BY <1>6, <1>7, <1>8, <1>9, <1>10 DEF QueueInv, ch

(* Every step of the list keeps the invariant.                             *)
LEMMA StepInv == QueueInv /\ [Next]_vars => QueueInv'
  <1> SUFFICES ASSUME QueueInv, [Next]_vars PROVE QueueInv'
    OBVIOUS
  <1>1. ASSUME NEW l \in Levels, NEW m \in Members, LevelAppend(l, m) PROVE QueueInv'
    BY <1>1, AppendInv
  <1>2. ASSUME NEW l \in Levels, NEW m \in Members, LevelRemove(l, m) PROVE QueueInv'
    BY <1>2, RemoveTakesOff, TakesOffInv
  <1>3. ASSUME NEW l \in Levels, PopHead(l) PROVE QueueInv'
    BY <1>3, PopTakesOff, TakesOffInv
  <1>4. ASSUME NEW l \in Levels, Replenish(l) PROVE QueueInv'
    BY <1>4, ReplenishInv
  <1>5. CASE UNCHANGED vars
    <2>1. Lists' = Lists /\ Chains' = Chains
      BY <1>5 DEF vars, Lists, Chains, Forward, Walk, Reached
    <2>2. QED
      BY <1>5, <2>1 DEF vars, QueueInv, PoolOK, NodesOwned, EntriesOK
  <1>6. QED
    BY <1>1, <1>2, <1>3, <1>4, <1>5 DEF Next

-----------------------------------------------------------------------------
(* The theorems.                                                           *)

(* In every reachable state the links of each level form one chain from    *)
(* its head to its tail, chains and pool share the nodes among them, and   *)
(* order_nodes finds every queued order.                                   *)
THEOREM QueueInvHolds == Spec => []QueueInv
  <1>1. Init => QueueInv
    BY InitInv
  <1>2. QueueInv /\ [Next]_vars => QueueInv'
    BY StepInv
  <1>3. QED
    BY <1>1, <1>2, PTL DEF Spec

LEMMA InvMirrors == QueueInv => LinksMirror
  <1>1. ASSUME QueueInv, NEW l \in Levels PROVE Backward(l) = Reverse(Forward(l))
    <2>1. WellLinked(Lists, Chains)
      BY <1>1 DEF QueueInv
    <2>2. Backward(l) = Reverse(Chains[l])
      BY <2>1, ChainsAre
    <2>3. Chains[l] = Forward(l)
      BY DEF Chains
    <2>4. QED
      BY <2>2, <2>3
  <1>2. QED
    BY <1>1 DEF LinksMirror

LEMMA InvConserves == QueueInv => NodesConserved
  <1> SUFFICES ASSUME QueueInv PROVE NodesConserved
    OBVIOUS
  <1>1. IsInjective(pool)
    BY DEF QueueInv, PoolOK
  <1>2. \A l \in Levels : Forward(l) = Chains[l]
    BY DEF Chains
  <1>3. ASSUME NEW n \in 1 .. born
        PROVE  LET linked == {l \in Levels : n \in ToSet(Forward(l))}
               IN  IF in_pool[n] THEN n \in ToSet(pool) /\ linked = {}
                   ELSE n \notin ToSet(pool) /\ \E l \in Levels : linked = {l}
    <2>1. n \in Nodes /\ (in_pool[n] <=> n \in ToSet(pool))
      BY InvFacts DEF QueueInv, PoolOK
    <2>2. CASE in_pool[n]
      <3>1. \A l \in Levels : n \notin ToSet(Chains[l])
        BY <2>2 DEF QueueInv, NodesOwned
      <3>2. QED
        BY <1>2, <2>1, <2>2, <3>1
    <2>3. CASE ~ in_pool[n]
      <3>1. PICK l \in Levels : n \in ToSet(Chains[l])
        BY <2>3 DEF QueueInv, NodesOwned
      <3>2. \A k \in Levels : k # l => n \notin ToSet(Chains[k])
        BY <3>1, InvFacts
      <3>3. {k \in Levels : n \in ToSet(Forward(k))} = {l}
        BY <1>2, <3>1, <3>2
      <3>4. QED
        BY <2>1, <2>3, <3>3
    <2>4. QED
      BY <2>2, <2>3
  <1>4. QED
    BY <1>1, <1>3 DEF NodesConserved

LEMMA InvFinds == QueueInv => EntriesFindNodes
  <1> SUFFICES ASSUME QueueInv, NEW l \in Levels, NEW m \in Members
               PROVE  LET n == order_nodes[l][m]
                      IN  /\ n # Nil => n \in ToSet(Forward(l)) /\ holds[n] = m
                          /\ n = Nil => \A x \in ToSet(Forward(l)) : holds[x] # m
    BY DEF EntriesFindNodes
  <1>1. Forward(l) = Chains[l]
    BY DEF Chains
  <1>2. \A x \in ToSet(Chains[l]) : x # Nil
    BY InvFacts DEF Nodes, Nil
  <1>3. QED
    BY <1>1, <1>2 DEF QueueInv, EntriesOK

(* A walk from the tail along prev meets the nodes of the walk from the    *)
(* head along next in reverse, whatever was removed in between.            *)
THEOREM LinksAgree == Spec => []LinksMirror
  BY QueueInvHolds, InvMirrors, PTL

(* No node of the pool is lost, handed out twice or linked at two levels.  *)
THEOREM NodesStayConserved == Spec => []NodesConserved
  BY QueueInvHolds, InvConserves, PTL

(* order_nodes names the node of each queued order and no other.           *)
THEOREM EntriesFind == Spec => []EntriesFindNodes
  BY QueueInvHolds, InvFinds, PTL

-----------------------------------------------------------------------------
(* The queues the chains stand for.                                        *)

Held(h, c) == [i \in 1 .. Len(c) |-> h[c[i]]]

Queues == [l \in Levels |-> Held(holds, Chains[l])]

(* A sequence is determined by its length and its elements.                *)
LEMMA SameSequence ==
  ASSUME NEW S, NEW p \in Seq(S), NEW T, NEW q \in Seq(T), Len(p) = Len(q),
         \A i \in 1 .. Len(p) : p[i] = q[i]
  PROVE  p = q
  <1>1. Len(p) \in Nat /\ p = [i \in 1 .. Len(p) |-> p[i]] /\ q = [i \in 1 .. Len(q) |-> q[i]]
    BY LenProperties
  <1>2. QED
    BY <1>1

LEMMA HeldFacts ==
  ASSUME NEW T, NEW h \in [Nodes -> T], NEW c \in Seq(Nodes)
  PROVE  /\ Held(h, c) \in Seq(T) /\ Len(Held(h, c)) = Len(c)
         /\ \A i \in 1 .. Len(c) : Held(h, c)[i] = h[c[i]]
         /\ (Held(h, c) = << >> <=> c = << >>)
  <1>1. Len(c) \in Nat /\ \A i \in 1 .. Len(c) : c[i] \in Nodes
    BY LenProperties, ElementOfSeq
  <1>2. Held(h, c) \in [1 .. Len(c) -> T] /\ \A i \in 1 .. Len(c) : Held(h, c)[i] = h[c[i]]
    BY <1>1 DEF Held
  <1>3. Held(h, c) \in Seq(T) /\ Len(Held(h, c)) = Len(c)
    BY <1>1, <1>2, Tabulated
  <1>4. Held(h, c) = << >> <=> c = << >>
    BY <1>3, EmptySeq
  <1>5. QED
    BY <1>2, <1>3, <1>4

LEMMA HeldAppend ==
  ASSUME NEW T, NEW h \in [Nodes -> T], NEW c \in Seq(Nodes), NEW n \in Nodes
  PROVE  Held(h, Append(c, n)) = Append(Held(h, c), h[n])
  <1> DEFINE d == Append(c, n)
             p == Held(h, d)
             q == Append(Held(h, c), h[n])
  <1>1. /\ d \in Seq(Nodes) /\ Len(d) = Len(c) + 1 /\ Len(c) \in Nat
        /\ \A i \in 1 .. Len(c) : d[i] = c[i]
        /\ d[Len(c) + 1] = n
    BY AppendFacts, LenProperties
  <1>2. h[n] \in T
    OBVIOUS
  <1>3. /\ Held(h, c) \in Seq(T) /\ Len(Held(h, c)) = Len(c)
        /\ \A i \in 1 .. Len(c) : Held(h, c)[i] = h[c[i]]
    BY HeldFacts
  <1>4. /\ q \in Seq(T) /\ Len(q) = Len(c) + 1
        /\ \A i \in 1 .. Len(c) : q[i] = h[c[i]]
        /\ q[Len(c) + 1] = h[n]
    BY <1>2, <1>3, AppendFacts
  <1> HIDE DEF d, q
  <1>5. p \in Seq(T) /\ Len(p) = Len(c) + 1 /\ \A i \in 1 .. Len(c) + 1 : p[i] = h[d[i]]
    BY <1>1, HeldFacts
  <1> HIDE DEF p
  <1>6. \A i \in 1 .. Len(p) : p[i] = q[i]
    <2>1. ASSUME NEW i \in 1 .. Len(p) PROVE p[i] = q[i]
      <3>1. CASE i = Len(c) + 1
        BY <1>1, <1>4, <1>5, <3>1
      <3>2. CASE i # Len(c) + 1
        <4>1. i \in 1 .. Len(c)
          BY <1>1, <1>5, <3>2
        <4>2. QED
          BY <1>1, <1>4, <1>5, <4>1
      <3>3. QED
        BY <3>1, <3>2
    <2>2. QED
      BY <2>1
  <1>7. QED
    BY <1>4, <1>5, <1>6, SameSequence DEF p, q, d

LEMMA HeldRemove ==
  ASSUME NEW T, NEW h \in [Nodes -> T], NEW c \in Seq(Nodes), NEW k \in 1 .. Len(c)
  PROVE  Held(h, RemoveAt(c, k)) = RemoveAt(Held(h, c), k)
  <1> DEFINE d == RemoveAt(c, k)
             g == Held(h, c)
             p == Held(h, d)
             q == RemoveAt(g, k)
  <1>1. /\ d \in Seq(Nodes) /\ Len(d) = Len(c) - 1 /\ Len(c) \in Nat
        /\ \A i \in 1 .. Len(c) - 1 : d[i] = IF i < k THEN c[i] ELSE c[i + 1]
    BY RemoveAtFacts, LenProperties
  <1>2. g \in Seq(T) /\ Len(g) = Len(c) /\ \A i \in 1 .. Len(c) : g[i] = h[c[i]]
    BY HeldFacts
  <1> HIDE DEF d, g
  <1>3. /\ q \in Seq(T) /\ Len(q) = Len(c) - 1
        /\ \A i \in 1 .. Len(c) - 1 : q[i] = IF i < k THEN g[i] ELSE g[i + 1]
    BY <1>2, RemoveAtFacts
  <1>4. p \in Seq(T) /\ Len(p) = Len(c) - 1 /\ \A i \in 1 .. Len(c) - 1 : p[i] = h[d[i]]
    <2>1. p \in Seq(T) /\ Len(p) = Len(d) /\ \A i \in 1 .. Len(d) : p[i] = h[d[i]]
      BY <1>1, HeldFacts
    <2>2. QED
      BY <1>1, <2>1
  <1> HIDE DEF p, q
  <1>5. \A i \in 1 .. Len(p) : p[i] = q[i]
    <2>1. ASSUME NEW i \in 1 .. Len(c) - 1 PROVE p[i] = q[i]
      <3>1. i \in 1 .. Len(c) /\ i + 1 \in 1 .. Len(c)
        BY <1>1
      <3>2. g[i] = h[c[i]] /\ g[i + 1] = h[c[i + 1]]
        BY <1>2, <3>1
      <3>3. p[i] = h[d[i]] /\ d[i] = (IF i < k THEN c[i] ELSE c[i + 1]) /\ q[i] = IF i < k THEN g[i] ELSE g[i + 1]
        BY <1>1, <1>3, <1>4
      <3>4. QED
        BY <3>2, <3>3
    <2>2. QED
      BY <1>4, <2>1
  <1>6. QED
    BY <1>3, <1>4, <1>5, SameSequence DEF p, q, d, g

LEMMA HeldSame ==
  ASSUME NEW h, NEW g, NEW c \in Seq(Nodes), \A x \in ToSet(c) : h[x] = g[x]
  PROVE  Held(h, c) = Held(g, c)
  <1>1. \A i \in 1 .. Len(c) : c[i] \in ToSet(c)
    BY ToSetFacts
  <1>2. QED
    BY <1>1 DEF Held

LEMMA QueueIsHeld ==
  /\ Queue = [l \in Levels |-> Held(holds, Chains[l])]
  /\ Queue' = [l \in Levels |-> Held(holds', Chains'[l])]
  <1>1. Queue = [l \in Levels |-> Held(holds, Chains[l])]
    BY DEF Queue, Held, Chains
  <1>2. Queue' = [l \in Levels |-> Held(holds', Chains'[l])]
    BY DEF Queue, Held, Chains
  <1>3. QED
    BY <1>1, <1>2

(* What the orders of a level become when the orders of its chain do, and  *)
(* no other level is disturbed.                                            *)
LEMMA QueueBecomes ==
  ASSUME NEW l \in Levels, NEW p, Held(holds', Chains'[l]) = p,
         \A k \in Levels : k # l => Held(holds', Chains'[k]) = Held(holds, Chains[k])
  PROVE  Queue' = [Queue EXCEPT ![l] = p]
  <1>1. /\ Queue = [k \in Levels |-> Held(holds, Chains[k])]
        /\ Queue' = [k \in Levels |-> Held(holds', Chains'[k])]
    BY QueueIsHeld
  <1>2. \A k \in Levels : Queue'[k] = IF k = l THEN p ELSE Queue[k]
    BY <1>1
  <1>3. [Queue EXCEPT ![l] = p] = [k \in Levels |-> IF k = l THEN p ELSE Queue[k]]
    BY <1>1
  <1>4. Queue' = [k \in Levels |-> Queue'[k]]
    BY <1>1
  <1>5. QED
    BY <1>2, <1>3, <1>4

LEMMA HoldsType ==
  ASSUME QueueInv
  PROVE  /\ holds \in [Nodes -> Members \cup {Nobody}]
         /\ \A l \in Levels : Queue[l] = Held(holds, Chains[l]) /\ Len(Queue[l]) = Len(Chains[l])
         /\ \A l \in Levels : \A i \in 1 .. Len(Chains[l]) : Queue[l][i] = holds[Chains[l][i]]
         /\ \A l \in Levels : Queue[l] = << >> <=> Chains[l] = << >>
         /\ \A l \in Levels : Queue[l] \in Seq(Members \cup {Nobody})
  <1>1. holds \in [Nodes -> Members \cup {Nobody}]
    BY DEF QueueInv, EntriesOK
  <1>2. \A l \in Levels : Queue[l] = Held(holds, Chains[l])
    BY QueueIsHeld
  <1>3. ASSUME NEW l \in Levels
        PROVE  /\ Held(holds, Chains[l]) \in Seq(Members \cup {Nobody})
               /\ Len(Held(holds, Chains[l])) = Len(Chains[l])
               /\ \A i \in 1 .. Len(Chains[l]) : Held(holds, Chains[l])[i] = holds[Chains[l][i]]
               /\ Held(holds, Chains[l]) = << >> <=> Chains[l] = << >>
    <2> DEFINE T == Members \cup {Nobody}
               c == Chains[l]
    <2>1. holds \in [Nodes -> T] /\ c \in Seq(Nodes)
      BY <1>1, InvFacts
    <2> HIDE DEF T, c
    <2>2. /\ Held(holds, c) \in Seq(T) /\ Len(Held(holds, c)) = Len(c)
          /\ \A i \in 1 .. Len(c) : Held(holds, c)[i] = holds[c[i]]
          /\ (Held(holds, c) = << >> <=> c = << >>)
      BY <2>1, HeldFacts
    <2>3. QED
      BY <2>2 DEF T, c
  <1>4. QED
    BY <1>1, <1>2, <1>3

LEMMA AppendJoins ==
  ASSUME QueueInv, NEW l \in Levels, NEW m \in Members, LevelAppend(l, m)
  PROVE  Fifo!JoinTail(l, m)
  <1>1. taken' = Nobody
    BY AppendInv
  <1>2. PICK n \in Nodes : /\ OnNoChain(Chains, n)
                           /\ Chains' = [Chains EXCEPT ![l] = Append(Chains[l], n)]
                           /\ holds' = [holds EXCEPT ![n] = m]
    BY AppendInv
  <1>3. /\ holds \in [Nodes -> Members \cup {Nobody}]
        /\ holds' \in [Nodes -> Members \cup {Nobody}] /\ holds'[n] = m
        /\ \A x \in Nodes : x # n => holds'[x] = holds[x]
    BY <1>2, HoldsType
  <1>4. ASSUME NEW k \in Levels PROVE Held(holds', Chains[k]) = Held(holds, Chains[k])
    <2>1. \A x \in ToSet(Chains[k]) : holds'[x] = holds[x]
      BY <1>2, <1>3, InvFacts DEF OnNoChain
    <2>2. Chains[k] \in Seq(Nodes)
      BY InvFacts
    <2>3. QED
      BY <2>1, <2>2, HeldSame
  <1>5. Chains'[l] = Append(Chains[l], n) /\ \A k \in Levels : k # l => Chains'[k] = Chains[k]
    BY <1>2, InvFacts
  <1>6. Held(holds', Append(Chains[l], n)) = Append(Held(holds', Chains[l]), m)
    BY <1>3, InvFacts, HeldAppend
  <1>7. Queue[l] = Held(holds, Chains[l])
    BY HoldsType
  <1>8. Held(holds', Chains'[l]) = Append(Queue[l], m)
    BY <1>4, <1>5, <1>6, <1>7
  <1>9. \A k \in Levels : k # l => Held(holds', Chains'[k]) = Held(holds, Chains[k])
    BY <1>4, <1>5
  <1>10. Queue' = [Queue EXCEPT ![l] = Append(Queue[l], m)]
    BY <1>8, <1>9, QueueBecomes
  <1>11. QED
    BY <1>1, <1>10 DEF Fifo!JoinTail

LEMMA TakesOffQueue ==
  ASSUME QueueInv, NEW l \in Levels, NEW i \in 1 .. Len(Chains[l]), TakesOff(l, Chains[l][i])
  PROVE  /\ i \in 1 .. Len(Queue[l]) /\ taken' = Queue[l][i]
         /\ Queue' = [Queue EXCEPT ![l] = RemoveAt(Queue[l], i)]
  <1> DEFINE n == Chains[l][i]
  <1>1. /\ taken' = holds[n]
        /\ Chains' = [Chains EXCEPT ![l] = RemoveAt(Chains[l], i)]
        /\ holds' = [holds EXCEPT ![n] = Nobody]
        /\ OnNoChain(Chains', n) /\ QueueInv'
    BY TakesOffInv
  <1>2. i \in 1 .. Len(Queue[l]) /\ taken' = Queue[l][i]
    BY <1>1, HoldsType
  <1>3. Chains'[l] = RemoveAt(Chains[l], i) /\ \A k \in Levels : k # l => Chains'[k] = Chains[k]
    BY <1>1, InvFacts
  <1>4. \A k \in Levels : Chains'[k] \in Seq(Nodes) /\ ToSet(Chains'[k]) \subseteq Nodes
    <2>1. \A k \in Levels : k # l => Chains'[k] \in Seq(Nodes)
      BY <1>3, InvFacts
    <2>2. Chains'[l] \in Seq(Nodes)
      BY <1>3, InvFacts, RemoveAtFacts
    <2>3. \A k \in Levels : Chains'[k] \in Seq(Nodes)
      BY <2>1, <2>2
    <2>4. QED
      BY <2>3, ToSetFacts
  <1> HIDE DEF n
  <1>5. ASSUME NEW k \in Levels PROVE Held(holds', Chains'[k]) = Held(holds, Chains'[k])
    <2>1. \A x \in ToSet(Chains'[k]) : x \in Nodes /\ x # n
      BY <1>1, <1>4 DEF OnNoChain
    <2>2. \A x \in ToSet(Chains'[k]) : holds'[x] = holds[x]
      BY <1>1, <2>1, HoldsType
    <2>3. QED
      BY <1>4, <2>2, HeldSame
  <1>6. Held(holds, RemoveAt(Chains[l], i)) = RemoveAt(Held(holds, Chains[l]), i)
    <2> DEFINE T == Members \cup {Nobody}
               c == Chains[l]
    <2>1. holds \in [Nodes -> T] /\ c \in Seq(Nodes) /\ i \in 1 .. Len(c)
      BY HoldsType, InvFacts
    <2> HIDE DEF T, c
    <2>2. Held(holds, RemoveAt(c, i)) = RemoveAt(Held(holds, c), i)
      BY <2>1, HeldRemove
    <2>3. QED
      BY <2>2 DEF c
  <1>7. Queue[l] = Held(holds, Chains[l])
    BY HoldsType
  <1>8. Held(holds', Chains'[l]) = RemoveAt(Queue[l], i)
    BY <1>3, <1>5, <1>6, <1>7
  <1>9. \A k \in Levels : k # l => Held(holds', Chains'[k]) = Held(holds, Chains[k])
    BY <1>3, <1>5
  <1>10. Queue' = [Queue EXCEPT ![l] = RemoveAt(Queue[l], i)]
    BY <1>8, <1>9, QueueBecomes
  <1>11. QED
    BY <1>2, <1>10

LEMMA RemoveTakes ==
  ASSUME QueueInv, NEW l \in Levels, NEW m \in Members, LevelRemove(l, m)
  PROVE  \E i \in 1 .. Len(Queue[l]) : Fifo!TakeAnywhere(l, i)
  <1>1. PICK i \in 1 .. Len(Chains[l]) : TakesOff(l, Chains[l][i])
    BY RemoveTakesOff
  <1>2. /\ i \in 1 .. Len(Queue[l]) /\ taken' = Queue[l][i]
        /\ Queue' = [Queue EXCEPT ![l] = RemoveAt(Queue[l], i)]
    BY <1>1, TakesOffQueue
  <1>3. RemoveAt(Queue[l], i) = Fifo!Without(Queue[l], i)
    BY DEF RemoveAt, Fifo!Without
  <1>4. QED
    BY <1>2, <1>3 DEF Fifo!TakeAnywhere

LEMMA PopTakesHead ==
  ASSUME QueueInv, NEW l \in Levels, PopHead(l) PROVE Fifo!TakeHead(l)
  <1>1. Chains[l] # << >> /\ 1 \in 1 .. Len(Chains[l]) /\ TakesOff(l, Chains[l][1])
    BY PopTakesOff
  <1>2. taken' = Queue[l][1] /\ Queue' = [Queue EXCEPT ![l] = RemoveAt(Queue[l], 1)]
    BY <1>1, TakesOffQueue
  <1>3. Queue[l] # << >> /\ Queue[l] \in Seq(Members \cup {Nobody})
    BY <1>1, HoldsType
  <1>4. Tail(Queue[l]) = RemoveAt(Queue[l], 1) /\ Head(Queue[l]) = Queue[l][1]
    BY <1>3, TailIsRemoveAt
  <1>5. QED
    BY <1>2, <1>3, <1>4 DEF Fifo!TakeHead

LEMMA ReplenishMoves ==
  ASSUME QueueInv, NEW l \in Levels, Replenish(l) PROVE Fifo!HeadToTail(l)
  <1> DEFINE n == Chains[l][1]
             rest == RemoveAt(Chains[l], 1)
  <1>1. /\ taken' = Nobody /\ holds' = holds /\ Chains[l] # << >> /\ 1 \in 1 .. Len(Chains[l])
        /\ Chains' = [Chains EXCEPT ![l] = Append(rest, n)]
    BY ReplenishInv
  <1>2. n \in Nodes /\ rest \in Seq(Nodes) /\ holds \in [Nodes -> Members \cup {Nobody}]
    BY <1>1, InvFacts, ChainFacts, RemoveAtFacts, HoldsType
  <1>3. Held(holds, rest) = RemoveAt(Held(holds, Chains[l]), 1)
    BY <1>1, <1>2, InvFacts, HeldRemove
  <1>4. Held(holds, Append(rest, n)) = Append(Held(holds, rest), holds[n])
    <2> HIDE DEF n, rest
    <2>1. QED
      BY <1>2, HeldAppend
  <1>5. /\ Queue[l] = Held(holds, Chains[l]) /\ Queue[l] # << >> /\ Queue[l][1] = holds[n]
        /\ Queue[l] \in Seq(Members \cup {Nobody})
    BY <1>1, HoldsType
  <1>6. Tail(Queue[l]) = RemoveAt(Queue[l], 1) /\ Head(Queue[l]) = Queue[l][1]
    BY <1>5, TailIsRemoveAt
  <1>7. Chains'[l] = Append(rest, n) /\ \A k \in Levels : k # l => Chains'[k] = Chains[k]
    BY <1>1, InvFacts
  <1> HIDE DEF n, rest
  <1>8. Held(holds', Chains'[l]) = Append(Tail(Queue[l]), Head(Queue[l]))
    BY <1>1, <1>3, <1>4, <1>5, <1>6, <1>7
  <1>9. \A k \in Levels : k # l => Held(holds', Chains'[k]) = Held(holds, Chains[k])
    BY <1>1, <1>7
  <1>10. Queue' = [Queue EXCEPT ![l] = Append(Tail(Queue[l]), Head(Queue[l]))]
    BY <1>8, <1>9, QueueBecomes
  <1>11. QED
    BY <1>1, <1>5, <1>10 DEF Fifo!HeadToTail

LEMMA FifoInit == Init => Fifo!Init
  <1> SUFFICES ASSUME Init PROVE Fifo!Init
    OBVIOUS
  <1>1. Chains = [l \in Levels |-> << >>]
    BY InitInv
  <1>2. \A l \in Levels : Held(holds, Chains[l]) = << >>
    <2>1. ASSUME NEW h PROVE Held(h, << >>) = << >>
      BY DEF Held
    <2>2. QED
      BY <1>1, <2>1
  <1>3. Queue = [l \in Levels |-> << >>]
    BY <1>2, QueueIsHeld
  <1>4. QED
    BY <1>3 DEF Init, Fifo!Init

LEMMA FifoStep == QueueInv /\ [Next]_vars => [Fifo!Next]_<<Queue, taken>>
  <1> SUFFICES ASSUME QueueInv, [Next]_vars PROVE [Fifo!Next]_<<Queue, taken>>
    OBVIOUS
  <1>1. ASSUME NEW l \in Levels, NEW m \in Members, LevelAppend(l, m) PROVE Fifo!Next
    BY <1>1, AppendJoins DEF Fifo!Next
  <1>2. ASSUME NEW l \in Levels, NEW m \in Members, LevelRemove(l, m) PROVE Fifo!Next
    BY <1>2, RemoveTakes DEF Fifo!Next
  <1>3. ASSUME NEW l \in Levels, PopHead(l) PROVE Fifo!Next
    BY <1>3, PopTakesHead DEF Fifo!Next
  <1>4. ASSUME NEW l \in Levels, Replenish(l) PROVE Fifo!Next
    BY <1>4, ReplenishMoves DEF Fifo!Next
  <1>5. CASE UNCHANGED vars
    BY <1>5 DEF vars, Queue, Forward, Walk, Reached
  <1>6. QED
    BY <1>1, <1>2, <1>3, <1>4, <1>5 DEF Next

(* The linked lists of DoublyLinkedList, with nodes recycled through the   *)
(* pool and shared among levels, are FIFO queues: every operation does to  *)
(* the chain what it should do to a sequence of orders.                    *)
THEOREM ListsAreFifo == Spec => StrictFifo
  <1>1. Init => Fifo!Init
    BY FifoInit
  <1>2. QueueInv /\ [Next]_vars => [Fifo!Next]_<<Queue, taken>>
    BY FifoStep
  <1>3. QED
    BY <1>1, <1>2, QueueInvHolds, PTL DEF Spec, StrictFifo, Fifo!Spec, Fifo!vars

=============================================================================
