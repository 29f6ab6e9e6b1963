---------------------------- MODULE CommonLemmas ----------------------------
(***************************************************************************)
(* What the proofs need of data: what the queue operations of the models   *)
(* do to the elements of a queue and to their order (append, pop from the  *)
(* head, removal and insertion at a place); that sets of numbers have      *)
(* their extrema; and how a sum changes with its summands.                 *)
(***************************************************************************)
EXTENDS Integers, SequencesExt, FiniteSetsExt, SequenceTheorems, FiniteSetTheorems,
        WellFoundedInduction, TLAPS

(* ToSet by indices.                                                       *)
LEMMA ToSetFacts ==
  ASSUME NEW S, NEW q \in Seq(S)
  PROVE  /\ ToSet(q) \subseteq S
         /\ \A i \in 1 .. Len(q) : q[i] \in ToSet(q)
         /\ \A x \in ToSet(q) : \E i \in 1 .. Len(q) : q[i] = x
         /\ ToSet(q) = {} <=> q = <<>>
<1>1. DOMAIN q = 1 .. Len(q) /\ Len(q) \in Nat /\ \A i \in 1 .. Len(q) : q[i] \in S
  BY LenProperties, ElementOfSeq
<1>2. \A x \in ToSet(q) : \E i \in 1 .. Len(q) : q[i] = x
  BY <1>1 DEF ToSet
<1>3. \A i \in 1 .. Len(q) : q[i] \in ToSet(q)
  BY <1>1 DEF ToSet
<1>4. ToSet(q) = {} <=> q = <<>>
  <2>1. CASE q = <<>>
    BY <2>1, <1>2, EmptySeq
  <2>2. CASE q # <<>>
    <3>1. 1 \in 1 .. Len(q)
      BY <2>2, <1>1, EmptySeq
    <3>2. QED
      BY <3>1, <2>2, <1>3
  <2>3. QED
    BY <2>1, <2>2
<1>5. QED
  BY <1>1, <1>2, <1>3, <1>4

(* A table of n entries is a queue of n.                                   *)
LEMMA Tabulated ==
  ASSUME NEW S, NEW n \in Nat, NEW f \in [1 .. n -> S]
  PROVE  f \in Seq(S) /\ Len(f) = n
OBVIOUS

LEMMA AppendFacts ==
  ASSUME NEW S, NEW q \in Seq(S), NEW e \in S
  PROVE  /\ Append(q, e) \in Seq(S)
         /\ Append(q, e) # <<>>
         /\ Len(Append(q, e)) = Len(q) + 1
         /\ \A i \in 1 .. Len(q) : Append(q, e)[i] = q[i]
         /\ Append(q, e)[Len(q) + 1] = e
         /\ ToSet(Append(q, e)) = ToSet(q) \cup {e}
<1>1. /\ Append(q, e) \in Seq(S) /\ Append(q, e) # <<>>
      /\ Len(Append(q, e)) = Len(q) + 1
      /\ \A i \in 1 .. Len(q) : Append(q, e)[i] = q[i]
      /\ Append(q, e)[Len(q) + 1] = e
      /\ Len(q) \in Nat
  BY AppendProperties, LenProperties
<1>2. ToSet(Append(q, e)) \subseteq ToSet(q) \cup {e}
  <2>1. SUFFICES ASSUME NEW x \in ToSet(Append(q, e)) PROVE x \in ToSet(q) \cup {e}
    OBVIOUS
  <2>2. PICK i \in 1 .. Len(q) + 1 : Append(q, e)[i] = x
    BY <1>1, ToSetFacts
  <2>3. CASE i = Len(q) + 1
    BY <2>2, <2>3, <1>1
  <2>4. CASE i \in 1 .. Len(q)
    BY <2>2, <2>4, <1>1, ToSetFacts
  <2>5. QED
    BY <2>3, <2>4, <1>1
<1>3. ToSet(q) \subseteq ToSet(Append(q, e))
  <2>1. SUFFICES ASSUME NEW x \in ToSet(q) PROVE x \in ToSet(Append(q, e))
    OBVIOUS
  <2>2. PICK i \in 1 .. Len(q) : q[i] = x
    BY ToSetFacts
  <2>3. i \in 1 .. Len(Append(q, e)) /\ Append(q, e)[i] = x
    BY <1>1, <2>2
  <2>4. QED
    BY <2>3, <1>1, ToSetFacts
<1>4. e \in ToSet(Append(q, e))
  <2>1. \E i \in 1 .. Len(Append(q, e)) : Append(q, e)[i] = e
    BY <1>1
  <2>2. PICK i \in 1 .. Len(Append(q, e)) : Append(q, e)[i] = e
    BY <2>1
  <2>3. Append(q, e)[i] \in ToSet(Append(q, e))
    BY <1>1, ToSetFacts
  <2>4. QED
    BY <2>2, <2>3
<1>5. QED
  BY <1>1, <1>2, <1>3, <1>4

LEMMA RemoveAtFacts ==
  ASSUME NEW S, NEW q \in Seq(S), NEW k \in 1 .. Len(q)
  PROVE  /\ RemoveAt(q, k) \in Seq(S)
         /\ Len(RemoveAt(q, k)) = Len(q) - 1
         /\ \A i \in 1 .. Len(q) - 1 : RemoveAt(q, k)[i] = IF i < k THEN q[i] ELSE q[i + 1]
<1> DEFINE f == SubSeq(q, 1, k - 1)
           b == SubSeq(q, k + 1, Len(q))
<1>1. Len(q) \in Nat /\ \A i \in 1 .. Len(q) : q[i] \in S
  BY LenProperties, ElementOfSeq
<1>2. /\ f \in Seq(S) /\ Len(f) = k - 1
      /\ \A i \in 1 .. k - 1 : f[i] = q[i]
  <2>1. 1 \in Int /\ k - 1 \in Int /\ \A i \in 1 .. k - 1 : q[i] \in S
    BY <1>1
  <2>2. /\ f \in Seq(S) /\ Len(f) = IF 1 <= k - 1 THEN (k - 1) - 1 + 1 ELSE 0
        /\ \A i \in 1 .. (k - 1) - 1 + 1 : f[i] = q[1 + i - 1]
    BY <2>1, SubSeqProperties
  <2>3. QED
    BY <2>2, <1>1
<1>3. /\ b \in Seq(S) /\ Len(b) = Len(q) - k
      /\ \A i \in 1 .. Len(q) - k : b[i] = q[k + i]
  <2>1. k + 1 \in Int /\ Len(q) \in Int /\ \A i \in k + 1 .. Len(q) : q[i] \in S
    BY <1>1
  <2>2. /\ b \in Seq(S) /\ Len(b) = IF k + 1 <= Len(q) THEN Len(q) - (k + 1) + 1 ELSE 0
        /\ \A i \in 1 .. Len(q) - (k + 1) + 1 : b[i] = q[k + 1 + i - 1]
    BY <2>1, SubSeqProperties
  <2>3. QED
    BY <2>2, <1>1
<1>4. RemoveAt(q, k) = f \o b
  BY DEF RemoveAt
<1> HIDE DEF f, b
<1>5. /\ f \o b \in Seq(S) /\ Len(f \o b) = Len(f) + Len(b)
      /\ \A i \in 1 .. Len(f) + Len(b) : (f \o b)[i] = IF i <= Len(f) THEN f[i] ELSE b[i - Len(f)]
  BY <1>2, <1>3, ConcatProperties
<1>6. ASSUME NEW i \in 1 .. Len(q) - 1
      PROVE  (f \o b)[i] = IF i < k THEN q[i] ELSE q[i + 1]
  <2>1. CASE i < k
    <3>1. (f \o b)[i] = f[i]
      BY <2>1, <1>1, <1>2, <1>3, <1>5
    <3>2. i \in 1 .. k - 1
      BY <2>1
    <3>3. QED
      BY <2>1, <3>1, <3>2, <1>2
  <2>2. CASE i >= k
    <3>1. (f \o b)[i] = b[i - (k - 1)]
      BY <2>2, <1>1, <1>2, <1>3, <1>5
    <3>2. i - (k - 1) \in 1 .. Len(q) - k
      BY <2>2, <1>1
    <3>3. b[i - (k - 1)] = q[k + (i - (k - 1))]
      BY <3>2, <1>3
    <3>4. QED
      BY <2>2, <3>1, <3>3, <1>1
  <2>3. i < k \/ i >= k
    BY <1>1
  <2>4. QED
    BY Zenon, <2>1, <2>2, <2>3
<1>7. QED
  BY <1>1, <1>2, <1>3, <1>4, <1>5, <1>6

(* A queue that names nobody twice loses exactly the one at the place.     *)
LEMMA RemoveAtSet ==
  ASSUME NEW S, NEW q \in Seq(S), NEW k \in 1 .. Len(q),
         \A a, b \in 1 .. Len(q) : a < b => q[a] # q[b]
  PROVE  ToSet(RemoveAt(q, k)) = ToSet(q) \ {q[k]}
<1> DEFINE w == RemoveAt(q, k)
<1>1. /\ w \in Seq(S) /\ Len(w) = Len(q) - 1 /\ Len(q) \in Nat
      /\ \A i \in 1 .. Len(q) - 1 : w[i] = IF i < k THEN q[i] ELSE q[i + 1]
  BY RemoveAtFacts, LenProperties
<1> HIDE DEF w
<1>2. ASSUME NEW x \in ToSet(w) PROVE x \in ToSet(q) \ {q[k]}
  <2>1. PICK i \in 1 .. Len(q) - 1 : w[i] = x
    BY <1>1, ToSetFacts
  <2>2. CASE i < k
    <3>1. i \in 1 .. Len(q) /\ x = q[i]
      BY <2>1, <2>2, <1>1
    <3>2. QED
      BY <3>1, <2>2, ToSetFacts
  <2>3. CASE i >= k
    <3>1. i + 1 \in 1 .. Len(q) /\ x = q[i + 1] /\ k < i + 1
      BY <2>1, <2>3, <1>1
    <3>2. QED
      BY <3>1, ToSetFacts
  <2>4. QED
    BY <2>2, <2>3, <1>1
<1>3. ASSUME NEW x \in ToSet(q) \ {q[k]} PROVE x \in ToSet(w)
  <2>1. PICK i \in 1 .. Len(q) : q[i] = x
    BY ToSetFacts
  <2>2. CASE i < k
    <3>1. i \in 1 .. Len(w) /\ w[i] = x
      BY <2>1, <2>2, <1>1
    <3>2. QED
      BY <3>1, <1>1, ToSetFacts
  <2>3. CASE i > k
    <3>1. i - 1 \in 1 .. Len(w) /\ w[i - 1] = x
      BY <2>1, <2>3, <1>1
    <3>2. QED
      BY <3>1, <1>1, ToSetFacts
  <2>4. QED
    BY <2>1, <2>2, <2>3, <1>1
<1>4. QED
  BY <1>2, <1>3 DEF w

(* Taking from the head is removal at the first place.                     *)
LEMMA TailIsRemoveAt ==
  ASSUME NEW S, NEW q \in Seq(S), q # <<>>
  PROVE  /\ Tail(q) = RemoveAt(q, 1) /\ Head(q) = q[1] /\ 1 \in 1 .. Len(q)
<1>1. Len(q) \in Nat \ {0}
  BY EmptySeq
<1>2. Tail(q) \in Seq(S) /\ Len(Tail(q)) = Len(q) - 1 /\ \A i \in 1 .. Len(q) - 1 : Tail(q)[i] = q[i + 1]
  BY HeadTailProperties
<1>3. 1 \in 1 .. Len(q)
  BY <1>1
<1>4. /\ RemoveAt(q, 1) \in Seq(S) /\ Len(RemoveAt(q, 1)) = Len(q) - 1
      /\ \A i \in 1 .. Len(q) - 1 : RemoveAt(q, 1)[i] = IF i < 1 THEN q[i] ELSE q[i + 1]
  BY <1>3, RemoveAtFacts
<1>5. \A i \in 1 .. Len(Tail(q)) : Tail(q)[i] = RemoveAt(q, 1)[i]
  BY <1>1, <1>2, <1>4
<1>6. Tail(q) = RemoveAt(q, 1)
  BY <1>2, <1>4, <1>5, SeqEqual
<1>7. QED
  BY <1>3, <1>6

(* A queue that names nobody twice still does so without its head.         *)
LEMMA InjectiveTail ==
  ASSUME NEW S, NEW q \in Seq(S), q # <<>>, IsInjective(q)
  PROVE  /\ Tail(q) \in Seq(S) /\ IsInjective(Tail(q))
         /\ ToSet(Tail(q)) = ToSet(q) \ {Head(q)}
         /\ Head(q) \in ToSet(q)
<1>1. Tail(q) = RemoveAt(q, 1) /\ Head(q) = q[1] /\ 1 \in 1 .. Len(q)
  BY TailIsRemoveAt
<1>2. /\ Tail(q) \in Seq(S) /\ Len(Tail(q)) = Len(q) - 1 /\ Len(q) \in Nat
      /\ \A i \in 1 .. Len(Tail(q)) : Tail(q)[i] = q[i + 1]
  BY HeadTailProperties, LenProperties
<1>3. DOMAIN q = 1 .. Len(q) /\ DOMAIN Tail(q) = 1 .. Len(Tail(q))
  BY <1>2, LenProperties
<1>4. \A a, b \in 1 .. Len(q) : a # b => q[a] # q[b]
  BY <1>3 DEF IsInjective
<1>5. ToSet(Tail(q)) = ToSet(q) \ {Head(q)}
  <2>1. \A a, b \in 1 .. Len(q) : a < b => q[a] # q[b]
    BY <1>4
  <2>2. QED
    BY <2>1, <1>1, RemoveAtSet
<1>6. IsInjective(Tail(q))
  <2>1. SUFFICES ASSUME NEW a \in 1 .. Len(Tail(q)), NEW b \in 1 .. Len(Tail(q)), a # b
                 PROVE  Tail(q)[a] # Tail(q)[b]
    BY <1>3 DEF IsInjective
  <2>2. a + 1 \in 1 .. Len(q) /\ b + 1 \in 1 .. Len(q) /\ a + 1 # b + 1
    BY <2>1, <1>2
  <2>3. QED
    BY <2>2, <1>2, <1>4
<1>7. Head(q) \in ToSet(q)
  BY <1>1, ToSetFacts
<1>8. QED
  BY <1>2, <1>5, <1>6, <1>7

LEMMA ToSetByIndex == ASSUME NEW S, NEW q \in Seq(S) PROVE ToSet(q) = {q[i] : i \in 1 .. Len(q)}
  BY LenProperties DEF ToSet

LEMMA InjectiveAppend ==
  ASSUME NEW S, NEW q \in Seq(S), IsInjective(q), NEW e \in S, e \notin ToSet(q)
  PROVE  /\ Append(q, e) \in Seq(S) /\ IsInjective(Append(q, e))
         /\ ToSet(Append(q, e)) = ToSet(q) \cup {e}
  <1> DEFINE w == Append(q, e)
  <1>1. /\ w \in Seq(S) /\ Len(w) = Len(q) + 1 /\ Len(q) \in Nat
        /\ \A i \in 1 .. Len(q) : w[i] = q[i]
        /\ w[Len(q) + 1] = e /\ ToSet(w) = ToSet(q) \cup {e}
    BY AppendFacts, LenProperties
  <1>2. DOMAIN w = 1 .. Len(q) + 1 /\ DOMAIN q = 1 .. Len(q)
    BY <1>1, LenProperties
  <1>3. \A i \in 1 .. Len(q) : q[i] # e
    BY ToSetFacts
  <1> HIDE DEF w
  <1>4. ASSUME NEW x \in 1 .. Len(q) + 1, NEW y \in 1 .. Len(q) + 1, w[x] = w[y] PROVE x = y
    <2>1. CASE x \in 1 .. Len(q) /\ y \in 1 .. Len(q)
      BY <1>1, <1>2, <1>4, <2>1 DEF IsInjective
    <2>2. CASE x = Len(q) + 1 /\ y \in 1 .. Len(q)
      BY <1>1, <1>3, <1>4, <2>2
    <2>3. CASE y = Len(q) + 1 /\ x \in 1 .. Len(q)
      BY <1>1, <1>3, <1>4, <2>3
    <2>4. QED
      BY <1>1, <2>1, <2>2, <2>3
  <1>5. IsInjective(w)
    BY <1>2, <1>4 DEF IsInjective
  <1>6. QED
    BY <1>1, <1>5 DEF w

(* A queue that names nobody twice still does so without one of its own.   *)
LEMMA InjectiveRemoveAt ==
  ASSUME NEW S, NEW q \in Seq(S), IsInjective(q), NEW k \in 1 .. Len(q)
  PROVE  /\ RemoveAt(q, k) \in Seq(S) /\ IsInjective(RemoveAt(q, k))
         /\ ToSet(RemoveAt(q, k)) = ToSet(q) \ {q[k]}
  <1> DEFINE w == RemoveAt(q, k)
  <1>1. /\ w \in Seq(S) /\ Len(w) = Len(q) - 1 /\ Len(q) \in Nat
        /\ \A i \in 1 .. Len(q) - 1 : w[i] = IF i < k THEN q[i] ELSE q[i + 1]
    BY RemoveAtFacts, LenProperties
  <1>2. DOMAIN q = 1 .. Len(q) /\ DOMAIN w = 1 .. Len(q) - 1
    BY <1>1, LenProperties
  <1>3. \A a, b \in 1 .. Len(q) : a # b => q[a] # q[b]
    BY <1>2 DEF IsInjective
  <1>4. ToSet(w) = ToSet(q) \ {q[k]}
    <2>1. \A a, b \in 1 .. Len(q) : a < b => q[a] # q[b]
      BY <1>3
    <2>2. QED
      BY <2>1, RemoveAtSet
  <1> HIDE DEF w
  <1>5. ASSUME NEW a \in 1 .. Len(q) - 1, NEW b \in 1 .. Len(q) - 1, w[a] = w[b] PROVE a = b
    <2> DEFINE x == IF a < k THEN a ELSE a + 1
               y == IF b < k THEN b ELSE b + 1
    <2>1. x \in 1 .. Len(q) /\ y \in 1 .. Len(q) /\ (x = y => a = b)
      BY <1>1
    <2>2. w[a] = q[x] /\ w[b] = q[y]
      BY <1>1
    <2> HIDE DEF x, y
    <2>3. QED
      BY <1>3, <1>5, <2>1, <2>2
  <1>6. IsInjective(w)
    BY <1>2, <1>5 DEF IsInjective
  <1>7. QED
    BY <1>1, <1>4, <1>6 DEF w

(* An insertion puts the element at the place and shifts what follows.     *)
LEMMA InsertAtFacts ==
  ASSUME NEW S, NEW q \in Seq(S), NEW k \in 1 .. Len(q) + 1, NEW e \in S
  PROVE  /\ InsertAt(q, k, e) \in Seq(S)
         /\ Len(InsertAt(q, k, e)) = Len(q) + 1
         /\ InsertAt(q, k, e)[k] = e
         /\ \A i \in 1 .. Len(q) : i < k => InsertAt(q, k, e)[i] = q[i]
         /\ \A i \in 2 .. Len(q) + 1 : i > k => InsertAt(q, k, e)[i] = q[i - 1]
<1> DEFINE f == SubSeq(q, 1, k - 1)
           g == f \o <<e>>
           b == SubSeq(q, k, Len(q))
<1>1. Len(q) \in Nat /\ \A i \in 1 .. Len(q) : q[i] \in S
  BY LenProperties, ElementOfSeq
<1>2. /\ f \in Seq(S) /\ Len(f) = k - 1
      /\ \A i \in 1 .. k - 1 : f[i] = q[i]
  <2>1. 1 \in Int /\ k - 1 \in Int /\ \A i \in 1 .. k - 1 : q[i] \in S
    BY <1>1
  <2>2. /\ f \in Seq(S) /\ Len(f) = IF 1 <= k - 1 THEN (k - 1) - 1 + 1 ELSE 0
        /\ \A i \in 1 .. (k - 1) - 1 + 1 : f[i] = q[1 + i - 1]
    BY <2>1, SubSeqProperties
  <2>3. QED
    BY <2>2, <1>1
<1>3. /\ b \in Seq(S) /\ Len(b) = Len(q) + 1 - k
      /\ \A i \in 1 .. Len(q) + 1 - k : b[i] = q[k + i - 1]
  <2>1. k \in Int /\ Len(q) \in Int /\ \A i \in k .. Len(q) : q[i] \in S
    BY <1>1
  <2>2. /\ b \in Seq(S) /\ Len(b) = IF k <= Len(q) THEN Len(q) - k + 1 ELSE 0
        /\ \A i \in 1 .. Len(q) - k + 1 : b[i] = q[k + i - 1]
    BY <2>1, SubSeqProperties
  <2>3. QED
    BY <2>2, <1>1
<1>4. InsertAt(q, k, e) = g \o b
  BY DEF InsertAt
<1> HIDE DEF f, b
<1>5. /\ g \in Seq(S) /\ Len(g) = k /\ g[k] = e
      /\ \A i \in 1 .. k - 1 : g[i] = f[i]
  <2>1. <<e>> \in Seq(S) /\ Len(<<e>>) = 1 /\ <<e>>[1] = e
    OBVIOUS
  <2> DEFINE w == <<e>>
  <2>2. g = f \o w
    OBVIOUS
  <2> HIDE DEF w, g
  <2>3. /\ f \o w \in Seq(S) /\ Len(f \o w) = Len(f) + Len(w)
        /\ \A i \in 1 .. Len(f) + Len(w) : (f \o w)[i] = IF i <= Len(f) THEN f[i] ELSE w[i - Len(f)]
    BY <2>1, <1>2, ConcatProperties DEF w
  <2>4. Len(w) = 1 /\ w[1] = e
    BY <2>1 DEF w
  <2>5. QED
    BY <2>2, <2>3, <2>4, <1>2
<1> HIDE DEF g
<1>6. /\ g \o b \in Seq(S) /\ Len(g \o b) = Len(g) + Len(b)
      /\ \A i \in 1 .. Len(g) + Len(b) : (g \o b)[i] = IF i <= Len(g) THEN g[i] ELSE b[i - Len(g)]
  BY <1>3, <1>5, ConcatProperties
<1>7. Len(g \o b) = Len(q) + 1 /\ \A i \in 1 .. k : (g \o b)[i] = g[i]
  BY <1>1, <1>3, <1>5, <1>6
<1>8. ASSUME NEW i \in 2 .. Len(q) + 1, i > k PROVE (g \o b)[i] = q[i - 1]
  <2>1. (g \o b)[i] = b[i - k]
    BY <1>1, <1>3, <1>5, <1>6, <1>8
  <2>2. i - k \in 1 .. Len(q) + 1 - k
    BY <1>1, <1>8
  <2>3. b[i - k] = q[k + (i - k) - 1]
    BY <2>2, <1>3
  <2>4. QED
    BY <2>1, <2>3, <1>1
<1>9. \A i \in 1 .. Len(q) : i < k => (g \o b)[i] = q[i]
  BY <1>1, <1>2, <1>5, <1>7
<1>10. QED
  BY <1>4, <1>5, <1>6, <1>7, <1>8, <1>9

-----------------------------------------------------------------------------
(* Extrema of sets of natural numbers.                                     *)
LEMMA LeastNat ==
  ASSUME NEW T \in SUBSET Nat, T # {}
  PROVE  \E x \in T : \A y \in T : x <= y
<1> DEFINE R == {p \in Nat \X Nat : p[1] < p[2]}
<1>1. IsWellFoundedOn(R, Nat)
  BY NatLessThanWellFounded DEF OpToRel
<1> HIDE DEF R
<1>2. PICK x \in T : \A y \in T : ~ (<<y, x>> \in R)
  BY <1>1, WFMin
<1>3. ASSUME NEW y \in T PROVE x <= y
  <2>1. x \in Nat /\ y \in Nat
    OBVIOUS
  <2>2. ~(y < x)
    BY <1>2, <2>1 DEF R
  <2>3. QED
    BY <2>1, <2>2
<1>4. QED
  BY <1>3

LEMMA GreatestNat ==
  ASSUME NEW n \in Nat, NEW T \in SUBSET (0 .. n), T # {}
  PROVE  Max(T) \in T /\ \A y \in T : y <= Max(T)
<1> DEFINE U == {n - x : x \in T}
<1>1. U \in SUBSET Nat /\ U # {}
  OBVIOUS
<1> HIDE DEF U
<1>2. PICK u \in U : \A w \in U : u <= w
  BY <1>1, LeastNat
<1>3. PICK x \in T : u = n - x
  BY DEF U
<1>4. ASSUME NEW y \in T PROVE x >= y
  <2>1. n - y \in U
    BY DEF U
  <2>2. QED
    BY <2>1, <1>2, <1>3
<1>5. \E z \in T : \A y \in T : z >= y
  BY <1>4
<1>6. Max(T) \in T /\ \A y \in T : Max(T) >= y
  BY <1>5 DEF Max
<1>7. \A y \in T : y \in Nat
  OBVIOUS
<1>8. ASSUME NEW y \in T PROVE y <= Max(T)
  BY <1>6, <1>7
<1>9. QED
  BY <1>6, <1>8

LEMMA MinOfNats ==
  ASSUME NEW T \in SUBSET Nat, T # {}
  PROVE  Min(T) \in T /\ \A y \in T : Min(T) <= y
BY LeastNat DEF Min

-----------------------------------------------------------------------------
(* Sums.  SumFunctionOnSet is defined by recursion on the set; below, g    *)
(* satisfies that recursion for the subsets of S of up to n elements.      *)
Pick(s) == CHOOSE x \in s : TRUE

Recursion(g, f, s) == g[s] = IF s = {} THEN 0 ELSE f[Pick(s)] + g[s \ {Pick(s)}]

Tallies(g, f, S, n) == \A s \in SUBSET S : Cardinality(s) <= n => Recursion(g, f, s)

SumsUp(g, f, S) ==
  g = [s \in SUBSET S |-> IF s = {} THEN 0 ELSE LET x == CHOOSE x \in s : TRUE IN f[x] + g[s \ {x}]]

LEMMA PickIn == ASSUME NEW s, s # {} PROVE Pick(s) \in s
BY DEF Pick

LEMMA SmallerSet ==
  ASSUME NEW S, IsFiniteSet(S), NEW s \in SUBSET S, NEW x \in s
  PROVE  /\ IsFiniteSet(s) /\ s \ {x} \in SUBSET S /\ Cardinality(s) \in Nat
         /\ Cardinality(s \ {x}) \in Nat /\ Cardinality(s \ {x}) = Cardinality(s) - 1
<1>1. IsFiniteSet(s) /\ IsFiniteSet(s \ {x})
  BY FS_Subset, FS_RemoveElement
<1>2. QED
  BY <1>1, FS_RemoveElement, FS_CardinalityType

LEMMA TalliesStep ==
  ASSUME NEW f, NEW S, IsFiniteSet(S), NEW n \in Nat, NEW g, Tallies(g, f, S, n)
  PROVE  \E h : Tallies(h, f, S, n + 1)
<1> DEFINE h == [s \in SUBSET S |-> IF s = {} THEN 0 ELSE f[Pick(s)] + g[s \ {Pick(s)}]]
<1>1. ASSUME NEW s \in SUBSET S, Cardinality(s) <= n PROVE h[s] = g[s]
  BY <1>1 DEF Tallies, Recursion
<1>2. ASSUME NEW s \in SUBSET S, Cardinality(s) <= n + 1 PROVE Recursion(h, f, s)
  <2>1. CASE s = {}
    BY <2>1 DEF Recursion
  <2>2. CASE s # {}
    <3>1. Pick(s) \in s
      BY <2>2, PickIn
    <3>2. s \ {Pick(s)} \in SUBSET S /\ Cardinality(s \ {Pick(s)}) <= n
      BY <1>2, <3>1, SmallerSet
    <3>3. h[s \ {Pick(s)}] = g[s \ {Pick(s)}]
      BY <1>1, <3>2
    <3>4. h[s] = f[Pick(s)] + g[s \ {Pick(s)}]
      BY <2>2
    <3> HIDE DEF h
    <3>5. QED
      BY <2>2, <3>3, <3>4 DEF Recursion
  <2>3. QED
    BY <2>1, <2>2
<1> HIDE DEF h
<1>3. Tallies(h, f, S, n + 1)
  BY <1>2 DEF Tallies
<1>4. QED
  BY <1>3

LEMMA TalliesExist ==
  ASSUME NEW f, NEW S, IsFiniteSet(S), NEW m \in Nat
  PROVE  \E g : Tallies(g, f, S, m)
<1> DEFINE T == {n \in Nat : ~\E g : Tallies(g, f, S, n)}
<1>1. SUFFICES ASSUME T # {} PROVE FALSE
  OBVIOUS
<1>2. PICK n \in T : \A k \in T : n <= k
  BY <1>1, LeastNat
<1>3. n \in Nat /\ ~\E g : Tallies(g, f, S, n)
  OBVIOUS
<1>4. \A k \in Nat : k < n => \E g : Tallies(g, f, S, k)
  BY <1>2, <1>3
<1> HIDE DEF T
<1>5. CASE n = 0
  <2> DEFINE z == [s \in SUBSET S |-> 0]
  <2>1. ASSUME NEW s \in SUBSET S, Cardinality(s) <= 0 PROVE Recursion(z, f, s)
    <3>1. IsFiniteSet(s)
      BY FS_Subset
    <3>2. s = {}
      BY <2>1, <3>1, FS_EmptySet, FS_CardinalityType
    <3>3. QED
      BY <3>2 DEF Recursion
  <2> HIDE DEF z
  <2>2. Tallies(z, f, S, n)
    BY <1>5, <2>1 DEF Tallies
  <2>3. QED
    BY <1>3, <2>2
<1>6. CASE n # 0
  <2>1. n - 1 \in Nat /\ n - 1 < n /\ (n - 1) + 1 = n
    BY <1>3, <1>6
  <2>2. PICK g : Tallies(g, f, S, n - 1)
    BY <1>4, <2>1
  <2>3. \E h : Tallies(h, f, S, (n - 1) + 1)
    BY <2>1, <2>2, TalliesStep
  <2>4. QED
    BY <1>3, <2>1, <2>3
<1>7. QED
  BY <1>5, <1>6

LEMMA SolutionExists ==
  ASSUME NEW f, NEW S, IsFiniteSet(S)
  PROVE  \E g : SumsUp(g, f, S)
<1>1. Cardinality(S) \in Nat
  BY FS_CardinalityType
<1>2. PICK h : Tallies(h, f, S, Cardinality(S))
  BY <1>1, TalliesExist
<1> DEFINE g == [s \in SUBSET S |-> h[s]]
<1>3. \A s \in SUBSET S : g[s] = IF s = {} THEN 0 ELSE f[Pick(s)] + g[s \ {Pick(s)}]
  <2> TAKE s \in SUBSET S
  <2>1. Cardinality(s) <= Cardinality(S)
    BY FS_Subset
  <2>2. Recursion(h, f, s)
    BY <1>2, <2>1 DEF Tallies
  <2>3. s \ {Pick(s)} \in SUBSET S
    OBVIOUS
  <2>4. QED
    BY <2>2, <2>3 DEF Recursion
<1>4. g = [s \in SUBSET S |-> g[s]]
  OBVIOUS
<1> HIDE DEF g
<1>5. g = [s \in SUBSET S |-> IF s = {} THEN 0 ELSE f[Pick(s)] + g[s \ {Pick(s)}]]
  BY <1>3, <1>4
<1>6. SumsUp(g, f, S)
  BY <1>5 DEF SumsUp, Pick
<1>7. QED
  BY <1>6

LEMMA SumsUpRecursion ==
  ASSUME NEW g, NEW f, NEW S, SumsUp(g, f, S), NEW s \in SUBSET S
  PROVE  Recursion(g, f, s)
<1>1. g[s] = IF s = {} THEN 0 ELSE f[Pick(s)] + g[s \ {Pick(s)}]
  BY DEF SumsUp, Pick
<1>2. QED
  BY <1>1 DEF Recursion

(* A sum is what any solution says, on any larger set, and depends on the  *)
(* summands only.                                                          *)
LEMMA SolutionsAgree ==
  ASSUME NEW U, IsFiniteSet(U), NEW S, NEW T, NEW f, NEW e, NEW g, NEW h,
         SumsUp(g, f, S), SumsUp(h, e, T), U \subseteq S, U \subseteq T,
         \A x \in U : f[x] = e[x]
  PROVE  g[U] = h[U]
<1> DEFINE Bad(n) == \E s \in SUBSET U : Cardinality(s) = n /\ g[s] # h[s]
           N == {n \in Nat : Bad(n)}
<1>1. SUFFICES ASSUME g[U] # h[U] PROVE FALSE
  OBVIOUS
<1>2. Cardinality(U) \in N
  BY <1>1, FS_CardinalityType
<1>3. PICK n \in N : \A k \in N : n <= k
  BY <1>2, LeastNat
<1>4. PICK s \in SUBSET U : Cardinality(s) = n /\ g[s] # h[s]
  BY <1>3
<1>5. Recursion(g, f, s) /\ Recursion(h, e, s)
  BY <1>4, SumsUpRecursion
<1>6. s # {}
  BY <1>4, <1>5 DEF Recursion
<1>7. Pick(s) \in s
  BY <1>6, PickIn
<1> DEFINE r == s \ {Pick(s)}
<1>8. r \in SUBSET U /\ Cardinality(r) \in Nat /\ Cardinality(r) < n
  BY <1>4, <1>7, SmallerSet
<1>9. g[r] = h[r]
  <2>1. n \in Nat
    OBVIOUS
  <2>2. ~(n <= Cardinality(r))
    BY <1>8, <2>1
  <2>3. Cardinality(r) \notin N
    BY <1>3, <2>2
  <2>4. QED
    BY <2>3, <1>8
<1>10. f[Pick(s)] = e[Pick(s)]
  BY <1>7
<1>11. g[s] = h[s]
  BY <1>5, <1>6, <1>9, <1>10 DEF Recursion
<1>12. QED
  BY <1>4, <1>11

LEMMA SumIs ==
  ASSUME NEW f, NEW S, IsFiniteSet(S)
  PROVE  \E g : SumsUp(g, f, S) /\ SumFunctionOnSet(f, S) = g[S]
<1>1. PICK g : SumsUp(g, f, S)
  BY SolutionExists
<1>2. QED
  BY <1>1 DEF SumFunctionOnSet, FoldFunctionOnSet, MapThenFoldSet, SumsUp

(* The sum depends on the summands only.                                   *)
LEMMA SumSame ==
  ASSUME NEW S, IsFiniteSet(S), NEW f, NEW e, \A x \in S : f[x] = e[x]
  PROVE  SumFunctionOnSet(f, S) = SumFunctionOnSet(e, S)
<1>1. PICK g : SumsUp(g, f, S) /\ SumFunctionOnSet(f, S) = g[S]
  BY SumIs
<1>2. PICK h : SumsUp(h, e, S) /\ SumFunctionOnSet(e, S) = h[S]
  BY SumIs
<1>3. QED
  BY <1>1, <1>2, SolutionsAgree

LEMMA SumPicked ==
  ASSUME NEW S, IsFiniteSet(S), NEW f
  PROVE  SumFunctionOnSet(f, S) =
           IF S = {} THEN 0 ELSE f[Pick(S)] + SumFunctionOnSet(f, S \ {Pick(S)})
<1>1. PICK g : SumsUp(g, f, S) /\ SumFunctionOnSet(f, S) = g[S]
  BY SumIs
<1>2. IsFiniteSet(S \ {Pick(S)})
  BY FS_RemoveElement
<1>3. PICK h : SumsUp(h, f, S \ {Pick(S)}) /\ SumFunctionOnSet(f, S \ {Pick(S)}) = h[S \ {Pick(S)}]
  BY <1>2, SumIs
<1>4. g[S \ {Pick(S)}] = h[S \ {Pick(S)}]
  <2> DEFINE U == S \ {Pick(S)}
  <2>1. U \subseteq S /\ U \subseteq U
    OBVIOUS
  <2>2. IsFiniteSet(U) /\ SumsUp(h, f, U)
    BY <1>2, <1>3
  <2> HIDE DEF U
  <2>3. g[U] = h[U]
    BY <1>1, <2>1, <2>2, SolutionsAgree
  <2>4. QED
    BY <2>3 DEF U
<1>5. Recursion(g, f, S)
  BY <1>1, SumsUpRecursion
<1>6. QED
  BY <1>1, <1>3, <1>4, <1>5 DEF Recursion

LEMMA SumEmpty == ASSUME NEW f PROVE SumFunctionOnSet(f, {}) = 0
BY SumPicked, FS_EmptySet

Ints(f, S) == \A x \in S : f[x] \in Int

(* Any of its elements may be taken out of a sum.                          *)
TakesOut(f, S, x) == SumFunctionOnSet(f, S) = f[x] + SumFunctionOnSet(f, S \ {x})

Sound(f, S) == SumFunctionOnSet(f, S) \in Int /\ \A x \in S : TakesOut(f, S, x)

LEMMA SoundStep ==
  ASSUME NEW S, IsFiniteSet(S), NEW f, Ints(f, S),
         \A s \in SUBSET S : s # S => Sound(f, s)
  PROVE  Sound(f, S)
<1>1. CASE S = {}
  BY <1>1, SumEmpty DEF Sound
<1>2. CASE S # {}
  <2> DEFINE c == Pick(S)
  <2>1. c \in S /\ SumFunctionOnSet(f, S) = f[c] + SumFunctionOnSet(f, S \ {c}) /\ f[c] \in Int
    BY <1>2, PickIn, SumPicked DEF Ints
  <2> HIDE DEF c
  <2>2. Sound(f, S \ {c})
    BY <2>1
  <2>3. SumFunctionOnSet(f, S) \in Int
    BY <2>1, <2>2 DEF Sound
  <2>4. ASSUME NEW x \in S PROVE TakesOut(f, S, x)
    <3>1. CASE x = c
      BY <2>1, <3>1 DEF TakesOut
    <3>2. CASE x # c
      <4>1. Sound(f, S \ {x}) /\ x \in S \ {c} /\ c \in S \ {x}
        BY <2>1, <3>2
      <4>2. /\ SumFunctionOnSet(f, S \ {c}) = f[x] + SumFunctionOnSet(f, (S \ {c}) \ {x})
            /\ SumFunctionOnSet(f, S \ {x}) = f[c] + SumFunctionOnSet(f, (S \ {x}) \ {c})
        BY <2>2, <4>1 DEF Sound, TakesOut
      <4>3. (S \ {c}) \ {x} = (S \ {x}) \ {c}
        OBVIOUS
      <4>4. Sound(f, (S \ {x}) \ {c}) /\ f[x] \in Int
        BY <4>1 DEF Ints
      <4>5. SumFunctionOnSet(f, (S \ {x}) \ {c}) \in Int
        BY <4>4 DEF Sound
      <4> DEFINE rest == SumFunctionOnSet(f, (S \ {x}) \ {c})
      <4>6. /\ SumFunctionOnSet(f, S \ {c}) = f[x] + rest
            /\ SumFunctionOnSet(f, S \ {x}) = f[c] + rest
            /\ rest \in Int
        BY <4>2, <4>3, <4>5
      <4> HIDE DEF rest
      <4>7. f[c] + (f[x] + rest) = f[x] + (f[c] + rest)
        BY <2>1, <4>4, <4>6
      <4>8. QED
        BY <2>1, <4>6, <4>7 DEF TakesOut
    <3>3. QED
      BY <3>1, <3>2
  <2>5. QED
    BY <2>3, <2>4 DEF Sound
<1>3. QED
  BY <1>1, <1>2

LEMMA SumSound ==
  ASSUME NEW S, IsFiniteSet(S), NEW f, Ints(f, S)
  PROVE  Sound(f, S)
<1> DEFINE Bad(n) == \E s \in SUBSET S : Cardinality(s) = n /\ ~Sound(f, s)
           N == {n \in Nat : Bad(n)}
<1>1. SUFFICES ASSUME ~Sound(f, S) PROVE FALSE
  OBVIOUS
<1>2. Cardinality(S) \in N
  BY <1>1, FS_CardinalityType
<1>3. PICK n \in N : \A k \in N : n <= k
  BY <1>2, LeastNat
<1>4. PICK s \in SUBSET S : Cardinality(s) = n /\ ~Sound(f, s)
  BY <1>3
<1>5. n \in Nat /\ IsFiniteSet(s) /\ Ints(f, s)
  BY <1>3, <1>4, FS_Subset DEF Ints
<1>6. ASSUME NEW r \in SUBSET s, r # s PROVE Sound(f, r)
  <2>1. IsFiniteSet(r) /\ Cardinality(r) \in Nat /\ Cardinality(r) < n
    <3>1. IsFiniteSet(r) /\ Cardinality(r) <= Cardinality(s) /\ Cardinality(r) # Cardinality(s)
      BY <1>5, <1>6, FS_Subset
    <3>2. QED
      BY <1>4, <1>5, <3>1, FS_CardinalityType
  <2>2. ~(n <= Cardinality(r))
    BY <1>5, <2>1
  <2>3. Cardinality(r) \notin N
    BY <1>3, <2>2
  <2>4. QED
    BY <2>1, <2>3
<1>7. QED
  BY <1>4, <1>5, <1>6, SoundStep

LEMMA SumInt ==
  ASSUME NEW S, IsFiniteSet(S), NEW f, Ints(f, S)
  PROVE  SumFunctionOnSet(f, S) \in Int
BY SumSound DEF Sound

LEMMA SumTake ==
  ASSUME NEW S, IsFiniteSet(S), NEW f, Ints(f, S), NEW x \in S
  PROVE  /\ SumFunctionOnSet(f, S) = f[x] + SumFunctionOnSet(f, S \ {x})
         /\ f[x] \in Int /\ SumFunctionOnSet(f, S \ {x}) \in Int
<1>1. Sound(f, S) /\ IsFiniteSet(S \ {x}) /\ Ints(f, S \ {x}) /\ f[x] \in Int
  BY SumSound, FS_RemoveElement DEF Ints
<1>2. SumFunctionOnSet(f, S \ {x}) \in Int
  BY <1>1, SumInt
<1>3. QED
  BY <1>1, <1>2 DEF Sound, TakesOut

LEMMA SumAdd ==
  ASSUME NEW S, IsFiniteSet(S), NEW x, x \notin S, NEW f, Ints(f, S), f[x] \in Int
  PROVE  SumFunctionOnSet(f, S \cup {x}) = f[x] + SumFunctionOnSet(f, S)
<1>1. IsFiniteSet(S \cup {x}) /\ Ints(f, S \cup {x}) /\ x \in S \cup {x}
  BY FS_AddElement DEF Ints
<1>2. (S \cup {x}) \ {x} = S
  OBVIOUS
<1>3. QED
  BY <1>1, <1>2, SumTake

(* Two sums that differ in one summand.                                    *)
LEMMA SumChange ==
  ASSUME NEW S, IsFiniteSet(S), NEW f, NEW e, Ints(f, S), Ints(e, S), NEW x \in S,
         \A y \in S : y # x => f[y] = e[y]
  PROVE  SumFunctionOnSet(e, S) = SumFunctionOnSet(f, S) - f[x] + e[x]
<1>1. SumFunctionOnSet(f, S \ {x}) = SumFunctionOnSet(e, S \ {x})
  <2>1. IsFiniteSet(S \ {x})
    BY FS_RemoveElement
  <2>2. \A y \in S \ {x} : f[y] = e[y]
    OBVIOUS
  <2>3. QED
    BY <2>1, <2>2, SumSame
<1>2. /\ SumFunctionOnSet(f, S) = f[x] + SumFunctionOnSet(f, S \ {x})
      /\ SumFunctionOnSet(e, S) = e[x] + SumFunctionOnSet(e, S \ {x})
      /\ f[x] \in Int /\ e[x] \in Int /\ SumFunctionOnSet(f, S \ {x}) \in Int
  BY SumTake
<1>3. QED
  BY <1>1, <1>2

(* A sum of natural numbers is one.                                        *)
LEMMA SumNat ==
  ASSUME NEW S, IsFiniteSet(S), NEW f, \A x \in S : f[x] \in Nat
  PROVE  SumFunctionOnSet(f, S) \in Nat
<1> DEFINE Bad(n) == \E s \in SUBSET S : Cardinality(s) = n /\ SumFunctionOnSet(f, s) \notin Nat
           N == {n \in Nat : Bad(n)}
<1>1. SUFFICES ASSUME SumFunctionOnSet(f, S) \notin Nat PROVE FALSE
  OBVIOUS
<1>2. Cardinality(S) \in N
  BY <1>1, FS_CardinalityType
<1>3. PICK n \in N : \A k \in N : n <= k
  BY <1>2, LeastNat
<1>4. PICK s \in SUBSET S : Cardinality(s) = n /\ SumFunctionOnSet(f, s) \notin Nat
  BY <1>3
<1>5. IsFiniteSet(s) /\ Ints(f, s) /\ n \in Nat
  BY <1>3, FS_Subset DEF Ints
<1>6. s # {}
  BY <1>4, SumEmpty
<1>7. PICK x \in s : TRUE
  BY <1>6
<1>8. /\ SumFunctionOnSet(f, s) = f[x] + SumFunctionOnSet(f, s \ {x})
      /\ SumFunctionOnSet(f, s \ {x}) \in Int
  BY <1>5, SumTake
<1>9. SumFunctionOnSet(f, s \ {x}) \in Nat
  <2>1. s \ {x} \in SUBSET S /\ Cardinality(s \ {x}) \in Nat /\ Cardinality(s \ {x}) < n
    BY <1>4, <1>5, SmallerSet
  <2>2. Cardinality(s \ {x}) \notin N
    BY <1>3, <1>5, <2>1
  <2>3. QED
    BY <2>1, <2>2
<1>10. f[x] \in Nat
  OBVIOUS
<1>11. QED
  BY <1>4, <1>8, <1>9, <1>10

(* The sum of the differences is the difference of the sums.               *)
LEMMA SumMinus ==
  ASSUME NEW S, IsFiniteSet(S), NEW f, NEW e, NEW d, Ints(f, S), Ints(e, S),
         \A x \in S : d[x] = f[x] - e[x]
  PROVE  SumFunctionOnSet(d, S) = SumFunctionOnSet(f, S) - SumFunctionOnSet(e, S)
<1> DEFINE Differs(s) == SumFunctionOnSet(d, s) # SumFunctionOnSet(f, s) - SumFunctionOnSet(e, s)
           N == {n \in Nat : \E s \in SUBSET S : Cardinality(s) = n /\ Differs(s)}
<1>1. SUFFICES ASSUME Differs(S) PROVE FALSE
  OBVIOUS
<1>2. Cardinality(S) \in N
  BY <1>1, FS_CardinalityType
<1>3. PICK n \in N : \A k \in N : n <= k
  BY <1>2, LeastNat
<1>4. PICK s \in SUBSET S : Cardinality(s) = n /\ Differs(s)
  BY <1>3
<1>5. IsFiniteSet(s) /\ Ints(f, s) /\ Ints(e, s) /\ Ints(d, s) /\ n \in Nat
  BY <1>3, FS_Subset DEF Ints
<1>6. s # {}
  BY <1>4, SumEmpty
<1>7. PICK x \in s : TRUE
  BY <1>6
<1>8. /\ SumFunctionOnSet(f, s) = f[x] + SumFunctionOnSet(f, s \ {x})
      /\ SumFunctionOnSet(e, s) = e[x] + SumFunctionOnSet(e, s \ {x})
      /\ SumFunctionOnSet(d, s) = d[x] + SumFunctionOnSet(d, s \ {x})
      /\ f[x] \in Int /\ e[x] \in Int
      /\ SumFunctionOnSet(f, s \ {x}) \in Int /\ SumFunctionOnSet(e, s \ {x}) \in Int
  BY <1>5, SumTake
<1>9. ~Differs(s \ {x})
  <2>1. s \ {x} \in SUBSET S /\ Cardinality(s \ {x}) \in Nat /\ Cardinality(s \ {x}) < n
    BY <1>4, <1>5, SmallerSet
  <2>2. ~(n <= Cardinality(s \ {x}))
    BY <1>5, <2>1
  <2> HIDE DEF N
  <2>3. Cardinality(s \ {x}) \notin N
    BY <1>3, <2>2
  <2> USE DEF N
  <2>4. QED
    BY <2>1, <2>3
<1>10. d[x] = f[x] - e[x]
  OBVIOUS
<1>11. QED
  BY <1>4, <1>8, <1>9, <1>10

=============================================================================
