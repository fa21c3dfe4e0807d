--------------------------- MODULE MqttTopic_proofs ---------------------------
(***************************************************************************)
(* Proof that the character loop of _core_mqtt_topic_compare decides MQTT's *)
(* rule for wildcards, for every valid filter and every topic name.        *)
(***************************************************************************)
EXTENDS MqttTopic, WellFoundedInduction, FiniteSetTheorems, TLAPS

LEMMA LeastMember ==
  ASSUME NEW T, T \subseteq Nat, T # {}
  PROVE  \E x \in T : \A y \in T : x <= y
<1> DEFINE R == OpToRel(<, Nat)
<1>1. PICK x \in T : \A y \in T : ~ (<<y, x>> \in R)
  <2> HIDE DEF R
  <2>1. IsWellFoundedOn(R, Nat)
    BY NatLessThanWellFounded DEF R
  <2> QED BY <2>1, WFMin
<1>2. ASSUME NEW y \in T, y < x PROVE  <<y, x>> \in R
  <2> x \in Nat /\ y \in Nat OBVIOUS
  <2> QED BY <1>2 DEF OpToRel
<1> HIDE DEF R
<1>3. \A y \in T : ~(y < x)
  BY <1>1, <1>2, Zenon
<1> QED BY <1>3

\* Induction, with the statement given as the set of numbers it holds for.
LEMMA Induction ==
  ASSUME NEW S, 0 \in S, \A n \in Nat : n \in S => n + 1 \in S
  PROVE  Nat \subseteq S
<1> SUFFICES ASSUME NEW T, T = Nat \ S, T # {} PROVE FALSE
  OBVIOUS
<1>1. PICK x \in T : \A y \in T : x <= y
  BY LeastMember
<1>2. x \in Nat /\ x # 0 /\ x \notin S
  OBVIOUS
<1>3. x - 1 \in Nat /\ x - 1 \notin T
  BY <1>1, <1>2
<1>4. x - 1 \in S
  BY <1>3
<1>5. (x - 1) + 1 \in S
  BY <1>3, <1>4
<1> QED BY <1>2, <1>5

-----------------------------------------------------------------------------
(* The loop. *)

LEMMA NextSlashType ==
  ASSUME NEW name, Len(name) \in Nat, NEW c \in 1 .. Len(name) + 1
  PROVE  LET e == NextSlash(name, c)
         IN  /\ e \in c .. Len(name) + 1
             /\ e = Len(name) + 1 \/ name[e] = "/"
             /\ \A k \in c .. Len(name) : name[k] = "/" => e <= k
<1> DEFINE ends == {k \in c .. Len(name) + 1 : k = Len(name) + 1 \/ name[k] = "/"}
<1>1. ends \subseteq Nat /\ Len(name) + 1 \in ends
  OBVIOUS
<1>2. \E k \in ends : \A j \in ends : k <= j
  <2> HIDE DEF ends
  <2> QED BY <1>1, LeastMember
<1>3. /\ NextSlash(name, c) \in ends
      /\ \A j \in ends : NextSlash(name, c) <= j
  BY <1>2 DEF NextSlash
<1> QED BY <1>3

\* The positions of the name that the loop accepts at i, given those that it
\* accepts at i + 1.
Accepts(topic, name, i, rest) ==
  {c \in 1 .. Len(name) + 1 :
     IF i > Len(topic) THEN c > Len(name)
     ELSE IF c > Len(name) THEN SubSeq(topic, i, Len(topic)) = <<"/", "#">>
     ELSE CASE topic[i] = "#" -> TRUE
            [] topic[i] = "+" ->
                 LET e == NextSlash(name, c)
                 IN  (e <= Len(name) => i < Len(topic)) /\ e \in rest
            [] OTHER -> topic[i] = name[c] /\ c + 1 \in rest}

IsCompare(topic, name, g) ==
  g = [i \in 1 .. Len(topic) + 1 |-> Accepts(topic, name, i, g[i + 1])]

LEMMA CompareExists ==
  ASSUME NEW topic, NEW name, Len(topic) \in Nat
  PROVE  \E g : IsCompare(topic, name, g)
<1> DEFINE m == Len(topic) + 1
           Fix(k) == \E g : /\ g = [i \in 1 .. m |-> g[i]]
                            /\ \A i \in 1 .. m :
                                 i > m - k => g[i] = Accepts(topic, name, i, g[i + 1])
           S == {k \in Nat : k <= m => Fix(k)}
<1>1. 0 \in S
  <2>1. \E g : g = [i \in 1 .. m |-> g[i]] /\ g = [i \in 1 .. m |-> {}]
    OBVIOUS
  <2> QED BY <2>1
<1>2. ASSUME NEW k \in Nat, k \in S PROVE k + 1 \in S
  <2> SUFFICES ASSUME k + 1 <= m PROVE Fix(k + 1)
    OBVIOUS
  <2>1. PICK g : /\ g = [i \in 1 .. m |-> g[i]]
                 /\ \A i \in 1 .. m :
                      i > m - k => g[i] = Accepts(topic, name, i, g[i + 1])
    BY <1>2
  <2> DEFINE h == [i \in 1 .. m |-> IF i = m - k THEN Accepts(topic, name, i, g[i + 1]) ELSE g[i]]
  <2>2. h = [i \in 1 .. m |-> h[i]]
    OBVIOUS
  <2>3. \A i \in 1 .. m : h[i] = IF i = m - k THEN Accepts(topic, name, i, g[i + 1]) ELSE g[i]
    OBVIOUS
  <2> HIDE DEF h
  <2>4. ASSUME NEW i \in 1 .. m, i > m - (k + 1)
        PROVE  h[i] = Accepts(topic, name, i, h[i + 1])
    <3>1. h[i] = Accepts(topic, name, i, g[i + 1])
      <4>1. CASE i = m - k
        BY <2>3, <4>1
      <4>2. CASE i # m - k
        <5>1. i > m - k /\ h[i] = g[i]
          BY <2>3, <2>4, <4>2
        <5> QED BY <2>1, <5>1
      <4> QED BY <4>1, <4>2
    <3>2. Accepts(topic, name, i, h[i + 1]) = Accepts(topic, name, i, g[i + 1])
      <4>1. CASE i = m
        BY <4>1 DEF Accepts
      <4>2. CASE i # m
        <5>1. h[i + 1] = g[i + 1]
          BY <2>3, <2>4, <4>2
        <5> QED BY <5>1
      <4> QED BY <4>1, <4>2
    <3> QED BY <3>1, <3>2
  <2> QED BY <2>2, <2>4
<1>3. Fix(m)
  <2> HIDE DEF Fix
  <2>1. Nat \subseteq S
    <3> HIDE DEF S
    <3> QED BY <1>1, <1>2, Induction
  <2> QED BY <2>1
<1>4. PICK g : /\ g = [i \in 1 .. m |-> g[i]]
               /\ \A i \in 1 .. m : i > m - m => g[i] = Accepts(topic, name, i, g[i + 1])
  BY <1>3
<1>5. \A i \in 1 .. m : g[i] = Accepts(topic, name, i, g[i + 1])
  <2> TAKE i \in 1 .. m
  <2>1. i > m - m
    OBVIOUS
  <2> QED BY <1>4, <2>1, Zenon
<1>6. g = [i \in 1 .. m |-> Accepts(topic, name, i, g[i + 1])]
  <2>1. [i \in 1 .. m |-> g[i]] = [i \in 1 .. m |-> Accepts(topic, name, i, g[i + 1])]
    BY <1>5, Zenon
  <2> QED BY <1>4, <2>1, Zenon
<1> QED BY <1>6 DEF IsCompare

LEMMA CompareUnfolds ==
  ASSUME NEW topic, NEW name, Len(topic) \in Nat
  PROVE  \E g : /\ \A i \in 1 .. Len(topic) + 1 : g[i] = Accepts(topic, name, i, g[i + 1])
                /\ topic_compare(topic, name) <=> 1 \in g[1]
<1> DEFINE f == CHOOSE g : IsCompare(topic, name, g)
<1>1. topic_compare(topic, name) <=> 1 \in f[1]
  BY Zenon DEF topic_compare, Accepts, IsCompare
<1>2. IsCompare(topic, name, f)
  BY CompareExists, Zenon
<1> HIDE DEF f
<1>3. \A i \in 1 .. Len(topic) + 1 : f[i] = Accepts(topic, name, i, f[i + 1])
  BY <1>2 DEF IsCompare
<1> QED BY <1>1, <1>3

-----------------------------------------------------------------------------
(* The members of a finite set of numbers, by rank. *)

Below(C, c) == {d \in C : d < c}
Rank(C, c)  == Cardinality(Below(C, c))

LEMMA RankType ==
  ASSUME NEW C, C \subseteq Nat, IsFiniteSet(C), NEW c \in C
  PROVE  /\ Rank(C, c) \in Nat /\ Rank(C, c) \in 0 .. Cardinality(C) - 1
         /\ IsFiniteSet(Below(C, c))
<1>1. Below(C, c) \in SUBSET C /\ c \notin Below(C, c)
  BY DEF Below
<1>2. /\ IsFiniteSet(Below(C, c))
      /\ Cardinality(Below(C, c)) <= Cardinality(C)
      /\ Cardinality(C) = Cardinality(Below(C, c)) => C = Below(C, c)
  BY <1>1, FS_Subset
<1>3. Cardinality(C) \in Nat /\ Cardinality(Below(C, c)) \in Nat
  BY <1>2, FS_CardinalityType
<1>4. Cardinality(C) # Cardinality(Below(C, c))
  BY <1>1, <1>2
<1> QED BY <1>2, <1>3, <1>4 DEF Rank

LEMMA RankMonotone ==
  ASSUME NEW C, C \subseteq Nat, IsFiniteSet(C), NEW c \in C, NEW d \in C, c < d
  PROVE  Rank(C, c) < Rank(C, d)
<1>1. Below(C, c) \in SUBSET Below(C, d) /\ c \in Below(C, d) /\ c \notin Below(C, c)
  <2>1. \A e \in C : e < c => e < d
    OBVIOUS
  <2>2. ~(c < c)
    OBVIOUS
  <2> QED BY <2>1, <2>2 DEF Below
<1>2. IsFiniteSet(Below(C, d)) /\ IsFiniteSet(Below(C, c))
  BY RankType
<1>3. /\ Cardinality(Below(C, c)) <= Cardinality(Below(C, d))
      /\ Cardinality(Below(C, d)) = Cardinality(Below(C, c)) => Below(C, d) = Below(C, c)
  BY <1>1, <1>2, FS_Subset
<1>4. Cardinality(Below(C, c)) \in Nat /\ Cardinality(Below(C, d)) \in Nat
  BY <1>2, FS_CardinalityType
<1>5. Cardinality(Below(C, c)) # Cardinality(Below(C, d))
  BY <1>1, <1>3
<1> QED BY <1>3, <1>4, <1>5 DEF Rank

LEMMA RankUnique ==
  ASSUME NEW C, C \subseteq Nat, IsFiniteSet(C), NEW c \in C, NEW d \in C,
         Rank(C, c) = Rank(C, d)
  PROVE  c = d
<1>1. c < d => Rank(C, c) < Rank(C, d)
  BY RankMonotone
<1>2. d < c => Rank(C, d) < Rank(C, c)
  BY RankMonotone
<1>3. Rank(C, c) \in Nat /\ Rank(C, d) \in Nat
  BY RankType, Zenon
<1>4. c \in Nat /\ d \in Nat
  OBVIOUS
<1> QED BY <1>1, <1>2, <1>3, <1>4

LEMMA RankOnto ==
  ASSUME NEW C, C \subseteq Nat, IsFiniteSet(C), NEW k \in 0 .. Cardinality(C) - 1
  PROVE  \E c \in C : Rank(C, c) = k
<1> DEFINE n == Cardinality(C)
           K == 0 .. n - 1
           f == [c \in C |-> Rank(C, c)]
<1>1. n \in Nat
  BY FS_CardinalityType
<1>2. IsFiniteSet(K) /\ Cardinality(K) = n
  BY <1>1, FS_Interval
<1>3. f \in Injection(C, K)
  <2>1. f \in [C -> K]
    BY RankType
  <2>2. \A c, d \in C : f[c] = f[d] => c = d
    BY RankUnique
  <2> QED BY <2>1, <2>2 DEF Injection, IsInjective
<1>4. f \in Surjection(C, K)
  <2> HIDE DEF f, K
  <2> QED BY <1>2, <1>3, FS_Injection DEF n
<1> QED BY <1>4 DEF Surjection

Shift(S) == {d + 1 : d \in S}

LEMMA ShiftCardinality ==
  ASSUME NEW S, S \subseteq Nat, IsFiniteSet(S)
  PROVE  IsFiniteSet(Shift(S)) /\ Cardinality(Shift(S)) = Cardinality(S)
<1> DEFINE f == [d \in S |-> d + 1]
           T == Shift(S)
<1>1. f \in [S -> T]
  BY DEF Shift
<1>2. \A c, d \in S : f[c] = f[d] => c = d
  OBVIOUS
<1>3. \A t \in T : \E d \in S : f[d] = t
  BY DEF Shift
<1>4. f \in Bijection(S, T)
  <2> HIDE DEF f, T
  <2> QED BY <1>1, <1>2, <1>3 DEF Bijection, Injection, Surjection, IsInjective
<1>5. ExistsBijection(S, T)
  BY <1>4 DEF ExistsBijection
<1> QED BY <1>5, FS_Bijection

\* One element in front of a shifted set.
LEMMA ShiftAndZero ==
  ASSUME NEW S, S \subseteq Nat, IsFiniteSet(S)
  PROVE  /\ IsFiniteSet({0} \cup Shift(S))
         /\ Cardinality({0} \cup Shift(S)) = Cardinality(S) + 1
<1>1. 0 \notin Shift(S)
  BY DEF Shift
<1>2. {0} \cup Shift(S) = Shift(S) \cup {0}
  OBVIOUS
<1>3. IsFiniteSet(Shift(S)) /\ Cardinality(Shift(S)) = Cardinality(S)
  BY ShiftCardinality
<1> DEFINE T == Shift(S)
<1> HIDE DEF T
<1>4. IsFiniteSet(T \cup {0}) /\ Cardinality(T \cup {0}) = Cardinality(T) + 1
  BY <1>1, <1>3, FS_AddElement DEF T
<1> QED BY <1>2, <1>3, <1>4, Zenon DEF T

-----------------------------------------------------------------------------
(* The levels of a topic. *)

LEMMA CutsType ==
  ASSUME NEW X, NEW t \in Seq(X)
  PROVE  /\ Cuts(t) \subseteq Nat /\ Cuts(t) \subseteq 0 .. Len(t) + 1 /\ IsFiniteSet(Cuts(t))
         /\ 0 \in Cuts(t) /\ Len(t) + 1 \in Cuts(t)
         /\ Cardinality(Cuts(t)) \in Nat /\ Levels(t) \in Nat \ {0}
<1>1. Len(t) \in Nat /\ DOMAIN t = 1 .. Len(t)
  OBVIOUS
<1>2. Cuts(t) \subseteq 0 .. Len(t) + 1 /\ 0 \in Cuts(t) /\ Len(t) + 1 \in Cuts(t)
  BY <1>1 DEF Cuts
<1>3. Cuts(t) \subseteq Nat
  BY <1>1, <1>2
<1>4. IsFiniteSet(Cuts(t))
  <2>1. IsFiniteSet(0 .. Len(t) + 1)
    BY <1>1, FS_Interval
  <2> QED BY <2>1, <1>2, FS_Subset
<1>5. Cardinality(Cuts(t)) \in Nat
  BY <1>4, FS_CardinalityType
<1>6. Cardinality(Cuts(t)) >= 2
  <2>1. Rank(Cuts(t), 0) < Rank(Cuts(t), Len(t) + 1)
    BY <1>1, <1>2, <1>3, <1>4, RankMonotone
  <2>2. Rank(Cuts(t), 0) \in Nat /\ Rank(Cuts(t), Len(t) + 1) \in 0 .. Cardinality(Cuts(t)) - 1
    BY <1>2, <1>3, <1>4, RankType
  <2> QED BY <1>5, <2>1, <2>2
<1> QED BY <1>2, <1>3, <1>4, <1>5, <1>6 DEF Levels

LEMMA CutIs ==
  ASSUME NEW X, NEW t \in Seq(X), NEW x \in Cuts(t), NEW k, Rank(Cuts(t), x) = k - 1
  PROVE  Cut(t, k) = x
<1> DEFINE C == Cuts(t)
<1>1. C \subseteq Nat /\ IsFiniteSet(C)
  BY CutsType
<1>2. \A c \in C : Rank(C, c) = k - 1 => c = x
  <2> HIDE DEF C
  <2> QED BY <1>1, RankUnique DEF C
<1> QED BY <1>2 DEF Cut, Rank, Below

LEMMA CutType ==
  ASSUME NEW X, NEW t \in Seq(X), NEW k \in 1 .. Levels(t) + 1
  PROVE  /\ Cut(t, k) \in Cuts(t) /\ Cut(t, k) \in 0 .. Len(t) + 1
         /\ Rank(Cuts(t), Cut(t, k)) = k - 1
<1>1. k - 1 \in 0 .. Cardinality(Cuts(t)) - 1
  BY CutsType DEF Levels
<1>2. PICK c \in Cuts(t) : Rank(Cuts(t), c) = k - 1
  BY <1>1, CutsType, RankOnto
<1>3. Cut(t, k) = c
  BY <1>2, CutIs
<1> QED BY <1>2, <1>3, CutsType

LEMMA CutIncreases ==
  ASSUME NEW X, NEW t \in Seq(X), NEW k \in 1 .. Levels(t)
  PROVE  Cut(t, k) < Cut(t, k + 1)
<1> DEFINE C == Cuts(t)
<1>0. Levels(t) \in Nat /\ Len(t) \in Nat /\ C \subseteq Nat /\ IsFiniteSet(C)
  BY CutsType
<1>1. k \in 1 .. Levels(t) + 1 /\ k + 1 \in 1 .. Levels(t) + 1
  BY <1>0
<1>2. /\ Cut(t, k) \in C /\ Cut(t, k + 1) \in C
      /\ Cut(t, k) \in Nat /\ Cut(t, k + 1) \in Nat
      /\ Rank(C, Cut(t, k)) = k - 1 /\ Rank(C, Cut(t, k + 1)) = k
  BY <1>0, <1>1, CutType
<1>3. Cut(t, k + 1) < Cut(t, k) => Rank(C, Cut(t, k + 1)) < Rank(C, Cut(t, k))
  BY <1>0, <1>2, RankMonotone
<1> HIDE DEF C
<1>4. Cut(t, k + 1) # Cut(t, k)
  BY <1>2
<1> QED BY <1>2, <1>3, <1>4

LEMMA FirstCut ==
  ASSUME NEW X, NEW t \in Seq(X)
  PROVE  Cut(t, 1) = 0
<1>1. Below(Cuts(t), 0) = {}
  BY CutsType DEF Below
<1>2. Rank(Cuts(t), 0) = 1 - 1
  BY <1>1, FS_EmptySet DEF Rank
<1> QED BY <1>2, CutsType, CutIs

LEMMA LastCut ==
  ASSUME NEW X, NEW t \in Seq(X)
  PROVE  Cut(t, Levels(t) + 1) = Len(t) + 1
<1> DEFINE C == Cuts(t)
           m == Len(t) + 1
<1>1. C \subseteq Nat /\ C \subseteq 0 .. m /\ IsFiniteSet(C) /\ m \in C /\ Cardinality(C) \in Nat
  BY CutsType
<1>2. Below(C, m) = C \ {m}
  <2> Len(t) \in Nat
    OBVIOUS
  <2> m \in Nat
    OBVIOUS
  <2> HIDE DEF C, m
  <2>1. \A d \in C : d < m <=> d # m
    BY <1>1
  <2> QED BY <2>1, Zenon DEF Below
<1>3. Rank(C, m) = Cardinality(C) - 1
  <2> HIDE DEF C, m
  <2> QED BY <1>1, <1>2, FS_RemoveElement DEF Rank
<1> QED BY <1>1, <1>3, CutIs DEF Levels

LEMMA TailFacts ==
  ASSUME NEW X, NEW t \in Seq(X), t # <<>>
  PROVE  /\ Tail(t) \in Seq(X) /\ Len(t) \in Nat \ {0} /\ Len(Tail(t)) = Len(t) - 1
         /\ t[1] \in X /\ DOMAIN t = 1 .. Len(t) /\ DOMAIN Tail(t) = 1 .. Len(t) - 1
         /\ \A i \in 1 .. Len(t) - 1 : Tail(t)[i] = t[i + 1]
OBVIOUS

\* The cuts of a topic without its first character.
LEMMA CutsOfTail ==
  ASSUME NEW X, NEW t \in Seq(X), t # <<>>
  PROVE  Cuts(t) = {0} \cup Shift(IF t[1] = "/" THEN Cuts(Tail(t)) ELSE Cuts(Tail(t)) \ {0})
<1> DEFINE u == Tail(t)
           D == IF t[1] = "/" THEN Cuts(u) ELSE Cuts(u) \ {0}
<1>1. ASSUME NEW c \in Cuts(t), c # 0 PROVE c - 1 \in D /\ c = (c - 1) + 1
  <2>1. c \in 1 .. Len(t) + 1
    BY <1>1, TailFacts DEF Cuts
  <2>2. CASE c = Len(t) + 1
    BY <2>2, TailFacts DEF Cuts
  <2>3. CASE c = 1
    <3>1. t[1] = "/"
      BY <2>3, TailFacts DEF Cuts
    <3> QED BY <3>1, <2>3 DEF Cuts
  <2>4. CASE c \in 2 .. Len(t)
    <3>1. c \in DOMAIN t /\ t[c] = "/"
      BY <2>4, TailFacts DEF Cuts
    <3>2. c - 1 \in DOMAIN u /\ u[c - 1] = "/" /\ c - 1 # 0
      BY <2>4, <3>1, TailFacts
    <3> QED BY <2>1, <3>2 DEF Cuts
  <2> QED BY <2>1, <2>2, <2>3, <2>4, TailFacts
<1>2. ASSUME NEW d \in D PROVE d + 1 \in Cuts(t)
  <2>1. d \in Cuts(u) /\ (d = 0 => t[1] = "/")
    OBVIOUS
  <2>2. CASE d = 0
    BY <2>1, <2>2, TailFacts DEF Cuts
  <2>3. CASE d = Len(u) + 1
    BY <2>3, TailFacts DEF Cuts
  <2>4. CASE d \in DOMAIN u /\ u[d] = "/"
    <3>1. d + 1 \in DOMAIN t /\ t[d + 1] = "/"
      BY <2>4, TailFacts
    <3> QED BY <3>1 DEF Cuts
  <2> QED BY <2>1, <2>2, <2>3, <2>4 DEF Cuts
<1>3. 0 \in Cuts(t)
  BY CutsType
<1> HIDE DEF D
<1>4. Cuts(t) = {0} \cup Shift(D)
  BY <1>1, <1>2, <1>3 DEF Shift
<1> QED BY <1>4 DEF D

\* A slash in front adds a level.
LEMMA SlashCuts ==
  ASSUME NEW X, NEW t \in Seq(X), t # <<>>, t[1] = "/"
  PROVE  /\ Levels(t) = Levels(Tail(t)) + 1
         /\ \A k \in 1 .. Levels(Tail(t)) + 1 : Cut(t, k + 1) = Cut(Tail(t), k) + 1
<1> DEFINE u == Tail(t)
           C == Cuts(u)
<1>1. u \in Seq(X)
  BY TailFacts
<1>2. Cuts(t) = {0} \cup Shift(C)
  BY CutsOfTail
<1>3. C \subseteq Nat /\ IsFiniteSet(C) /\ Cardinality(C) \in Nat
  BY <1>1, CutsType
<1>4. Cardinality(Cuts(t)) = Cardinality(C) + 1
  BY <1>2, <1>3, ShiftAndZero
<1>5. ASSUME NEW k \in 1 .. Levels(u) + 1 PROVE Cut(t, k + 1) = Cut(u, k) + 1
  <2> DEFINE c == Cut(u, k)
  <2>1. c \in C /\ Rank(C, c) = k - 1
    BY <1>1, CutType
  <2>2. c + 1 \in Cuts(t)
    BY <1>2, <2>1 DEF Shift
  <2>3. Below(Cuts(t), c + 1) = {0} \cup Shift(Below(C, c))
    <3> c \in Nat
      BY <1>3, <2>1
    <3> HIDE DEF C, c
    <3>1. \A x : x \in Below(Cuts(t), c + 1) => x \in {0} \cup Shift(Below(C, c))
      BY <1>2, <1>3 DEF Shift, Below
    <3>2. \A x : x \in {0} \cup Shift(Below(C, c)) => x \in Below(Cuts(t), c + 1)
      BY <1>2, <1>3 DEF Shift, Below
    <3> QED BY <3>1, <3>2
  <2>4. Below(C, c) \subseteq Nat /\ IsFiniteSet(Below(C, c))
    BY <1>3, <2>1, RankType DEF Below
  <2>5. Rank(Cuts(t), c + 1) = (k + 1) - 1
    <3>1. Cardinality({0} \cup Shift(Below(C, c))) = Rank(C, c) + 1
      BY <2>4, ShiftAndZero DEF Rank
    <3>2. Levels(u) \in Nat
      BY <1>1, CutsType
    <3>3. k \in Nat
      BY <3>2
    <3>4. Cardinality(Below(Cuts(t), c + 1)) = Cardinality({0} \cup Shift(Below(C, c)))
      BY <2>3
    <3> QED BY <2>1, <3>1, <3>3, <3>4 DEF Rank
  <2> QED BY <2>2, <2>5, CutIs
<1> QED BY <1>3, <1>4, <1>5 DEF Levels

\* Any other character in front widens the first level.
LEMMA LetterCuts ==
  ASSUME NEW X, NEW t \in Seq(X), t # <<>>, t[1] # "/"
  PROVE  /\ Levels(t) = Levels(Tail(t))
         /\ \A k \in 2 .. Levels(Tail(t)) + 1 : Cut(t, k) = Cut(Tail(t), k) + 1
<1> DEFINE u == Tail(t)
           C == Cuts(u)
           D == C \ {0}
<1>1. u \in Seq(X)
  BY TailFacts
<1>2. Cuts(t) = {0} \cup Shift(D)
  BY CutsOfTail
<1>3. C \subseteq Nat /\ IsFiniteSet(C) /\ Cardinality(C) \in Nat /\ 0 \in C
  BY <1>1, CutsType
<1>4. D \subseteq Nat /\ IsFiniteSet(D) /\ Cardinality(D) = Cardinality(C) - 1
  BY <1>3, FS_RemoveElement
<1>5. Cardinality(Cuts(t)) = Cardinality(C)
  <2>1. Cardinality({0} \cup Shift(D)) = Cardinality(D) + 1
    BY <1>4, ShiftAndZero
  <2> QED BY <1>2, <1>3, <1>4, <2>1
<1>6. ASSUME NEW k \in 2 .. Levels(u) + 1 PROVE Cut(t, k) = Cut(u, k) + 1
  <2> DEFINE c == Cut(u, k)
             B == Below(C, c) \ {0}
  <2>0. k \in 1 .. Levels(u) + 1 /\ 1 \in 1 .. Levels(u) + 1
    <3>1. Levels(u) \in Nat \ {0}
      BY <1>1, CutsType
    <3> QED BY <3>1
  <2>1. c \in C /\ Rank(C, c) = k - 1
    BY <1>1, <2>0, CutType
  <2>2. c # 0
    <3>1. Cut(u, 1) = 0 /\ Rank(C, Cut(u, 1)) = 1 - 1
      BY <1>1, <2>0, FirstCut, CutType
    <3>2. k - 1 # 0
      OBVIOUS
    <3> QED BY <2>1, <3>1, <3>2
  <2>3. c + 1 \in Cuts(t)
    BY <1>2, <2>1, <2>2 DEF Shift
  <2>4. Below(Cuts(t), c + 1) = {0} \cup Shift(B)
    <3> c \in Nat
      BY <1>3, <2>1
    <3> HIDE DEF C, c
    <3>1. \A x : x \in Below(Cuts(t), c + 1) => x \in {0} \cup Shift(B)
      BY <1>2, <1>3 DEF Shift, Below
    <3>2. \A x : x \in {0} \cup Shift(B) => x \in Below(Cuts(t), c + 1)
      BY <1>2, <1>3 DEF Shift, Below
    <3> QED BY <3>1, <3>2
  <2>5. Below(C, c) \subseteq Nat /\ IsFiniteSet(Below(C, c)) /\ 0 \in Below(C, c)
    BY <1>3, <2>1, <2>2, RankType DEF Below
  <2>6. B \subseteq Nat /\ IsFiniteSet(B) /\ Cardinality(B) = Rank(C, c) - 1
    BY <2>5, FS_RemoveElement DEF Rank
  <2>7. Rank(Cuts(t), c + 1) = k - 1
    <3>1. Cardinality({0} \cup Shift(B)) = Cardinality(B) + 1
      BY <2>6, ShiftAndZero
    <3>2. k \in Nat
      BY <2>0
    <3>3. Cardinality(Below(Cuts(t), c + 1)) = Cardinality({0} \cup Shift(B))
      BY <2>4
    <3> QED BY <2>1, <2>6, <3>1, <3>2, <3>3 DEF Rank
  <2> QED BY <2>3, <2>7, CutIs
<1> QED BY <1>3, <1>5, <1>6 DEF Levels

LEMMA SubSeqOfTail ==
  ASSUME NEW X, NEW t \in Seq(X), t # <<>>,
         NEW a \in Nat, NEW b \in Nat, a < b, b <= Len(t)
  PROVE  /\ SubSeq(t, a + 2, b) = SubSeq(Tail(t), a + 1, b - 1)
         /\ SubSeq(Tail(t), a + 1, b - 1) \in Seq(X)
         /\ SubSeq(t, 1, b) = <<t[1]>> \o SubSeq(Tail(t), 1, b - 1)
<1>1. SubSeq(t, a + 2, b) = SubSeq(Tail(t), a + 1, b - 1)
  OBVIOUS
<1>2. SubSeq(Tail(t), a + 1, b - 1) \in Seq(X)
  OBVIOUS
<1>3. SubSeq(t, 1, b) = <<t[1]>> \o SubSeq(Tail(t), 1, b - 1)
  OBVIOUS
<1> QED BY <1>1, <1>2, <1>3

LEMMA CutRange ==
  ASSUME NEW X, NEW t \in Seq(X), NEW k \in 1 .. Levels(t)
  PROVE  /\ Cut(t, k) \in Nat /\ Cut(t, k + 1) \in Nat /\ Cut(t, k) < Cut(t, k + 1)
         /\ Cut(t, k + 1) <= Len(t) + 1
<1>1. Levels(t) \in Nat /\ Len(t) \in Nat
  BY CutsType
<1>2. k \in 1 .. Levels(t) + 1 /\ k + 1 \in 1 .. Levels(t) + 1
  BY <1>1
<1> QED BY <1>1, <1>2, CutType, CutIncreases

LEMMA LevelType ==
  ASSUME NEW X, NEW t \in Seq(X), NEW k \in 1 .. Levels(t)
  PROVE  Level(t, k) \in Seq(X)
BY CutRange DEF Level

LEMMA OneLevel ==
  ASSUME NEW X, NEW t \in Seq(X), Levels(t) = 1
  PROVE  Level(t, 1) = t
<1>1. Cut(t, 1) = 0 /\ Cut(t, 1 + 1) = Len(t) + 1
  BY FirstCut, LastCut
<1> QED BY <1>1 DEF Level

LEMMA NoLevels ==
  ASSUME NEW X
  PROVE  <<>> \in Seq(X) /\ Levels(<<>>) = 1 /\ Level(<<>>, 1) = <<>>
<1>1. <<>> \in Seq(X)
  OBVIOUS
<1>2. Cuts(<<>>) = {0} \cup {1}
  BY DEF Cuts
<1>3. Cardinality(Cuts(<<>>)) = 2
  <2>1. IsFiniteSet({0}) /\ Cardinality({0}) = 1
    BY FS_Singleton
  <2>2. Cardinality({0} \cup {1}) = IF 1 \in {0} THEN Cardinality({0}) ELSE Cardinality({0}) + 1
    BY <2>1, FS_AddElement
  <2> QED BY <1>2, <2>1, <2>2
<1>4. Levels(<<>>) = 1
  BY <1>3 DEF Levels
<1> QED BY <1>1, <1>4, OneLevel

LEMMA SlashLevels ==
  ASSUME NEW X, NEW t \in Seq(X), t # <<>>, t[1] = "/"
  PROVE  /\ Levels(t) = Levels(Tail(t)) + 1
         /\ Level(t, 1) = <<>>
         /\ \A k \in 1 .. Levels(Tail(t)) : Level(t, k + 1) = Level(Tail(t), k)
<1> DEFINE u == Tail(t)
<1>1. u \in Seq(X) /\ Len(u) = Len(t) - 1 /\ Levels(u) \in Nat \ {0} /\ Len(t) \in Nat
  BY TailFacts, CutsType
<1>2. /\ Levels(t) = Levels(u) + 1
      /\ \A k \in 1 .. Levels(u) + 1 : Cut(t, k + 1) = Cut(u, k) + 1
  BY SlashCuts
<1> HIDE DEF u
<1>3. Level(t, 1) = <<>>
  <2>1. Cut(t, 1) = 0 /\ Cut(u, 1) = 0
    BY <1>1, FirstCut
  <2>2. Cut(t, 1 + 1) = 1
    BY <1>1, <1>2, <2>1
  <2> QED BY <2>1, <2>2 DEF Level
<1>4. ASSUME NEW k \in 1 .. Levels(u) PROVE Level(t, k + 1) = Level(u, k)
  <2> DEFINE a == Cut(u, k)
             b == Cut(u, k + 1)
  <2>1. k \in 1 .. Levels(u) + 1 /\ k + 1 \in 1 .. Levels(u) + 1
    BY <1>1
  <2>2. Cut(t, k + 1) = a + 1 /\ Cut(t, (k + 1) + 1) = b + 1
    BY <1>2, <2>1
  <2>3. a \in Nat /\ b \in Nat /\ a < b /\ b <= Len(t)
    BY <1>1, CutRange
  <2>4. SubSeq(t, a + 2, b) = SubSeq(u, a + 1, b - 1)
    BY <2>3, SubSeqOfTail DEF u
  <2>5. (a + 1) + 1 = a + 2 /\ (b + 1) - 1 = b
    BY <2>3
  <2> QED BY <2>2, <2>4, <2>5 DEF Level
<1> QED BY <1>2, <1>3, <1>4, Zenon DEF u

LEMMA LetterLevels ==
  ASSUME NEW X, NEW t \in Seq(X), t # <<>>, t[1] # "/"
  PROVE  /\ Levels(t) = Levels(Tail(t))
         /\ Level(t, 1) = <<t[1]>> \o Level(Tail(t), 1)
         /\ \A k \in 2 .. Levels(Tail(t)) : Level(t, k) = Level(Tail(t), k)
<1> DEFINE u == Tail(t)
<1>1. u \in Seq(X) /\ Len(u) = Len(t) - 1 /\ Levels(u) \in Nat \ {0} /\ Len(t) \in Nat
  BY TailFacts, CutsType
<1>2. /\ Levels(t) = Levels(u)
      /\ \A k \in 2 .. Levels(u) + 1 : Cut(t, k) = Cut(u, k) + 1
  BY LetterCuts
<1> HIDE DEF u
<1>3. Level(t, 1) = <<t[1]>> \o Level(u, 1)
  <2> DEFINE b == Cut(u, 1 + 1)
  <2>1. Cut(t, 1) = 0 /\ Cut(u, 1) = 0
    BY <1>1, FirstCut
  <2>2. Cut(t, 1 + 1) = b + 1
    BY <1>1, <1>2
  <2>3. b \in Nat /\ 0 < b /\ b <= Len(t)
    <3>1. 1 \in 1 .. Levels(u)
      BY <1>1
    <3>2. b \in Nat /\ Cut(u, 1) < b /\ b <= Len(u) + 1
      BY <1>1, <3>1, CutRange
    <3> QED BY <1>1, <2>1, <3>2
  <2>4. SubSeq(t, 1, b) = <<t[1]>> \o SubSeq(u, 1, b - 1)
    BY <2>3, SubSeqOfTail DEF u
  <2>5. (b + 1) - 1 = b
    BY <2>3
  <2>6. Level(t, 1) = SubSeq(t, 1, b) /\ Level(u, 1) = SubSeq(u, 1, b - 1)
    <3>1. Cut(t, 1) + 1 = 1 /\ Cut(u, 1) + 1 = 1 /\ Cut(t, 1 + 1) - 1 = b
      BY <2>1, <2>2, <2>5
    <3> QED BY <3>1, Zenon DEF Level
  <2> QED BY <2>4, <2>6
<1>4. ASSUME NEW k \in 2 .. Levels(u) PROVE Level(t, k) = Level(u, k)
  <2> DEFINE a == Cut(u, k)
             b == Cut(u, k + 1)
  <2>1. k \in 2 .. Levels(u) + 1 /\ k + 1 \in 2 .. Levels(u) + 1 /\ k \in 1 .. Levels(u)
    BY <1>1
  <2>2. Cut(t, k) = a + 1 /\ Cut(t, k + 1) = b + 1
    BY <1>2, <2>1
  <2>3. a \in Nat /\ b \in Nat /\ a < b /\ b <= Len(t)
    BY <1>1, <2>1, CutRange
  <2>4. SubSeq(t, a + 2, b) = SubSeq(u, a + 1, b - 1)
    BY <2>3, SubSeqOfTail DEF u
  <2>5. (a + 1) + 1 = a + 2 /\ (b + 1) - 1 = b
    BY <2>3
  <2> QED BY <2>2, <2>4, <2>5 DEF Level
<1> QED BY <1>2, <1>3, <1>4, Zenon DEF u

LEMMA FirstLevelType ==
  ASSUME NEW X, NEW t \in Seq(X)
  PROVE  Level(t, 1) \in Seq(X)
<1>1. 1 \in 1 .. Levels(t)
  BY CutsType
<1> QED BY <1>1, LevelType

\* What the first level of a topic starts with.
LEMMA FirstLevel ==
  ASSUME NEW X, NEW t \in Seq(X)
  PROVE  /\ Level(t, 1) \in Seq(X)
         /\ Level(t, 1) = <<>> <=> t = <<>> \/ t[1] = "/"
         /\ \A x : Level(t, 1) = <<x>> => t # <<>> /\ t[1] = x
<1>1. Level(t, 1) \in Seq(X)
  BY FirstLevelType
<1>2. CASE t = <<>>
  BY <1>1, <1>2, NoLevels
<1>3. CASE t # <<>> /\ t[1] = "/"
  <2>1. Level(t, 1) = <<>>
    BY <1>3, SlashLevels
  <2>2. \A x : <<x>> # <<>>
    OBVIOUS
  <2> QED BY <1>1, <1>3, <2>1, <2>2, Zenon
<1>4. CASE t # <<>> /\ t[1] # "/"
  <2> DEFINE w == Level(Tail(t), 1)
  <2>1. Level(t, 1) = <<t[1]>> \o w
    BY <1>4, LetterLevels
  <2>2. w \in Seq(X)
    <3>1. Tail(t) \in Seq(X)
      BY <1>4, TailFacts
    <3> QED BY <3>1, FirstLevelType
  <2>3. t[1] \in X
    BY <1>4, TailFacts
  <2> HIDE DEF w
  <2>4. (<<t[1]>> \o w)[1] = t[1] /\ <<t[1]>> \o w # <<>>
    BY <2>2, <2>3
  <2>5. \A x : Level(t, 1) = <<x>> => t[1] = x
    BY <2>1, <2>4
  <2> QED BY <1>1, <1>4, <2>1, <2>4, <2>5
<1> QED BY <1>2, <1>3, <1>4

-----------------------------------------------------------------------------
(* MQTT's rule, one character at a time. *)

Agrees(s, n) == Matches(s, n) /\ ~EmptyLastLevel(s, n)

Same(s, n, k) == Level(s, k) \in {<<"+">>, Level(n, k)}
Open(s)       == Level(s, Levels(s)) = <<"#">>
Closed(s)     == IF Open(s) THEN Levels(s) - 1 ELSE Levels(s)

LEMMA MatchesLevels ==
  ASSUME NEW s, NEW n
  PROVE  Matches(s, n) <=>
           /\ IF Open(s) THEN Levels(n) >= Levels(s) - 1 ELSE Levels(n) = Levels(s)
           /\ \A k \in 1 .. Closed(s) : Same(s, n, k)
BY DEF Matches, Same, Open, Closed

LEMMA AgreesSlash ==
  ASSUME NEW X, NEW s \in Seq(X), NEW n \in Seq(X),
         s # <<>>, n # <<>>, s[1] = "/", n[1] = "/"
  PROVE  Agrees(s, n) <=> Agrees(Tail(s), Tail(n))
<1> DEFINE u == Tail(s)
           v == Tail(n)
<1>1. u \in Seq(X) /\ v \in Seq(X)
  BY TailFacts
<1>2. Levels(u) \in Nat \ {0} /\ Levels(v) \in Nat \ {0}
  BY <1>1, CutsType
<1>3. /\ Levels(s) = Levels(u) + 1 /\ Level(s, 1) = <<>>
      /\ \A k \in 1 .. Levels(u) : Level(s, k + 1) = Level(u, k)
  BY SlashLevels
<1>4. /\ Levels(n) = Levels(v) + 1 /\ Level(n, 1) = <<>>
      /\ \A k \in 1 .. Levels(v) : Level(n, k + 1) = Level(v, k)
  BY SlashLevels
<1> HIDE DEF u, v
<1>5. Open(s) <=> Open(u)
  <2>1. Levels(u) \in 1 .. Levels(u)
    BY <1>2
  <2>2. Level(s, Levels(s)) = Level(u, Levels(u))
    BY <1>3, <2>1, Zenon
  <2> QED BY <2>2, Zenon DEF Open
<1>6. Closed(s) = Closed(u) + 1 /\ Closed(u) \in Nat /\ Closed(u) <= Levels(u)
  <2>1. CASE Open(u)
    <3>1. Closed(s) = Levels(s) - 1 /\ Closed(u) = Levels(u) - 1
      BY <1>5, <2>1, Zenon DEF Closed
    <3> QED BY <1>2, <1>3, <3>1
  <2>2. CASE ~Open(u)
    <3>1. Closed(s) = Levels(s) /\ Closed(u) = Levels(u)
      BY <1>5, <2>2, Zenon DEF Closed
    <3> QED BY <1>2, <1>3, <3>1
  <2> QED BY <2>1, <2>2
<1>7. ASSUME Closed(u) <= Levels(v)
      PROVE  (\A k \in 1 .. Closed(s) : Same(s, n, k)) <=> (\A k \in 1 .. Closed(u) : Same(u, v, k))
  <2>1. Same(s, n, 1)
    BY <1>3, <1>4 DEF Same
  <2>2. \A k \in 1 .. Closed(u) : Same(s, n, k + 1) <=> Same(u, v, k)
    <3> TAKE k \in 1 .. Closed(u)
    <3>1. k \in 1 .. Levels(u) /\ k \in 1 .. Levels(v)
      BY <1>2, <1>6, <1>7
    <3> QED BY <1>3, <1>4, <3>1 DEF Same
  <2>3. \A k \in 1 .. Closed(u) : k + 1 \in 1 .. Closed(s)
    BY <1>6
  <2>4. \A k \in 1 .. Closed(s) : k = 1 \/ (k - 1 \in 1 .. Closed(u) /\ (k - 1) + 1 = k)
    BY <1>6
  <2>5. ASSUME \A k \in 1 .. Closed(u) : Same(u, v, k), NEW k \in 1 .. Closed(s)
        PROVE  Same(s, n, k)
    <3>1. CASE k = 1
      BY <2>1, <3>1
    <3>2. CASE k # 1
      <4>1. Same(s, n, (k - 1) + 1)
        BY <2>2, <2>4, <2>5, <3>2, Zenon
      <4> QED BY <2>4, <3>2, <4>1, Zenon
    <3> QED BY <3>1, <3>2
  <2> QED BY <2>2, <2>3, <2>5, Zenon
<1>8. Matches(s, n) <=> Matches(u, v)
  <2>1. (IF Open(s) THEN Levels(n) >= Levels(s) - 1 ELSE Levels(n) = Levels(s))
          <=> IF Open(u) THEN Levels(v) >= Levels(u) - 1 ELSE Levels(v) = Levels(u)
    BY <1>2, <1>3, <1>4, <1>5
  <2>2. (IF Open(u) THEN Levels(v) >= Levels(u) - 1 ELSE Levels(v) = Levels(u))
          => Closed(u) <= Levels(v)
    BY <1>2 DEF Closed
  <2> QED BY <1>7, <2>1, <2>2, MatchesLevels
<1>9. EmptyLastLevel(s, n) <=> EmptyLastLevel(u, v)
  <2>1. Level(n, Levels(n)) = Level(v, Levels(v))
    BY <1>2, <1>4
  <2>2. Levels(n) <= Levels(s) <=> Levels(v) <= Levels(u)
    BY <1>2, <1>3, <1>4
  <2>3. Levels(v) <= Levels(u) => Level(s, Levels(n)) = Level(u, Levels(v))
    BY <1>2, <1>3, <1>4
  <2> QED BY <2>1, <2>2, <2>3 DEF EmptyLastLevel
<1> QED BY <1>8, <1>9 DEF Agrees, u, v

Wild == {<<"+">>, <<"#">>}

LEMMA FirstLevelParts ==
  ASSUME NEW X, NEW t \in Seq(X), t # <<>>, t[1] # "/"
  PROVE  Level(t, 1)[1] = t[1] /\ Tail(Level(t, 1)) = Level(Tail(t), 1)
<1>1. Tail(t) \in Seq(X) /\ t[1] \in X
  BY TailFacts
<1>2. Level(Tail(t), 1) \in Seq(X)
  BY <1>1, FirstLevelType
<1>3. ASSUME NEW x \in X, NEW w \in Seq(X)
      PROVE  (<<x>> \o w)[1] = x /\ Tail(<<x>> \o w) = w
  OBVIOUS
<1>4. Level(t, 1) = <<t[1]>> \o Level(Tail(t), 1)
  BY LetterLevels
<1> QED BY <1>1, <1>2, <1>3, <1>4

\* The first character of a level that is not a wildcard.
LEMMA AgreesLetter ==
  ASSUME NEW X, NEW s \in Seq(X), NEW n \in Seq(X),
         s # <<>>, n # <<>>, s[1] \notin {"/", "+", "#"}, n[1] # "/",
         Tail(s) # <<>> => Tail(s)[1] \notin {"+", "#"}
  PROVE  Agrees(s, n) <=> s[1] = n[1] /\ Agrees(Tail(s), Tail(n))
<1> DEFINE u == Tail(s)
           v == Tail(n)
<1>1. u \in Seq(X) /\ v \in Seq(X) /\ s[1] \in X /\ n[1] \in X
  BY TailFacts
<1>2. Levels(u) \in Nat \ {0} /\ Levels(v) \in Nat \ {0}
  BY <1>1, CutsType
<1>3. /\ Levels(s) = Levels(u) /\ Level(s, 1) = <<s[1]>> \o Level(u, 1)
      /\ \A k \in 2 .. Levels(u) : Level(s, k) = Level(u, k)
  BY LetterLevels
<1>4. /\ Levels(n) = Levels(v) /\ Level(n, 1) = <<n[1]>> \o Level(v, 1)
      /\ \A k \in 2 .. Levels(v) : Level(n, k) = Level(v, k)
  BY LetterLevels
<1>5. Level(u, 1) \in Seq(X) /\ Level(v, 1) \in Seq(X) /\ Level(u, 1) \notin Wild
  <2>1. Level(u, 1) # <<"+">> /\ Level(u, 1) # <<"#">>
    BY <1>1, FirstLevel
  <2> QED BY <1>1, <2>1, FirstLevel DEF Wild
<1> HIDE DEF u, v
<1>6. Level(s, 1) \notin Wild /\ Level(n, 1) # <<>>
  BY FirstLevel DEF Wild
<1>7. Same(s, n, 1) <=> s[1] = n[1] /\ Same(u, v, 1)
  <2>1. Level(s, 1) = Level(n, 1) <=> s[1] = n[1] /\ Level(u, 1) = Level(v, 1)
    <3>1. s[1] = n[1] /\ Level(u, 1) = Level(v, 1) => Level(s, 1) = Level(n, 1)
      BY <1>3, <1>4, Zenon
    <3>2. /\ Level(s, 1)[1] = s[1] /\ Tail(Level(s, 1)) = Level(u, 1)
          /\ Level(n, 1)[1] = n[1] /\ Tail(Level(n, 1)) = Level(v, 1)
      BY FirstLevelParts DEF u, v
    <3>3. Level(s, 1) = Level(n, 1) => s[1] = n[1] /\ Level(u, 1) = Level(v, 1)
      BY <3>2, Zenon
    <3> QED BY <3>1, <3>3
  <2> QED BY <1>5, <1>6, <2>1 DEF Same, Wild
<1>8. Open(s) <=> Open(u)
  <2>1. CASE Levels(u) = 1
    BY <1>3, <1>5, <1>6, <2>1 DEF Open, Wild
  <2>2. CASE Levels(u) # 1
    BY <1>2, <1>3, <2>2 DEF Open
  <2> QED BY <2>1, <2>2
<1>9. Closed(s) = Closed(u) /\ Closed(u) \in Nat \ {0} /\ Closed(u) <= Levels(u)
  <2>1. Open(u) => Levels(u) # 1
    BY <1>5 DEF Open, Wild
  <2> QED BY <1>2, <1>3, <1>8, <2>1 DEF Closed
<1>10. ASSUME Closed(u) <= Levels(v)
       PROVE  (\A k \in 1 .. Closed(s) : Same(s, n, k))
                <=> s[1] = n[1] /\ (\A k \in 1 .. Closed(u) : Same(u, v, k))
  <2>1. \A k \in 1 .. Closed(u) : k = 1 \/ (Same(s, n, k) <=> Same(u, v, k))
    <3> SUFFICES ASSUME NEW k \in 1 .. Closed(u), k # 1
                 PROVE  Same(s, n, k) <=> Same(u, v, k)
      OBVIOUS
    <3>1. k \in 2 .. Levels(u) /\ k \in 2 .. Levels(v)
      BY <1>2, <1>9, <1>10
    <3> QED BY <1>3, <1>4, <3>1 DEF Same
  <2>2. 1 \in 1 .. Closed(u) /\ 1 .. Closed(s) = 1 .. Closed(u)
    BY <1>9
  <2> QED BY <1>7, <2>1, <2>2, Zenon
<1>11. Matches(s, n) <=> s[1] = n[1] /\ Matches(u, v)
  <2>1. (IF Open(s) THEN Levels(n) >= Levels(s) - 1 ELSE Levels(n) = Levels(s))
          <=> IF Open(u) THEN Levels(v) >= Levels(u) - 1 ELSE Levels(v) = Levels(u)
    BY <1>3, <1>4, <1>8
  <2>2. (IF Open(u) THEN Levels(v) >= Levels(u) - 1 ELSE Levels(v) = Levels(u))
          => Closed(u) <= Levels(v)
    BY <1>2 DEF Closed
  <2> QED BY <1>10, <2>1, <2>2, MatchesLevels
<1>12. EmptyLastLevel(s, n) <=> EmptyLastLevel(u, v)
  <2>1. CASE Levels(v) = 1
    BY <1>4, <1>5, <1>6, <2>1 DEF EmptyLastLevel, Wild
  <2>2. CASE Levels(v) # 1
    <3>1. Level(n, Levels(n)) = Level(v, Levels(v))
      BY <1>2, <1>4, <2>2
    <3>2. Levels(v) <= Levels(u) => Level(s, Levels(n)) = Level(u, Levels(v))
      BY <1>2, <1>3, <1>4, <2>2
    <3> QED BY <1>3, <1>4, <3>1, <3>2 DEF EmptyLastLevel
  <2> QED BY <2>1, <2>2
<1> QED BY <1>11, <1>12 DEF Agrees, u, v

\* Only one of the two ends its level here.
LEMMA AgreesMismatch ==
  ASSUME NEW X, NEW s \in Seq(X), NEW n \in Seq(X),
         s # <<>>, n # <<>>, s[1] \notin {"+", "#"}, (s[1] = "/") # (n[1] = "/")
  PROVE  ~Agrees(s, n)
<1>1. Level(s, 1) \notin Wild
  BY FirstLevel DEF Wild
<1>2. (Level(s, 1) = <<>> <=> s[1] = "/") /\ (Level(n, 1) = <<>> <=> n[1] = "/")
  BY FirstLevel
<1>3. ~Same(s, n, 1)
  BY <1>1, <1>2 DEF Same, Wild
<1>4. Levels(s) \in Nat \ {0}
  BY CutsType
<1>5. 1 \in 1 .. Closed(s)
  <2>1. Open(s) => Levels(s) # 1
    BY <1>1 DEF Open, Wild
  <2> QED BY <1>4, <2>1 DEF Closed
<1> QED BY <1>3, <1>5, MatchesLevels DEF Agrees

LEMMA AgreesEnd ==
  ASSUME NEW X, NEW n \in Seq(X)
  PROVE  Agrees(<<>>, n) <=> n = <<>>
<1>1. Levels(<<>>) = 1 /\ Level(<<>>, 1) = <<>>
  BY NoLevels
<1>3. <<>> # <<"+">> /\ <<>> # <<"#">>
  OBVIOUS
<1>2. ~Open(<<>>) /\ Closed(<<>>) = 1
  BY <1>1, <1>3, Zenon DEF Open, Closed
<1>4. ASSUME n = <<>> PROVE Agrees(<<>>, n)
  <2>1. \A k \in 1 .. 1 : k = 1
    OBVIOUS
  <2>2. Matches(<<>>, n)
    BY <1>1, <1>2, <1>4, <2>1, MatchesLevels DEF Same
  <2> QED BY <1>1, <1>3, <1>4, <2>2 DEF Agrees, EmptyLastLevel
<1>5. ASSUME Agrees(<<>>, n) PROVE n = <<>>
  <2>1. 1 \in 1 .. 1
    OBVIOUS
  <2>2. Levels(n) = 1 /\ Same(<<>>, n, 1)
    BY <1>1, <1>2, <1>5, <2>1, MatchesLevels DEF Agrees
  <2>3. Level(n, 1) = n
    BY <2>2, OneLevel
  <2> QED BY <1>1, <1>3, <2>2, <2>3 DEF Same
<1> QED BY <1>4, <1>5

LEMMA AgreesHash ==
  ASSUME NEW X, NEW s \in Seq(X), NEW n \in Seq(X), s = <<"#">>, n # <<>>
  PROVE  Agrees(s, n)
<1>1. Tail(s) = <<>> /\ s # <<>> /\ s[1] # "/"
  OBVIOUS
<1>2. Levels(s) = 1
  BY <1>1, LetterLevels, NoLevels
<1>3. Level(s, 1) = <<"#">>
  BY <1>2, OneLevel
<1>4. Levels(n) \in Nat \ {0}
  BY CutsType
<1>5. Open(s) /\ Closed(s) = 0
  BY <1>2, <1>3 DEF Open, Closed
<1>6. Matches(s, n)
  BY <1>2, <1>4, <1>5, MatchesLevels
<1>7. ~EmptyLastLevel(s, n)
  <2>1. Levels(n) = 1 => Level(n, 1) # <<>>
    BY OneLevel
  <2> QED BY <1>2, <1>4, <2>1 DEF EmptyLastLevel
<1> QED BY <1>6, <1>7 DEF Agrees

LEMMA AgreesNothing ==
  ASSUME NEW X, NEW s \in Seq(X), s # <<>>
  PROVE  Agrees(s, <<>>) <=> s = <<"/", "#">>
<1> DEFINE n == <<>>
<1>1. Levels(n) = 1 /\ Level(n, 1) = <<>> /\ n \in Seq(X)
  BY NoLevels
<1>2. Levels(s) \in Nat \ {0}
  BY CutsType
<1>3. <<>> # <<"+">> /\ <<>> # <<"#">>
  OBVIOUS
<1>4. Tail(s) \in Seq(X)
  BY TailFacts
<1>5. Levels(Tail(s)) \in Nat \ {0}
  BY <1>4, CutsType
<1> HIDE DEF n
<1>6. ASSUME Agrees(s, n) PROVE s = <<"/", "#">>
  <2>1. Level(s, 1) \notin Wild
    BY <1>1, <1>2, <1>6 DEF Agrees, EmptyLastLevel, Wild
  <2>2. 1 \in 1 .. Closed(s)
    <3>1. Open(s) => Levels(s) # 1
      BY <2>1 DEF Open, Wild
    <3> QED BY <1>2, <3>1 DEF Closed
  <2>3. Same(s, n, 1)
    BY <1>6, <2>2, MatchesLevels DEF Agrees
  <2>4. Level(s, 1) = <<>>
    BY <1>1, <2>1, <2>3 DEF Same, Wild
  <2>5. s[1] = "/"
    BY <2>4, FirstLevel
  <2>6. Levels(s) = Levels(Tail(s)) + 1
    BY <2>5, SlashLevels
  <2>7. Levels(s) # 1
    BY <1>5, <2>6
  <2>8. Open(s) /\ Levels(s) <= 2
    BY <1>1, <1>2, <1>6, <2>7, MatchesLevels DEF Agrees
  <2>9. Levels(Tail(s)) = 1 /\ Level(s, 1 + 1) = <<"#">>
    BY <1>2, <1>5, <2>6, <2>7, <2>8 DEF Open
  <2>10. Level(Tail(s), 1) = <<"#">>
    <3>1. 1 \in 1 .. Levels(Tail(s))
      BY <1>5
    <3>2. Level(s, 1 + 1) = Level(Tail(s), 1)
      BY <2>5, <3>1, SlashLevels, Zenon
    <3> QED BY <2>9, <3>2
  <2>11. Tail(s) = <<"#">>
    BY <1>4, <2>9, <2>10, OneLevel
  <2>12. Len(s) = 2 /\ s[1] = "/" /\ s[2] = "#"
    <3>0. Len(<<"#">>) = 1 /\ <<"#">>[1] = "#"
      OBVIOUS
    <3>1. Len(Tail(s)) = 1 /\ Tail(s)[1] = "#"
      BY <2>11, <3>0, Zenon
    <3>2. Len(Tail(s)) = Len(s) - 1 /\ Len(s) \in Nat
      BY TailFacts
    <3>3. Len(s) = 2 /\ 1 \in 1 .. Len(s) - 1
      BY <3>1, <3>2
    <3>4. Tail(s)[1] = s[1 + 1]
      BY <3>3, TailFacts, Zenon
    <3>5. 1 + 1 = 2
      OBVIOUS
    <3> QED BY <2>5, <3>1, <3>3, <3>4, <3>5, Zenon
  <2> QED BY <2>12
<1>7. ASSUME s = <<"/", "#">> PROVE Agrees(s, n)
  <2>1. s[1] = "/" /\ Tail(s) = <<"#">> /\ Tail(s) # <<>> /\ Tail(s)[1] # "/" /\ Tail(Tail(s)) = <<>>
    BY <1>7
  <2>2. Levels(Tail(s)) = 1
    BY <1>4, <2>1, LetterLevels, NoLevels
  <2>3. Level(Tail(s), 1) = <<"#">>
    BY <1>4, <2>1, <2>2, OneLevel
  <2>4. Levels(s) = 2 /\ Level(s, 1) = <<>> /\ Level(s, 1 + 1) = <<"#">>
    <3>1. 1 \in 1 .. Levels(Tail(s))
      BY <2>2
    <3>2. Level(s, 1 + 1) = Level(Tail(s), 1)
      BY <2>1, <3>1, SlashLevels, Zenon
    <3> QED BY <2>1, <2>2, <2>3, <3>2, SlashLevels
  <2>5. Open(s) /\ Closed(s) = 1
    BY <2>4 DEF Open, Closed
  <2>6. \A k \in 1 .. Closed(s) : Same(s, n, k)
    <3>1. \A k \in 1 .. Closed(s) : k = 1
      BY <2>5
    <3> QED BY <1>1, <2>4, <3>1, Zenon DEF Same
  <2>7. Matches(s, n)
    BY <1>1, <2>4, <2>5, <2>6, MatchesLevels
  <2>8. ~EmptyLastLevel(s, n)
    BY <1>1, <1>3, <2>4, Zenon DEF EmptyLastLevel
  <2> QED BY <2>7, <2>8 DEF Agrees
<1> QED BY <1>6, <1>7 DEF n

\* r is what is left of n behind its first level.
Rest(n, r) ==
  /\ r = <<>> \/ r[1] = "/"
  /\ Levels(r) = Levels(n)
  /\ \A k \in 2 .. Levels(n) : Level(r, k) = Level(n, k)

LEMMA AgreesPlus ==
  ASSUME NEW X, NEW s \in Seq(X), NEW n \in Seq(X), NEW r \in Seq(X),
         s # <<>>, n # <<>>, s[1] = "+", Tail(s) # <<>> => Tail(s)[1] = "/",
         Rest(n, r)
  PROVE  Agrees(s, n) <=> (r # <<>> => Tail(s) # <<>>) /\ Agrees(Tail(s), r)
<1> DEFINE u == Tail(s)
<1>1. u \in Seq(X) /\ Levels(u) \in Nat \ {0}
  BY TailFacts, CutsType
<1>2. Levels(n) \in Nat \ {0} /\ Levels(r) = Levels(n)
  BY CutsType DEF Rest
<1>3. /\ Levels(s) = Levels(u) /\ Level(s, 1) = <<s[1]>> \o Level(u, 1)
      /\ \A k \in 2 .. Levels(u) : Level(s, k) = Level(u, k)
  BY LetterLevels
<1>4. Level(u, 1) = <<>> /\ Level(r, 1) = <<>> /\ (Levels(n) = 1 => Level(n, 1) # <<>>)
  <2>1. Level(u, 1) = <<>> /\ Level(r, 1) = <<>>
    BY <1>1, FirstLevel DEF Rest
  <2> QED BY <2>1, OneLevel
<1>5. Level(s, 1) = <<"+">>
  BY <1>3, <1>4
<1>6. <<>> # <<"+">> /\ <<>> # <<"#">> /\ <<"+">> # <<"#">>
  OBVIOUS
<1>7. r = <<>> <=> Levels(n) = 1
  <2>1. r = <<>> => Levels(n) = 1
    BY <1>2, NoLevels
  <2>2. Levels(n) = 1 => r = <<>>
    BY <1>2, <1>4, OneLevel
  <2> QED BY <2>1, <2>2
<1>8. u = <<>> => Levels(u) = 1
  BY NoLevels
<1>9. u # <<>> => Levels(u) # 1
  BY <1>1, <1>4, OneLevel
<1> HIDE DEF u
<1>10. Levels(n) = 1 => ~EmptyLastLevel(s, n) /\ ~EmptyLastLevel(u, r)
  BY <1>2, <1>4, <1>6 DEF EmptyLastLevel
<1>11. EmptyLastLevel(s, n) <=> EmptyLastLevel(u, r)
  <2>1. CASE Levels(n) = 1
    BY <1>10, <2>1
  <2>2. CASE Levels(n) # 1
    <3>1. Level(n, Levels(n)) = Level(r, Levels(r))
      BY <1>2, <2>2 DEF Rest
    <3>2. Levels(n) <= Levels(u) => Level(s, Levels(n)) = Level(u, Levels(r))
      BY <1>1, <1>2, <1>3, <2>2
    <3> QED BY <1>2, <1>3, <3>1, <3>2 DEF EmptyLastLevel
  <2> QED BY <2>1, <2>2
<1>12. Open(s) <=> Open(u)
  <2>1. CASE Levels(u) = 1
    BY <1>3, <1>4, <1>5, <1>6, <2>1, Zenon DEF Open
  <2>2. CASE Levels(u) # 1
    <3>1. Levels(u) \in 2 .. Levels(u)
      BY <1>1, <2>2
    <3> QED BY <1>3, <3>1, Zenon DEF Open
  <2> QED BY <2>1, <2>2
<1>13. Closed(s) = Closed(u) /\ Closed(u) \in Nat /\ Closed(u) <= Levels(u)
  BY <1>1, <1>3, <1>12 DEF Closed
<1>14. ASSUME Closed(u) <= Levels(n)
       PROVE  (\A k \in 1 .. Closed(s) : Same(s, n, k)) <=> (\A k \in 1 .. Closed(u) : Same(u, r, k))
  <2>1. ASSUME NEW k \in 1 .. Closed(u) PROVE Same(s, n, k) <=> Same(u, r, k)
    <3>1. CASE k = 1
      BY <1>4, <1>5, <3>1 DEF Same
    <3>2. CASE k # 1
      <4>1. k \in 2 .. Levels(u) /\ k \in 2 .. Levels(n)
        BY <1>1, <1>2, <1>13, <1>14, <3>2
      <4> QED BY <1>3, <4>1 DEF Same, Rest
    <3> QED BY <3>1, <3>2
  <2> QED BY <1>13, <2>1
<1>15. Matches(s, n) <=> Matches(u, r)
  <2>1. (IF Open(s) THEN Levels(n) >= Levels(s) - 1 ELSE Levels(n) = Levels(s))
          <=> IF Open(u) THEN Levels(r) >= Levels(u) - 1 ELSE Levels(r) = Levels(u)
    BY <1>2, <1>3, <1>12
  <2>2. (IF Open(u) THEN Levels(r) >= Levels(u) - 1 ELSE Levels(r) = Levels(u))
          => Closed(u) <= Levels(n)
    BY <1>1, <1>2 DEF Closed
  <2> QED BY <1>14, <2>1, <2>2, MatchesLevels
<1>16. Agrees(s, n) <=> Agrees(u, r)
  BY <1>11, <1>15 DEF Agrees
<1>17. Agrees(u, r) => (r # <<>> => u # <<>>)
  BY AgreesEnd
<1> QED BY <1>16, <1>17 DEF u

-----------------------------------------------------------------------------
(* The loop decides the rule. *)

Suffix(t, i) == SubSeq(t, i, Len(t))

LEMMA SuffixFacts ==
  ASSUME NEW X, NEW t \in Seq(X), NEW i \in 1 .. Len(t) + 1
  PROVE  /\ Suffix(t, i) \in Seq(X)
         /\ Suffix(t, i) = <<>> <=> i = Len(t) + 1
         /\ i <= Len(t) => Suffix(t, i)[1] = t[i] /\ Tail(Suffix(t, i)) = Suffix(t, i + 1)
<1>1. Suffix(t, i) \in Seq(X) /\ Len(Suffix(t, i)) = Len(t) - i + 1
  BY DEF Suffix
<1>2. Suffix(t, i) = <<>> <=> i = Len(t) + 1
  BY <1>1
<1>3. ASSUME i <= Len(t) PROVE Suffix(t, i)[1] = t[i] /\ Tail(Suffix(t, i)) = Suffix(t, i + 1)
  <2>1. Suffix(t, i)[1] = t[i]
    BY <1>3 DEF Suffix
  <2>2. Tail(Suffix(t, i)) = Suffix(t, i + 1)
    BY <1>3 DEF Suffix
  <2> QED BY <2>1, <2>2
<1> QED BY <1>1, <1>2, <1>3

LEMMA NextSlashStep ==
  ASSUME NEW name, Len(name) \in Nat, NEW c \in 1 .. Len(name) + 1
  PROVE  IF c = Len(name) + 1 \/ name[c] = "/"
           THEN NextSlash(name, c) = c
           ELSE NextSlash(name, c) = NextSlash(name, c + 1)
<1> DEFINE e == NextSlash(name, c)
           f == NextSlash(name, c + 1)
<1>1. /\ e \in c .. Len(name) + 1
      /\ e = Len(name) + 1 \/ name[e] = "/"
      /\ \A k \in c .. Len(name) : name[k] = "/" => e <= k
  BY NextSlashType
<1>2. CASE c = Len(name) + 1 \/ name[c] = "/"
  <2> HIDE DEF e
  <2>1. e = c
    BY <1>1, <1>2
  <2> QED BY <1>2, <2>1 DEF e
<1>3. CASE ~(c = Len(name) + 1 \/ name[c] = "/")
  <2>1. c + 1 \in 1 .. Len(name) + 1
    BY <1>3
  <2>2. /\ f \in c + 1 .. Len(name) + 1
        /\ f = Len(name) + 1 \/ name[f] = "/"
        /\ \A k \in c + 1 .. Len(name) : name[k] = "/" => f <= k
    BY <2>1, NextSlashType
  <2> HIDE DEF e, f
  <2>3. e \in c + 1 .. Len(name) + 1
    BY <1>1, <1>3
  <2>4. f <= e
    BY <2>2, <2>3, <1>1
  <2>5. e <= f
    BY <2>2, <2>3, <1>1
  <2> QED BY <1>3, <2>2, <2>3, <2>4, <2>5 DEF e, f
<1> QED BY <1>2, <1>3

\* At its next slash the name has left the level it is in.
LEMMA RestOfName ==
  ASSUME NEW X, NEW name \in Seq(X), NEW c \in 1 .. Len(name) + 1
  PROVE  Rest(Suffix(name, c), Suffix(name, NextSlash(name, c)))
<1> DEFINE m == Len(name) + 1
           Ok(d) == Rest(Suffix(name, d), Suffix(name, NextSlash(name, d)))
           S == {j \in Nat : j < m => Ok(m - j)}
<1>0. m \in Nat \ {0} /\ Len(name) \in Nat
  OBVIOUS
<1>1. ASSUME NEW d \in 1 .. m, d = m \/ name[d] = "/" PROVE Ok(d)
  <2>1. NextSlash(name, d) = d
    BY <1>0, <1>1, NextSlashStep
  <2>2. Suffix(name, d) = <<>> \/ Suffix(name, d)[1] = "/"
    <3>1. d # m => d <= Len(name)
      BY <1>0
    <3>2. /\ Suffix(name, d) = <<>> <=> d = m
          /\ d <= Len(name) => Suffix(name, d)[1] = name[d]
      BY SuffixFacts
    <3> QED BY <1>1, <3>1, <3>2, Zenon
  <2> QED BY <2>1, <2>2, Zenon DEF Rest
<1>2. ASSUME NEW d \in 1 .. Len(name), name[d] # "/", Ok(d + 1) PROVE Ok(d)
  <2> DEFINE n == Suffix(name, d)
             r == Suffix(name, NextSlash(name, d + 1))
  <2>1. NextSlash(name, d) = NextSlash(name, d + 1)
    BY <1>0, <1>2, NextSlashStep
  <2>2. n \in Seq(X) /\ n # <<>> /\ n[1] # "/" /\ Tail(n) = Suffix(name, d + 1)
    BY <1>0, <1>2, SuffixFacts
  <2>3. Levels(n) = Levels(Tail(n)) /\ \A k \in 2 .. Levels(Tail(n)) : Level(n, k) = Level(Tail(n), k)
    BY <2>2, LetterLevels
  <2>4. Rest(Tail(n), r)
    BY <1>2, <2>2
  <2> HIDE DEF n, r
  <2>5. Rest(n, r)
    BY <2>3, <2>4, Zenon DEF Rest
  <2> QED BY <2>1, <2>5, Zenon DEF n, r
<1> HIDE DEF Ok
<1>3. 0 \in S
  BY <1>0, <1>1
<1>4. ASSUME NEW j \in Nat, j \in S PROVE j + 1 \in S
  <2> SUFFICES ASSUME j + 1 < m PROVE Ok(m - (j + 1))
    OBVIOUS
  <2> DEFINE d == m - (j + 1)
  <2>1. d \in 1 .. Len(name) /\ d \in 1 .. m /\ d + 1 = m - j
    BY <1>0
  <2>2. Ok(d + 1)
    BY <1>0, <1>4, <2>1
  <2> HIDE DEF d
  <2>3. Ok(d)
    BY <1>1, <1>2, <2>1, <2>2, Zenon
  <2> QED BY <2>3 DEF d
<1>5. Nat \subseteq S
  <2> HIDE DEF S
  <2> QED BY <1>3, <1>4, Induction
<1>6. m - c \in Nat /\ m - c < m /\ m - (m - c) = c
  BY <1>0
<1>7. Ok(m - (m - c))
  BY <1>5, <1>6
<1>8. Ok(c)
  BY <1>6, <1>7
<1> QED BY <1>8 DEF Ok

LEMMA CompareStep ==
  ASSUME NEW X, NEW topic \in Seq(X), NEW name \in Seq(X), topic_is_valid(topic),
         NEW i \in 1 .. Len(topic), NEW rest,
         \A c \in 1 .. Len(name) + 1 :
           c \in rest <=> Agrees(Suffix(topic, i + 1), Suffix(name, c)),
         NEW c \in 1 .. Len(name) + 1
  PROVE  c \in Accepts(topic, name, i, rest) <=> Agrees(Suffix(topic, i), Suffix(name, c))
<1> DEFINE s == Suffix(topic, i)
           u == Suffix(topic, i + 1)
           n == Suffix(name, c)
<1>0. Len(topic) \in Nat /\ Len(name) \in Nat /\ i + 1 \in 1 .. Len(topic) + 1
  OBVIOUS
<1>1. s \in Seq(X) /\ s # <<>> /\ s[1] = topic[i] /\ Tail(s) = u
  BY <1>0, SuffixFacts
<1>2. /\ u = <<>> <=> i = Len(topic)
      /\ u # <<>> => u[1] = topic[i + 1] /\ i < Len(topic)
  BY <1>0, SuffixFacts
<1>3. /\ n \in Seq(X)
      /\ n = <<>> <=> c = Len(name) + 1
      /\ n # <<>> => n[1] = name[c] /\ Tail(n) = Suffix(name, c + 1) /\ c + 1 \in 1 .. Len(name) + 1
  <2>1. /\ n \in Seq(X)
        /\ n = <<>> <=> c = Len(name) + 1
        /\ c <= Len(name) => n[1] = name[c] /\ Tail(n) = Suffix(name, c + 1)
    BY SuffixFacts
  <2>2. c # Len(name) + 1 => c <= Len(name) /\ c + 1 \in 1 .. Len(name) + 1
    BY <1>0
  <2> QED BY <2>1, <2>2, Zenon
<1>4. /\ topic[i] = "+" => (i < Len(topic) => topic[i + 1] = "/")
      /\ topic[i] = "#" => i = Len(topic)
      /\ i < Len(topic) /\ topic[i] # "/" => topic[i + 1] \notin {"+", "#"}
  <2>1. DOMAIN topic = 1 .. Len(topic)
    OBVIOUS
  <2>2. i < Len(topic) => i + 1 \in DOMAIN topic /\ (i + 1) - 1 = i
    BY <2>1
  <2> QED BY <2>1, <2>2 DEF topic_is_valid
<1>5. s = SubSeq(topic, i, Len(topic))
  BY DEF Suffix
<1> HIDE DEF s, u, n
<1>6. CASE n = <<>>
  <2>1. c > Len(name) /\ ~(i > Len(topic))
    BY <1>0, <1>3, <1>6
  <2>2. c \in Accepts(topic, name, i, rest) <=> s = <<"/", "#">>
    BY <1>5, <2>1, Zenon DEF Accepts
  <2>3. Agrees(s, <<>>) <=> s = <<"/", "#">>
    BY <1>1, AgreesNothing
  <2> QED BY <1>6, <2>2, <2>3 DEF s, n
<1>7. ASSUME n # <<>>
      PROVE  /\ c <= Len(name) /\ ~(c > Len(name)) /\ ~(i > Len(topic))
             /\ Suffix(name, c + 1) = Tail(n) /\ c + 1 \in 1 .. Len(name) + 1
  BY <1>0, <1>3, <1>7
<1>8. CASE n # <<>> /\ topic[i] = "#"
  <2>1. c \in Accepts(topic, name, i, rest)
    BY <1>7, <1>8 DEF Accepts
  <2>2. s = <<"#">>
    <3>1. Tail(s) = <<>> /\ s[1] = "#"
      BY <1>1, <1>2, <1>4, <1>8, Zenon
    <3>2. Len(s) = 1
      <4>1. Len(Tail(s)) = Len(s) - 1 /\ Len(s) \in Nat
        BY <1>1, TailFacts
      <4>2. Len(<<>>) = 0
        OBVIOUS
      <4>3. Len(Tail(s)) = 0
        BY <3>1, <4>2, Zenon
      <4> QED BY <4>1, <4>3
    <3> QED BY <1>1, <3>1, <3>2
  <2>3. Agrees(s, n)
    BY <1>1, <1>3, <1>8, <2>2, AgreesHash
  <2> QED BY <2>1, <2>3 DEF s, n
<1>9. CASE n # <<>> /\ topic[i] = "+"
  <2> DEFINE e == NextSlash(name, c)
             r == Suffix(name, e)
  <2>1. e \in 1 .. Len(name) + 1
    BY <1>0, NextSlashType
  <2>2. r \in Seq(X) /\ (r = <<>> <=> e = Len(name) + 1)
    BY <2>1, SuffixFacts
  <2>3. Rest(n, r)
    BY RestOfName DEF n
  <2>4. "+" # "#"
    OBVIOUS
  <2>5. c \in Accepts(topic, name, i, rest) <=> (e <= Len(name) => i < Len(topic)) /\ e \in rest
    BY <1>7, <1>9, <2>4 DEF Accepts
  <2>6. e \in rest <=> Agrees(u, r)
    BY <2>1 DEF u
  <2> HIDE DEF e, r
  <2>7. (e <= Len(name) => i < Len(topic)) <=> (r # <<>> => u # <<>>)
    BY <1>0, <1>2, <2>1, <2>2
  <2>8. Tail(s) # <<>> => Tail(s)[1] = "/"
    BY <1>1, <1>2, <1>4, <1>9, Zenon
  <2>9. Agrees(s, n) <=> (r # <<>> => Tail(s) # <<>>) /\ Agrees(Tail(s), r)
    BY <1>1, <1>3, <1>9, <2>2, <2>3, <2>8, AgreesPlus, Zenon
  <2>10. Agrees(s, n) <=> (r # <<>> => u # <<>>) /\ Agrees(u, r)
    BY <1>1, <2>9, Zenon
  <2> QED BY <2>5, <2>6, <2>7, <2>10, Zenon DEF s, n
<1>10. CASE n # <<>> /\ topic[i] # "#" /\ topic[i] # "+"
  <2>1. c \in Accepts(topic, name, i, rest) <=> topic[i] = name[c] /\ c + 1 \in rest
    BY <1>7, <1>10 DEF Accepts
  <2>2. c + 1 \in rest <=> Agrees(Tail(s), Tail(n))
    <3>1. c + 1 \in rest <=> Agrees(u, Suffix(name, c + 1))
      BY <1>7, <1>10 DEF u
    <3> QED BY <1>1, <1>7, <1>10, <3>1, Zenon
  <2>3. CASE topic[i] = "/" /\ name[c] = "/"
    <3>1. Agrees(s, n) <=> Agrees(Tail(s), Tail(n))
      BY <1>1, <1>3, <1>10, <2>3, AgreesSlash, Zenon
    <3> QED BY <2>1, <2>2, <2>3, <3>1, Zenon DEF s, n
  <2>4. CASE (topic[i] = "/") # (name[c] = "/")
    <3>1. ~Agrees(s, n)
      BY <1>1, <1>3, <1>10, <2>4, AgreesMismatch
    <3>2. topic[i] # name[c]
      BY <2>4
    <3> QED BY <2>1, <3>1, <3>2, Zenon DEF s, n
  <2>5. CASE topic[i] # "/" /\ name[c] # "/"
    <3>1. Tail(s) # <<>> => Tail(s)[1] \notin {"+", "#"}
      BY <1>1, <1>2, <1>4, <2>5, Zenon
    <3>2. s[1] \notin {"/", "+", "#"} /\ n[1] # "/" /\ s[1] = topic[i] /\ n[1] = name[c]
      BY <1>1, <1>3, <1>10, <2>5
    <3>3. Agrees(s, n) <=> s[1] = n[1] /\ Agrees(Tail(s), Tail(n))
      BY <1>1, <1>3, <1>10, <3>1, <3>2, AgreesLetter, Zenon
    <3> QED BY <2>1, <2>2, <3>2, <3>3, Zenon DEF s, n
  <2> QED BY <2>3, <2>4, <2>5
<1> QED BY <1>6, <1>8, <1>9, <1>10

\* _core_mqtt_topic_compare decides MQTT's rule for "+" and "#", except that
\* a wildcard does not match an empty last level, for every valid filter and
\* every topic name.
THEOREM CompareDecides ==
  ASSUME NEW X, NEW topic \in Seq(X), NEW name \in Seq(X), topic_is_valid(topic)
  PROVE  topic_compare(topic, name) <=> Matches(topic, name) /\ ~EmptyLastLevel(topic, name)
<1> DEFINE m == Len(topic) + 1
<1>0. Len(topic) \in Nat /\ Len(name) \in Nat /\ m \in Nat \ {0}
  OBVIOUS
<1>1. PICK g : /\ \A i \in 1 .. m : g[i] = Accepts(topic, name, i, g[i + 1])
               /\ topic_compare(topic, name) <=> 1 \in g[1]
  BY <1>0, CompareUnfolds
<1> DEFINE Ok(i) == \A c \in 1 .. Len(name) + 1 :
                      c \in g[i] <=> Agrees(Suffix(topic, i), Suffix(name, c))
           S == {j \in Nat : j < m => Ok(m - j)}
<1>2. Ok(m)
  <2> TAKE c \in 1 .. Len(name) + 1
  <2>1. c \in g[m] <=> c > Len(name)
    <3>1. g[m] = Accepts(topic, name, m, g[m + 1])
      BY <1>0, <1>1
    <3> QED BY <1>0, <3>1 DEF Accepts
  <2>2. Suffix(topic, m) = <<>>
    BY <1>0, SuffixFacts
  <2>3. Suffix(name, c) \in Seq(X) /\ (Suffix(name, c) = <<>> <=> c > Len(name))
    BY <1>0, SuffixFacts
  <2> QED BY <2>1, <2>2, <2>3, AgreesEnd
<1>3. ASSUME NEW i \in 1 .. Len(topic), Ok(i + 1) PROVE Ok(i)
  <2> TAKE c \in 1 .. Len(name) + 1
  <2>1. c \in Accepts(topic, name, i, g[i + 1]) <=> Agrees(Suffix(topic, i), Suffix(name, c))
    BY <1>3, CompareStep
  <2>2. g[i] = Accepts(topic, name, i, g[i + 1])
    BY <1>0, <1>1
  <2> QED BY <2>1, <2>2
<1>4. Ok(1) => (1 \in g[1] <=> Agrees(topic, name))
  <2>1. Suffix(topic, 1) = topic /\ Suffix(name, 1) = name
    BY DEF Suffix
  <2>2. 1 \in 1 .. Len(name) + 1
    BY <1>0
  <2> QED BY <2>1, <2>2
<1> HIDE DEF Ok
<1>5. 0 \in S
  BY <1>0, <1>2
<1>6. ASSUME NEW j \in Nat, j \in S PROVE j + 1 \in S
  <2> SUFFICES ASSUME j + 1 < m PROVE Ok(m - (j + 1))
    OBVIOUS
  <2> DEFINE i == m - (j + 1)
  <2>1. i \in 1 .. Len(topic) /\ i + 1 = m - j
    BY <1>0
  <2>2. Ok(i + 1)
    BY <1>0, <1>6, <2>1
  <2> HIDE DEF i
  <2>3. Ok(i)
    BY <1>3, <2>1, <2>2, Zenon
  <2> QED BY <2>3 DEF i
<1>7. Nat \subseteq S
  <2> HIDE DEF S
  <2> QED BY <1>5, <1>6, Induction
<1>8. m - 1 \in Nat /\ m - 1 < m /\ m - (m - 1) = 1
  BY <1>0
<1>9. Ok(m - (m - 1))
  BY <1>7, <1>8
<1>10. Ok(1)
  BY <1>8, <1>9
<1> QED BY <1>1, <1>4, <1>10 DEF Agrees
=============================================================================
