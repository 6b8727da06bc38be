-------------------------- MODULE SirenSessionProofs --------------------------
(***************************************************************************)
(* Proofs about SirenSession: the safety properties of a whole session,    *)
(* for any number of calls, frames and responses, any size of the request  *)
(* queue and every interleaving of the six threads.                        *)
(*                                                                         *)
(* The induction theorems of the library take an operator as a parameter;  *)
(* here induction over the naturals and over sequences is a closure        *)
(* property of a set (NatSet, SeqSet), from WFMin.                         *)
(***************************************************************************)
EXTENDS SirenSession, SequenceTheorems, WellFoundedInduction, TLAPS

-----------------------------------------------------------------------------
(* Induction *)

Below == {r \in Nat \X Nat : r[1] < r[2]}

\* The order of the naturals is well-founded, as WFMin needs it.
LEMMA BelowWF == IsWellFoundedOn(Below, Nat)
<1>1. OpToRel(<, Nat) = Below
  BY DEF OpToRel, Below
<1> QED
  BY <1>1, NatLessThanWellFounded

\* A set that holds 0 and with every number the next holds all of them.
LEMMA NatSet ==
  ASSUME NEW S, 0 \in S, \A n \in Nat : n \in S => n + 1 \in S
  PROVE Nat \subseteq S
<1> DEFINE T == Nat \ S
<1>1. SUFFICES ASSUME T # {} PROVE FALSE
  OBVIOUS
<1>3. PICK x \in T : \A y \in T : ~(<<y, x>> \in Below)
  <2> HIDE DEF T
  <2>1. T \subseteq Nat BY DEF T
  <2> QED BY <1>1, <2>1, BelowWF, WFMin
<1>4. x \in Nat /\ x # 0
  OBVIOUS
<1>5. x - 1 \in Nat /\ x - 1 < x /\ (x-1)+1 = x
  BY <1>4
<1>6. x - 1 \in S
  <2>1. <<x-1, x>> \in Below BY <1>4, <1>5 DEF Below
  <2> QED BY <1>3, <1>5, <2>1
<1> QED
  BY <1>5, <1>6, <1>4

\* A set that holds the empty sequence and with every sequence its extensions holds all.
LEMMA SeqSet ==
  ASSUME NEW T, NEW E, <<>> \in E,
         \A s \in Seq(T), e \in T : s \in E => Append(s, e) \in E
  PROVE  Seq(T) \subseteq E
<1> DEFINE N == {n \in Nat : \A s \in Seq(T) : Len(s) = n => s \in E}
<1>1. 0 \in N
  BY EmptySeq
<1>2. ASSUME NEW n \in Nat, n \in N PROVE n + 1 \in N
  <2> SUFFICES ASSUME NEW s \in Seq(T), Len(s) = n + 1 PROVE s \in E
    OBVIOUS
  <2>1. s # <<>>
    OBVIOUS
  <2>2. PICK t \in Seq(T), e \in T : s = Append(t, e)
    BY <2>1, SequenceEmptyOrAppend
  <2>3. Len(t) = n
    BY <2>2
  <2> QED
    BY <1>2, <2>2, <2>3
<1>3. Nat \subseteq N
  <2> HIDE DEF N
  <2> QED BY <1>1, <1>2, NatSet
<1> QED
  BY <1>3

-----------------------------------------------------------------------------
(* Within, by the equations of a function that satisfies its recursion *)

Picks(s, S, n, h) ==
  h = [i \in 0..n |->
        IF i = 0 THEN <<>>
        ELSE IF s[i] \in S THEN Append(h[i - 1], s[i]) ELSE h[i - 1]]

\* The same, one step at a time.
PickSteps(s, S, n, h) ==
  /\ h[0] = <<>>
  /\ \A i \in Nat : i < n =>
       h[i + 1] = IF s[i + 1] \in S THEN Append(h[i], s[i + 1]) ELSE h[i]

\* The recursion gives its equations one step at a time.
LEMMA PicksStep ==
  ASSUME NEW s, NEW S, NEW n, n \in Nat, NEW h, Picks(s, S, n, h)
  PROVE  PickSteps(s, S, n, h)
<1> DEFINE f == [j \in 0..n |->
                   IF j = 0 THEN <<>>
                   ELSE IF s[j] \in S THEN Append(h[j - 1], s[j]) ELSE h[j - 1]]
<1>1. h = f
  BY DEF Picks
<1>2. f[0] = <<>>
  OBVIOUS
<1>3. ASSUME NEW i \in Nat, i < n
      PROVE  f[i + 1] = IF s[i + 1] \in S THEN Append(h[i], s[i + 1]) ELSE h[i]
  <2>1. i + 1 \in 0..n /\ i + 1 # 0 /\ (i + 1) - 1 = i
    BY <1>3
  <2> QED
    BY <2>1
<1> HIDE DEF f
<1> QED
  BY <1>1, <1>2, <1>3 DEF PickSteps

\* The equations one step at a time give the recursion back.
LEMMA StepsPick ==
  ASSUME NEW s, NEW S, NEW n, n \in Nat, NEW h, h = [i \in 0..n |-> h[i]], PickSteps(s, S, n, h)
  PROVE  Picks(s, S, n, h)
<1>1. ASSUME NEW j \in 0..n
      PROVE  h[j] = IF j = 0 THEN <<>>
                    ELSE IF s[j] \in S THEN Append(h[j - 1], s[j]) ELSE h[j - 1]
  <2>1. CASE j = 0
    BY <2>1 DEF PickSteps
  <2>2. CASE j # 0
    <3> DEFINE i == j - 1
    <3>1. i \in Nat /\ i < n /\ i + 1 = j
      BY <2>2
    <3> HIDE DEF i
    <3>2. h[i + 1] = IF s[i + 1] \in S THEN Append(h[i], s[i + 1]) ELSE h[i]
      BY <3>1 DEF PickSteps
    <3>3. h[j] = IF s[j] \in S THEN Append(h[i], s[j]) ELSE h[i]
      BY <3>1, <3>2
    <3> QED
      BY <2>2, <3>3 DEF i
  <2> QED
    BY <2>1, <2>2
<1> QED
  BY <1>1 DEF Picks

\* Some function satisfies the recursion.
LEMMA PicksExist ==
  ASSUME NEW s, NEW S
  PROVE  \A n \in Nat : \E h : Picks(s, S, n, h)
<1> DEFINE E == {n \in Nat : \E h : h = [i \in 0..n |-> h[i]] /\ PickSteps(s, S, n, h)}
<1>1. 0 \in E
  <2> DEFINE h == [i \in 0..0 |-> <<>>]
  <2>1. h = [i \in 0..0 |-> h[i]] /\ PickSteps(s, S, 0, h)
    BY DEF PickSteps
  <2> QED BY <2>1
<1>2. ASSUME NEW n \in Nat, n \in E PROVE n + 1 \in E
  <2>1. PICK h : h = [i \in 0..n |-> h[i]] /\ PickSteps(s, S, n, h)
    BY <1>2
  <2> DEFINE e == IF s[n + 1] \in S THEN Append(h[n], s[n + 1]) ELSE h[n]
             g == [i \in 0..(n + 1) |-> IF i = n + 1 THEN e ELSE h[i]]
  <2> HIDE DEF e
  <2>2. g[n + 1] = e /\ \A i \in 0..n : g[i] = h[i]
    OBVIOUS
  <2>3. g = [i \in 0..(n + 1) |-> g[i]]
    OBVIOUS
  <2> HIDE DEF g
  <2>4. g[0] = <<>>
    BY <2>1, <2>2 DEF PickSteps
  <2>5. ASSUME NEW i \in Nat, i < n + 1
        PROVE  g[i + 1] = IF s[i + 1] \in S THEN Append(g[i], s[i + 1]) ELSE g[i]
    <3>1. CASE i = n
      BY <2>2, <3>1 DEF e
    <3>2. CASE i # n
      <4>1. i < n /\ i \in 0..n /\ i + 1 \in 0..n
        BY <2>5, <3>2
      <4>2. h[i + 1] = IF s[i + 1] \in S THEN Append(h[i], s[i + 1]) ELSE h[i]
        BY <2>1, <4>1 DEF PickSteps
      <4> QED
        BY <2>2, <4>1, <4>2
    <3> QED
      BY <3>1, <3>2
  <2>6. PickSteps(s, S, n + 1, g)
    BY <2>4, <2>5 DEF PickSteps
  <2> QED
    BY <2>3, <2>6
<1>3. Nat \subseteq E
  <2> HIDE DEF E
  <2> QED BY <1>1, <1>2, NatSet
<1> QED BY <1>3, StepsPick

\* Within is its last value.
LEMMA WithinPicks ==
  ASSUME NEW s, NEW S, Len(s) \in Nat
  PROVE \E h : Picks(s, S, Len(s), h) /\ Within(s, S) = h[Len(s)]
<1> DEFINE c == CHOOSE h : Picks(s, S, Len(s), h)
<1>1. Picks(s, S, Len(s), c)
  BY PicksExist
<1>2. Within(s, S) = c[Len(s)]
  BY DEF Within, Picks
<1> QED BY <1>1, <1>2

\* And only one.
LEMMA PicksAgree ==
  ASSUME NEW s, NEW t, NEW S, NEW m \in Nat, NEW k \in Nat, k <= m,
         \A i \in 1..k : s[i] = t[i],
         NEW h, PickSteps(s, S, m, h), NEW g, PickSteps(t, S, k, g)
  PROVE  h[k] = g[k]
<1> DEFINE N == {n \in Nat : n <= k => h[n] = g[n]}
<1>1. 0 \in N
  BY DEF PickSteps
<1>2. ASSUME NEW n \in Nat, n \in N, n + 1 <= k PROVE h[n + 1] = g[n + 1]
  <2>1. h[n] = g[n] /\ n < k /\ n < m /\ s[n + 1] = t[n + 1]
    BY <1>2
  <2>2. h[n + 1] = IF s[n + 1] \in S THEN Append(h[n], s[n + 1]) ELSE h[n]
    BY <2>1 DEF PickSteps
  <2>3. g[n + 1] = IF t[n + 1] \in S THEN Append(g[n], t[n + 1]) ELSE g[n]
    BY <2>1 DEF PickSteps
  <2> QED
    BY <2>1, <2>2, <2>3
<1>3. Nat \subseteq N
  <2>1. \A n \in Nat : n \in N => n + 1 \in N
    BY <1>2
  <2> HIDE DEF N
  <2> QED BY <1>1, <2>1, NatSet
<1> QED
  BY <1>3

\* How Within meets the operations on sequences: empty, append, concatenation, tail.
LEMMA WithinEmpty == ASSUME NEW S PROVE Within(<<>>, S) = <<>>
<1>1. Len(<<>>) = 0 /\ 0 \in Nat
  OBVIOUS
<1>2. PICK h : Picks(<<>>, S, Len(<<>>), h) /\ Within(<<>>, S) = h[Len(<<>>)]
  BY <1>1, WithinPicks
<1>3. PickSteps(<<>>, S, Len(<<>>), h)
  BY <1>1, <1>2, PicksStep
<1> QED
  BY <1>1, <1>2, <1>3 DEF PickSteps

\* A message at the end is kept when it is in the set.
LEMMA WithinAppend ==
  ASSUME NEW T, NEW s \in Seq(T), NEW e \in T, NEW S
  PROVE  Within(Append(s, e), S)
           = IF e \in S THEN Append(Within(s, S), e) ELSE Within(s, S)
<1> DEFINE t == Append(s, e)
           n == Len(s)
<1>1. Len(t) = n + 1 /\ n \in Nat /\ t[n + 1] = e /\ \A i \in 1..n : t[i] = s[i]
  OBVIOUS
<1> HIDE DEF t, n
<1>2. PICK g : PickSteps(s, S, n, g) /\ Within(s, S) = g[n]
  <2>1. PICK g : Picks(s, S, n, g) /\ Within(s, S) = g[n]
    BY <1>1, WithinPicks DEF n
  <2>2. PickSteps(s, S, n, g)
    BY <1>1, <2>1, PicksStep
  <2> QED
    BY <2>1, <2>2
<1>3. PICK h : PickSteps(t, S, n + 1, h) /\ Within(t, S) = h[n + 1]
  <2>1. Len(t) \in Nat
    BY <1>1
  <2>2. PICK h : Picks(t, S, Len(t), h) /\ Within(t, S) = h[Len(t)]
    BY <2>1, WithinPicks
  <2>3. PickSteps(t, S, Len(t), h)
    BY <2>1, <2>2, PicksStep
  <2> QED
    BY <1>1, <2>2, <2>3
<1>4. h[n + 1] = IF t[n + 1] \in S THEN Append(h[n], t[n + 1]) ELSE h[n]
  BY <1>1, <1>3 DEF PickSteps
<1>5. h[n] = g[n]
  <2>1. PickSteps(t, S, n + 1, h) /\ n + 1 \in Nat /\ n <= n + 1
    BY <1>1, <1>3
  <2> QED
    BY <1>1, <1>2, <2>1, PicksAgree
<1> QED
  BY <1>1, <1>2, <1>3, <1>4, <1>5 DEF t

\* A part of a sequence holds what the sequence holds.
LEMMA WithinType ==
  ASSUME NEW T, NEW S
  PROVE  \A s \in Seq(T) : Within(s, S) \in Seq(T)
<1> DEFINE E == {s \in Seq(T) : Within(s, S) \in Seq(T)}
<1>1. <<>> \in E
  <2>1. Within(<<>>, S) = <<>>
    BY WithinEmpty
  <2>2. <<>> \in Seq(T)
    OBVIOUS
  <2> QED
    BY <2>1, <2>2
<1>2. ASSUME NEW s \in Seq(T), NEW e \in T, s \in E PROVE Append(s, e) \in E
  <2>1. Within(Append(s, e), S)
          = IF e \in S THEN Append(Within(s, S), e) ELSE Within(s, S)
    BY WithinAppend
  <2>2. Within(Append(s, e), S) \in Seq(T)
    BY <1>2, <2>1
  <2> QED
    BY <2>2
<1>3. Seq(T) \subseteq E
  <2> HIDE DEF E
  <2> QED BY <1>1, <1>2, SeqSet
<1> QED
  BY <1>3

\* The part of a concatenation is the concatenation of the parts.
LEMMA WithinConcat ==
  ASSUME NEW T, NEW S, NEW s \in Seq(T)
  PROVE  \A t \in Seq(T) : Within(s \o t, S) = Within(s, S) \o Within(t, S)
<1> DEFINE E == {t \in Seq(T) : Within(s \o t, S) = Within(s, S) \o Within(t, S)}
<1>1. <<>> \in E
  <2>1. Within(<<>>, S) = <<>>
    BY WithinEmpty
  <2>2. Within(s, S) \in Seq(T)
    BY WithinType
  <2>3. s \o <<>> = s /\ Within(s, S) \o <<>> = Within(s, S)
    BY <2>2
  <2>4. <<>> \in Seq(T)
    OBVIOUS
  <2> QED
    BY <2>1, <2>3, <2>4
<1>2. ASSUME NEW t \in Seq(T), NEW e \in T, t \in E PROVE Append(t, e) \in E
  <2>1. s \o Append(t, e) = Append(s \o t, e)
    OBVIOUS
  <2>2. Within(s \o Append(t, e), S)
         = IF e \in S THEN Append(Within(s \o t, S), e) ELSE Within(s \o t, S)
    <3>1. s \o t \in Seq(T)
      OBVIOUS
    <3>2. Within(Append(s \o t, e), S)
         = IF e \in S THEN Append(Within(s \o t, S), e) ELSE Within(s \o t, S)
      BY <3>1, WithinAppend
    <3> QED
      BY <2>1, <3>2
  <2>3. Within(Append(t, e), S)
         = IF e \in S THEN Append(Within(t, S), e) ELSE Within(t, S)
    BY WithinAppend
  <2>4. Within(s, S) \in Seq(T) /\ Within(t, S) \in Seq(T)
    BY WithinType
  <2>5. Within(s, S) \o Append(Within(t, S), e) = Append(Within(s, S) \o Within(t, S), e)
    BY <2>4
  <2>6. Within(s \o t, S) = Within(s, S) \o Within(t, S)
    BY <1>2
  <2>7. Within(s \o Append(t, e), S) = Within(s, S) \o Within(Append(t, e), S)
    BY <2>2, <2>3, <2>5, <2>6
  <2>8. Append(t, e) \in Seq(T)
    OBVIOUS
  <2> QED
    BY <2>7, <2>8
<1>3. Seq(T) \subseteq E
  <2> HIDE DEF E
  <2> QED BY <1>1, <1>2, SeqSet
<1> QED
  BY <1>3

Splits(s, t, S) == Within(s \o t, S) = Within(s, S) \o Within(t, S)
Joined(a, b, c) == (a \o b) \o c = a \o (b \o c)

\* What is picked from a concatenation, in a form that is easy to use.
LEMMA Splitting == \A T, S : \A s, t \in Seq(T) : Splits(s, t, S)
BY WithinConcat DEF Splits

\* Concatenation is associative, in a form that is easy to use.
LEMMA Joining == \A T : \A a, b, c \in Seq(T) : Joined(a, b, c)
BY ConcatAssociative DEF Joined

\* Taking the first element.
LEMMA WithinTail ==
  ASSUME NEW T, NEW S, NEW s \in Seq(T), s # <<>>
  PROVE  /\ Head(s) \in S => Within(s, S) = <<Head(s)>> \o Within(Tail(s), S)
         /\ Head(s) \notin S => Within(s, S) = Within(Tail(s), S)
<1> DEFINE h == Head(s)
           t == Tail(s)
<1>1. h \in T /\ t \in Seq(T) /\ <<h>> \in Seq(T) /\ s = <<h>> \o t
  OBVIOUS
<1> HIDE DEF h, t
<1>2. <<>> \in Seq(T) /\ Append(<<>>, h) = <<h>>
  BY <1>1
<1>3. Within(<<h>>, S) = IF h \in S THEN Append(Within(<<>>, S), h) ELSE Within(<<>>, S)
  BY <1>1, <1>2, WithinAppend
<1>4. Within(<<>>, S) = <<>>
  BY WithinEmpty
<1>5. Within(s, S) = Within(<<h>>, S) \o Within(t, S)
  <2> DEFINE n == <<h>>
  <2>1. n \in Seq(T) /\ t \in Seq(T) /\ s = n \o t
    BY <1>1
  <2> HIDE DEF n
  <2>2. Splits(n, t, S)
    BY <2>1, Splitting
  <2> QED
    BY <2>1, <2>2 DEF n, Splits
<1>6. Within(t, S) \in Seq(T)
  BY <1>1, WithinType
<1>7. CASE h \in S
  <2>1. Within(<<h>>, S) = <<h>>
    BY <1>2, <1>3, <1>4, <1>7
  <2> QED
    BY <1>5, <1>7, <2>1 DEF h, t
<1>8. CASE h \notin S
  <2>1. Within(<<h>>, S) = <<>>
    BY <1>3, <1>4, <1>8
  <2> QED
    BY <1>5, <1>6, <1>8, <2>1 DEF h, t
<1> QED
  BY <1>7, <1>8

\* What an appended sequence holds.
LEMMA ToSetAppend ==
  ASSUME NEW T, NEW q \in Seq(T), NEW e
  PROVE  ToSet(Append(q, e)) = ToSet(q) \cup {e}
<1> DEFINE a == Append(q, e)
<1>1. /\ DOMAIN a = 1..(Len(q) + 1) /\ DOMAIN q = 1..Len(q) /\ Len(q) \in Nat
      /\ a[Len(q) + 1] = e /\ \A i \in 1..Len(q) : a[i] = q[i]
  OBVIOUS
<1> HIDE DEF a
<1>2. ToSet(a) \subseteq ToSet(q) \cup {e}
  BY <1>1 DEF ToSet
<1>3. ToSet(q) \cup {e} \subseteq ToSet(a)
  BY <1>1 DEF ToSet
<1> QED
  BY <1>2, <1>3 DEF a

\* What a concatenation holds.
LEMMA ToSetConcat ==
  ASSUME NEW T, NEW q \in Seq(T), NEW r \in Seq(T)
  PROVE  ToSet(q \o r) = ToSet(q) \cup ToSet(r)
<1> DEFINE a == q \o r
<1>1. /\ DOMAIN a = 1..(Len(q) + Len(r)) /\ DOMAIN q = 1..Len(q) /\ DOMAIN r = 1..Len(r)
      /\ Len(q) \in Nat /\ Len(r) \in Nat
      /\ \A i \in 1..Len(q) : a[i] = q[i]
      /\ \A i \in 1..Len(r) : a[Len(q) + i] = r[i]
  OBVIOUS
<1> HIDE DEF a
<1>2. ToSet(a) \subseteq ToSet(q) \cup ToSet(r)
  <2> SUFFICES ASSUME NEW i \in 1..(Len(q) + Len(r)) PROVE a[i] \in ToSet(q) \cup ToSet(r)
    BY <1>1 DEF ToSet
  <2>1. CASE i <= Len(q)
    BY <1>1, <2>1 DEF ToSet
  <2>2. CASE i > Len(q)
    <3>1. i - Len(q) \in 1..Len(r) /\ Len(q) + (i - Len(q)) = i
      BY <1>1, <2>2
    <3>2. a[i] = r[i - Len(q)]
      BY <1>1, <3>1
    <3> QED
      BY <1>1, <3>1, <3>2 DEF ToSet
  <2> QED
    BY <1>1, <2>1, <2>2
<1>3. ToSet(q) \subseteq ToSet(a)
  BY <1>1 DEF ToSet
<1>4. ToSet(r) \subseteq ToSet(a)
  <2> SUFFICES ASSUME NEW i \in 1..Len(r) PROVE r[i] \in ToSet(a)
    BY <1>1 DEF ToSet
  <2>1. Len(q) + i \in 1..(Len(q) + Len(r)) /\ r[i] = a[Len(q) + i]
    BY <1>1
  <2> QED
    BY <1>1, <2>1 DEF ToSet
<1> QED
  BY <1>2, <1>3, <1>4 DEF a

\* Nothing is kept that was not there, and nothing in S is left out.
LEMMA WithinElements ==
  ASSUME NEW T, NEW S
  PROVE  \A s \in Seq(T) : ToSet(Within(s, S)) = ToSet(s) \cap S
<1> DEFINE E == {s \in Seq(T) : ToSet(Within(s, S)) = ToSet(s) \cap S}
<1>1. <<>> \in E
  <2>1. Within(<<>>, S) = <<>>
    BY WithinEmpty
  <2>2. <<>> \in Seq(T) /\ ToSet(<<>>) = {}
    BY DEF ToSet
  <2> QED
    BY <2>1, <2>2
<1>2. ASSUME NEW s \in Seq(T), NEW e \in T, s \in E PROVE Append(s, e) \in E
  <2>2. Within(s, S) \in Seq(T)
    BY WithinType
  <2>3. ToSet(Append(s, e)) = ToSet(s) \cup {e}
    BY ToSetAppend
  <2>4. ToSet(Append(Within(s, S), e)) = ToSet(Within(s, S)) \cup {e}
    BY <2>2, ToSetAppend
  <2>5. Within(Append(s, e), S) = IF e \in S THEN Append(Within(s, S), e) ELSE Within(s, S)
    BY WithinAppend
  <2>6. ToSet(Within(s, S)) = ToSet(s) \cap S
    BY <1>2
  <2>7. ToSet(Within(Append(s, e), S)) = ToSet(Append(s, e)) \cap S
    BY <2>3, <2>4, <2>5, <2>6
  <2>8. Append(s, e) \in Seq(T)
    OBVIOUS
  <2> QED
    BY <2>7, <2>8
<1>3. Seq(T) \subseteq E
  <2> HIDE DEF E
  <2> QED
    BY <1>1, <1>2, SeqSet
<1> QED
  BY <1>3

-----------------------------------------------------------------------------
(* A push on a full ring *)

\* The ticket that moves when a push finds the ring full, and the ones around it.
Moved(q, slots) == q[Len(q) + 1 - slots]
Ahead(q, slots) == SubSeq(q, 1, Len(q) - slots)
Behind(q, slots) == SubSeq(q, Len(q) + 2 - slots, Len(q))
MovesBack(q, p, a, x, b, null) ==
  q = a \o (<<x>> \o b) /\ p = a \o (<<null>> \o (b \o <<x>>))

AppendsBehind(a, u, b, x) == Append(a \o (<<u>> \o b), x) = a \o (<<u>> \o (b \o <<x>>))

\* What is appended goes to the end of the last part.
LEMMA AppendBehind ==
  ASSUME NEW T, NEW a \in Seq(T), NEW b \in Seq(T), NEW u \in T, NEW x \in T
  PROVE  AppendsBehind(a, u, b, x)
<1> DEFINE n == <<u>>
           y == <<x>>
           z == n \o b
<1>1. n \in Seq(T) /\ y \in Seq(T) /\ z \in Seq(T) /\ a \o z \in Seq(T)
  OBVIOUS
<1>2. Append(a \o z, x) = (a \o z) \o y
  <2> DEFINE v == a \o z
  <2>1. v \in Seq(T)
    BY <1>1
  <2> HIDE DEF v, n, z
  <2> QED
    BY <2>1, AppendIsConcat DEF v
<1> HIDE DEF n, y
<1>3. z \o y = n \o (b \o y)
  BY <1>1
<1> HIDE DEF z
<1>4. (a \o z) \o y = a \o (z \o y)
  BY <1>1
<1>5. Append(a \o z, x) = a \o (n \o (b \o y))
  BY <1>2, <1>3, <1>4
<1> QED
  BY <1>5 DEF AppendsBehind, n, y, z

\* A push into a full queue moves the last request behind an empty entry.
LEMMA FullPush ==
  ASSUME NEW T, NEW q \in Seq(T), NEW m, NEW null \in T, NEW slots \in Nat \ {0},
         Len(q) >= slots
  PROVE  /\ Ahead(q, slots) \in Seq(T) /\ Behind(q, slots) \in Seq(T)
         /\ Moved(q, slots) \in T
         /\ MovesBack(q, PushTo(q, m, slots, null), Ahead(q, slots), Moved(q, slots),
                      Behind(q, slots), null)
<1> DEFINE last == Len(q) + 1 - slots
           a == Ahead(q, slots)
           b == Behind(q, slots)
           x == Moved(q, slots)
<1>1. last \in 1..Len(q) /\ Len(q) \in Nat
  OBVIOUS
<1>2. x \in T /\ x = q[last]
  BY <1>1 DEF Moved
<1>3. a \in Seq(T) /\ Len(a) = last - 1 /\ \A i \in 1..(last - 1) : a[i] = q[i]
  BY <1>1 DEF Ahead
<1>4. /\ b \in Seq(T) /\ Len(b) = Len(q) - last
      /\ \A i \in 1..(Len(q) - last) : b[i] = q[last + i]
  BY <1>1 DEF Behind
<1>5. PushTo(q, m, slots, null) = Append([q EXCEPT ![last] = null], x)
  BY <1>1, <1>2 DEF PushTo
<1> HIDE DEF last, a, b, x
<1>6. ASSUME NEW y \in T, NEW r \in Seq(T), Len(r) = Len(q), r[last] = y,
             \A i \in 1..Len(q) : i # last => r[i] = q[i]
      PROVE  r = a \o (<<y>> \o b)
  <2> DEFINE d == <<y>> \o b
             c == a \o d
  <2>1. /\ d \in Seq(T) /\ Len(d) = 1 + Len(b)
        /\ d[1] = y /\ \A i \in 1..Len(b) : d[i + 1] = b[i]
    BY <1>4
  <2> HIDE DEF d
  <2>2. a \in Seq(T) /\ d \in Seq(T)
    BY <1>3, <2>1
  <2>3. /\ c \in Seq(T) /\ Len(c) = Len(a) + Len(d)
        /\ \A i \in 1..Len(a) : c[i] = a[i]
        /\ \A i \in 1..Len(d) : c[Len(a) + i] = d[i]
    BY <2>2
  <2> HIDE DEF c
  <2>4. Len(c) = Len(q)
    <3>1. Len(a) = last - 1 /\ Len(b) = Len(q) - last /\ Len(d) = 1 + Len(b)
      BY <1>3, <1>4, <2>1
    <3>2. last \in Nat /\ Len(q) \in Nat /\ Len(c) = Len(a) + Len(d)
      BY <1>1, <2>3
    <3> QED
      BY ONLY <3>1, <3>2
  <2>5. ASSUME NEW i \in 1..Len(q) PROVE c[i] = r[i]
    <3>1. CASE i < last
      <4>1. i \in 1..(last - 1) /\ i \in 1..Len(a) /\ i # last
        BY <1>1, <1>3, <3>1
      <4> QED
        BY <1>3, <1>6, <2>3, <4>1
    <3>2. CASE i = last
      <4>1. 1 \in 1..Len(d) /\ Len(a) + 1 = i
        BY <1>1, <1>3, <1>4, <2>1, <3>2
      <4>2. c[Len(a) + 1] = d[1]
        BY <2>3, <4>1
      <4> QED
        BY <1>6, <2>1, <3>2, <4>1, <4>2
    <3>3. CASE i > last
      <4> DEFINE k == i - last
      <4>1. /\ k \in 1..Len(b) /\ k + 1 \in 1..Len(d) /\ Len(a) + (k + 1) = i
            /\ last + k = i /\ i # last /\ k \in 1..(Len(q) - last)
        BY <1>1, <1>3, <1>4, <2>1, <3>3
      <4> HIDE DEF k
      <4>2. c[Len(a) + (k + 1)] = d[k + 1]
        BY <2>3, <4>1
      <4>3. d[k + 1] = b[k]
        BY <2>1, <4>1
      <4>4. b[k] = q[last + k]
        BY <1>4, <4>1
      <4> QED
        BY <1>6, <4>1, <4>2, <4>3, <4>4
    <3>4. i < last \/ i = last \/ i > last
      BY <1>1
    <3> QED
      BY <3>1, <3>2, <3>3, <3>4
  <2>6. c = r
    BY <1>6, <2>3, <2>4, <2>5, SeqEqual
  <2> QED
    BY <2>6 DEF c, d
<1>7. q = a \o (<<x>> \o b)
  BY <1>2, <1>6
<1>8. [q EXCEPT ![last] = null] = a \o (<<null>> \o b)
  <2> DEFINE r == [q EXCEPT ![last] = null]
  <2>1. r \in Seq(T) /\ Len(r) = Len(q) /\ r[last] = null
    BY <1>1
  <2>2. \A i \in 1..Len(q) : i # last => r[i] = q[i]
    BY <1>1
  <2> HIDE DEF r
  <2>3. r = a \o (<<null>> \o b)
    BY <1>6, <2>1, <2>2
  <2> QED
    BY <2>3 DEF r
<1>9. Append(a \o (<<null>> \o b), x) = a \o (<<null>> \o (b \o <<x>>))
  <2>1. a \in Seq(T) /\ b \in Seq(T) /\ null \in T /\ x \in T
    BY <1>2, <1>3, <1>4
  <2> HIDE DEF a, b, x
  <2>2. AppendsBehind(a, null, b, x)
    BY <2>1, AppendBehind
  <2> QED
    BY <2>2 DEF AppendsBehind
<1>10. PushTo(q, m, slots, null) = a \o (<<null>> \o (b \o <<x>>))
  BY <1>5, <1>8, <1>9
<1>11. MovesBack(q, PushTo(q, m, slots, null), a, x, b, null)
  BY <1>7, <1>10 DEF MovesBack
<1> QED
  BY <1>2, <1>3, <1>4, <1>11 DEF a, b, x

\* A push on a full ring changes the order and nothing else: neither how many messages
\* of a set are there nor which.
LEMMA FullPushKeeps ==
  ASSUME NEW T, NEW q \in Seq(T), NEW m, NEW null \in T, NEW slots \in Nat \ {0},
         Len(q) >= slots, NEW S, null \notin S
  PROVE  LET p == PushTo(q, m, slots, null) IN
           /\ p \in Seq(T)
           /\ Len(Within(p, S)) = Len(Within(q, S))
           /\ ToSet(Within(p, S)) = ToSet(Within(q, S))
<1> DEFINE p == PushTo(q, m, slots, null)
           a == Ahead(q, slots)
           b == Behind(q, slots)
           x == Moved(q, slots)
<1>1. /\ a \in Seq(T) /\ b \in Seq(T) /\ x \in T
      /\ MovesBack(q, p, a, x, b, null)
  BY FullPush
<1> HIDE DEF p, a, b, x
<1>2. /\ a \in Seq(T) /\ b \in Seq(T) /\ <<x>> \in Seq(T) /\ <<null>> \in Seq(T)
      /\ <<>> \in Seq(T) /\ b \o <<x>> \in Seq(T) /\ <<x>> \o b \in Seq(T)
      /\ <<null>> \o (b \o <<x>>) \in Seq(T)
  BY <1>1
<1>3. q = a \o (<<x>> \o b) /\ p = a \o (<<null>> \o (b \o <<x>>))
  BY <1>1 DEF MovesBack
<1> DEFINE A == Within(a, S)
           B == Within(b, S)
           X == Within(<<x>>, S)
<1>4. A \in Seq(T) /\ B \in Seq(T) /\ X \in Seq(T)
  BY <1>2, WithinType
<1>5. Within(q, S) = A \o (X \o B)
  <2> DEFINE n == <<x>>
             r == n \o b
  <2>1. n \in Seq(T) /\ r \in Seq(T) /\ q = a \o r
    BY <1>2, <1>3
  <2> HIDE DEF n
  <2>2. Splits(n, b, S)
    BY <1>2, <2>1, Splitting
  <2>3. Splits(a, r, S)
    <3> HIDE DEF r
    <3> QED BY <1>2, <2>1, Splitting
  <2>4. X = Within(n, S)
    BY DEF n
  <2> HIDE DEF A, B, X
  <2> QED
    BY <2>1, <2>2, <2>3, <2>4 DEF A, B, Splits
<1>6. Within(<<null>>, S) = <<>>
  <2>1. Append(<<>>, null) = <<null>>
    OBVIOUS
  <2>2. Within(Append(<<>>, null), S)
          = IF null \in S THEN Append(Within(<<>>, S), null) ELSE Within(<<>>, S)
    BY <1>2, WithinAppend
  <2> QED
    BY <2>1, <2>2, WithinEmpty
<1>7. Within(p, S) = A \o (Within(<<null>>, S) \o (B \o X))
  <2> DEFINE n == <<x>>
             z == <<null>>
             r == b \o n
             v == z \o r
  <2>1. n \in Seq(T) /\ z \in Seq(T) /\ r \in Seq(T) /\ v \in Seq(T) /\ p = a \o v
    BY <1>2, <1>3
  <2> HIDE DEF n, z
  <2>2. Splits(b, n, S)
    BY <1>2, <2>1, Splitting
  <2>3. Splits(z, r, S)
    <3> HIDE DEF r
    <3> QED BY <2>1, Splitting
  <2>4. Splits(a, v, S)
    <3> HIDE DEF v
    <3> QED BY <1>2, <2>1, Splitting
  <2>5. X = Within(n, S) /\ Within(<<null>>, S) = Within(z, S)
    BY DEF n, z
  <2> HIDE DEF A, B, X
  <2> QED
    BY <2>1, <2>2, <2>3, <2>4, <2>5 DEF A, B, Splits
<1> HIDE DEF A, B, X
<1>8. Within(p, S) = A \o (B \o X)
  <2>1. B \o X \in Seq(T)
    BY <1>4
  <2>2. <<>> \o (B \o X) = B \o X
    BY <2>1
  <2> QED
    BY <1>6, <1>7, <2>2
<1>9. Len(A \o (B \o X)) = Len(A \o (X \o B))
  BY <1>4
<1>10. ToSet(A \o (B \o X)) = ToSet(A \o (X \o B))
  <2> DEFINE Y == B \o X
             Z == X \o B
  <2>1. Y \in Seq(T) /\ Z \in Seq(T)
    BY <1>4
  <2>2. ToSet(Y) = ToSet(B) \cup ToSet(X) /\ ToSet(Z) = ToSet(X) \cup ToSet(B)
    BY <1>4, ToSetConcat
  <2> HIDE DEF Y, Z
  <2>3. ToSet(A \o Y) = ToSet(A) \cup ToSet(Y)
    BY <1>4, <2>1, ToSetConcat
  <2>4. ToSet(A \o Z) = ToSet(A) \cup ToSet(Z)
    BY <1>4, <2>1, ToSetConcat
  <2>5. ToSet(A \o Y) = ToSet(A \o Z)
    BY <2>2, <2>3, <2>4
  <2> QED
    BY <2>5 DEF Y, Z
<1>11. p \in Seq(T)
  BY <1>2, <1>3
<1> QED
  BY <1>5, <1>8, <1>9, <1>10, <1>11 DEF p

-----------------------------------------------------------------------------
(* The inductive invariant *)

AnyMessage == Messages(RequestKinds \cup ResponseKinds \cup {"DATA_PROCESS", "null"})
ForBase == Messages(RequestKinds \ {"DESTROY_ON_INIT"})
FromApplication == {m \in CarriedOut : m.call # 0}

\* What the application asks the processor to carry out has the number of its call.
Numbered(S) == {m \in S : m.kind \in Passed \cup {"SET_STATE"} => m.call # 0}
Requests == Numbered(Messages(RequestKinds))
RequestsForBase == Numbered(ForBase)

ScalarTypes ==
  /\ api \in ApiPC /\ calls \in 0..MaxCalls /\ asyncCalls \subseteq 1..calls
  /\ api \in {"starting", "setting", "syncWait"} => calls # 0
  /\ procStreamStart \in BOOLEAN /\ hasCallback \in BOOLEAN /\ revoked \in BOOLEAN
  /\ stateChangeCallback \in 0..calls /\ waitStateChange \in BOOLEAN
  /\ requestResponseLaunch \in BOOLEAN /\ waitingInit \in BOOLEAN
  /\ sirenBaseInitFailed \in BOOLEAN
  /\ epollShared \in BOOLEAN /\ epollOpen \in BOOLEAN
  /\ recordingStart \in BOOLEAN /\ rec \in {"read", "write", "gone"}
  /\ frames \in 0..MaxFrames /\ wire \in Nat
  /\ wire + (IF rec = "write" THEN 1 ELSE 0) <= frames
  /\ wireOpen \in BOOLEAN /\ baseAlive \in BOOLEAN
  /\ bm \in {"check", "block", "asleep", "launch", "preInit", "failed", "wait",
             "exit?", "read", "push", "joinResponse", "joinProcess", "exited"}
  /\ br \in {"none", "poll", "tell", "release", "exited"}
  /\ processThreadInit \in BOOLEAN /\ processInitFailed \in BOOLEAN
  /\ baseStart \in BOOLEAN /\ recordingExit \in BOOLEAN

\* The way of the requests, and what the request thread has in hand.
RequestTypes ==
  /\ requestQueue \in Seq(Requests \cup {NoRequest})
  /\ lost \in Seq(RequestsForBase) /\ issued \in Seq(RequestsForBase)
  /\ rqMsg \in Seq(RequestsForBase) /\ Len(rqMsg) <= 1
  /\ rq \in {"pop", "write", "compare", "exited"}
  /\ rq \in {"write", "compare"} <=> rqMsg # <<>>
  /\ reqChan \in Seq(RequestsForBase) /\ handled \in Seq(RequestsForBase)

\* The way of the responses, and what the response thread has in hand.
ResponseTypes ==
  /\ respChan \in Seq(Messages(ResponseKinds)) /\ Len(respChan) <= RespCap
  /\ seen \in Seq(Messages(ResponseKinds))
  /\ rs \in {"launch", "poll", "epoll", "event", "notify", "callback", "exited"}
  /\ rsMsg \in Seq(Messages(ResponseKinds)) /\ Len(rsMsg) <= 1
  /\ rs \in {"notify", "callback"} =>
       rsMsg # <<>> /\ seen # <<>> /\ rsMsg[1] = seen[Len(seen)]
         /\ rsMsg[1].kind = "ON_CALLBACK"

\* The process thread: what it is to carry out, what it has to say.
ProcessTypes ==
  /\ processQueue \in Seq(Numbered(Packages))
  /\ applied \in Seq(Packages)
  /\ bp \in {"init", "pop", "write", "exited"}
  /\ todo \in Seq(Messages({"ON_VOICE_EVENT", "ON_CALLBACK"}))
  /\ bp = "write" <=> todo # <<>>

Types == ScalarTypes /\ RequestTypes /\ ResponseTypes /\ ProcessTypes

\* Nothing is sent to the base before init_siren is done, nor ever when init failed.
NotYet == api \in {"waitLaunch", "waitInit"}
Silent == rqMsg = <<>> /\ reqChan = <<>> /\ handled = <<>>

Startup ==
  /\ NotYet => /\ Silent /\ rq = "pop"
               /\ requestQueue = <<>> /\ issued = <<>> /\ lost = <<>>
  /\ api = "joinRequestOnInit" =>
       /\ Silent /\ issued = <<>> /\ lost = <<>>
       /\ \/ rq = "pop" /\ requestQueue = <<Plain("DESTROY_ON_INIT", 0)>>
          \/ rq = "exited" /\ requestQueue = <<>>
  /\ sirenBaseInitFailed /\ ~NotYet /\ api # "joinRequestOnInit" =>
       Silent /\ rq = "exited"
  /\ api \in {"joinRequestOnInit", "joinResponseOnInit"} => sirenBaseInitFailed
  /\ ~NotYet => waitingInit

\* What the base says: nothing before the answer, the answer once.
NotAnswered == bm \in {"check", "block", "asleep", "launch", "preInit", "failed"}
Said == seen \o respChan

Answers ==
  /\ NotAnswered => Said = <<>>
  /\ ~NotAnswered => Said # <<>>
  /\ \A i \in DOMAIN Said : Said[i].kind \in InitAnswers <=> i = 1
  /\ waitingInit <=> seen # <<>>
  /\ sirenBaseInitFailed <=> seen # <<>> /\ seen[1].kind = "ON_INIT_FAILED"

\* Before the answer the process thread has nothing to work on, and the thread that
\* takes requests nothing to take.
BaseStarts ==
  /\ NotAnswered =>
       todo = <<>> /\ \A i \in DOMAIN processQueue : processQueue[i].kind = "DESTROY"
  /\ br \in {"tell", "release", "exited"} => handled # <<>>
  /\ bm \notin {"check", "block", "asleep"} => processThreadInit
  /\ bm \in {"check", "block", "asleep", "launch"} <=> br = "none"
  /\ processThreadInit => ~processInitFailed
  /\ bp = "init" <=> ~processThreadInit /\ ~processInitFailed

AnswerInv == Types /\ Startup /\ Answers /\ BaseStarts

\* A state change is installed before its request is pushed.
CallbackSlot ==
  IF asyncCalls = {} THEN stateChangeCallback = 0
  ELSE stateChangeCallback \in asyncCalls /\ \A c \in asyncCalls : c <= stateChangeCallback

RequestsAccounted == Accounted(issued, lost, OnTheWay)
ChangesAccounted ==
  Accounted(StateChanges(issued), StateChanges(lost),
            StateChanges(seen \o respChan \o todo \o processQueue \o reqChan
                           \o RequestInHand \o requestQueue))

\* The base failed or will say that it did.
Failed ==
  processInitFailed \/ bm = "failed" \/ (Said # <<>> /\ Said[1].kind = "ON_INIT_FAILED")

Ending == Failed \/ br \in {"tell", "release", "exited"}

\* What the base has taken is carried out or waits to be, and the DESTROY comes last.
NothingDropped ==
  /\ Within(handled, CarriedOut)
       = Within(applied, FromApplication) \o Within(processQueue, CarriedOut)
  /\ \A i, j \in DOMAIN processQueue :
       i < j /\ processQueue[i].kind = "DESTROY" => processQueue[j] \notin CarriedOut
  /\ bp = "exited" => \A i \in DOMAIN processQueue : processQueue[i] \notin CarriedOut
  /\ bp = "exited" => Ending
  /\ \A i \in DOMAIN processQueue : processQueue[i].kind = "DESTROY" => Ending
  /\ bm \in {"joinProcess", "exited"} => br = "exited"
  /\ bm = "exited" => bp = "exited"

-----------------------------------------------------------------------------
(* Types *)

\* Every step keeps the counts, the flags and the places of the threads in range.
LEMMA ScalarStep == ScalarTypes /\ [Next]_vars => ScalarTypes'
<1> SUFFICES ASSUME ScalarTypes, [Next]_vars PROVE ScalarTypes'
  OBVIOUS
<1> USE BoundsAreNat
    DEF ScalarTypes, ApiPC, MayCall, Issue, PushRequest,
        chanVars, proxyVars, baseVars, baseInitVars, baseRecVars, apiVars, callbackVars,
        queueVars, stateVars, initVars, recVars, rqVars, rsVars, epollVars
<1>1. ASSUME StartProcessStream, UNCHANGED baseVars PROVE ScalarTypes'
  <2>1. hasCallback' \in BOOLEAN /\ revoked' \in BOOLEAN /\ recordingStart' \in BOOLEAN
    BY <1>1, OutcomesKnown DEF StartProcessStream
  <2> QED
    BY <1>1, <2>1 DEF StartProcessStream
<1>2. ASSUME StopProcessStream, UNCHANGED baseVars PROVE ScalarTypes'
  <2>1. procStreamStart' \in BOOLEAN
    BY <1>2 DEF StopProcessStream
  <2> QED
    BY <1>2, <2>1 DEF StopProcessStream
<1>3. ASSUME NEW s \in States, SetStateAsync(s), UNCHANGED baseVars PROVE ScalarTypes'
  BY <1>3 DEF SetStateAsync
<1>4. ASSUME SetStateSync, UNCHANGED baseVars PROVE ScalarTypes'
  <2>1. waitStateChange' \in BOOLEAN
    BY <1>4 DEF SetStateSync
  <2> QED
    BY <1>4, <2>1 DEF SetStateSync
<1>5. ASSUME NEW kind \in Passed, PassRequest(kind), UNCHANGED baseVars PROVE ScalarTypes'
  BY <1>5 DEF PassRequest
<1>6. ASSUME DestroyRecorder, UNCHANGED baseVars PROVE ScalarTypes'
  <2>1. recordingStart' \in BOOLEAN /\ wireOpen' \in BOOLEAN
    BY <1>6 DEF DestroyRecorder
  <2> QED
    BY <1>6, <2>1 DEF DestroyRecorder
<1>7. ASSUME InitLaunched, UNCHANGED baseVars PROVE ScalarTypes'
  BY <1>7 DEF InitLaunched
<1>8. ASSUME InitAnswered, UNCHANGED baseVars PROVE ScalarTypes'
  BY <1>8 DEF InitAnswered
<1>9. ASSUME InitFailureJoins, UNCHANGED baseVars PROVE ScalarTypes'
  <2>1. recordingStart' \in BOOLEAN
    BY <1>9 DEF InitFailureJoins
  <2> QED
    BY <1>9, <2>1 DEF InitFailureJoins
<1>10. ASSUME PushStart, UNCHANGED baseVars PROVE ScalarTypes'
  BY <1>10 DEF PushStart
<1>11. ASSUME PauseRecording, UNCHANGED baseVars PROVE ScalarTypes'
  <2>1. recordingStart' \in BOOLEAN
    BY <1>11 DEF PauseRecording
  <2> QED
    BY <1>11, <2>1 DEF PauseRecording
<1>12. ASSUME NEW s \in States, PushSetState(s), UNCHANGED baseVars PROVE ScalarTypes'
  BY <1>12 DEF PushSetState
<1>13. ASSUME SyncReturn, UNCHANGED baseVars PROVE ScalarTypes'
  BY <1>13 DEF SyncReturn
<1>14. ASSUME PushDestroy, UNCHANGED baseVars PROVE ScalarTypes'
  BY <1>14 DEF PushDestroy
<1>15. ASSUME DestroyJoins, UNCHANGED baseVars PROVE ScalarTypes'
  BY <1>15 DEF DestroyJoins
<1>16. ASSUME RequestPop, UNCHANGED baseVars PROVE ScalarTypes'
  <2>1. epollOpen' \in BOOLEAN
    BY <1>16 DEF RequestPop, RequestThreadExits
  <2> QED
    BY <1>16, <2>1 DEF RequestThreadExits, RequestPop
<1>17. ASSUME RequestWrite, UNCHANGED baseVars PROVE ScalarTypes'
  BY <1>17 DEF RequestWrite
<1>18. ASSUME RequestCompare, UNCHANGED baseVars PROVE ScalarTypes'
  <2>1. epollOpen' \in BOOLEAN
    BY <1>18 DEF RequestCompare, RequestThreadExits
  <2> QED
    BY <1>18, <2>1 DEF RequestThreadExits, RequestCompare
<1>19. ASSUME ResponseLoop, UNCHANGED baseVars PROVE ScalarTypes'
  BY <1>19 DEF ResponseLoop
<1>20. ASSUME ResponseTake, UNCHANGED baseVars PROVE ScalarTypes'
  <2>1. waitingInit' \in BOOLEAN /\ sirenBaseInitFailed' \in BOOLEAN
    BY <1>20 DEF ResponseTake
  <2> QED
    BY <1>20, <2>1 DEF ResponseTake
<1>21. ASSUME ResponseNotify, UNCHANGED baseVars PROVE ScalarTypes'
  BY <1>21 DEF ResponseNotify
<1>22. ASSUME ResponseCallback, UNCHANGED baseVars PROVE ScalarTypes'
  BY <1>22 DEF ResponseCallback
<1>23. ASSUME RecordRead, UNCHANGED baseVars PROVE ScalarTypes'
  BY <1>23 DEF RecordRead
<1>24. ASSUME RecordWrite, UNCHANGED baseVars PROVE ScalarTypes'
  BY <1>24 DEF RecordWrite
<1>25. ASSUME MainCheck, UNCHANGED proxyVars PROVE ScalarTypes'
  BY <1>25 DEF MainCheck
<1>26. ASSUME MainBlock, UNCHANGED proxyVars PROVE ScalarTypes'
  BY <1>26 DEF MainBlock
<1>27. ASSUME MainLaunch, UNCHANGED proxyVars PROVE ScalarTypes'
  BY <1>27 DEF MainLaunch
<1>28. ASSUME MainPreprocessorReady, UNCHANGED proxyVars PROVE ScalarTypes'
  BY <1>28 DEF Respond, MainPreprocessorReady
<1>29. ASSUME MainPreprocessorFails, UNCHANGED proxyVars PROVE ScalarTypes'
  BY <1>29 DEF Respond, MainPreprocessorFails
<1>30. ASSUME MainTellFailure, UNCHANGED proxyVars PROVE ScalarTypes'
  BY <1>30 DEF Respond, MainTellFailure
<1>31. ASSUME MainWait, UNCHANGED proxyVars PROVE ScalarTypes'
  BY <1>31 DEF MainWait
<1>32. ASSUME MainExitCheck, UNCHANGED proxyVars PROVE ScalarTypes'
  BY <1>32 DEF MainExitCheck
<1>33. ASSUME MainRead, UNCHANGED proxyVars PROVE ScalarTypes'
  BY <1>33 DEF MainRead
<1>34. ASSUME MainPush, UNCHANGED proxyVars PROVE ScalarTypes'
  BY <1>34 DEF MainPush
<1>35. ASSUME MainJoins, UNCHANGED proxyVars PROVE ScalarTypes'
  <2>1. baseAlive' \in BOOLEAN
    BY <1>35 DEF MainJoins
  <2> QED
    BY <1>35, <2>1 DEF MainJoins
<1>36. ASSUME ProcessInit, UNCHANGED proxyVars PROVE ScalarTypes'
  <2>1. processThreadInit' \in BOOLEAN /\ processInitFailed' \in BOOLEAN
    BY <1>36, InitsAreBoolean DEF ProcessInit
  <2> QED
    BY <1>36, <2>1 DEF ProcessInit
<1>37. ASSUME ProcessPop, UNCHANGED proxyVars PROVE ScalarTypes'
  BY <1>37 DEF ProcessPop
<1>38. ASSUME ProcessWrite, UNCHANGED proxyVars PROVE ScalarTypes'
  BY <1>38 DEF Respond, ProcessWrite
<1>39. ASSUME BaseTake, UNCHANGED proxyVars PROVE ScalarTypes'
  <2>1. baseStart' \in BOOLEAN
    BY <1>39 DEF BaseTake
  <2> QED
    BY <1>39, <2>1 DEF BaseTake
<1>40. ASSUME TellProxy, UNCHANGED proxyVars PROVE ScalarTypes'
  BY <1>40 DEF Respond, TellProxy
<1>41. ASSUME ReleaseMain, UNCHANGED proxyVars PROVE ScalarTypes'
  BY <1>41 DEF ReleaseMain
<1>42. CASE UNCHANGED vars
  BY <1>42 DEF vars
<1> QED
  BY <1>1, <1>2, <1>3, <1>4, <1>5, <1>6, <1>7, <1>8, <1>9, <1>10, <1>11, <1>12, <1>13,
     <1>14, <1>15, <1>16, <1>17, <1>18, <1>19, <1>20, <1>21, <1>22, <1>23, <1>24, <1>25,
     <1>26, <1>27, <1>28, <1>29, <1>30, <1>31, <1>32, <1>33, <1>34, <1>35, <1>36, <1>37,
     <1>38, <1>39, <1>40, <1>41, <1>42
     DEF Next, ProxyNext, BaseNext, ApiCall, ApiContinues, RequestThread, ResponseThread,
         Recorder, MainThread, ProcessThread, BaseResponseThread

\* Everything that holds messages.
messageVars == <<requestQueue, lost, issued, rqVars, reqChan, handled, processQueue,
                 applied, todo, respChan, seen>>

InInit == api \in {"waitLaunch", "waitInit", "joinRequestOnInit", "joinResponseOnInit"}

\* An API call pushes a request.
Issues(m) ==
  /\ ~InInit /\ ~InInit'
  /\ Issue(m)
  /\ m.kind = "SET_STATE" => m.call = calls'
  /\ UNCHANGED <<initVars, rqVars, rsVars, chanVars, baseVars>>

\* The steps that move a message, each thread's; every other step leaves them all.
LEMMA MessageSteps ==
  ASSUME ScalarTypes, [Next]_vars
  PROVE  \/ UNCHANGED messageVars
         \/ \E m \in RequestsForBase : Issues(m)
         \/ \/ InProxy(InitAnswered)
            \/ InProxy(RequestPop) \/ InProxy(RequestWrite) \/ InProxy(RequestCompare)
            \/ InProxy(ResponseTake)
         \/ \/ InBase(MainPreprocessorReady) \/ InBase(MainPreprocessorFails)
            \/ InBase(MainTellFailure) \/ InBase(MainPush)
            \/ InBase(ProcessPop) \/ InBase(ProcessWrite)
            \/ InBase(BaseTake) \/ InBase(TellProxy)
<1> USE DEF InProxy, InBase, messageVars
<1>1. CASE UNCHANGED vars
  BY <1>1 DEF vars, chanVars, proxyVars, baseVars, apiVars, queueVars, rqVars, rsVars
<1>2. CASE ProxyNext /\ UNCHANGED baseVars
  <2> USE DEF baseVars
  <2>1. CASE ApiCall
    <3> USE DEF apiVars, queueVars, rsVars, chanVars
    <3>1. ASSUME StartProcessStream \/ SetStateSync \/ DestroyRecorder
          PROVE  UNCHANGED messageVars
      BY <1>2, <3>1 DEF StartProcessStream, SetStateSync, DestroyRecorder
    <3> DEFINE n == calls + 1
    <3>2. ASSUME StopProcessStream
          PROVE  Issues(Plain("STOP_PROCESS_STREAM", n)) /\ n \in 0..(MaxCalls + 1) /\ n # 0
      BY <1>2, <3>2, BoundsAreNat
         DEF StopProcessStream, Issues, InInit, MayCall, ScalarTypes, Plain, Message
    <3>3. ASSUME NEW s \in States, SetStateAsync(s)
          PROVE  Issues(Message("SET_STATE", n, s)) /\ n \in 0..(MaxCalls + 1) /\ n # 0
      BY <1>2, <3>3, BoundsAreNat
         DEF SetStateAsync, Issues, InInit, MayCall, ScalarTypes, Message
    <3>4. ASSUME NEW kind \in Passed, PassRequest(kind)
          PROVE  Issues(Plain(kind, n)) /\ n \in 0..(MaxCalls + 1) /\ n # 0
      BY <1>2, <3>4, BoundsAreNat
         DEF PassRequest, Issues, InInit, MayCall, ScalarTypes, Plain, Message, Passed
    <3> HIDE DEF n
    <3>5. ASSUME n \in 0..(MaxCalls + 1), n # 0
          PROVE  /\ Plain("STOP_PROCESS_STREAM", n) \in RequestsForBase
                 /\ \A s \in States : Message("SET_STATE", n, s) \in RequestsForBase
                 /\ \A kind \in Passed : Plain(kind, n) \in RequestsForBase
      BY <3>5 DEF RequestsForBase, Numbered, ForBase, Messages, RequestKinds, Passed, Plain,
                  Message
    <3> QED
      BY <2>1, <3>1, <3>2, <3>3, <3>4, <3>5 DEF ApiCall
  <2>2. CASE ApiContinues
    <3> USE DEF apiVars, queueVars, rsVars, chanVars
    <3>1. ASSUME InitLaunched \/ InitFailureJoins \/ PauseRecording \/ SyncReturn
                   \/ DestroyJoins
          PROVE  UNCHANGED messageVars
      BY <1>2, <3>1
         DEF InitLaunched, InitFailureJoins, PauseRecording, SyncReturn, DestroyJoins
    <3>2. ASSUME PushStart
          PROVE  Issues(Plain("START_PROCESS_STREAM", calls)) /\ calls \in 0..(MaxCalls + 1)
      BY <1>2, <3>2, BoundsAreNat DEF PushStart, Issues, InInit, ScalarTypes, Plain, Message
    <3>3. ASSUME NEW s \in States, PushSetState(s)
          PROVE  /\ Issues(Message("SET_STATE", calls, s))
                 /\ calls \in 0..(MaxCalls + 1) /\ calls # 0
      BY <1>2, <3>3, BoundsAreNat DEF PushSetState, Issues, InInit, ScalarTypes, Message
    <3>4. ASSUME PushDestroy PROVE Issues(Plain("DESTROY", 0))
      BY <1>2, <3>4 DEF PushDestroy, Issues, InInit, Plain, Message
    <3>5. ASSUME NEW n \in 0..(MaxCalls + 1)
          PROVE  /\ Plain("START_PROCESS_STREAM", n) \in RequestsForBase
                 /\ n # 0 => \A s \in States : Message("SET_STATE", n, s) \in RequestsForBase
                 /\ Plain("DESTROY", 0) \in RequestsForBase
      BY <3>5, BoundsAreNat
         DEF RequestsForBase, Numbered, ForBase, Messages, RequestKinds, Passed, Plain,
             Message
    <3>6. 0 \in 0..(MaxCalls + 1)
      BY BoundsAreNat
    <3> QED
      BY <1>2, <2>2, <3>1, <3>2, <3>3, <3>4, <3>5, <3>6 DEF ApiContinues
  <2>3. CASE RequestThread
    BY <1>2, <2>3 DEF RequestThread
  <2>4. CASE ResponseThread
    <3>1. ASSUME ResponseLoop \/ ResponseNotify \/ ResponseCallback
          PROVE  UNCHANGED messageVars
      BY <1>2, <3>1 DEF ResponseLoop, ResponseNotify, ResponseCallback, apiVars, queueVars,
                        chanVars
    <3> QED
      BY <1>2, <2>4, <3>1 DEF ResponseThread
  <2>5. CASE Recorder
    BY <1>2, <2>5 DEF Recorder, RecordRead, RecordWrite, apiVars, queueVars, rsVars, chanVars
  <2> QED
    BY <1>2, <2>1, <2>2, <2>3, <2>4, <2>5 DEF ProxyNext
<1>3. CASE BaseNext /\ UNCHANGED proxyVars
  <2> USE DEF proxyVars, apiVars, queueVars, rqVars, rsVars, chanVars
  <2>1. ASSUME MainCheck \/ MainBlock \/ MainLaunch \/ MainWait \/ MainExitCheck \/ MainRead
                 \/ MainJoins
        PROVE  UNCHANGED messageVars
    BY <1>3, <2>1 DEF MainCheck, MainBlock, MainLaunch, MainWait, MainExitCheck, MainRead,
                      MainJoins
  <2>2. ASSUME ProcessInit \/ ReleaseMain PROVE UNCHANGED messageVars
    BY <1>3, <2>2 DEF ProcessInit, ReleaseMain
  <2> QED
    BY <1>3, <2>1, <2>2 DEF BaseNext, MainThread, ProcessThread, BaseResponseThread
<1> QED
  BY <1>1, <1>2, <1>3 DEF Next

\* A push keeps the request queue a sequence of requests and empty entries.
LEMMA PushType ==
  ASSUME NEW T, NEW q \in Seq(T), NEW m \in T, NEW null \in T, NEW slots \in Nat \ {0}
  PROVE  PushTo(q, m, slots, null) \in Seq(T)
<1>1. CASE Len(q) < slots
  BY <1>1 DEF PushTo
<1>2. CASE Len(q) >= slots
  <2> DEFINE last == Len(q) + 1 - slots
  <2>1. last \in 1..Len(q) /\ q[last] \in T
    BY <1>2
  <2> HIDE DEF last
  <2>2. [q EXCEPT ![last] = null] \in Seq(T)
    BY <2>1
  <2>3. PushTo(q, m, slots, null) = Append([q EXCEPT ![last] = null], q[last])
    BY <1>2 DEF PushTo, last
  <2> QED
    BY <2>1, <2>2, <2>3
<1>3. Len(q) \in Nat
  OBVIOUS
<1> QED
  BY <1>1, <1>2, <1>3

\* Every step keeps the way of the requests typed.
LEMMA RequestTypesStep ==
  ScalarTypes /\ RequestTypes /\ Startup /\ [Next]_vars => RequestTypes'
<1> SUFFICES ASSUME ScalarTypes, RequestTypes, Startup, [Next]_vars PROVE RequestTypes'
  OBVIOUS
<1> USE DEF RequestTypes
<1> DEFINE T == Requests \cup {NoRequest}
<1>1. CASE UNCHANGED messageVars
  BY <1>1 DEF messageVars, rqVars
<1>2. ASSUME NEW m \in RequestsForBase, Issues(m) PROVE RequestTypes'
  <2>1. m \in T
    BY DEF Requests, RequestsForBase, ForBase, Numbered, Messages
  <2>2. requestQueue' \in Seq(T)
    <3> HIDE DEF T
    <3>1. requestQueue \in Seq(T) /\ NoRequest \in T
      BY DEF T
    <3> QED
      BY <1>2, <2>1, <3>1, PushType, RequestSlotsPositive DEF Issues, Issue, PushRequest
  <2> QED
    BY <1>2, <2>2 DEF Issues, Issue, PushRequest, rqVars, chanVars, baseVars
<1>3. CASE InProxy(InitAnswered)
  <2> DEFINE d == Plain("DESTROY_ON_INIT", 0)
  <2>1. d \in Requests
    BY BoundsAreNat DEF Requests, Numbered, Messages, RequestKinds, Passed, Plain, Message
  <2> HIDE DEF d
  <2>2. Len(requestQueue) = 0
    BY <1>3 DEF InProxy, InitAnswered, Startup, NotYet
  <2>3. \/ requestQueue' = requestQueue /\ lost' = lost
        \/ requestQueue' = Append(requestQueue, d) /\ lost' = lost
    BY <1>3, <2>2, RequestSlotsPositive
       DEF InProxy, InitAnswered, PushRequest, PushTo, queueVars, d
  <2>4. requestQueue' \in Seq(T) /\ lost' = lost
    <3>1. d \in T /\ requestQueue \in Seq(T)
      BY <2>1
    <3> HIDE DEF T
    <3> QED
      <4>1. CASE requestQueue' = requestQueue /\ lost' = lost
        BY <3>1, <4>1
      <4>2. CASE requestQueue' = Append(requestQueue, d) /\ lost' = lost
        BY <3>1, <4>2
      <4> QED
        BY <2>3, <4>1, <4>2
  <2> QED
    BY <1>3, <2>4 DEF InProxy, InitAnswered, rqVars, chanVars, baseVars
<1>4. CASE InProxy(RequestPop)
  <2> DEFINE h == Head(requestQueue)
  <2>1. h \in T /\ requestQueue' \in Seq(T)
    BY <1>4 DEF InProxy, RequestPop
  <2>2. h.kind \notin {"DESTROY_ON_INIT", "null"} => h \in RequestsForBase
    BY <2>1
       DEF Requests, RequestsForBase, ForBase, Numbered, Messages, NoRequest, Plain, Message
  <2>3. \/ rq' \in {"pop", "exited"} /\ rqMsg' = rqMsg
        \/ rq' = "write" /\ rqMsg' = <<h>> /\ h \in RequestsForBase
    BY <1>4, <2>2 DEF InProxy, RequestPop, RequestThreadExits, rqVars
  <2> HIDE DEF h, T
  <2>4. UNCHANGED <<lost, issued, reqChan, handled>> /\ rq = "pop"
    BY <1>4 DEF InProxy, RequestPop, apiVars, chanVars, baseVars
  <2>5. rqMsg = <<>>
    BY <2>4
  <2>6. /\ rqMsg' \in Seq(RequestsForBase) /\ Len(rqMsg') <= 1
        /\ rq' \in {"pop", "write", "compare", "exited"}
        /\ rq' \in {"write", "compare"} <=> rqMsg' # <<>>
    <3>1. CASE rq' \in {"pop", "exited"} /\ rqMsg' = rqMsg
      BY <2>5, <3>1
    <3>2. CASE rq' = "write" /\ rqMsg' = <<h>> /\ h \in RequestsForBase
      BY <3>2
    <3> QED
      BY <2>3, <3>1, <3>2
  <2> QED
    BY <2>1, <2>4, <2>6 DEF T
<1>5. CASE InProxy(RequestWrite)
  BY <1>5 DEF InProxy, RequestWrite, apiVars, queueVars, baseVars
<1>6. CASE InProxy(RequestCompare)
  <2>1. rq' \in {"pop", "exited"} /\ rqMsg' = <<>>
    BY <1>6 DEF InProxy, RequestCompare, RequestThreadExits
  <2>2. UNCHANGED <<requestQueue, lost, issued, reqChan, handled>>
    BY <1>6 DEF InProxy, RequestCompare, apiVars, queueVars, chanVars, baseVars
  <2> QED
    BY <2>1, <2>2
<1>7. CASE InProxy(ResponseTake)
  BY <1>7 DEF InProxy, ResponseTake, apiVars, queueVars, rqVars, baseVars
<1>8. CASE \/ InBase(MainPreprocessorReady) \/ InBase(MainPreprocessorFails)
           \/ InBase(MainTellFailure) \/ InBase(MainPush) \/ InBase(ProcessPop)
           \/ InBase(ProcessWrite) \/ InBase(TellProxy)
  BY <1>8 DEF InBase, MainPreprocessorReady, MainPreprocessorFails, MainTellFailure, MainPush,
              ProcessPop, ProcessWrite, TellProxy, proxyVars, chanVars, apiVars, queueVars, rqVars
<1>9. CASE InBase(BaseTake)
  BY <1>9 DEF InBase, BaseTake, proxyVars, apiVars, queueVars, rqVars
<1> QED
  BY <1>1, <1>2, <1>3, <1>4, <1>5, <1>6, <1>7, <1>8, <1>9, MessageSteps

\* The steps that touch what the base has said.
LEMMA ResponseSteps ==
  ASSUME [Next]_vars
  PROVE  \/ UNCHANGED <<respChan, rsVars>>
         \/ InProxy(ResponseThread)
         \/ InBase(MainPreprocessorReady) \/ InBase(MainTellFailure) \/ InBase(TellProxy)
         \/ InBase(ProcessWrite)
<1> USE DEF InProxy, InBase
<1>1. CASE UNCHANGED vars
  BY <1>1 DEF vars, chanVars, proxyVars
<1>2. CASE ProxyNext /\ UNCHANGED baseVars
  <2> USE DEF chanVars
  <2>1. CASE ApiCall
    BY <2>1 DEF ApiCall, StartProcessStream, StopProcessStream, SetStateAsync, SetStateSync,
                PassRequest, DestroyRecorder
  <2>2. CASE ApiContinues
    BY <2>2 DEF ApiContinues, InitLaunched, InitAnswered, InitFailureJoins, PushStart,
                PauseRecording, PushSetState, SyncReturn, PushDestroy, DestroyJoins
  <2>3. CASE RequestThread \/ Recorder
    BY <2>3 DEF RequestThread, RequestPop, RequestWrite, RequestCompare, Recorder, RecordRead,
                RecordWrite
  <2> QED
    BY <1>2, <2>1, <2>2, <2>3 DEF ProxyNext
<1>3. CASE BaseNext /\ UNCHANGED proxyVars
  <2> USE DEF proxyVars, chanVars
  <2>1. ASSUME MainCheck \/ MainBlock \/ MainLaunch \/ MainPreprocessorFails \/ MainWait
                 \/ MainExitCheck \/ MainRead \/ MainPush \/ MainJoins
        PROVE  UNCHANGED <<respChan, rsVars>>
    BY <1>3, <2>1 DEF MainCheck, MainBlock, MainLaunch, MainPreprocessorFails, MainWait,
                      MainExitCheck, MainRead, MainPush, MainJoins
  <2>2. ASSUME ProcessInit \/ ProcessPop \/ BaseTake \/ ReleaseMain
        PROVE UNCHANGED <<respChan, rsVars>>
    BY <1>3, <2>2 DEF ProcessInit, ProcessPop, BaseTake, ReleaseMain
  <2> QED
    BY <1>3, <2>1, <2>2 DEF BaseNext, MainThread, ProcessThread, BaseResponseThread
<1> QED
  BY <1>1, <1>2, <1>3 DEF Next

\* The steps that touch what the base works on.
LEMMA ProcessSteps ==
  ASSUME [Next]_vars
  PROVE  \/ UNCHANGED <<processQueue, applied, bp, todo>>
         \/ InBase(ProcessThread) \/ InBase(BaseTake) \/ InBase(MainPush)
         \/ InBase(MainPreprocessorFails)
<1> USE DEF InProxy, InBase
<1>1. CASE UNCHANGED vars \/ UNCHANGED baseVars
  BY <1>1 DEF vars, baseVars
<1>2. CASE BaseNext /\ UNCHANGED proxyVars
  <2>1. ASSUME MainCheck \/ MainBlock \/ MainLaunch \/ MainPreprocessorReady
                 \/ MainTellFailure \/ MainWait \/ MainExitCheck \/ MainRead \/ MainJoins
        PROVE  UNCHANGED <<processQueue, applied, bp, todo>>
    BY <1>2, <2>1
       DEF MainCheck, MainBlock, MainLaunch, MainPreprocessorReady, MainTellFailure,
                      MainWait, MainExitCheck, MainRead, MainJoins
  <2>2. ASSUME TellProxy \/ ReleaseMain PROVE UNCHANGED <<processQueue, applied, bp, todo>>
    BY <1>2, <2>2 DEF TellProxy, ReleaseMain
  <2> QED
    BY <1>2, <2>1, <2>2 DEF BaseNext, MainThread, BaseResponseThread
<1> QED
  BY <1>1, <1>2 DEF Next

\* An answer is written to a channel of bounded capacity.
LEMMA RespondTyped ==
  ASSUME ResponseTypes, NEW m \in Messages(ResponseKinds), Respond(m), UNCHANGED rsVars
  PROVE  ResponseTypes'
<1>1. respChan' \in Seq(Messages(ResponseKinds)) /\ Len(respChan') <= RespCap
  BY RespCapPositive DEF Respond, ResponseTypes
<1> QED
  BY <1>1 DEF ResponseTypes, rsVars

\* Every step keeps the way of the responses typed.
LEMMA ResponseTypesStep == ResponseTypes /\ ProcessTypes /\ [Next]_vars => ResponseTypes'
<1> SUFFICES ASSUME ResponseTypes, ProcessTypes, [Next]_vars PROVE ResponseTypes'
  OBVIOUS
<1>1. CASE UNCHANGED <<respChan, rsVars>>
  BY <1>1 DEF ResponseTypes, rsVars
<1>2. CASE InProxy(ResponseThread)
  <2>1. CASE ResponseLoop
    BY <2>1 DEF ResponseLoop, ResponseTypes, chanVars
  <2>2. CASE ResponseTake
    <3> DEFINE h == Head(respChan)
    <3>1. /\ h \in Messages(ResponseKinds)
          /\ respChan' \in Seq(Messages(ResponseKinds)) /\ Len(respChan') <= RespCap
      BY <2>2, RespCapPositive DEF ResponseTake, ResponseTypes
    <3>2. seen' = Append(seen, h)
      BY <2>2 DEF ResponseTake
    <3>3. \/ rs' \in {"exited", "poll"} /\ rsMsg' = rsMsg
          \/ rs' = "event" /\ rsMsg' = <<h>>
          \/ rs' = "notify" /\ rsMsg' = <<h>> /\ h.kind = "ON_CALLBACK"
      BY <2>2 DEF ResponseTake
    <3> HIDE DEF h
    <3>4. /\ seen' \in Seq(Messages(ResponseKinds)) /\ seen' # <<>>
          /\ seen'[Len(seen')] = h
      BY <3>1, <3>2 DEF ResponseTypes
    <3>5. CASE rs' \in {"exited", "poll"} /\ rsMsg' = rsMsg
      BY <3>1, <3>4, <3>5 DEF ResponseTypes
    <3>6. CASE rs' = "event" /\ rsMsg' = <<h>>
      BY <3>1, <3>4, <3>6 DEF ResponseTypes
    <3>7. CASE rs' = "notify" /\ rsMsg' = <<h>> /\ h.kind = "ON_CALLBACK"
      BY <3>1, <3>4, <3>7 DEF ResponseTypes
    <3> QED
      BY <3>3, <3>5, <3>6, <3>7
  <2>3. CASE ResponseNotify
    BY <2>3 DEF ResponseNotify, ResponseTypes, chanVars
  <2>4. CASE ResponseCallback
    BY <2>4 DEF ResponseCallback, ResponseTypes, chanVars
  <2> QED
    BY <1>2, <2>1, <2>2, <2>3, <2>4 DEF InProxy, ResponseThread
<1>3. ASSUME NEW kind \in ResponseKinds PROVE Plain(kind, 0) \in Messages(ResponseKinds)
  BY BoundsAreNat DEF Plain, Message, Messages
<1>4. CASE InBase(MainPreprocessorReady) \/ InBase(MainTellFailure) \/ InBase(TellProxy)
  <2>1. \E kind \in {"ON_INIT_OK", "ON_INIT_FAILED", "ON_DESTROY"} : Respond(Plain(kind, 0))
    BY <1>4 DEF InBase, MainPreprocessorReady, MainTellFailure, TellProxy
  <2>2. UNCHANGED rsVars
    BY <1>4 DEF InBase, proxyVars
  <2> QED
    BY <1>3, <2>1, <2>2, RespondTyped DEF ResponseKinds, InitAnswers
<1>5. CASE InBase(ProcessWrite)
  <2>1. Head(todo) \in Messages(ResponseKinds)
    <3>1. Head(todo) \in Messages({"ON_VOICE_EVENT", "ON_CALLBACK"})
      BY <1>5 DEF InBase, ProcessWrite, ProcessTypes
    <3> QED
      BY <3>1 DEF Messages, ResponseKinds
  <2>2. Respond(Head(todo)) /\ UNCHANGED rsVars
    BY <1>5 DEF InBase, ProcessWrite, proxyVars
  <2> QED
    BY <2>1, <2>2, RespondTyped
<1> QED
  BY <1>1, <1>2, <1>4, <1>5, ResponseSteps

\* Every step keeps the process queue and its results typed.
LEMMA ProcessTypesStep == RequestTypes /\ ProcessTypes /\ [Next]_vars => ProcessTypes'
<1> SUFFICES ASSUME RequestTypes, ProcessTypes, [Next]_vars PROVE ProcessTypes'
  OBVIOUS
<1> DEFINE Ps == Numbered(Packages)
<1>1. CASE UNCHANGED <<processQueue, applied, bp, todo>>
  BY <1>1 DEF ProcessTypes
<1>2. ASSUME NEW m \in Ps, processQueue' = Append(processQueue, m), UNCHANGED <<applied, bp, todo>>
      PROVE  ProcessTypes'
  <2>1. processQueue' \in Seq(Ps)
    BY <1>2 DEF ProcessTypes
  <2> QED
    BY <1>2, <2>1 DEF ProcessTypes
<1>3. Frame \in Ps /\ Plain("DESTROY", 0) \in Ps
  BY BoundsAreNat DEF Numbered, Packages, Messages, Frame, Plain, Message, Passed
<1>4. CASE InBase(MainPush) \/ InBase(MainPreprocessorFails)
  <2> HIDE DEF Ps
  <2> QED BY <1>2, <1>3, <1>4 DEF InBase, MainPush, MainPreprocessorFails
<1>5. CASE InBase(BaseTake)
  <2> DEFINE m == Head(reqChan)
  <2>1. m \in RequestsForBase
    BY <1>5 DEF InBase, BaseTake, RequestTypes
  <2>2. m.kind \in Passed \cup {"SET_STATE", "DESTROY"} => m \in Ps
    BY <2>1 DEF RequestsForBase, Numbered, ForBase, Messages, Packages
  <2>3. /\ UNCHANGED <<applied, bp, todo>>
        /\ \/ processQueue' = processQueue
           \/ m.kind \in Passed \cup {"SET_STATE", "DESTROY"}
                /\ processQueue' = Append(processQueue, m)
    BY <1>5 DEF InBase, BaseTake
  <2> HIDE DEF Ps, m
  <2> QED
    BY <1>1, <1>2, <2>2, <2>3
<1>6. CASE InBase(ProcessThread)
  <2>1. CASE ProcessInit
    <3>1. bp' \in {"pop", "exited"} /\ bp = "init"
      BY <2>1 DEF ProcessInit
    <3>2. UNCHANGED <<processQueue, applied, todo>>
      BY <2>1 DEF ProcessInit
    <3> QED
      BY <3>1, <3>2 DEF ProcessTypes
  <2>2. CASE ProcessPop
    <3> DEFINE m == Head(processQueue)
    <3>1. m \in Ps /\ processQueue' \in Seq(Ps)
      BY <2>2 DEF ProcessPop, ProcessTypes
    <3>2. m \in Packages
      BY <3>1 DEF Numbered
    <3>3. applied' \in Seq(Packages)
      <4>1. applied' = applied \/ applied' = Append(applied, m)
        BY <2>2 DEF ProcessPop
      <4> HIDE DEF m
      <4>2. applied \in Seq(Packages)
        BY DEF ProcessTypes
      <4>3. Append(applied, m) \in Seq(Packages)
        BY <3>2, <4>2
      <4> QED
        BY <4>1, <4>2, <4>3
    <3>4. /\ bp' \in {"pop", "write", "exited"}
          /\ todo' \in Seq(Messages({"ON_VOICE_EVENT", "ON_CALLBACK"}))
          /\ bp' = "write" <=> todo' # <<>>
      <4>1. \/ \E events \in Results : todo' = events /\ bp' = IF events = <<>> THEN "pop" ELSE "write"
            \/ /\ todo' = <<Message("ON_CALLBACK", m.call, m.state)>> /\ bp' = "write"
            \/ UNCHANGED <<bp, todo>>
            \/ bp' = "exited" /\ todo' = todo
        BY <2>2 DEF ProcessPop
      <4>2. ASSUME NEW events \in Results
            PROVE  events \in Seq(Messages({"ON_VOICE_EVENT", "ON_CALLBACK"}))
        <5>1. {Event, SleepEvent} \subseteq Messages({"ON_VOICE_EVENT", "ON_CALLBACK"})
          BY BoundsAreNat, SleepIsAState DEF Event, SleepEvent, Plain, Message, Messages
        <5>2. events \in Seq({Event, SleepEvent})
          BY ResultsAreEvents
        <5> HIDE DEF Event, SleepEvent, Messages
        <5> QED
          BY <5>1, <5>2
      <4>3. Message("ON_CALLBACK", m.call, m.state) \in Messages({"ON_VOICE_EVENT", "ON_CALLBACK"})
        BY <3>2 DEF Packages, Messages, Message
      <4>4. bp = "pop" /\ todo = <<>>
        BY <2>2 DEF ProcessPop, ProcessTypes
      <4> HIDE DEF m
      <4> DEFINE c == Message("ON_CALLBACK", m.call, m.state)
                 S == Messages({"ON_VOICE_EVENT", "ON_CALLBACK"})
      <4> HIDE DEF c, S
      <4>5. ASSUME NEW events \in Results, todo' = events,
                   bp' = IF events = <<>> THEN "pop" ELSE "write"
            PROVE  /\ bp' \in {"pop", "write", "exited"} /\ todo' \in Seq(S)
                   /\ bp' = "write" <=> todo' # <<>>
        BY <4>2, <4>5 DEF S
      <4>6. ASSUME todo' = <<c>>, bp' = "write"
            PROVE  /\ bp' \in {"pop", "write", "exited"} /\ todo' \in Seq(S)
                   /\ bp' = "write" <=> todo' # <<>>
        BY <4>3, <4>6 DEF S, c
      <4>7. ASSUME bp' \in {"pop", "exited"}, todo' = <<>>
            PROVE  /\ bp' \in {"pop", "write", "exited"} /\ todo' \in Seq(S)
                   /\ bp' = "write" <=> todo' # <<>>
        BY <4>7
      <4> QED
        BY <4>1, <4>4, <4>5, <4>6, <4>7 DEF S, c
    <3> QED
      BY <3>1, <3>3, <3>4 DEF ProcessTypes
  <2>3. CASE ProcessWrite
    <3>1. todo' \in Seq(Messages({"ON_VOICE_EVENT", "ON_CALLBACK"})) /\ todo' = Tail(todo)
      BY <2>3 DEF ProcessWrite, ProcessTypes
    <3>2. Message("SET_STATE", 0, "sleep") \in Packages
      BY BoundsAreNat, SleepIsAState DEF Message, Messages, Packages
    <3>3. applied' \in Seq(Packages)
      BY <2>3, <3>2 DEF ProcessWrite, ProcessTypes
    <3>4. bp' = IF Len(todo) = 1 THEN "pop" ELSE "write"
      BY <2>3 DEF ProcessWrite
    <3>5. bp' = "write" <=> todo' # <<>>
      <4>1. Len(todo) \in Nat \ {0} /\ Len(todo') = Len(todo) - 1 /\ Len(todo') \in Nat
        BY <2>3, <3>1 DEF ProcessWrite, ProcessTypes
      <4>2. todo' = <<>> <=> Len(todo') = 0
        BY <3>1, EmptySeq
      <4>3. Len(todo) = 1 <=> Len(todo') = 0
        BY <4>1
      <4> QED
        BY <3>4, <4>2, <4>3
    <3>6. processQueue' = processQueue
      BY <2>3 DEF ProcessWrite
    <3> QED
      BY <3>1, <3>3, <3>4, <3>5, <3>6 DEF ProcessTypes
  <2> QED
    BY <1>6, <2>1, <2>2, <2>3 DEF InBase, ProcessThread
<1> QED
  BY <1>1, <1>4, <1>5, <1>6, ProcessSteps

startVars == <<waitingInit, sirenBaseInitFailed, requestQueue, lost, issued, rqVars, reqChan,
               handled>>

\* The steps that touch what init_siren waits for.
LEMMA StartupSteps ==
  ASSUME ScalarTypes, [Next]_vars
  PROVE  \/ /\ UNCHANGED startVars
            /\ \/ api' = api \/ (api = "waitLaunch" /\ api' = "waitInit")
               \/ ~InInit /\ ~InInit'
         \/ \E m \in RequestsForBase : Issues(m)
         \/ \/ InProxy(InitAnswered) \/ InProxy(InitFailureJoins)
            \/ InProxy(RequestPop) \/ InProxy(RequestWrite) \/ InProxy(RequestCompare)
            \/ InProxy(ResponseTake)
         \/ InBase(BaseTake)
<1> USE DEF startVars
<1>1. CASE ~UNCHANGED messageVars
  <2>1. CASE \/ InBase(MainPreprocessorReady) \/ InBase(MainPreprocessorFails)
             \/ InBase(MainTellFailure) \/ InBase(MainPush)
             \/ InBase(ProcessPop) \/ InBase(ProcessWrite) \/ InBase(TellProxy)
    BY <2>1
       DEF InBase, MainPreprocessorReady, MainPreprocessorFails, MainTellFailure, MainPush,
                ProcessPop, ProcessWrite, TellProxy, proxyVars, chanVars, apiVars, queueVars,
                initVars
  <2> QED
    BY <1>1, <2>1, MessageSteps
<1>2. CASE UNCHANGED messageVars
  <2> USE DEF messageVars
  <2>1. CASE UNCHANGED vars \/ (BaseNext /\ UNCHANGED proxyVars)
    BY <1>2, <2>1 DEF vars, proxyVars, apiVars, initVars, queueVars
  <2>2. CASE ProxyNext /\ UNCHANGED baseVars
    <3> USE DEF InInit, MayCall, initVars
    <3>1. CASE ApiCall
      BY <1>2, <3>1 DEF ApiCall, StartProcessStream, StopProcessStream, SetStateAsync,
                        SetStateSync, PassRequest, DestroyRecorder
    <3>2. ASSUME InitLaunched \/ PushStart \/ PauseRecording \/ (\E s \in States : PushSetState(s))
                   \/ SyncReturn \/ PushDestroy \/ DestroyJoins
          PROVE  /\ UNCHANGED startVars
                 /\ \/ api = "waitLaunch" /\ api' = "waitInit"
                    \/ ~InInit /\ ~InInit'
      BY <1>2, <3>2 DEF InitLaunched, PushStart, PauseRecording, PushSetState, SyncReturn,
                        PushDestroy, DestroyJoins
    <3>3. ASSUME ResponseLoop \/ ResponseNotify \/ ResponseCallback \/ Recorder
          PROVE  api' = api /\ UNCHANGED startVars
      BY <1>2, <3>3 DEF ResponseLoop, ResponseNotify, ResponseCallback, Recorder, RecordRead,
                        RecordWrite, apiVars
    <3> QED
      BY <2>2, <3>1, <3>2, <3>3
         DEF ProxyNext, ApiContinues, RequestThread, ResponseThread, InProxy
  <2> QED
    BY <2>1, <2>2 DEF Next
<1> QED
  BY <1>1, <1>2

\* The message at hand is the base's answer exactly when it is the first.
LEMMA AnswerIsFirst ==
  ASSUME ResponseTypes, Answers, respChan # <<>>
  PROVE  Head(respChan).kind \in InitAnswers <=> seen = <<>>
<1> DEFINE i == Len(seen) + 1
           Rs == Messages(ResponseKinds)
<1> HIDE DEF Rs
<1>1. seen \in Seq(Rs) /\ respChan \in Seq(Rs)
  BY DEF ResponseTypes, Rs
<1>2. i \in DOMAIN Said /\ Said[i] = Head(respChan)
  BY <1>1 DEF Said
<1>3. Said[i].kind \in InitAnswers <=> i = 1
  BY <1>2 DEF Answers
<1>4. i = 1 <=> seen = <<>>
  BY <1>1
<1> QED
  BY <1>2, <1>3, <1>4

\* Nothing is sent to the base before init_siren is done.
LEMMA StartupStep ==
  ScalarTypes /\ RequestTypes /\ ResponseTypes /\ Startup /\ Answers /\ [Next]_vars => Startup'
<1> SUFFICES ASSUME ScalarTypes, RequestTypes, ResponseTypes, Startup, Answers, [Next]_vars
             PROVE  Startup'
  OBVIOUS
<1> USE DEF Startup, NotYet, Silent
<1>1. CASE /\ UNCHANGED startVars
           /\ \/ api' = api \/ (api = "waitLaunch" /\ api' = "waitInit")
              \/ ~InInit /\ ~InInit'
  BY <1>1 DEF startVars, rqVars, InInit
<1>2. ASSUME NEW m \in RequestsForBase, Issues(m) PROVE Startup'
  BY <1>2 DEF Issues, InInit, initVars, rqVars, chanVars, baseVars
<1>3. CASE InProxy(InitAnswered)
  <2>1. Append(<<>>, Plain("DESTROY_ON_INIT", 0)) = <<Plain("DESTROY_ON_INIT", 0)>>
    OBVIOUS
  <2>2. requestQueue = <<>> /\ Len(requestQueue) = 0
    BY <1>3 DEF InProxy, InitAnswered
  <2>3. \/ ~sirenBaseInitFailed /\ api' = "ready"
        \/ /\ api' = "joinRequestOnInit" /\ sirenBaseInitFailed
           /\ requestQueue' = <<Plain("DESTROY_ON_INIT", 0)>> /\ lost' = lost
    BY <1>3, <2>1, <2>2, RequestSlotsPositive DEF InProxy, InitAnswered, PushRequest, PushTo
  <2>4. /\ api = "waitInit" /\ waitingInit
        /\ UNCHANGED <<initVars, rqVars, issued, reqChan, handled>>
    BY <1>3 DEF InProxy, InitAnswered, chanVars, baseVars
  <2> QED
    BY <2>3, <2>4 DEF initVars, rqVars
<1>4. CASE InProxy(InitFailureJoins)
  BY <1>4 DEF InProxy, InitFailureJoins, initVars, queueVars, rqVars, chanVars, baseVars
<1>5. CASE InProxy(RequestPop)
  <2>1. Tail(<<Plain("DESTROY_ON_INIT", 0)>>) = <<>>
    OBVIOUS
  <2>2. api = "joinRequestOnInit" => Head(requestQueue) = Plain("DESTROY_ON_INIT", 0)
    BY <1>5 DEF InProxy, RequestPop
  <2>3. api = "joinRequestOnInit" =>
          requestQueue' = <<>> /\ rq' = "exited" /\ rqMsg' = rqMsg
    BY <1>5, <2>1, <2>2 DEF InProxy, RequestPop, RequestThreadExits, Plain, Message, NoRequest
  <2>4. /\ ~NotYet /\ UNCHANGED <<api, issued, lost, initVars, reqChan, handled>> /\ rq = "pop"
    BY <1>5 DEF InProxy, RequestPop, apiVars, chanVars, baseVars
  <2> QED
    BY <2>3, <2>4 DEF initVars
<1>6. CASE InProxy(RequestWrite)
  BY <1>6 DEF InProxy, RequestWrite, RequestTypes, apiVars, initVars, queueVars, baseVars
<1>7. CASE InProxy(RequestCompare)
  <2>1. rqMsg # <<>> /\ ~NotYet /\ api # "joinRequestOnInit" /\ ~sirenBaseInitFailed
    BY <1>7 DEF InProxy, RequestCompare, RequestTypes
  <2>2. UNCHANGED <<api, initVars>>
    BY <1>7 DEF InProxy, RequestCompare, apiVars
  <2> QED
    BY <2>1, <2>2 DEF initVars
<1>8. CASE InProxy(ResponseTake)
  <2>1. sirenBaseInitFailed' # sirenBaseInitFailed => Head(respChan).kind \in InitAnswers
    BY <1>8 DEF InProxy, ResponseTake, InitAnswers
  <2>2. Head(respChan).kind \in InitAnswers <=> seen = <<>>
    BY <1>8, AnswerIsFirst DEF InProxy, ResponseTake
  <2>3. sirenBaseInitFailed' # sirenBaseInitFailed => NotYet
    BY <2>1, <2>2 DEF Answers
  <2>4. waitingInit => waitingInit'
    BY <1>8 DEF InProxy, ResponseTake
  <2>5. sirenBaseInitFailed => sirenBaseInitFailed'
    BY <1>8 DEF InProxy, ResponseTake
  <2>6. UNCHANGED <<api, issued, queueVars, rqVars, reqChan, handled>>
    BY <1>8 DEF InProxy, ResponseTake, apiVars, baseVars
  <2> QED
    BY <2>3, <2>4, <2>5, <2>6 DEF queueVars, rqVars
<1>9. CASE InBase(BaseTake)
  <2>1. reqChan # <<>> /\ UNCHANGED proxyVars
    BY <1>9 DEF InBase, BaseTake
  <2> QED
    BY <2>1 DEF proxyVars, apiVars, initVars, queueVars, rqVars
<1> QED
  BY <1>1, <1>2, <1>3, <1>4, <1>5, <1>6, <1>7, <1>8, <1>9, StartupSteps

\* A message not yet taken is the first one only when nothing was taken: the base has
\* answered before anything reaches it or leaves it.
LEMMA NothingBeforeAnswer ==
  ASSUME ResponseTypes, Startup, Answers, ~Silent
  PROVE  ~NotAnswered
<1>1. seen # <<>>
  BY DEF Startup, Answers
<1>2. Said # <<>>
  BY <1>1 DEF Said, ResponseTypes
<1> QED
  BY <1>2 DEF Answers

\* The entries of a sequence that grew.
LEMMA AppendPoints ==
  ASSUME NEW T, NEW q \in Seq(T), NEW e \in T
  PROVE  /\ DOMAIN q = 1..Len(q) /\ Len(q) \in Nat
         /\ DOMAIN Append(q, e) = 1..(Len(q) + 1)
         /\ Append(q, e)[Len(q) + 1] = e
         /\ \A i \in 1..Len(q) : Append(q, e)[i] = q[i]
OBVIOUS

\* What is said after the answer does not answer again.
LEMMA SaysMore ==
  ASSUME ResponseTypes, NEW m \in Messages(ResponseKinds), Respond(m), seen' = seen
  PROVE  /\ Len(Said) \in Nat /\ DOMAIN Said = 1..Len(Said)
         /\ Said' = Append(Said, m) /\ Said' # <<>>
         /\ DOMAIN Said' = 1..(Len(Said) + 1) /\ Said'[Len(Said) + 1] = m
         /\ \A i \in DOMAIN Said : Said'[i] = Said[i]
<1> DEFINE Rs == Messages(ResponseKinds)
<1> HIDE DEF Rs
<1>1. seen \in Seq(Rs) /\ respChan \in Seq(Rs) /\ m \in Rs
  BY DEF ResponseTypes, Rs
<1>2. respChan' = Append(respChan, m)
  BY DEF Respond
<1>3. Said \in Seq(Rs) /\ Said' = Append(Said, m)
  BY <1>1, <1>2 DEF Said
<1> HIDE DEF Said
<1>4. /\ DOMAIN Said = 1..Len(Said) /\ Len(Said) \in Nat
      /\ DOMAIN Append(Said, m) = 1..(Len(Said) + 1) /\ Append(Said, m)[Len(Said) + 1] = m
      /\ \A i \in 1..Len(Said) : Append(Said, m)[i] = Said[i]
  BY <1>1, <1>3, AppendPoints
<1>5. Append(Said, m) # <<>>
  BY <1>1, <1>3, AppendProperties
<1> QED
  BY <1>3, <1>4, <1>5

\* The answer to the init comes once, and first.
LEMMA AnswersStep ==
  /\ Types /\ Startup /\ Answers /\ BaseStarts /\ [Next]_vars
  => Answers'
<1> SUFFICES ASSUME Types, Startup, Answers, BaseStarts, [Next]_vars PROVE Answers'
  OBVIOUS
<1> DEFINE Rs == Messages(ResponseKinds)
<1>0. seen \in Seq(Rs) /\ respChan \in Seq(Rs) /\ ResponseTypes
  BY DEF Types, ResponseTypes
<1>1. ASSUME UNCHANGED <<seen, respChan, waitingInit, sirenBaseInitFailed>>,
             NotAnswered' <=> NotAnswered
      PROVE  Answers'
  BY <1>1 DEF Answers, Said
<1>2. ASSUME NEW m \in Rs, Respond(m), ~NotAnswered, ~NotAnswered', m.kind \notin InitAnswers,
             UNCHANGED <<seen, waitingInit, sirenBaseInitFailed>>
      PROVE  Answers'
  <2> HIDE DEF Said
  <2>1. Said # <<>> /\ 1 \in DOMAIN Said
    <3>1. Said \in Seq(Rs) /\ Said # <<>>
      BY <1>0, <1>2 DEF Answers, Said
    <3> QED BY <3>1
  <2>2. \A i \in DOMAIN Said' : Said'[i].kind \in InitAnswers <=> i = 1
    BY <1>0, <1>2, <2>1, SaysMore DEF Answers
  <2> QED
    BY <1>0, <1>2, <2>2, SaysMore DEF Answers
<1>3. ASSUME NEW m \in Rs, Respond(m), NotAnswered, ~NotAnswered', m.kind \in InitAnswers,
             UNCHANGED <<seen, waitingInit, sirenBaseInitFailed>>
      PROVE  Answers'
  <2> HIDE DEF Said
  <2>1. Len(Said) = 0
    BY <1>3 DEF Answers
  <2>2. \A i \in DOMAIN Said' : Said'[i].kind \in InitAnswers <=> i = 1
    BY <1>0, <1>3, <2>1, SaysMore DEF Answers
  <2> QED
    BY <1>0, <1>3, <2>2, SaysMore DEF Answers
<1>4. ASSUME NEW kind \in ResponseKinds PROVE Plain(kind, 0) \in Rs
  BY BoundsAreNat DEF Plain, Message, Messages
<1>5. CASE InProxy(ResponseTake)
  <2> DEFINE h == Head(respChan)
  <2>1. h \in Rs /\ seen' = Append(seen, h) /\ respChan' = Tail(respChan) /\ respChan # <<>>
    BY <1>0, <1>5 DEF InProxy, ResponseTake
  <2>2. Said' = Said /\ seen' # <<>> /\ (IF seen = <<>> THEN seen'[1] = h ELSE seen'[1] = seen[1])
    <3> HIDE DEF Rs, h
    <3>1. respChan = <<h>> \o Tail(respChan)
      BY <1>0, <2>1 DEF h
    <3>2. Tail(respChan) \in Seq(Rs) /\ <<h>> \in Seq(Rs)
      BY <1>0, <2>1
    <3>3. Append(seen, h) \o Tail(respChan) = seen \o (<<h>> \o Tail(respChan))
      BY <1>0, <2>1, <3>2
    <3>4. Said' = Said
      BY <2>1, <3>1, <3>3 DEF Said
    <3>5. seen' # <<>> /\ (IF seen = <<>> THEN seen'[1] = h ELSE seen'[1] = seen[1])
      BY <1>0, <2>1
    <3> QED BY <3>4, <3>5
  <2>3. NotAnswered' <=> NotAnswered
    BY <1>5 DEF InProxy, baseVars, NotAnswered
  <2>4. h.kind \in InitAnswers <=> seen = <<>>
    BY <1>0, <2>1, AnswerIsFirst
  <2>5. waitingInit' /\ (seen # <<>> => sirenBaseInitFailed' = sirenBaseInitFailed)
    BY <1>5, <2>4 DEF InProxy, ResponseTake, Answers, InitAnswers
  <2>6. seen = <<>> => (sirenBaseInitFailed' <=> h.kind = "ON_INIT_FAILED")
    BY <1>5, <2>4 DEF InProxy, ResponseTake, Answers, InitAnswers
  <2>7. sirenBaseInitFailed' <=> seen' # <<>> /\ seen'[1].kind = "ON_INIT_FAILED"
    BY <2>2, <2>5, <2>6 DEF Answers
  <2> QED
    BY <2>2, <2>3, <2>5, <2>7 DEF Answers
<1>6. CASE InProxy(ResponseLoop) \/ InProxy(ResponseNotify) \/ InProxy(ResponseCallback)
  BY <1>1, <1>6
     DEF InProxy, ResponseLoop, ResponseNotify, ResponseCallback, initVars, chanVars,
                    baseVars, NotAnswered
<1>7. CASE InBase(MainPreprocessorReady)
  BY <1>3, <1>4, <1>7
     DEF InBase, MainPreprocessorReady, NotAnswered, ResponseKinds, InitAnswers,
                          Plain, Message, proxyVars, initVars, rsVars
<1>8. CASE InBase(MainTellFailure)
  BY <1>3, <1>4, <1>8 DEF InBase, MainTellFailure, NotAnswered, ResponseKinds, InitAnswers,
                          Plain, Message, proxyVars, initVars, rsVars
<1>9. CASE InBase(TellProxy)
  <2>1. ~NotAnswered
    BY <1>0, <1>9, NothingBeforeAnswer DEF InBase, TellProxy, BaseStarts, Silent
  <2> QED
    BY <1>2, <1>4, <1>9, <2>1 DEF InBase, TellProxy, NotAnswered, ResponseKinds, InitAnswers,
                          Plain, Message, proxyVars, initVars, rsVars
<1>10. CASE InBase(ProcessWrite)
  <2> DEFINE m == Head(todo)
  <2>1. m \in Messages({"ON_VOICE_EVENT", "ON_CALLBACK"}) /\ todo # <<>>
    BY <1>10 DEF InBase, ProcessWrite, Types, ProcessTypes
  <2>2. m \in Rs /\ m.kind \notin InitAnswers
    BY <2>1 DEF Messages, ResponseKinds, InitAnswers
  <2>3. ~NotAnswered
    BY <2>1 DEF BaseStarts
  <2>4. /\ Respond(m) /\ UNCHANGED <<seen, waitingInit, sirenBaseInitFailed>>
        /\ NotAnswered' <=> NotAnswered
    BY <1>10 DEF InBase, ProcessWrite, proxyVars, initVars, rsVars, NotAnswered
  <2> HIDE DEF m, Rs
  <2> QED
    BY <1>2, <2>2, <2>3, <2>4
<1>11. CASE UNCHANGED <<respChan, rsVars>>
  <2>1. UNCHANGED <<waitingInit, sirenBaseInitFailed>>
    <3>1. UNCHANGED seen
      BY <1>11 DEF rsVars
    <3>2. CASE UNCHANGED vars \/ (BaseNext /\ UNCHANGED proxyVars)
      BY <3>2 DEF vars, proxyVars, initVars
    <3>3. CASE ProxyNext /\ UNCHANGED baseVars
      <4> USE DEF initVars
      <4>1. CASE ApiCall
        BY <4>1
           DEF ApiCall, StartProcessStream, StopProcessStream, SetStateAsync, SetStateSync,
                    PassRequest, DestroyRecorder
      <4>2. CASE ApiContinues
        BY <4>2 DEF ApiContinues, InitLaunched, InitAnswered, InitFailureJoins, PushStart,
                    PauseRecording, PushSetState, SyncReturn, PushDestroy, DestroyJoins
      <4>3. CASE RequestThread \/ Recorder
        BY <4>3
           DEF RequestThread, RequestPop, RequestWrite, RequestCompare, Recorder,
               RecordRead,
                    RecordWrite
      <4>4. CASE ResponseLoop \/ ResponseNotify \/ ResponseCallback
        BY <4>4 DEF ResponseLoop, ResponseNotify, ResponseCallback
      <4>5. ~ResponseTake
        BY <1>0, <1>11 DEF ResponseTake
      <4> QED
        BY <3>3, <4>1, <4>2, <4>3, <4>4, <4>5 DEF ProxyNext, ResponseThread
    <3> QED
      BY <3>2, <3>3 DEF Next
  <2>2. CASE NotAnswered' <=> NotAnswered
    BY <1>1, <1>11, <2>1, <2>2 DEF rsVars
  <2>3. CASE ~(NotAnswered' <=> NotAnswered)
    <3> USE DEF NotAnswered
    <3>1. ~UNCHANGED vars /\ ~UNCHANGED baseVars
      BY <2>3 DEF vars, baseVars
    <3>2. ~ProcessThread /\ ~BaseResponseThread
      BY <2>3 DEF ProcessThread, BaseResponseThread, ProcessInit, ProcessPop, ProcessWrite,
                  BaseTake, TellProxy, ReleaseMain
    <3>3. ~MainCheck /\ ~MainBlock /\ ~MainLaunch /\ ~MainPreprocessorFails /\ ~MainWait
          /\ ~MainExitCheck /\ ~MainRead /\ ~MainPush /\ ~MainJoins
      BY <2>3 DEF MainCheck, MainBlock, MainLaunch, MainPreprocessorFails, MainWait,
                  MainExitCheck, MainRead, MainPush, MainJoins
    <3>4. MainPreprocessorReady \/ MainTellFailure
      BY <3>1, <3>2, <3>3 DEF Next, BaseNext, MainThread
    <3>5. respChan' # respChan
      <4>1. \E kind \in InitAnswers : respChan' = Append(respChan, Plain(kind, 0))
        BY <3>4 DEF MainPreprocessorReady, MainTellFailure, Respond, InitAnswers
      <4> QED BY <1>0, <1>4, <4>1 DEF InitAnswers, ResponseKinds
    <3> QED
      BY <1>11, <3>5
  <2> QED
    BY <2>2, <2>3
<1> QED
  BY <1>5, <1>6, <1>7, <1>8, <1>9, <1>10, <1>11, ResponseSteps DEF ResponseThread, InProxy

\* The base's threads start in their order.
LEMMA BaseStartsStep ==
  Types /\ Startup /\ Answers /\ BaseStarts /\ [Next]_vars => BaseStarts'
<1> SUFFICES ASSUME Types, Startup, Answers, BaseStarts, [Next]_vars PROVE BaseStarts'
  OBVIOUS
<1> USE DEF BaseStarts, NotAnswered
<1>0. processQueue \in Seq(Numbered(Packages)) /\ ResponseTypes
  BY DEF Types, ProcessTypes
<1>1. CASE UNCHANGED <<baseVars>>
  BY <1>1 DEF baseVars, baseInitVars
<1>2. CASE BaseNext
  <2>1. CASE MainCheck \/ MainBlock \/ MainLaunch \/ MainPreprocessorReady \/ MainTellFailure
             \/ MainWait \/ MainExitCheck \/ MainRead \/ MainJoins
    <3>1. UNCHANGED <<bp, baseInitVars, todo, processQueue, handled>>
      BY <2>1 DEF MainCheck, MainBlock, MainLaunch, MainPreprocessorReady, MainTellFailure,
                  MainWait, MainExitCheck, MainRead, MainJoins
    <3>2. NotAnswered' => NotAnswered
      BY <2>1 DEF MainCheck, MainBlock, MainLaunch, MainPreprocessorReady, MainTellFailure,
                  MainWait, MainExitCheck, MainRead, MainJoins
    <3>3. bm' \notin {"check", "block", "asleep"} => processThreadInit
      BY <2>1 DEF MainCheck, MainBlock, MainLaunch, MainPreprocessorReady, MainTellFailure,
                  MainWait, MainExitCheck, MainRead, MainJoins
    <3>4. CASE MainLaunch
      BY <3>1, <3>2, <3>3, <3>4 DEF MainLaunch, baseInitVars
    <3>5. CASE ~MainLaunch
      <4>1. br' = br
        BY <2>1, <3>5 DEF MainCheck, MainBlock, MainPreprocessorReady, MainTellFailure,
                          MainWait, MainExitCheck, MainRead, MainJoins
      <4>2. bm \in {"check", "block", "asleep", "launch"}
              <=> bm' \in {"check", "block", "asleep", "launch"}
        BY <2>1, <3>5 DEF MainCheck, MainBlock, MainPreprocessorReady, MainTellFailure,
                          MainWait, MainExitCheck, MainRead, MainJoins
      <4> QED
        BY <3>1, <3>2, <3>3, <4>1, <4>2 DEF baseInitVars
    <3> QED
      BY <3>4, <3>5
  <2>2. CASE MainPreprocessorFails
    <3>1. /\ processQueue' = Append(processQueue, Plain("DESTROY", 0))
          /\ \A i \in DOMAIN processQueue' : i \in DOMAIN processQueue \/ i = Len(processQueue) + 1
          /\ \A i \in DOMAIN processQueue : processQueue'[i] = processQueue[i]
          /\ processQueue'[Len(processQueue) + 1] = Plain("DESTROY", 0)
      BY <1>0, <2>2 DEF MainPreprocessorFails
    <3>2. Plain("DESTROY", 0).kind = "DESTROY"
      BY DEF Plain, Message
    <3>3. \A i \in DOMAIN processQueue' : processQueue'[i].kind = "DESTROY"
      BY <2>2, <3>1, <3>2 DEF MainPreprocessorFails
    <3> QED
      BY <2>2, <3>3 DEF MainPreprocessorFails, baseInitVars
  <2>3. CASE MainPush
    BY <2>3 DEF MainPush, baseInitVars
  <2>4. CASE ProcessInit
    <3>1. ~processThreadInit
      BY <2>4 DEF ProcessInit
    <3>2. \E ok \in BOOLEAN : /\ processThreadInit' = ok /\ processInitFailed' = ~ok
                              /\ bp' = IF ok THEN "pop" ELSE "exited"
      BY <2>4, InitsAreBoolean DEF ProcessInit
    <3>3. /\ processThreadInit' => ~processInitFailed'
          /\ bp' # "init"
          /\ processThreadInit' \/ processInitFailed'
      <4>1. PICK ok \in BOOLEAN : /\ processThreadInit' = ok /\ processInitFailed' = ~ok
                                 /\ bp' = IF ok THEN "pop" ELSE "exited"
        BY <3>2
      <4>2. CASE ok = TRUE
        BY <4>1, <4>2
      <4>3. CASE ok = FALSE
        BY <4>1, <4>3
      <4> QED BY <4>2, <4>3
    <3>4. bm \in {"check", "block", "asleep"} /\ bm' = IF bm = "asleep" THEN "check" ELSE bm
      BY <2>4, <3>1 DEF ProcessInit
    <3>5. UNCHANGED <<br, todo, processQueue, handled>>
      BY <2>4 DEF ProcessInit
    <3> QED
      BY <3>3, <3>4, <3>5
  <2>5. CASE ProcessPop
    <3>1. processQueue # <<>> /\ processQueue' = Tail(processQueue)
      BY <2>5 DEF ProcessPop
    <3>2. /\ 1 \in DOMAIN processQueue /\ Head(processQueue) = processQueue[1]
          /\ \A i \in DOMAIN processQueue' :
               i + 1 \in DOMAIN processQueue /\ processQueue'[i] = processQueue[i + 1]
      BY <1>0, <3>1
    <3>3. NotAnswered => /\ Head(processQueue).kind = "DESTROY"
                         /\ \A i \in DOMAIN processQueue' : processQueue'[i].kind = "DESTROY"
      BY <3>2
    <3>4. NotAnswered => todo' = todo
      BY <2>5, <3>3 DEF ProcessPop, Frame, Plain, Message, Passed
    <3>5. UNCHANGED <<bm, br, baseInitVars, handled>> /\ bp = "pop" /\ bp' # "init"
      BY <2>5 DEF ProcessPop
    <3> QED
      BY <3>3, <3>4, <3>5 DEF baseInitVars
  <2>6. CASE ProcessWrite
    <3>1. ~NotAnswered
      BY <2>6 DEF ProcessWrite, Types, ProcessTypes
    <3> QED
      BY <2>6, <3>1 DEF ProcessWrite, baseInitVars
  <2>7. CASE BaseTake
    <3>1. ~NotAnswered
      BY <1>0, <2>7, NothingBeforeAnswer DEF BaseTake, Silent
    <3>2. handled' # <<>>
      <4>1. handled \in Seq(RequestsForBase) /\ handled' = Append(handled, Head(reqChan))
        BY <2>7 DEF BaseTake, Types, RequestTypes
      <4> QED BY <4>1
    <3>3. UNCHANGED <<bm, bp, baseInitVars>> /\ br # "none" /\ br' # "none"
      BY <2>7 DEF BaseTake
    <3> QED
      BY <3>1, <3>2, <3>3 DEF baseInitVars
  <2>8. CASE TellProxy \/ ReleaseMain
    BY <2>8 DEF TellProxy, ReleaseMain, baseInitVars
  <2> QED
    BY <1>2, <2>1, <2>2, <2>3, <2>4, <2>5, <2>6, <2>7, <2>8
       DEF BaseNext, MainThread, ProcessThread, BaseResponseThread
<1> QED
  BY <1>1, <1>2 DEF Next, vars

\* The invariant holds initially.
LEMMA InitAnswerInv == Init => AnswerInv
<1> SUFFICES ASSUME Init PROVE AnswerInv
  OBVIOUS
<1> USE DEF Init, ChannelInit, ProxyInit, BaseInit
<1>1. ScalarTypes
  <2>1. epollShared \in BOOLEAN
    BY OutcomesKnown
  <2>2. /\ procStreamStart \in BOOLEAN /\ hasCallback \in BOOLEAN /\ revoked \in BOOLEAN
        /\ waitStateChange \in BOOLEAN
        /\ requestResponseLaunch \in BOOLEAN /\ waitingInit \in BOOLEAN
        /\ sirenBaseInitFailed \in BOOLEAN /\ epollOpen \in BOOLEAN
        /\ recordingStart \in BOOLEAN /\ wireOpen \in BOOLEAN /\ baseAlive \in BOOLEAN
        /\ processThreadInit \in BOOLEAN /\ processInitFailed \in BOOLEAN
        /\ baseStart \in BOOLEAN /\ recordingExit \in BOOLEAN
    OBVIOUS
  <2>3. /\ calls \in 0..MaxCalls /\ asyncCalls \subseteq 1..calls
        /\ stateChangeCallback \in 0..calls
        /\ frames \in 0..MaxFrames /\ wire \in Nat
        /\ wire + (IF rec = "write" THEN 1 ELSE 0) <= frames
    BY BoundsAreNat
  <2> QED
    BY <2>1, <2>2, <2>3 DEF ScalarTypes, ApiPC
<1>2. RequestTypes
  BY DEF RequestTypes
<1>3. ResponseTypes
  BY RespCapPositive DEF ResponseTypes
<1>4. ProcessTypes
  BY DEF ProcessTypes
<1>5. Startup
  BY DEF Startup, NotYet, Silent
<1>6. Said = <<>> /\ DOMAIN Said = {}
  BY DEF Said
<1>7. Answers
  BY <1>6 DEF Answers, NotAnswered
<1>8. BaseStarts
  BY DEF BaseStarts, NotAnswered
<1> QED
  BY <1>1, <1>2, <1>3, <1>4, <1>5, <1>7, <1>8 DEF AnswerInv, Types

\* Every step keeps the invariant.
LEMMA AnswerInvStep == AnswerInv /\ [Next]_vars => AnswerInv'
<1> SUFFICES ASSUME AnswerInv, [Next]_vars PROVE AnswerInv'
  OBVIOUS
<1> USE DEF AnswerInv, Types
<1>1. Types'
  BY ScalarStep, RequestTypesStep, ResponseTypesStep, ProcessTypesStep
<1>2. Startup' /\ Answers' /\ BaseStarts'
  BY StartupStep, AnswersStep, BaseStartsStep
<1> QED
  BY <1>1, <1>2

\* So it always holds.
LEMMA AnswerInvariance == Spec => []AnswerInv
<1> QED
  BY InitAnswerInv, AnswerInvStep, PTL DEF Spec

\* Sequences over a smaller set are sequences over a larger one.
LEMMA SeqSub == ASSUME NEW S, NEW T, S \subseteq T PROVE Seq(S) \subseteq Seq(T)
OBVIOUS

\* Changes under way have the number of a call.
LEMMA UnderWayTyped == Types => UnderWay \subseteq 0..(MaxCalls + 1)
<1> DEFINE Called(q) == \A m \in ToSet(q) : m.call \in 0..(MaxCalls + 1)
<1> SUFFICES ASSUME Types PROVE UnderWay \subseteq 0..(MaxCalls + 1)
  OBVIOUS
<1>1. ASSUME NEW K, NEW S \in SUBSET Messages(K), NEW q \in Seq(S) PROVE Called(q)
  <2>1. \A m \in S : m.call \in 0..(MaxCalls + 1)
    BY DEF Messages
  <2> QED
    BY <2>1 DEF ToSet
<1>2. Called(requestQueue)
  <2>1. Requests \cup {NoRequest} \in SUBSET Messages(RequestKinds \cup {"null"})
    BY BoundsAreNat DEF Requests, Numbered, NoRequest, Plain, Message, Messages
  <2> QED
    BY <1>1, <2>1 DEF Types, RequestTypes
<1>3. Called(rqMsg) /\ Called(reqChan)
  <2>1. RequestsForBase \in SUBSET Messages(RequestKinds)
    BY DEF RequestsForBase, Numbered, ForBase, Messages
  <2> QED
    BY <1>1, <2>1 DEF Types, RequestTypes
<1>4. Called(processQueue)
  <2>1. Numbered(Packages)
          \in SUBSET Messages(Passed \cup {"SET_STATE", "DESTROY", "DATA_PROCESS"})
    BY DEF Numbered, Packages
  <2> QED
    BY <1>1, <2>1 DEF Types, ProcessTypes
<1>5. Called(todo)
  BY <1>1 DEF Types, ProcessTypes
<1>6. Called(respChan) /\ Called(rsMsg)
  BY <1>1 DEF Types, ResponseTypes
<1>7. Called(<<>>)
  BY DEF ToSet
<1> HIDE DEF Called
<1>8. Called(RequestInHand) /\ Called(AnswerInHand)
  BY <1>3, <1>6, <1>7 DEF RequestInHand, AnswerInHand
<1> QED
  BY <1>2, <1>3, <1>4, <1>5, <1>6, <1>8 DEF Called, UnderWay

\* The counts, the queues and the places of the six threads are what they are said to be.
THEOREM TypeCorrect == Spec => []TypeOK
<1> DEFINE Typed == AnswerInv /\ overlap \subseteq 0..(MaxCalls + 1)
<1>1. Typed => TypeOK
  <2> SUFFICES ASSUME Typed PROVE TypeOK
    OBVIOUS
  <2> USE DEF AnswerInv, Types
  <2>1. /\ RequestsForBase \subseteq Messages(RequestKinds)
        /\ Requests \cup {NoRequest} \subseteq Messages(RequestKinds) \cup {NoRequest}
        /\ Numbered(Packages) \subseteq Packages
        /\ Messages({"ON_VOICE_EVENT", "ON_CALLBACK"}) \subseteq Messages(ResponseKinds)
    BY DEF RequestsForBase, ForBase, Requests, Numbered, Messages, ResponseKinds
  <2>2. /\ Seq(RequestsForBase) \subseteq Seq(Messages(RequestKinds))
        /\ Seq(Requests \cup {NoRequest}) \subseteq Seq(Messages(RequestKinds) \cup {NoRequest})
        /\ Seq(Numbered(Packages)) \subseteq Seq(Packages)
        /\ Seq(Messages({"ON_VOICE_EVENT", "ON_CALLBACK"})) \subseteq Seq(Messages(ResponseKinds))
    BY <2>1, SeqSub
  <2>3. ChannelTypes
    <3>1. wire \in 0..MaxFrames
      BY BoundsAreNat DEF ScalarTypes
    <3> QED
      BY <2>2, <3>1 DEF ChannelTypes, ScalarTypes, RequestTypes, ResponseTypes
  <2>4. ProxyTypes
    <3>1. calls \in 0..(MaxCalls + 1) /\ asyncCalls \subseteq 1..MaxCalls
            /\ stateChangeCallback \in 0..MaxCalls
      BY BoundsAreNat DEF ScalarTypes
    <3> QED
      BY <2>2, <3>1 DEF ProxyTypes, ScalarTypes, RequestTypes, ResponseTypes
  <2>5. BaseTypes
    BY <2>2 DEF BaseTypes, ScalarTypes, RequestTypes, ProcessTypes
  <2> QED
    BY <2>3, <2>4, <2>5 DEF TypeOK
<1>2. Init => Typed
  BY InitAnswerInv DEF Init
<1>3. Typed /\ [Next]_vars => Typed'
  <2> SUFFICES ASSUME Typed, [Next]_vars PROVE Typed'
    OBVIOUS
  <2>1. AnswerInv' /\ UnderWay \subseteq 0..(MaxCalls + 1)
    BY AnswerInvStep, UnderWayTyped DEF AnswerInv
  <2>2. overlap' \in {overlap, UnderWay, {}}
    BY DEF Next, KeepsOverlap, vars
  <2> QED
    BY <2>1, <2>2
<1> QED
  BY <1>1, <1>2, <1>3, PTL DEF Spec

\* The base's first word is how its init went, and it is said once; init_siren returns
\* only when the base is ready for requests or known to have failed, whatever the
\* order in which the base's threads and the proxy's take their steps.
THEOREM AnswerFirst == Spec => []AnswerComesFirst
<1>1. AnswerInv => AnswerComesFirst
  <2> SUFFICES ASSUME AnswerInv PROVE AnswerComesFirst
    OBVIOUS
  <2> USE DEF AnswerInv, Types
  <2>1. \A i \in DOMAIN Said : Said[i].kind \in InitAnswers <=> i = 1
    BY DEF Answers
  <2>2. ASSUME ~NotYet PROVE ~NotAnswered
    <3>1. seen # <<>>
      BY <2>2 DEF Startup, Answers
    <3>2. Said # <<>>
      BY <3>1 DEF Said, ResponseTypes
    <3> QED
      BY <3>2 DEF Answers
  <2> QED
    BY <2>1, <2>2 DEF AnswerComesFirst, Said, NotYet, NotAnswered, BaseStarts
<1> QED
  BY <1>1, AnswerInvariance, PTL

\* A base that failed is sent nothing.
LEMMA FailedIsSilent ==
  ASSUME AnswerInv, Failed
  PROVE  Silent
<1> USE DEF AnswerInv, Types
<1>1. CASE NotAnswered
  BY <1>1, NothingBeforeAnswer
<1>2. CASE ~NotAnswered
  <2>1. ~processInitFailed /\ bm # "failed"
    BY <1>2 DEF BaseStarts, NotAnswered
  <2>2. Said # <<>> /\ Said[1].kind = "ON_INIT_FAILED"
    BY <2>1 DEF Failed
  <2>3. CASE seen = <<>>
    BY <2>3 DEF Answers, Startup
  <2>4. CASE seen # <<>>
    <3> DEFINE Rs == Messages(ResponseKinds)
    <3>1. seen \in Seq(Rs) /\ respChan \in Seq(Rs)
      BY DEF ResponseTypes
    <3> HIDE DEF Rs
    <3>2. Said[1] = seen[1]
      BY <2>4, <3>1 DEF Said
    <3>3. sirenBaseInitFailed
      BY <2>2, <2>4, <3>2 DEF Answers
    <3> QED
      BY <3>3 DEF Startup
  <2> QED
    BY <2>3, <2>4
<1> QED
  BY <1>1, <1>2

\* What the base said first stays what it said first.
LEMMA FirstStays ==
  ASSUME AnswerInv, [Next]_vars, Said # <<>>
  PROVE  Said' # <<>> /\ Said'[1] = Said[1]
<1> USE DEF AnswerInv, Types
<1> DEFINE Rs == Messages(ResponseKinds)
<1>0. seen \in Seq(Rs) /\ respChan \in Seq(Rs)
  BY DEF ResponseTypes
<1>1. ASSUME NEW m \in Rs, Respond(m), seen' = seen PROVE Said' # <<>> /\ Said'[1] = Said[1]
  <2>1. 1 \in DOMAIN Said
    <3>1. Said \in Seq(Rs)
      BY <1>0 DEF Said
    <3> QED BY <3>1
  <2> HIDE DEF Said
  <2> QED
    BY <1>1, <2>1, SaysMore
<1>2. ASSUME NEW kind \in ResponseKinds PROVE Plain(kind, 0) \in Rs
  BY BoundsAreNat DEF Plain, Message, Messages
<1>3. CASE UNCHANGED <<respChan, rsVars>>
  BY <1>3 DEF Said, rsVars
<1>4. CASE InProxy(ResponseThread)
  <2>1. CASE ResponseLoop \/ ResponseNotify \/ ResponseCallback
    BY <2>1 DEF ResponseLoop, ResponseNotify, ResponseCallback, Said, chanVars
  <2>2. CASE ResponseTake
    <3>1. seen' = Append(seen, Head(respChan)) /\ respChan' = Tail(respChan) /\ respChan # <<>>
      BY <2>2 DEF ResponseTake
    <3>2. Said' = Said
      <4> HIDE DEF Rs
      <4> QED BY <1>0, <3>1 DEF Said
    <3> HIDE DEF Said
    <3> QED BY <3>2
  <2> QED
    BY <1>4, <2>1, <2>2 DEF InProxy, ResponseThread
<1>5. CASE InBase(MainPreprocessorReady) \/ InBase(MainTellFailure) \/ InBase(TellProxy)
  <2>1. PICK kind \in {"ON_INIT_OK", "ON_INIT_FAILED", "ON_DESTROY"} : Respond(Plain(kind, 0))
    BY <1>5 DEF InBase, MainPreprocessorReady, MainTellFailure, TellProxy
  <2>2. seen' = seen
    BY <1>5 DEF InBase, proxyVars, rsVars
  <2>3. kind \in ResponseKinds
    BY DEF ResponseKinds, InitAnswers
  <2> HIDE DEF Rs
  <2> QED
    BY <1>1, <1>2, <2>1, <2>2, <2>3
<1>6. CASE InBase(ProcessWrite)
  <2>1. Head(todo) \in Rs
    <3>1. Head(todo) \in Messages({"ON_VOICE_EVENT", "ON_CALLBACK"})
      BY <1>6 DEF InBase, ProcessWrite, ProcessTypes
    <3> QED
      BY <3>1 DEF Messages, ResponseKinds
  <2>2. Respond(Head(todo)) /\ seen' = seen
    BY <1>6 DEF InBase, ProcessWrite, proxyVars, rsVars
  <2> HIDE DEF Rs
  <2> QED
    BY <1>1, <2>1, <2>2
<1> QED
  BY <1>3, <1>4, <1>5, <1>6, ResponseSteps

\* A failed base stays failed.
LEMMA FailedStays ==
  ASSUME AnswerInv, [Next]_vars, Failed
  PROVE  Failed'
<1> USE DEF AnswerInv, Types
<1>1. CASE processInitFailed
  <2>1. ~ProcessInit
    BY <1>1 DEF ProcessInit, BaseStarts
  <2>2. processInitFailed'
    <3>1. CASE UNCHANGED vars \/ UNCHANGED baseVars
      BY <1>1, <3>1 DEF vars, baseVars, baseInitVars
    <3>2. CASE BaseNext
      BY <1>1, <2>1, <3>2
         DEF BaseNext, MainThread, ProcessThread, BaseResponseThread, baseInitVars,
         MainCheck, MainBlock, MainLaunch, MainPreprocessorReady, MainPreprocessorFails,
         MainTellFailure, MainWait, MainExitCheck, MainRead, MainPush, MainJoins, ProcessPop,
         ProcessWrite, BaseTake, TellProxy, ReleaseMain
    <3> QED
      BY <3>1, <3>2 DEF Next
  <2> QED
    BY <2>2 DEF Failed
<1>2. CASE Said # <<>> /\ Said[1].kind = "ON_INIT_FAILED"
  BY <1>2, FirstStays DEF Failed
<1>3. CASE bm = "failed"
  <2>1. CASE MainTellFailure /\ UNCHANGED proxyVars
    <3> DEFINE m == Plain("ON_INIT_FAILED", 0)
    <3>1. m \in Messages(ResponseKinds) /\ m.kind = "ON_INIT_FAILED"
      BY BoundsAreNat DEF Plain, Message, Messages, ResponseKinds, InitAnswers
    <3>2. Respond(m) /\ seen' = seen
      BY <2>1 DEF MainTellFailure, proxyVars, rsVars
    <3>3. Said = <<>>
      BY <1>3 DEF Answers, NotAnswered
    <3> HIDE DEF m, Said
    <3>4. Len(Said) = 0
      BY <3>3
    <3>5. Said' # <<>> /\ Said'[Len(Said) + 1] = m
      BY <3>1, <3>2, SaysMore
    <3>6. Said'[1] = m
      BY <3>4, <3>5
    <3> QED
      BY <3>1, <3>5, <3>6 DEF Failed
  <2>2. CASE ~(MainTellFailure /\ UNCHANGED proxyVars)
    <3>1. bm' = bm
      BY <1>3, <2>2 DEF Next, vars, baseVars, BaseNext, MainThread, ProcessThread,
         BaseResponseThread,
         MainCheck, MainBlock, MainLaunch, MainPreprocessorReady, MainPreprocessorFails,
         MainWait, MainExitCheck, MainRead, MainPush, MainJoins, ProcessInit, ProcessPop,
         ProcessWrite, BaseTake, TellProxy, ReleaseMain
    <3> QED
      BY <1>3, <3>1 DEF Failed
  <2> QED
    BY <2>1, <2>2
<1> QED
  BY <1>1, <1>2, <1>3 DEF Failed

\* What ends the base stays.
LEMMA EndingStays ==
  ASSUME AnswerInv, [Next]_vars, Ending
  PROVE  Ending'
<1>1. CASE Failed
  BY <1>1, FailedStays DEF Ending
<1>2. CASE br \in {"tell", "release", "exited"}
  <2>1. ~MainLaunch /\ ~BaseTake
    BY <1>2 DEF MainLaunch, BaseTake, AnswerInv, BaseStarts
  <2>2. br' \in {"tell", "release", "exited"}
    <3>1. CASE UNCHANGED vars \/ UNCHANGED baseVars
      BY <1>2, <3>1 DEF vars, baseVars
    <3>2. CASE BaseNext
      BY <1>2, <2>1, <3>2 DEF BaseNext, MainThread, ProcessThread, BaseResponseThread,
         MainCheck, MainBlock, MainPreprocessorReady, MainPreprocessorFails,
         MainTellFailure, MainWait, MainExitCheck, MainRead, MainPush, MainJoins, ProcessInit,
         ProcessPop, ProcessWrite, TellProxy, ReleaseMain
    <3> QED
      BY <3>1, <3>2 DEF Next
  <2> QED
    BY <2>2 DEF Ending
<1> QED
  BY <1>1, <1>2 DEF Ending

\* The entries of a sequence that lost its head.
LEMMA TailPoints ==
  ASSUME NEW T, NEW q \in Seq(T), q # <<>>
  PROVE  /\ DOMAIN q = 1..Len(q) /\ Len(q) \in Nat \ {0}
         /\ Head(q) = q[1] /\ Head(q) \in T /\ Tail(q) \in Seq(T)
         /\ DOMAIN Tail(q) = 1..(Len(q) - 1)
         /\ \A i \in 1..(Len(q) - 1) : Tail(q)[i] = q[i + 1]
OBVIOUS

\* No step of the base drops a request that it has taken.
LEMMA NothingDroppedStep ==
  AnswerInv /\ NothingDropped /\ [Next]_vars => NothingDropped'
<1> SUFFICES ASSUME AnswerInv, NothingDropped, [Next]_vars PROVE NothingDropped'
  OBVIOUS
<1> DEFINE Ps == Numbered(Packages)
<1>0. /\ processQueue \in Seq(Ps) /\ handled \in Seq(RequestsForBase) /\ applied \in Seq(Packages)
      /\ reqChan \in Seq(RequestsForBase)
  BY DEF AnswerInv, Types, ProcessTypes, RequestTypes
\* The threads end in order.
<1>1. (bm' \in {"joinProcess", "exited"} => br' = "exited") /\ (bm' = "exited" => bp' = "exited")
  <2>1. CASE UNCHANGED vars \/ UNCHANGED baseVars
    BY <2>1 DEF vars, baseVars, NothingDropped
  <2>2. CASE MainThread
    BY <2>2 DEF NothingDropped, MainThread, MainCheck, MainBlock, MainLaunch,
       MainPreprocessorReady, MainPreprocessorFails, MainTellFailure, MainWait, MainExitCheck,
       MainRead, MainPush, MainJoins
  <2>3. CASE ProcessInit \/ ProcessPop \/ ProcessWrite
    BY <2>3 DEF NothingDropped, ProcessInit, ProcessPop, ProcessWrite
  <2>4. CASE BaseResponseThread
    BY <2>4 DEF NothingDropped, BaseResponseThread, BaseTake, TellProxy, ReleaseMain
  <2> QED
    BY <2>1, <2>2, <2>3, <2>4 DEF Next, BaseNext, ProcessThread
<1>2. ASSUME UNCHANGED <<processQueue, bp>>,
             Within(handled', CarriedOut) = Within(handled, CarriedOut),
             Within(applied', FromApplication) = Within(applied, FromApplication)
      PROVE  NothingDropped'
  BY <1>1, <1>2, EndingStays DEF NothingDropped
\* A package at the end of the queue.
<1>3. ASSUME NEW m \in Ps, processQueue' = Append(processQueue, m), UNCHANGED <<applied, bp>>,
             IF m \in CarriedOut THEN handled' = Append(handled, m) /\ m \in RequestsForBase /\ ~Ending
             ELSE Within(handled', CarriedOut) = Within(handled, CarriedOut),
             m.kind = "DESTROY" => Ending'
      PROVE  NothingDropped'
  <2> DEFINE n == Len(processQueue) + 1
  <2>1. /\ DOMAIN processQueue = 1..(n - 1) /\ n \in Nat \ {0} /\ DOMAIN processQueue' = 1..n
        /\ processQueue'[n] = m /\ \A i \in 1..(n - 1) : processQueue'[i] = processQueue[i]
    BY <1>0, <1>3, AppendPoints
  <2>2. Within(processQueue', CarriedOut)
          = IF m \in CarriedOut THEN Append(Within(processQueue, CarriedOut), m)
            ELSE Within(processQueue, CarriedOut)
    BY <1>0, <1>3, WithinAppend
  <2>3. m \in CarriedOut =>
          Within(handled', CarriedOut) = Append(Within(handled, CarriedOut), m)
    BY <1>0, <1>3, WithinAppend
  <2>4. /\ Within(handled, CarriedOut) \in Seq(AnyMessage)
        /\ Within(applied, FromApplication) \in Seq(AnyMessage)
        /\ Within(processQueue, CarriedOut) \in Seq(AnyMessage)
    <3>1. /\ RequestsForBase \subseteq AnyMessage /\ Packages \subseteq AnyMessage
          /\ Ps \subseteq AnyMessage
      BY DEF RequestsForBase, Numbered, ForBase, Packages, AnyMessage, Messages, RequestKinds
    <3>2. /\ processQueue \in Seq(AnyMessage) /\ handled \in Seq(AnyMessage)
          /\ applied \in Seq(AnyMessage)
      BY <1>0, <3>1, SeqSub
    <3> QED
      BY <3>2, WithinType
  <2>5. Within(handled', CarriedOut)
          = Within(applied', FromApplication) \o Within(processQueue', CarriedOut)
    <3> DEFINE H == Within(handled, CarriedOut)
               A == Within(applied, FromApplication)
               P == Within(processQueue, CarriedOut)
    <3>1. H = A \o P /\ Within(applied', FromApplication) = A
      BY <1>3 DEF NothingDropped
    <3>2. m \in CarriedOut \cup Ps
      OBVIOUS
    <3>3. m \in AnyMessage
      BY DEF Numbered, Packages, AnyMessage, Messages, RequestKinds
    <3>4. A \in Seq(AnyMessage) /\ P \in Seq(AnyMessage)
      BY <2>4
    <3> HIDE DEF H, A, P
    <3>5. A \o Append(P, m) = Append(A \o P, m)
      BY <3>3, <3>4
    <3>6. CASE m \in CarriedOut
      BY <2>2, <2>3, <3>1, <3>5, <3>6 DEF H, P
    <3>7. CASE m \notin CarriedOut
      BY <1>3, <2>2, <3>1, <3>7 DEF H, P
    <3> QED
      BY <3>6, <3>7
  <2>6. m \in CarriedOut => bp # "exited" /\ \A i \in 1..(n - 1) : processQueue[i].kind # "DESTROY"
    BY <1>3, <2>1 DEF NothingDropped
  <2> HIDE DEF n
  <2>7. \A i, j \in DOMAIN processQueue' :
          i < j /\ processQueue'[i].kind = "DESTROY" => processQueue'[j] \notin CarriedOut
    <3> SUFFICES ASSUME NEW i \in 1..n, NEW j \in 1..n, i < j, processQueue'[i].kind = "DESTROY",
                        processQueue'[j] \in CarriedOut
                 PROVE  FALSE
      BY <2>1
    <3>1. i \in 1..(n - 1) /\ processQueue[i].kind = "DESTROY"
      BY <2>1
    <3>2. CASE j = n
      BY <2>1, <2>6, <3>1, <3>2
    <3>3. CASE j # n
      <4>1. j \in 1..(n - 1) /\ processQueue[j] \in CarriedOut
        BY <2>1, <3>3
      <4> QED
        BY <2>1, <3>1, <4>1 DEF NothingDropped
    <3> QED
      BY <3>2, <3>3
  <2>8. bp' = "exited" => \A i \in DOMAIN processQueue' : processQueue'[i] \notin CarriedOut
    <3> SUFFICES ASSUME bp = "exited", NEW i \in 1..n PROVE processQueue'[i] \notin CarriedOut
      BY <1>3, <2>1
    <3>1. CASE i = n
      BY <2>1, <2>6, <3>1
    <3>2. CASE i # n
      BY <2>1, <3>2 DEF NothingDropped
    <3> QED
      BY <3>1, <3>2
  <2>9. bp' = "exited" => Ending'
    BY <1>3, EndingStays DEF NothingDropped
  <2>10. \A i \in DOMAIN processQueue' : processQueue'[i].kind = "DESTROY" => Ending'
    <3> SUFFICES ASSUME NEW i \in 1..n, processQueue'[i].kind = "DESTROY" PROVE Ending'
      BY <2>1
    <3>1. CASE i = n
      BY <1>3, <2>1, <3>1
    <3>2. CASE i # n
      <4>1. i \in DOMAIN processQueue /\ processQueue[i].kind = "DESTROY"
        BY <2>1, <3>2
      <4> QED
        BY <4>1, EndingStays DEF NothingDropped
    <3> QED
      BY <3>1, <3>2
  <2> QED
    BY <1>1, <2>5, <2>7, <2>8, <2>9, <2>10 DEF NothingDropped
<1>4. CASE UNCHANGED <<processQueue, applied, bp, todo>> /\ handled' = handled
  BY <1>2, <1>4
<1>5. CASE InBase(BaseTake)
  <2> DEFINE m == Head(reqChan)
  <2>1. m \in RequestsForBase /\ handled' = Append(handled, m) /\ UNCHANGED <<applied, bp>>
    BY <1>0, <1>5 DEF InBase, BaseTake
  <2>2. ~Ending
    <3>1. reqChan # <<>> /\ br = "poll"
      BY <1>5 DEF InBase, BaseTake
    <3> QED
      BY <3>1, FailedIsSilent DEF Ending, Silent
  <2>3. \/ m.kind \in {"START_PROCESS_STREAM", "STOP_PROCESS_STREAM"} /\ processQueue' = processQueue
        \/ /\ m.kind \in Passed \cup {"SET_STATE", "DESTROY"}
           /\ processQueue' = Append(processQueue, m)
           /\ m.kind = "DESTROY" => br' = "tell"
    BY <1>5 DEF InBase, BaseTake
  <2>4. m \in CarriedOut <=> m.kind \in Passed \cup {"SET_STATE"}
    BY <2>1 DEF CarriedOut, RequestsForBase, Numbered, ForBase, Messages
  <2>5. m.kind \in Passed \cup {"SET_STATE", "DESTROY"} => m \in Ps
    BY <2>1 DEF RequestsForBase, Numbered, ForBase, Messages, Packages
  <2> HIDE DEF m, Ps
  <2>6. m \notin CarriedOut => Within(handled', CarriedOut) = Within(handled, CarriedOut)
    BY <1>0, <2>1, WithinAppend
  <2>7. CASE /\ m.kind \in {"START_PROCESS_STREAM", "STOP_PROCESS_STREAM"}
             /\ processQueue' = processQueue
    BY <1>2, <2>1, <2>4, <2>6, <2>7 DEF Passed
  <2>8. CASE /\ m.kind \in Passed \cup {"SET_STATE", "DESTROY"}
             /\ processQueue' = Append(processQueue, m)
             /\ m.kind = "DESTROY" => br' = "tell"
    BY <1>3, <2>1, <2>2, <2>5, <2>6, <2>8 DEF Ending
  <2> QED
    BY <2>3, <2>7, <2>8
<1>6. Frame \in Ps /\ Plain("DESTROY", 0) \in Ps /\ Frame \notin CarriedOut
        /\ Plain("DESTROY", 0) \notin CarriedOut /\ Frame.kind # "DESTROY"
  BY BoundsAreNat DEF Numbered, Packages, Messages, Frame, Plain, Message, Passed, CarriedOut
<1>7. CASE InBase(MainPush)
  <2> HIDE DEF Ps
  <2> QED
    BY <1>3, <1>6, <1>7 DEF InBase, MainPush
<1>8. CASE InBase(MainPreprocessorFails)
  <2>1. Ending'
    BY <1>8 DEF InBase, MainPreprocessorFails, Ending, Failed
  <2> HIDE DEF Ps
  <2> QED
    BY <1>3, <1>6, <1>8, <2>1 DEF InBase, MainPreprocessorFails
<1>9. CASE InBase(ProcessInit)
  <2>1. \A i \in DOMAIN processQueue : processQueue[i] \notin CarriedOut
    <3>1. NotAnswered
      BY <1>9 DEF InBase, ProcessInit, AnswerInv, BaseStarts, NotAnswered
    <3>2. \A i \in DOMAIN processQueue : processQueue[i].kind = "DESTROY"
      BY <3>1 DEF AnswerInv, BaseStarts
    <3> QED
      BY <3>2 DEF CarriedOut, Messages, Passed
  <2>2. bp' = "exited" => Ending'
    <3>1. bp' = "exited" => processInitFailed'
      BY <1>9 DEF InBase, ProcessInit
    <3> QED
      BY <3>1 DEF Ending, Failed
  <2>3. UNCHANGED <<processQueue, handled, applied>>
    BY <1>9 DEF InBase, ProcessInit
  <2> QED
    BY <1>1, <2>1, <2>2, <2>3, EndingStays DEF NothingDropped
<1>10. CASE InBase(ProcessPop)
  <2> DEFINE m == Head(processQueue)
             n == Len(processQueue)
  <2>1. processQueue # <<>> /\ processQueue' = Tail(processQueue) /\ handled' = handled
        /\ bp = "pop"
    BY <1>10 DEF InBase, ProcessPop
  <2>2. /\ DOMAIN processQueue = 1..n /\ n \in Nat \ {0} /\ m = processQueue[1] /\ m \in Ps
        /\ DOMAIN processQueue' = 1..(n - 1)
        /\ \A i \in 1..(n - 1) : processQueue'[i] = processQueue[i + 1]
    <3> HIDE DEF Ps
    <3> QED
      BY <1>0, <2>1, TailPoints
  <2>3. \/ applied' = applied /\ m \notin CarriedOut /\ m.kind # "DESTROY" /\ bp' # "exited"
        \/ applied' = Append(applied, m) /\ m \in FromApplication /\ bp' # "exited"
        \/ applied' = applied /\ m.kind = "DESTROY" /\ bp' = "exited"
    <3>1. m.kind \in Passed \cup {"SET_STATE"} => m \in FromApplication
      BY <2>2 DEF Numbered, Packages, Messages, FromApplication, CarriedOut
    <3>2. m = Frame => m \notin CarriedOut /\ m.kind # "DESTROY"
      BY <1>6
    <3> HIDE DEF Ps
    <3>4. \/ m = Frame /\ applied' = applied /\ bp' # "exited"
          \/ m.kind \in Passed \cup {"SET_STATE"} /\ applied' = Append(applied, m) /\ bp' # "exited"
          \/ m.kind = "DESTROY" /\ applied' = applied /\ bp' = "exited"
      BY <1>10, <2>1 DEF InBase, ProcessPop
    <3> HIDE DEF m
    <3> QED
      BY <3>1, <3>2, <3>4
  <2>4. m.kind = "DESTROY" => m \notin CarriedOut
    BY DEF CarriedOut, Messages, Passed
  <2>5. /\ m \in CarriedOut =>
             Within(processQueue, CarriedOut) = <<m>> \o Within(processQueue', CarriedOut)
        /\ m \notin CarriedOut =>
             Within(processQueue, CarriedOut) = Within(processQueue', CarriedOut)
    BY <1>0, <2>1, WithinTail
  <2>6. m \in FromApplication =>
          Within(Append(applied, m), FromApplication) = Append(Within(applied, FromApplication), m)
    <3>1. m \in Packages
      BY <2>2 DEF Numbered
    <3> QED
      BY <1>0, <3>1, WithinAppend
  <2>7. /\ Within(applied, FromApplication) \in Seq(AnyMessage)
        /\ Within(processQueue', CarriedOut) \in Seq(AnyMessage) /\ m \in AnyMessage
    <3>1. Packages \subseteq AnyMessage /\ Ps \subseteq AnyMessage
      BY DEF Numbered, Packages, AnyMessage, Messages, RequestKinds
    <3> HIDE DEF Ps
    <3>2. processQueue' \in Seq(Ps)
      BY <1>0, <2>1, TailPoints
    <3>3. processQueue' \in Seq(AnyMessage) /\ applied \in Seq(AnyMessage)
      BY <1>0, <3>1, <3>2, SeqSub
    <3> QED
      BY <2>2, <3>1, <3>3, WithinType
  <2> HIDE DEF m, n
  <2>8. Within(handled', CarriedOut)
          = Within(applied', FromApplication) \o Within(processQueue', CarriedOut)
    <3> DEFINE A == Within(applied, FromApplication)
               P == Within(processQueue', CarriedOut)
    <3>1. A \in Seq(AnyMessage) /\ P \in Seq(AnyMessage) /\ m \in AnyMessage
      BY <2>7
    <3>2. Within(handled', CarriedOut) = A \o Within(processQueue, CarriedOut)
      BY <2>1 DEF NothingDropped
    <3> HIDE DEF A, P
    <3>3. A \o (<<m>> \o P) = Append(A, m) \o P
      BY <3>1
    <3>4. CASE applied' = Append(applied, m) /\ m \in FromApplication
      BY <2>5, <2>6, <3>2, <3>3, <3>4 DEF FromApplication, A, P
    <3>5. CASE applied' = applied /\ m \notin CarriedOut
      BY <2>5, <3>2, <3>5 DEF A, P
    <3> QED
      BY <2>3, <2>4, <3>4, <3>5
  <2>9. \A i, j \in DOMAIN processQueue' :
          i < j /\ processQueue'[i].kind = "DESTROY" => processQueue'[j] \notin CarriedOut
    <3> SUFFICES ASSUME NEW i \in 1..(n - 1), NEW j \in 1..(n - 1), i < j,
                        processQueue'[i].kind = "DESTROY"
                 PROVE  processQueue'[j] \notin CarriedOut
      BY <2>2
    <3>1. i + 1 \in 1..n /\ j + 1 \in 1..n /\ i + 1 < j + 1
      BY <2>2
    <3> QED
      BY <2>2, <3>1 DEF NothingDropped
  <2>10. bp' = "exited" => \A i \in DOMAIN processQueue' : processQueue'[i] \notin CarriedOut
    <3> SUFFICES ASSUME m.kind = "DESTROY", NEW i \in 1..(n - 1)
                 PROVE  processQueue'[i] \notin CarriedOut
      BY <2>2, <2>3
    <3>1. 1 \in 1..n /\ i + 1 \in 1..n /\ 1 < i + 1
      BY <2>2
    <3> QED
      BY <2>2, <3>1 DEF NothingDropped
  <2>11. bp' = "exited" => Ending'
    <3> SUFFICES ASSUME m.kind = "DESTROY" PROVE Ending'
      BY <2>3
    <3>1. 1 \in 1..n
      BY <2>2
    <3> QED
      BY <2>2, <3>1, EndingStays DEF NothingDropped
  <2>12. \A i \in DOMAIN processQueue' : processQueue'[i].kind = "DESTROY" => Ending'
    <3> SUFFICES ASSUME NEW i \in 1..(n - 1), processQueue'[i].kind = "DESTROY" PROVE Ending'
      BY <2>2
    <3>1. i + 1 \in 1..n
      BY <2>2
    <3> QED
      BY <2>2, <3>1, EndingStays DEF NothingDropped
  <2> QED
    BY <1>1, <2>8, <2>9, <2>10, <2>11, <2>12 DEF NothingDropped
<1>11. CASE InBase(ProcessWrite)
  <2> DEFINE z == Message("SET_STATE", 0, "sleep")
  <2>1. z \in Packages /\ z \notin FromApplication
    BY BoundsAreNat, SleepIsAState DEF Message, Messages, Packages, FromApplication
  <2>2. applied' = applied \/ applied' = Append(applied, z)
    BY <1>11 DEF InBase, ProcessWrite
  <2>3. UNCHANGED <<processQueue, handled>>
    BY <1>11 DEF InBase, ProcessWrite
  <2>4. bp = "write" /\ bp' # "exited"
    BY <1>11 DEF InBase, ProcessWrite
  <2> HIDE DEF z
  <2>5. Within(applied', FromApplication) = Within(applied, FromApplication)
    <3>1. Within(Append(applied, z), FromApplication) = Within(applied, FromApplication)
      BY <1>0, <2>1, WithinAppend
    <3> QED
      BY <2>2, <3>1
  <2> QED
    BY <1>1, <2>3, <2>4, <2>5, EndingStays DEF NothingDropped
<1>12. handled' = handled \/ InBase(BaseTake)
  <2>1. CASE UNCHANGED vars \/ UNCHANGED baseVars
    BY <2>1 DEF vars, baseVars
  <2>2. CASE BaseNext /\ UNCHANGED proxyVars
    BY <2>2 DEF BaseNext, MainThread, ProcessThread, BaseResponseThread, InBase,
       MainCheck, MainBlock, MainLaunch, MainPreprocessorReady, MainPreprocessorFails,
       MainTellFailure, MainWait, MainExitCheck, MainRead, MainPush, MainJoins, ProcessInit,
       ProcessPop, ProcessWrite, TellProxy, ReleaseMain
  <2> QED
    BY <2>1, <2>2 DEF Next
<1>13. InBase(ProcessThread) => InBase(ProcessInit) \/ InBase(ProcessPop) \/ InBase(ProcessWrite)
  BY DEF InBase, ProcessThread
<1> QED
  BY <1>4, <1>5, <1>7, <1>8, <1>9, <1>10, <1>11, <1>12, <1>13, ProcessSteps

\* The base starts with nothing taken.
LEMMA InitNothingDropped == Init => NothingDropped
<1> SUFFICES ASSUME Init PROVE NothingDropped
  OBVIOUS
<1>1. processQueue = <<>> /\ handled = <<>> /\ applied = <<>> /\ bp = "init" /\ bm = "check"
  BY DEF Init, BaseInit
<1>2. Within(<<>>, CarriedOut) = <<>> /\ Within(<<>>, FromApplication) = <<>>
  BY WithinEmpty
<1>3. DOMAIN processQueue = {}
  BY <1>1
<1>4. <<>> = <<>> \o <<>>
  OBVIOUS
<1> QED
  BY <1>1, <1>2, <1>3, <1>4 DEF NothingDropped

\* A base that has exited has carried out every request it had taken: the DESTROY is the
\* last thing in its queue, and the process thread ends only when it gets there.
THEOREM ExitLosesNothing == Spec => []ExitLosesNoRequest
<1>1. AnswerInv /\ NothingDropped => ExitLosesNoRequest
  <2> SUFFICES ASSUME AnswerInv, NothingDropped, bm = "exited" PROVE ExitLosesNoRequest
    BY DEF ExitLosesNoRequest
  <2> DEFINE P == Within(processQueue, CarriedOut)
             A == Within(applied, FromApplication)
  <2>1. processQueue \in Seq(Numbered(Packages)) /\ applied \in Seq(Packages)
    BY DEF AnswerInv, Types, ProcessTypes
  <2>2. ToSet(P) = ToSet(processQueue) \cap CarriedOut
    BY <2>1, WithinElements
  <2>3. ToSet(processQueue) \cap CarriedOut = {}
    BY DEF NothingDropped, ToSet
  <2>4. P \in Seq(Numbered(Packages)) /\ A \in Seq(Packages)
    BY <2>1, WithinType
  <2>5. Within(handled, CarriedOut) = A \o P
    BY DEF NothingDropped
  <2> HIDE DEF P, A
  <2>6. P = <<>>
    <3>1. P # <<>> => 1 \in DOMAIN P
      BY <2>4
    <3>2. P # <<>> => P[1] \in ToSet(P)
      BY <3>1 DEF ToSet
    <3> QED
      BY <2>2, <2>3, <3>2
  <2>7. A \o P = A
    BY <2>4, <2>6
  <2> QED
    BY <2>5, <2>7 DEF ExitLosesNoRequest, FromApplication, A
<1>2. AnswerInv /\ NothingDropped /\ [Next]_vars => (AnswerInv /\ NothingDropped)'
  BY AnswerInvStep, NothingDroppedStep
<1> QED
  BY <1>1, <1>2, InitAnswerInv, InitNothingDropped, PTL DEF Spec

Changes == Messages({"SET_STATE", "ON_CALLBACK"})
ChangeSet == (0..(MaxCalls + 1)) \X (States \cup {"none"})

\* The sequence of the changes that a sequence of messages asks for or acknowledges.
Noted(t) == [i \in DOMAIN t |-> StateChange(t[i])]

\* StateChanges picks the changes, then notes each.
LEMMA ChangesNoted == ASSUME NEW s PROVE StateChanges(s) = Noted(Within(s, Changes))
BY DEF StateChanges, Noted, Changes

\* Noting keeps the number and the order.
LEMMA NotedFacts ==
  ASSUME NEW t \in Seq(AnyMessage)
  PROVE  /\ Noted(t) \in Seq(ChangeSet) /\ Len(Noted(t)) = Len(t)
         /\ \A i \in 1..Len(t) : Noted(t)[i] = StateChange(t[i])
         /\ ToSet(Noted(t)) = {StateChange(m) : m \in ToSet(t)}
<1>1. DOMAIN t = 1..Len(t) /\ Len(t) \in Nat /\ \A i \in 1..Len(t) : t[i] \in AnyMessage
  OBVIOUS
<1>2. \A m \in AnyMessage : StateChange(m) \in ChangeSet
  BY DEF AnyMessage, Messages, StateChange, ChangeSet
<1> HIDE DEF ChangeSet, AnyMessage
<1>3. Noted(t) = [i \in 1..Len(t) |-> StateChange(t[i])]
  BY <1>1 DEF Noted
<1>4. Noted(t) \in Seq(ChangeSet) /\ Len(Noted(t)) = Len(t) /\ DOMAIN Noted(t) = 1..Len(t)
  BY <1>1, <1>2, <1>3
<1>5. \A i \in 1..Len(t) : Noted(t)[i] = StateChange(t[i])
  BY <1>3
<1>6. ToSet(Noted(t)) = {StateChange(m) : m \in ToSet(t)}
  BY <1>1, <1>4, <1>5 DEF ToSet
<1> QED
  BY <1>4, <1>5, <1>6

\* Noting a concatenation.
LEMMA NotedConcat ==
  ASSUME NEW s \in Seq(AnyMessage), NEW t \in Seq(AnyMessage)
  PROVE  Noted(s \o t) = Noted(s) \o Noted(t)
<1> DEFINE u == s \o t
           v == Noted(s) \o Noted(t)
<1>1. /\ u \in Seq(AnyMessage) /\ Len(u) = Len(s) + Len(t) /\ Len(s) \in Nat /\ Len(t) \in Nat
      /\ \A i \in 1..Len(s) : u[i] = s[i]
      /\ \A i \in 1..Len(t) : u[Len(s) + i] = t[i]
  OBVIOUS
<1>2. /\ Noted(s) \in Seq(ChangeSet) /\ Len(Noted(s)) = Len(s)
      /\ \A i \in 1..Len(s) : Noted(s)[i] = StateChange(s[i])
      /\ Noted(t) \in Seq(ChangeSet) /\ Len(Noted(t)) = Len(t)
      /\ \A i \in 1..Len(t) : Noted(t)[i] = StateChange(t[i])
  BY NotedFacts
<1>3. /\ v \in Seq(ChangeSet) /\ Len(v) = Len(s) + Len(t)
      /\ \A i \in 1..Len(s) : v[i] = Noted(s)[i]
      /\ \A i \in 1..Len(t) : v[Len(s) + i] = Noted(t)[i]
  <2> DEFINE a == Noted(s)
             b == Noted(t)
  <2>1. a \in Seq(ChangeSet) /\ Len(a) = Len(s) /\ b \in Seq(ChangeSet) /\ Len(b) = Len(t)
    BY <1>2
  <2> HIDE DEF a, b, ChangeSet
  <2>2. /\ a \o b \in Seq(ChangeSet) /\ Len(a \o b) = Len(a) + Len(b)
        /\ \A i \in 1..Len(a) : (a \o b)[i] = a[i]
        /\ \A i \in 1..Len(b) : (a \o b)[Len(a) + i] = b[i]
    <3>1. Len(a) \in Nat /\ Len(b) \in Nat
      BY <2>1
    <3>2. \A i \in 1..(Len(a) + Len(b)) :
            (a \o b)[i] = IF i <= Len(a) THEN a[i] ELSE b[i - Len(a)]
      BY <2>1, ConcatProperties
    <3>3. ASSUME NEW i \in 1..Len(b) PROVE (a \o b)[Len(a) + i] = b[i]
      <4>1. Len(a) + i \in 1..(Len(a) + Len(b)) /\ ~(Len(a) + i <= Len(a)) /\ (Len(a) + i) - Len(a) = i
        BY <3>1
      <4> QED BY <3>2, <4>1
    <3>4. \A i \in 1..Len(a) : (a \o b)[i] = a[i]
      BY <3>1, <3>2
    <3> QED
      BY <2>1, <3>3, <3>4, ConcatProperties
  <2> QED
    BY <2>1, <2>2 DEF a, b
<1>4. /\ Noted(u) \in Seq(ChangeSet) /\ Len(Noted(u)) = Len(u)
      /\ \A i \in 1..Len(u) : Noted(u)[i] = StateChange(u[i])
  <2>1. u \in Seq(AnyMessage)
    BY <1>1
  <2> HIDE DEF u
  <2> QED
    BY <2>1, NotedFacts
<1> HIDE DEF u, v, ChangeSet
<1>5. ASSUME NEW i \in 1..(Len(s) + Len(t)) PROVE Noted(u)[i] = v[i]
  <2>1. CASE i <= Len(s)
    <3>1. i \in 1..Len(s) /\ i \in 1..Len(u)
      BY <1>1, <2>1
    <3> QED
      BY <1>1, <1>2, <1>3, <1>4, <3>1
  <2>2. CASE i > Len(s)
    <3> DEFINE k == i - Len(s)
    <3>1. k \in 1..Len(t) /\ Len(s) + k = i /\ i \in 1..Len(u)
      BY <1>1, <2>2
    <3> HIDE DEF k
    <3>2. Noted(u)[i] = StateChange(u[Len(s) + k])
      BY <1>4, <3>1
    <3>3. v[Len(s) + k] = Noted(t)[k] /\ Noted(t)[k] = StateChange(t[k])
      BY <1>2, <1>3, <3>1
    <3>4. u[Len(s) + k] = t[k]
      BY <1>1, <3>1
    <3> QED
      BY <3>1, <3>2, <3>3, <3>4
  <2> QED
    BY <1>1, <2>1, <2>2
<1>6. Len(Noted(u)) = Len(v)
  BY <1>1, <1>3, <1>4
<1>7. Noted(u) = v
  BY <1>1, <1>3, <1>4, <1>5, <1>6, SeqEqual
<1> QED
  BY <1>7 DEF u, v

\* How StateChanges meets the operations on sequences.
LEMMA ChangesType ==
  ASSUME NEW s \in Seq(AnyMessage)
  PROVE  StateChanges(s) \in Seq(ChangeSet)
<1>1. Within(s, Changes) \in Seq(AnyMessage)
  BY WithinType
<1> QED
  BY <1>1, ChangesNoted, NotedFacts

\* The changes of a concatenation.
LEMMA ChangesConcat ==
  ASSUME NEW s \in Seq(AnyMessage), NEW t \in Seq(AnyMessage)
  PROVE  StateChanges(s \o t) = StateChanges(s) \o StateChanges(t)
<1>1. Within(s \o t, Changes) = Within(s, Changes) \o Within(t, Changes)
  BY WithinConcat
<1>2. Within(s, Changes) \in Seq(AnyMessage) /\ Within(t, Changes) \in Seq(AnyMessage)
  BY WithinType
<1>3. Noted(Within(s, Changes) \o Within(t, Changes))
        = Noted(Within(s, Changes)) \o Noted(Within(t, Changes))
  BY <1>2, NotedConcat
<1> QED
  BY <1>1, <1>3, ChangesNoted

\* No message, no change.
LEMMA ChangesEmpty == StateChanges(<<>>) = <<>>
<1>1. Within(<<>>, Changes) = <<>>
  BY WithinEmpty
<1>2. Noted(<<>>) = <<>>
  BY DEF Noted
<1> QED
  BY <1>1, <1>2, ChangesNoted

\* One message, one change or none.
LEMMA ChangesOne ==
  ASSUME NEW m \in AnyMessage
  PROVE  StateChanges(<<m>>) = IF m \in Changes THEN <<StateChange(m)>> ELSE <<>>
<1>1. <<>> \in Seq(AnyMessage) /\ Append(<<>>, m) = <<m>>
  OBVIOUS
<1>2. Within(Append(<<>>, m), Changes)
        = IF m \in Changes THEN Append(Within(<<>>, Changes), m) ELSE Within(<<>>, Changes)
  BY <1>1, WithinAppend
<1>3. Within(<<m>>, Changes) = IF m \in Changes THEN <<m>> ELSE <<>>
  BY <1>1, <1>2, WithinEmpty
<1>4. Noted(<<>>) = <<>> /\ Noted(<<m>>) = <<StateChange(m)>>
  <2>1. <<m>> \in Seq(AnyMessage) /\ Len(<<m>>) = 1 /\ <<m>>[1] = m /\ 1 \in 1..1
    OBVIOUS
  <2>2. Noted(<<m>>) \in Seq(ChangeSet) /\ Len(Noted(<<m>>)) = 1 /\ Noted(<<m>>)[1] = StateChange(m)
    BY <2>1, NotedFacts
  <2> QED
    BY <2>2 DEF Noted
<1> QED
  BY <1>3, <1>4, ChangesNoted

\* A message that is no state change adds none.
LEMMA ChangesAppend ==
  ASSUME NEW s \in Seq(AnyMessage), NEW m \in AnyMessage
  PROVE  /\ StateChanges(Append(s, m)) = StateChanges(s) \o StateChanges(<<m>>)
         /\ m \notin Changes => StateChanges(Append(s, m)) = StateChanges(s)
<1>1. <<m>> \in Seq(AnyMessage) /\ Append(s, m) = s \o <<m>>
  <2> HIDE DEF AnyMessage
  <2> QED OBVIOUS
<1>2. StateChanges(Append(s, m)) = StateChanges(s) \o StateChanges(<<m>>)
  BY <1>1, ChangesConcat
<1>3. m \notin Changes => StateChanges(<<m>>) = <<>>
  BY ChangesOne
<1>4. StateChanges(s) \in Seq(ChangeSet)
  BY ChangesType
<1> HIDE DEF ChangeSet
<1>5. StateChanges(s) \o <<>> = StateChanges(s)
  BY <1>4
<1> QED
  BY <1>2, <1>3, <1>5

\* The head's changes come first.
LEMMA ChangesTail ==
  ASSUME NEW s \in Seq(AnyMessage), s # <<>>
  PROVE  StateChanges(s) = StateChanges(<<Head(s)>>) \o StateChanges(Tail(s))
<1>1. Head(s) \in AnyMessage /\ Tail(s) \in Seq(AnyMessage) /\ s = <<Head(s)>> \o Tail(s)
        /\ <<Head(s)>> \in Seq(AnyMessage)
  <2> HIDE DEF AnyMessage
  <2> QED OBVIOUS
<1> QED
  BY <1>1, ChangesConcat

\* The head of one sequence becomes the end of the one before it.
LEMMA ChangesMove ==
  ASSUME NEW s \in Seq(AnyMessage), NEW t \in Seq(AnyMessage), t # <<>>
  PROVE  StateChanges(Append(s, Head(t))) \o StateChanges(Tail(t))
           = StateChanges(s) \o StateChanges(t)
<1> DEFINE a == StateChanges(s)
           b == StateChanges(<<Head(t)>>)
           c == StateChanges(Tail(t))
<1>1. Head(t) \in AnyMessage /\ Tail(t) \in Seq(AnyMessage) /\ <<Head(t)>> \in Seq(AnyMessage)
  <2> HIDE DEF AnyMessage
  <2> QED OBVIOUS
<1>2. a \in Seq(ChangeSet) /\ b \in Seq(ChangeSet) /\ c \in Seq(ChangeSet)
  BY <1>1, ChangesType
<1>3. StateChanges(Append(s, Head(t))) = a \o b /\ StateChanges(t) = b \o c
  BY <1>1, ChangesAppend, ChangesTail
<1> HIDE DEF a, b, c, ChangeSet
<1>4. Joined(a, b, c)
  BY <1>2, Joining
<1> QED
  BY <1>3, <1>4 DEF a, b, c, Joined

\* Two neighbours that hold the same together may be exchanged behind anything.
Alike(t, a, b, c, d) == \A x \in Seq(t) : (x \o a) \o b = (x \o c) \o d

\* Concatenation is associative, in the form that the steps use.
LEMMA Neighbours ==
  ASSUME NEW T, NEW a \in Seq(T), NEW b \in Seq(T), NEW c \in Seq(T), NEW d \in Seq(T)
  PROVE  a \o b = c \o d => Alike(T, a, b, c, d)
<1> SUFFICES ASSUME NEW x \in Seq(T) PROVE a \o b = c \o d => (x \o a) \o b = (x \o c) \o d
  BY DEF Alike
<1>1. Joined(x, a, b) /\ Joined(x, c, d)
  BY Joining
<1> QED
  BY <1>1 DEF Joined

\* The head of one sequence becomes the end of the one before it.
LEMMA HeadMoves ==
  ASSUME NEW T, NEW s \in Seq(T), NEW t \in Seq(T), t # <<>>
  PROVE  Append(s, Head(t)) \o Tail(t) = s \o t
<1>1. Head(t) \in T /\ Tail(t) \in Seq(T) /\ <<Head(t)>> \in Seq(T) /\ t = <<Head(t)>> \o Tail(t)
  OBVIOUS
<1>2. Append(s, Head(t)) = s \o <<Head(t)>>
  BY <1>1
<1> DEFINE h == <<Head(t)>>
           u == Tail(t)
<1> HIDE DEF h, u
<1>3. (s \o h) \o u = s \o (h \o u)
  BY <1>1 DEF h, u
<1> QED
  BY <1>1, <1>2, <1>3 DEF h, u

Balanced(sent, dropped, present) ==
  Len(sent) = Len(dropped \o present) /\ ToSet(sent) = ToSet(dropped \o present)

\* What a balance of sequences says, leg by leg.
LEMMA BalancedFacts ==
  ASSUME NEW T, NEW s \in Seq(T), NEW d \in Seq(T), NEW p \in Seq(T)
  PROVE  Balanced(s, d, p) <=>
           Len(s) = Len(d) + Len(p) /\ ToSet(s) = ToSet(d) \cup ToSet(p)
<1>1. Len(d \o p) = Len(d) + Len(p)
  OBVIOUS
<1>2. ToSet(d \o p) = ToSet(d) \cup ToSet(p)
  BY ToSetConcat
<1> QED
  BY <1>1, <1>2 DEF Balanced

\* A message that found room keeps the balance.
LEMMA BalancedRoom ==
  ASSUME NEW T, NEW s \in Seq(T), NEW d \in Seq(T), NEW p \in Seq(T), NEW c \in Seq(T),
         Balanced(s, d, p)
  PROVE  Balanced(s \o c, d, p \o c)
<1>1. s \o c \in Seq(T) /\ p \o c \in Seq(T)
  OBVIOUS
<1>2. Len(s \o c) = Len(s) + Len(c) /\ Len(p \o c) = Len(p) + Len(c)
        /\ Len(d) \in Nat /\ Len(p) \in Nat /\ Len(c) \in Nat
  OBVIOUS
<1>3. ToSet(s \o c) = ToSet(s) \cup ToSet(c) /\ ToSet(p \o c) = ToSet(p) \cup ToSet(c)
  BY ToSetConcat
<1>4. Len(s) = Len(d) + Len(p) /\ ToSet(s) = ToSet(d) \cup ToSet(p)
  BY BalancedFacts
<1>5. Len(s \o c) = Len(d) + Len(p \o c)
  BY <1>2, <1>4
<1>6. ToSet(s \o c) = ToSet(d) \cup ToSet(p \o c)
  BY <1>3, <1>4
<1> QED
  BY <1>1, <1>5, <1>6, BalancedFacts

\* A message that found none is booked as lost and keeps the balance.
LEMMA BalancedFull ==
  ASSUME NEW T, NEW s \in Seq(T), NEW d \in Seq(T), NEW p \in Seq(T), NEW c \in Seq(T),
         NEW q \in Seq(T), Len(q) = Len(p), ToSet(q) = ToSet(p), Balanced(s, d, p)
  PROVE  Balanced(s \o c, d \o c, q)
<1>1. s \o c \in Seq(T) /\ d \o c \in Seq(T)
  OBVIOUS
<1>2. Len(s \o c) = Len(s) + Len(c) /\ Len(d \o c) = Len(d) + Len(c)
        /\ Len(d) \in Nat /\ Len(p) \in Nat /\ Len(c) \in Nat
  OBVIOUS
<1>3. ToSet(s \o c) = ToSet(s) \cup ToSet(c) /\ ToSet(d \o c) = ToSet(d) \cup ToSet(c)
  BY ToSetConcat
<1>4. Len(s) = Len(d) + Len(p) /\ ToSet(s) = ToSet(d) \cup ToSet(p)
  BY BalancedFacts
<1>5. Len(s \o c) = Len(d \o c) + Len(q)
  BY <1>2, <1>4
<1>6. ToSet(s \o c) = ToSet(d \o c) \cup ToSet(q)
  BY <1>3, <1>4
<1> QED
  BY <1>1, <1>5, <1>6, BalancedFacts

\* Everything the application's messages pass through is a sequence of messages.
MessagesEverywhere ==
  /\ issued \in Seq(AnyMessage) /\ lost \in Seq(AnyMessage)
  /\ requestQueue \in Seq(AnyMessage) /\ rqMsg \in Seq(AnyMessage)
  /\ RequestInHand \in Seq(AnyMessage)
  /\ reqChan \in Seq(AnyMessage) /\ handled \in Seq(AnyMessage)
  /\ processQueue \in Seq(AnyMessage) /\ todo \in Seq(AnyMessage)
  /\ respChan \in Seq(AnyMessage) /\ seen \in Seq(AnyMessage)

\* The types give every place of messages its sort.
LEMMA MessageSequences == Types => MessagesEverywhere
<1> SUFFICES ASSUME Types PROVE MessagesEverywhere
  OBVIOUS
<1>1. /\ RequestsForBase \subseteq AnyMessage /\ Requests \cup {NoRequest} \subseteq AnyMessage
      /\ Numbered(Packages) \subseteq AnyMessage /\ Messages(ResponseKinds) \subseteq AnyMessage
      /\ Messages({"ON_VOICE_EVENT", "ON_CALLBACK"}) \subseteq AnyMessage
  BY BoundsAreNat
     DEF RequestsForBase, Requests, ForBase, Numbered, Packages, AnyMessage, Messages,
         RequestKinds,
         ResponseKinds, NoRequest, Plain, Message
<1>2. /\ Seq(RequestsForBase) \subseteq Seq(AnyMessage)
      /\ Seq(Requests \cup {NoRequest}) \subseteq Seq(AnyMessage)
      /\ Seq(Numbered(Packages)) \subseteq Seq(AnyMessage)
      /\ Seq(Messages(ResponseKinds)) \subseteq Seq(AnyMessage)
      /\ Seq(Messages({"ON_VOICE_EVENT", "ON_CALLBACK"})) \subseteq Seq(AnyMessage)
  BY <1>1, SeqSub
<1>3. /\ issued \in Seq(AnyMessage) /\ lost \in Seq(AnyMessage)
      /\ requestQueue \in Seq(AnyMessage) /\ rqMsg \in Seq(AnyMessage)
      /\ reqChan \in Seq(AnyMessage) /\ handled \in Seq(AnyMessage)
  BY <1>2 DEF Types, RequestTypes
<1>4. /\ processQueue \in Seq(AnyMessage) /\ todo \in Seq(AnyMessage)
      /\ respChan \in Seq(AnyMessage) /\ seen \in Seq(AnyMessage)
  BY <1>2 DEF Types, ProcessTypes, ResponseTypes
<1>5. RequestInHand \in Seq(AnyMessage)
  BY <1>3 DEF RequestInHand
<1> QED
  BY <1>3, <1>4, <1>5 DEF MessagesEverywhere

\* The same after a step.
LEMMA MessageSequencesAfter == Types' => MessagesEverywhere'
BY MessageSequences, PTL

\* A push of a request, by what it does to the messages of a set S that are queued.
LEMMA PushKept ==
  ASSUME RequestTypes, NEW m \in RequestsForBase, PushRequest(m), NEW S, NoRequest \notin S
  PROVE  \/ /\ requestQueue' = Append(requestQueue, m) /\ lost' = lost
         \/ /\ lost' = Append(lost, m) /\ lost' # <<>>
            /\ Len(Within(requestQueue', S)) = Len(Within(requestQueue, S))
            /\ ToSet(Within(requestQueue', S)) = ToSet(Within(requestQueue, S))
<1> DEFINE T == Requests \cup {NoRequest}
<1>1. requestQueue \in Seq(T) /\ NoRequest \in T /\ lost \in Seq(RequestsForBase)
  BY DEF RequestTypes
<1>2. Len(requestQueue) \in Nat /\ RequestSlots \in Nat \ {0}
  BY <1>1, RequestSlotsPositive
<1>3. CASE Len(requestQueue) < RequestSlots
  BY <1>3 DEF PushRequest, PushTo
<1>4. CASE Len(requestQueue) >= RequestSlots
  <2> DEFINE p == PushTo(requestQueue, m, RequestSlots, NoRequest)
  <2>1. lost' = Append(lost, m) /\ requestQueue' = p
    BY <1>2, <1>4 DEF PushRequest
  <2>2. lost' # <<>>
    BY <1>1, <2>1
  <2> HIDE DEF T
  <2>3. /\ Len(Within(p, S)) = Len(Within(requestQueue, S))
        /\ ToSet(Within(p, S)) = ToSet(Within(requestQueue, S))
    BY <1>1, <1>2, <1>4, FullPushKeeps
  <2> QED
    BY <2>1, <2>2, <2>3
<1> QED
  BY <1>2, <1>3, <1>4

\* A message in hand is the only one.
LEMMA OnlyOne ==
  ASSUME NEW T, NEW s \in Seq(T), s # <<>>, Len(s) <= 1
  PROVE  s = <<Head(s)>> /\ Head(s) \in T /\ Tail(s) = <<>>
<1>1. Len(s) = 1 /\ Head(s) = s[1] /\ Head(s) \in T /\ Len(Tail(s)) = 0 /\ Tail(s) \in Seq(T)
  OBVIOUS
<1>2. <<Head(s)>> \in Seq(T) /\ Len(<<Head(s)>>) = 1 /\ <<Head(s)>>[1] = Head(s)
  BY <1>1
<1>3. s = <<Head(s)>>
  BY <1>1, <1>2, SeqEqual
<1>4. Tail(s) = <<>>
  BY <1>1, EmptySeq
<1> QED
  BY <1>1, <1>3, <1>4

Queued == Within(requestQueue, ForBase)

\* The requests for the base, wherever they are, are in the same order after a step.
LEMMA OnTheWayStep ==
  ASSUME AnswerInv, Types', [Next]_vars
  PROVE  \/ OnTheWay' = OnTheWay /\ UNCHANGED <<issued, lost>>
         \/ \E m \in RequestsForBase : Issues(m)
<1> USE DEF AnswerInv
<1> DEFINE T == AnyMessage
           R == RequestInHand
<1>0. /\ handled \in Seq(T) /\ reqChan \in Seq(T) /\ R \in Seq(T) /\ Queued \in Seq(T)
      /\ handled' \in Seq(T) /\ reqChan' \in Seq(T) /\ R' \in Seq(T) /\ Queued' \in Seq(T)
      /\ requestQueue \in Seq(T) /\ requestQueue' \in Seq(T) /\ rqMsg \in Seq(T)
  <2>1. MessagesEverywhere /\ MessagesEverywhere'
    BY MessageSequences, MessageSequencesAfter
  <2>2. Queued \in Seq(T) /\ Queued' \in Seq(T)
    BY <2>1, WithinType DEF Queued, MessagesEverywhere
  <2> QED
    BY <2>1, <2>2 DEF MessagesEverywhere
<1>1. OnTheWay = handled \o reqChan \o R \o Queued
        /\ OnTheWay' = handled' \o reqChan' \o R' \o Queued'
  BY DEF OnTheWay, Queued, ForBase
<1> HIDE DEF R, T
<1>2. ASSUME handled' = handled, reqChan' = reqChan, R' = R, Queued' = Queued
      PROVE  OnTheWay' = OnTheWay
  BY <1>1, <1>2
<1>3. CASE UNCHANGED messageVars
  BY <1>2, <1>3 DEF messageVars, rqVars, R, RequestInHand, Queued
<1>4. CASE InProxy(InitAnswered)
  <2> DEFINE d == Plain("DESTROY_ON_INIT", 0)
  <2>1. requestQueue = <<>> /\ lost = <<>> /\ api = "waitInit"
    BY <1>4 DEF InProxy, InitAnswered, Startup, NotYet
  <2>2. UNCHANGED <<issued, handled, reqChan, rqVars>>
    BY <1>4 DEF InProxy, InitAnswered, chanVars, baseVars
  <2>3. R' = R
    BY <2>2 DEF R, RequestInHand, rqVars
  <2>4. lost' = lost /\ (requestQueue' = requestQueue \/ requestQueue' = Append(<<>>, d))
    <3>1. Len(requestQueue) < RequestSlots
      BY <2>1, RequestSlotsPositive
    <3> QED
      BY <1>4, <2>1, <3>1 DEF InProxy, InitAnswered, PushRequest, PushTo, queueVars
  <2>5. d \notin ForBase /\ d \in T
    BY BoundsAreNat DEF ForBase, Messages, Plain, Message, T, AnyMessage, RequestKinds
  <2> HIDE DEF d
  <2>6. Within(Append(<<>>, d), ForBase) = Within(<<>>, ForBase)
    <3>1. <<>> \in Seq(T)
      OBVIOUS
    <3> QED
      BY <2>5, <3>1, WithinAppend
  <2>7. Queued' = Queued
    BY <2>1, <2>4, <2>6 DEF Queued
  <2> QED
    BY <1>2, <2>2, <2>3, <2>4, <2>7
<1>5. CASE InProxy(RequestPop)
  <2> DEFINE h == Head(requestQueue)
  <2>1. /\ requestQueue # <<>> /\ requestQueue' = Tail(requestQueue)
        /\ UNCHANGED <<issued, lost, handled, reqChan>> /\ rq = "pop"
    BY <1>5 DEF InProxy, RequestPop, apiVars, chanVars, baseVars
  <2>2. h \in Requests \cup {NoRequest}
    BY <2>1 DEF Types, RequestTypes
  <2>3. h \in ForBase <=> h.kind \notin {"DESTROY_ON_INIT", "null"}
    BY <2>2 DEF Requests, Numbered, ForBase, Messages, RequestKinds, Passed, NoRequest, Plain,
                Message
  <2>4. R = <<>> /\ R' = IF h \in ForBase THEN <<h>> ELSE <<>>
    BY <1>5, <2>1, <2>3 DEF InProxy, RequestPop, RequestThreadExits, R, RequestInHand, rqVars,
                            NoRequest, Plain, Message
  <2>5. /\ h \in ForBase => Queued = <<h>> \o Queued'
        /\ h \notin ForBase => Queued = Queued'
    BY <1>0, <2>1, WithinTail DEF Queued
  <2> HIDE DEF h
  <2>6. CASE h \notin ForBase
    BY <1>2, <2>1, <2>4, <2>5, <2>6
  <2>7. CASE h \in ForBase
    <3>1. R' \o Queued' = R \o Queued
      <4>1. R \o Queued = Queued
        BY <1>0, <2>4
      <4> QED
        BY <2>4, <2>5, <2>7, <4>1
    <3> DEFINE x == handled \o reqChan
    <3>2. x \in Seq(T)
      BY <1>0
    <3> HIDE DEF x
    <3>3. Alike(T, R', Queued', R, Queued)
      BY <1>0, <3>1, Neighbours
    <3> QED
      BY <1>1, <2>1, <3>2, <3>3 DEF Alike, x
  <2> QED
    BY <2>1, <2>6, <2>7
<1>6. CASE InProxy(RequestWrite)
  <2>1. /\ UNCHANGED <<issued, lost, handled, requestQueue>> /\ rq = "write"
        /\ reqChan' = Append(reqChan, Head(rqMsg)) /\ rq' = "compare"
    BY <1>6 DEF InProxy, RequestWrite, apiVars, queueVars, baseVars
  <2>2. R = rqMsg /\ R' = <<>>
    BY <2>1 DEF R, RequestInHand
  <2>3. R = <<Head(rqMsg)>> /\ Head(rqMsg) \in T
    <3>1. rqMsg # <<>> /\ Len(rqMsg) <= 1
      BY <2>1 DEF Types, RequestTypes
    <3> QED
      BY <1>0, <2>2, <3>1, OnlyOne
  <2>4. reqChan' \o R' = reqChan \o R
    <3>1. reqChan' = reqChan \o R
      BY <1>0, <2>1, <2>3
    <3>2. (reqChan \o R) \o <<>> = reqChan \o R
      BY <1>0
    <3> QED
      BY <2>2, <3>1, <3>2
  <2>5. Alike(T, reqChan', R', reqChan, R)
    BY <1>0, <2>4, Neighbours
  <2>6. Queued' = Queued
    BY <2>1 DEF Queued
  <2> QED
    BY <1>0, <1>1, <2>1, <2>5, <2>6 DEF Alike
<1>7. CASE InProxy(RequestCompare)
  <2>1. /\ UNCHANGED <<issued, queueVars, handled, reqChan>> /\ rq = "compare"
        /\ rq' \in {"pop", "exited"}
    BY <1>7 DEF InProxy, RequestCompare, RequestThreadExits, apiVars, chanVars, baseVars
  <2> QED
    BY <1>2, <2>1 DEF R, RequestInHand, Queued, queueVars
<1>8. CASE InProxy(ResponseTake)
  <2>1. UNCHANGED <<issued, queueVars, rqVars, handled, reqChan>>
    BY <1>8 DEF InProxy, ResponseTake, apiVars, baseVars
  <2> QED
    BY <1>2, <2>1 DEF R, RequestInHand, Queued, queueVars, rqVars
<1>9. CASE \/ InBase(MainPreprocessorReady) \/ InBase(MainPreprocessorFails)
           \/ InBase(MainTellFailure) \/ InBase(MainPush)
           \/ InBase(ProcessPop) \/ InBase(ProcessWrite) \/ InBase(TellProxy)
  <2>1. UNCHANGED <<proxyVars, handled, reqChan>>
    BY <1>9
       DEF InBase, MainPreprocessorReady, MainPreprocessorFails, MainTellFailure, MainPush,
                ProcessPop, ProcessWrite, TellProxy, chanVars
  <2> QED
    BY <1>2, <2>1 DEF R, RequestInHand, Queued, proxyVars, apiVars, queueVars, rqVars
<1>10. CASE InBase(BaseTake)
  <2>1. /\ reqChan # <<>> /\ reqChan' = Tail(reqChan) /\ handled' = Append(handled, Head(reqChan))
        /\ UNCHANGED proxyVars
    BY <1>10 DEF InBase, BaseTake
  <2>2. handled' \o reqChan' = handled \o reqChan
    BY <1>0, <2>1, HeadMoves
  <2>3. UNCHANGED <<issued, lost>> /\ R' = R /\ Queued' = Queued
    BY <2>1 DEF R, RequestInHand, Queued, proxyVars, apiVars, queueVars, rqVars
  <2> QED
    BY <1>1, <2>2, <2>3
<1> QED
  BY <1>3, <1>4, <1>5, <1>6, <1>7, <1>8, <1>9, <1>10, MessageSteps DEF Types

\* No step loses, doubles or reorders a request on its way to the base.
LEMMA RequestsAccountedStep ==
  AnswerInv /\ AnswerInv' /\ RequestsAccounted /\ [Next]_vars => RequestsAccounted'
<1> SUFFICES ASSUME AnswerInv, AnswerInv', RequestsAccounted, [Next]_vars
             PROVE  RequestsAccounted'
  OBVIOUS
<1> USE DEF AnswerInv
<1>1. CASE OnTheWay' = OnTheWay /\ UNCHANGED <<issued, lost>>
  BY <1>1 DEF RequestsAccounted, Accounted
<1>2. ASSUME NEW m \in RequestsForBase, Issues(m) PROVE RequestsAccounted'
  <2> DEFINE T == AnyMessage
             x == handled \o reqChan \o RequestInHand
  <2>1. /\ issued \in Seq(T) /\ lost \in Seq(T) /\ requestQueue \in Seq(T)
        /\ handled \in Seq(T) /\ reqChan \in Seq(T) /\ RequestInHand \in Seq(T)
    BY MessageSequences DEF MessagesEverywhere
  <2>2. m \in T /\ m \in ForBase
    BY DEF RequestsForBase, ForBase, Numbered, AnyMessage, Messages
  <2>3. requestQueue' \in Seq(T)
    <3>1. Requests \cup {NoRequest} \subseteq T
      BY BoundsAreNat DEF Requests, Numbered, AnyMessage, Messages, NoRequest, Plain, Message
    <3> QED
      BY <3>1, SeqSub DEF Types, RequestTypes
  <2> HIDE DEF T
  <2>4. Queued \in Seq(T) /\ Queued' \in Seq(T) /\ x \in Seq(T) /\ <<m>> \in Seq(T)
    BY <2>1, <2>2, <2>3, WithinType DEF Queued
  <2>5. /\ OnTheWay = x \o Queued /\ OnTheWay' = x' \o Queued' /\ x' = x
        /\ issued' = Append(issued, m) /\ PushRequest(m)
    BY <1>2
       DEF OnTheWay, Queued, ForBase, Issues, Issue, RequestInHand, rqVars, chanVars,
           baseVars
  <2>6. issued' = issued \o <<m>>
    BY <2>1, <2>2, <2>5
  <2>7. Balanced(issued, lost, OnTheWay) /\ (lost = <<>> => issued = OnTheWay)
    BY DEF RequestsAccounted, Accounted, Balanced
  <2> HIDE DEF x
  <2>8. OnTheWay \in Seq(T)
    BY <2>4, <2>5
  <2>9. NoRequest \notin ForBase
    BY DEF NoRequest, Plain, Message, ForBase, Messages, RequestKinds, Passed
  <2>10. CASE requestQueue' = Append(requestQueue, m) /\ lost' = lost
    <3>1. Queued' = Append(Queued, m)
      BY <2>1, <2>2, <2>10, WithinAppend DEF Queued
    <3>2. Queued' = Queued \o <<m>>
      BY <2>2, <2>4, <3>1
    <3>3. x \o (Queued \o <<m>>) = (x \o Queued) \o <<m>>
      BY <2>4
    <3>4. OnTheWay' = OnTheWay \o <<m>>
      BY <2>5, <3>2, <3>3
    <3>5. Balanced(issued \o <<m>>, lost, OnTheWay \o <<m>>)
      BY <2>1, <2>4, <2>7, <2>8, BalancedRoom
    <3> QED
      BY <2>6, <2>7, <2>10, <3>4, <3>5 DEF RequestsAccounted, Accounted, Balanced
  <2>11. CASE /\ lost' = Append(lost, m) /\ lost' # <<>>
              /\ Len(Queued') = Len(Queued) /\ ToSet(Queued') = ToSet(Queued)
    <3>1. x \o Queued' \in Seq(T)
      BY <2>4
    <3>2. Len(x \o Queued') = Len(x \o Queued)
      <4>1. Len(x \o Queued') = Len(x) + Len(Queued') /\ Len(x \o Queued) = Len(x) + Len(Queued)
        BY <2>4
      <4> QED
        BY <2>11, <4>1
    <3>3. ToSet(x \o Queued') = ToSet(x) \cup ToSet(Queued')
          /\ ToSet(x \o Queued) = ToSet(x) \cup ToSet(Queued)
      BY <2>4, ToSetConcat
    <3>4. /\ OnTheWay' \in Seq(T) /\ Len(OnTheWay') = Len(OnTheWay)
          /\ ToSet(OnTheWay') = ToSet(OnTheWay)
      BY <2>5, <2>11, <3>1, <3>2, <3>3
    <3>5. Balanced(issued \o <<m>>, lost \o <<m>>, OnTheWay')
      BY <2>1, <2>4, <2>7, <2>8, <3>4, BalancedFull
    <3>6. lost' = lost \o <<m>>
      BY <2>1, <2>2, <2>11
    <3> QED
      BY <2>6, <2>11, <3>5, <3>6 DEF RequestsAccounted, Accounted, Balanced
  <2>12. RequestTypes
    BY DEF Types
  <2> QED
    BY <2>5, <2>9, <2>10, <2>11, <2>12, PushKept DEF Queued
<1> QED
  BY <1>1, <1>2, OnTheWayStep

\* The legs of a state change's way, the last one first.
Taken == StateChanges(seen)
Answered == StateChanges(respChan)
ToSay == StateChanges(todo)
ToDo == StateChanges(processQueue)
Sent == StateChanges(reqChan)
InHand == StateChanges(RequestInHand)
Waiting == StateChanges(requestQueue)
Circle == Taken \o Answered \o ToSay \o ToDo \o Sent \o InHand \o Waiting

Legs ==
  /\ Taken \in Seq(ChangeSet) /\ Answered \in Seq(ChangeSet) /\ ToSay \in Seq(ChangeSet)
  /\ ToDo \in Seq(ChangeSet) /\ Sent \in Seq(ChangeSet) /\ InHand \in Seq(ChangeSet)
  /\ Waiting \in Seq(ChangeSet)

\* Each leg is a sequence of state changes.
LEMMA TypesGiveLegs == Types => Legs
<1> SUFFICES ASSUME Types PROVE Legs
  OBVIOUS
<1>1. MessagesEverywhere
  BY MessageSequences
<1> QED
  BY <1>1, ChangesType
     DEF MessagesEverywhere, Legs, Taken, Answered, ToSay, ToDo, Sent, InHand, Waiting

\* The same after a step.
LEMMA LegsAfter == Types' => Legs'
BY TypesGiveLegs, PTL

\* The head of a sequence of messages is a message.
LEMMA HeadOfMessages ==
  ASSUME NEW q \in Seq(AnyMessage), q # <<>> PROVE Head(q) \in AnyMessage
<1> HIDE DEF AnyMessage
<1> QED OBVIOUS

\* One more leg.
LEMMA ChangesBehind ==
  ASSUME NEW s \in Seq(AnyMessage), NEW t \in Seq(AnyMessage), NEW u, StateChanges(s) = u
  PROVE  s \o t \in Seq(AnyMessage) /\ StateChanges(s \o t) = u \o StateChanges(t)
<1>1. StateChanges(s \o t) = StateChanges(s) \o StateChanges(t)
  BY ChangesConcat
<1>2. s \o t \in Seq(AnyMessage)
  <2> HIDE DEF AnyMessage
  <2> QED OBVIOUS
<1> QED
  BY <1>1, <1>2

\* The changes on their way are the legs, one behind the other.
LEMMA CircleIs ==
  Types => ChangesAccounted
             = Accounted(StateChanges(issued), StateChanges(lost), Circle)
<1> SUFFICES ASSUME Types
             PROVE  ChangesAccounted
                      = Accounted(StateChanges(issued), StateChanges(lost), Circle)
  OBVIOUS
<1>1. MessagesEverywhere
  BY MessageSequences
<1>2. /\ seen \in Seq(AnyMessage) /\ respChan \in Seq(AnyMessage) /\ todo \in Seq(AnyMessage)
      /\ processQueue \in Seq(AnyMessage) /\ reqChan \in Seq(AnyMessage)
      /\ RequestInHand \in Seq(AnyMessage) /\ requestQueue \in Seq(AnyMessage)
  BY <1>1 DEF MessagesEverywhere
<1> DEFINE s2 == seen \o respChan
           s3 == s2 \o todo
           s4 == s3 \o processQueue
           s5 == s4 \o reqChan
           s6 == s5 \o RequestInHand
           u2 == Taken \o Answered
           u3 == u2 \o ToSay
           u4 == u3 \o ToDo
           u5 == u4 \o Sent
           u6 == u5 \o InHand
<1>3. s2 \in Seq(AnyMessage) /\ StateChanges(s2) = u2
  BY <1>2, ChangesBehind DEF Taken, Answered
<1> HIDE DEF s2, u2
<1>4. s3 \in Seq(AnyMessage) /\ StateChanges(s3) = u3
  BY <1>2, <1>3, ChangesBehind DEF ToSay
<1> HIDE DEF s3, u3
<1>5. s4 \in Seq(AnyMessage) /\ StateChanges(s4) = u4
  BY <1>2, <1>4, ChangesBehind DEF ToDo
<1> HIDE DEF s4, u4
<1>6. s5 \in Seq(AnyMessage) /\ StateChanges(s5) = u5
  BY <1>2, <1>5, ChangesBehind DEF Sent
<1> HIDE DEF s5, u5
<1>7. s6 \in Seq(AnyMessage) /\ StateChanges(s6) = u6
  BY <1>2, <1>6, ChangesBehind DEF InHand
<1> HIDE DEF s6, u6
<1>8. StateChanges(s6 \o requestQueue) = u6 \o Waiting
  BY <1>2, <1>7, ChangesBehind DEF Waiting
<1> QED
  BY <1>8 DEF ChangesAccounted, Circle, s2, s3, s4, s5, s6, u2, u3, u4, u5, u6

\* The same after a step.
LEMMA CircleIsAfter ==
  Types' => (ChangesAccounted
               = Accounted(StateChanges(issued), StateChanges(lost), Circle))'
BY CircleIs, PTL

\* The events of a voice frame are no acknowledgements.
LEMMA EventsAreNoChanges ==
  ASSUME NEW events \in Results
  PROVE  StateChanges(events) = <<>>
<1> DEFINE S == {Event, SleepEvent}
           w == Within(events, Changes)
<1>1. events \in Seq(S)
  BY ResultsAreEvents
<1> HIDE DEF S, w
<1>2. ToSet(events) \subseteq S
  BY <1>1 DEF ToSet
<1>3. S \cap Changes = {}
  BY DEF S, Event, SleepEvent, Plain, Message, Changes, Messages
<1>4. ToSet(w) = ToSet(events) \cap Changes /\ w \in Seq(S)
  BY <1>1, WithinElements, WithinType DEF w
<1>5. w # <<>> => 1 \in DOMAIN w
  BY <1>4
<1>6. w = <<>>
  BY <1>2, <1>3, <1>4, <1>5 DEF ToSet
<1> QED
  BY <1>6, ChangesNoted DEF Noted, w

\* What a sequence of one message adds in front of the others.
LEMMA NothingAdded ==
  ASSUME NEW a \in Seq(ChangeSet) PROVE <<>> \o a = a
<1> HIDE DEF ChangeSet
<1> QED OBVIOUS

\* A step moves a state change from one leg to the next, or adds one at the end.
LEMMA CircleStep ==
  ASSUME AnswerInv, Types', [Next]_vars
  PROVE  \/ Circle' = Circle /\ UNCHANGED <<issued, lost>>
         \/ \E m \in RequestsForBase : Issues(m)
<1> USE DEF AnswerInv
<1> DEFINE T == AnyMessage
           C == ChangeSet
<1>0. Types /\ Legs /\ Legs' /\ MessagesEverywhere /\ MessagesEverywhere'
  BY TypesGiveLegs, LegsAfter, MessageSequences, MessageSequencesAfter
<1> DEFINE x2 == Taken \o Answered
           x3 == x2 \o ToSay
           x4 == x3 \o ToDo
           x5 == x4 \o Sent
<1>1. /\ Taken \in Seq(C) /\ Answered \in Seq(C) /\ ToSay \in Seq(C) /\ ToDo \in Seq(C)
      /\ Sent \in Seq(C) /\ InHand \in Seq(C) /\ Waiting \in Seq(C)
      /\ Taken' \in Seq(C) /\ Answered' \in Seq(C) /\ ToSay' \in Seq(C) /\ ToDo' \in Seq(C)
      /\ Sent' \in Seq(C) /\ InHand' \in Seq(C) /\ Waiting' \in Seq(C)
  BY <1>0 DEF Legs
<1> HIDE DEF T, C
<1>2. x2 \in Seq(C) /\ x3 \in Seq(C) /\ x4 \in Seq(C) /\ x5 \in Seq(C)
  BY <1>1
<1>3. Circle = ((x5 \o InHand) \o Waiting)
  BY DEF Circle
\* What moves from one leg to the next.
<1>4. CASE Taken' \o Answered' = Taken \o Answered
           /\ UNCHANGED <<ToSay, ToDo, Sent, InHand, Waiting, issued, lost>>
  BY <1>4 DEF Circle
<1>5. CASE Answered' \o ToSay' = Answered \o ToSay
           /\ UNCHANGED <<Taken, ToDo, Sent, InHand, Waiting, issued, lost>>
  <2>1. Alike(C, Answered', ToSay', Answered, ToSay)
    BY <1>1, <1>5, Neighbours
  <2> QED
    BY <1>1, <1>5, <2>1 DEF Alike, Circle
<1>6. CASE ToSay' \o ToDo' = ToSay \o ToDo
           /\ UNCHANGED <<Taken, Answered, Sent, InHand, Waiting, issued, lost>>
  <2>1. Alike(C, ToSay', ToDo', ToSay, ToDo)
    BY <1>1, <1>6, Neighbours
  <2> QED
    BY <1>2, <1>6, <2>1 DEF Alike, Circle
<1>7. CASE ToDo' \o Sent' = ToDo \o Sent
           /\ UNCHANGED <<Taken, Answered, ToSay, InHand, Waiting, issued, lost>>
  <2>1. Alike(C, ToDo', Sent', ToDo, Sent)
    BY <1>1, <1>7, Neighbours
  <2> QED
    BY <1>2, <1>7, <2>1 DEF Alike, Circle
<1>8. CASE Sent' \o InHand' = Sent \o InHand
           /\ UNCHANGED <<Taken, Answered, ToSay, ToDo, Waiting, issued, lost>>
  <2>1. Alike(C, Sent', InHand', Sent, InHand)
    BY <1>1, <1>8, Neighbours
  <2> QED
    BY <1>2, <1>8, <2>1 DEF Alike, Circle
<1>9. CASE InHand' \o Waiting' = InHand \o Waiting
           /\ UNCHANGED <<Taken, Answered, ToSay, ToDo, Sent, issued, lost>>
  <2>1. Alike(C, InHand', Waiting', InHand, Waiting)
    BY <1>1, <1>9, Neighbours
  <2> QED
    BY <1>2, <1>9, <2>1 DEF Alike, Circle
\* The steps.
<1> USE DEF MessagesEverywhere
<1>11. CASE UNCHANGED messageVars
  BY <1>4, <1>11
     DEF messageVars, rqVars, RequestInHand, Taken, Answered, ToSay, ToDo, Sent, InHand,
                     Waiting
<1>12. CASE InProxy(InitAnswered)
  <2> DEFINE d == Plain("DESTROY_ON_INIT", 0)
  <2>1. requestQueue = <<>> /\ lost = <<>> /\ api = "waitInit"
    BY <1>12 DEF InProxy, InitAnswered, Startup, NotYet
  <2>2. UNCHANGED <<issued, rqVars, rsVars, chanVars, baseVars>>
    BY <1>12 DEF InProxy, InitAnswered
  <2>3. lost' = lost /\ (requestQueue' = requestQueue \/ requestQueue' = Append(<<>>, d))
    <3>1. Len(requestQueue) < RequestSlots
      BY <2>1, RequestSlotsPositive
    <3> QED
      BY <1>12, <2>1, <3>1 DEF InProxy, InitAnswered, PushRequest, PushTo, queueVars
  <2>4. d \notin Changes /\ d \in AnyMessage
    BY BoundsAreNat DEF Changes, Messages, Plain, Message, AnyMessage, RequestKinds
  <2> HIDE DEF d
  <2>5. StateChanges(Append(<<>>, d)) = StateChanges(<<>>)
    <3>1. <<>> \in Seq(AnyMessage)
      OBVIOUS
    <3> QED
      BY <2>4, <3>1, ChangesAppend
  <2>6. Waiting' = Waiting
    BY <2>1, <2>3, <2>5 DEF Waiting
  <2>7. UNCHANGED <<Taken, Answered, ToSay, ToDo, Sent, InHand>>
    BY <2>2
       DEF rqVars, rsVars, chanVars, baseVars, RequestInHand, Taken, Answered, ToSay, ToDo,
                Sent, InHand
  <2> QED
    BY <1>4, <2>2, <2>3, <2>6, <2>7
<1>13. CASE InProxy(RequestPop)
  <2> DEFINE h == Head(requestQueue)
  <2>1. /\ requestQueue # <<>> /\ requestQueue' = Tail(requestQueue)
        /\ UNCHANGED <<issued, lost, rsVars, chanVars, baseVars>> /\ rq = "pop"
    BY <1>13 DEF InProxy, RequestPop, apiVars
  <2>2. h \in Requests \cup {NoRequest}
    BY <2>1 DEF Types, RequestTypes
  <2>3. h.kind \in {"DESTROY_ON_INIT", "null"} => h \notin Changes
    BY DEF Changes, Messages
  <2>4. RequestInHand = <<>>
          /\ RequestInHand' = IF h.kind \in {"DESTROY_ON_INIT", "null"} THEN <<>> ELSE <<h>>
    BY <1>13, <2>1, <2>2
       DEF InProxy, RequestPop, RequestThreadExits, RequestInHand, rqVars, NoRequest, Plain,
           Message,
           Requests, Numbered, Messages, RequestKinds, Passed
  <2>5. h \in AnyMessage
    BY <1>0, <2>1, HeadOfMessages
  <2>6. Waiting = StateChanges(<<h>>) \o Waiting'
    BY <1>0, <2>1, ChangesTail DEF Waiting
  <2>7. h \notin Changes => StateChanges(<<h>>) = <<>>
    BY <2>5, ChangesOne
  <2>8. InHand = <<>> /\ InHand' = StateChanges(<<h>>)
    BY <2>3, <2>4, <2>7, ChangesEmpty DEF InHand
  <2>9. InHand' \o Waiting' = InHand \o Waiting
    BY <1>1, <2>6, <2>8, NothingAdded DEF C
  <2>10. UNCHANGED <<Taken, Answered, ToSay, ToDo, Sent>>
    BY <2>1 DEF rsVars, chanVars, baseVars, Taken, Answered, ToSay, ToDo, Sent
  <2> QED
    BY <1>9, <2>1, <2>9, <2>10
<1>14. CASE InProxy(RequestWrite)
  <2>1. /\ UNCHANGED <<issued, lost, requestQueue, rsVars, respChan, baseVars>> /\ rq = "write"
        /\ reqChan' = Append(reqChan, Head(rqMsg)) /\ rq' = "compare"
    BY <1>14 DEF InProxy, RequestWrite, apiVars, queueVars
  <2>2. RequestInHand = rqMsg /\ RequestInHand' = <<>>
    BY <2>1 DEF RequestInHand
  <2>3. Tail(rqMsg) = <<>> /\ rqMsg # <<>>
    <3>1. rqMsg # <<>> /\ Len(rqMsg) <= 1
      BY <2>1 DEF Types, RequestTypes
    <3> QED
      BY <1>0, <3>1, OnlyOne
  <2>4. Sent' \o InHand' = Sent \o InHand
    <3>1. StateChanges(Append(reqChan, Head(rqMsg))) \o StateChanges(Tail(rqMsg))
            = StateChanges(reqChan) \o StateChanges(rqMsg)
      BY <1>0, <2>3, ChangesMove
    <3> QED
      BY <2>1, <2>2, <2>3, <3>1 DEF Sent, InHand
  <2>5. UNCHANGED <<Taken, Answered, ToSay, ToDo, Waiting>>
    BY <2>1 DEF rsVars, baseVars, Taken, Answered, ToSay, ToDo, Waiting
  <2> QED
    BY <1>8, <2>1, <2>4, <2>5
<1>15. CASE InProxy(RequestCompare)
  <2>1. /\ UNCHANGED <<issued, queueVars, rsVars, chanVars, baseVars>> /\ rq = "compare"
        /\ rq' \in {"pop", "exited"}
    BY <1>15 DEF InProxy, RequestCompare, RequestThreadExits, apiVars
  <2>2. RequestInHand' = RequestInHand
    BY <2>1 DEF RequestInHand
  <2>3. UNCHANGED <<Taken, Answered, ToSay, ToDo, Sent, InHand, Waiting, issued, lost>>
    BY <2>1, <2>2
       DEF queueVars, rsVars, chanVars, baseVars, Taken, Answered, ToSay, ToDo, Sent,
                      InHand, Waiting
  <2> QED
    BY <1>4, <2>3
<1>16. CASE InProxy(ResponseTake)
  <2>1. /\ respChan # <<>> /\ seen' = Append(seen, Head(respChan)) /\ respChan' = Tail(respChan)
        /\ UNCHANGED <<issued, queueVars, rqVars, reqChan, baseVars>>
    BY <1>16 DEF InProxy, ResponseTake, apiVars
  <2>2. Taken' \o Answered' = Taken \o Answered
    BY <1>0, <2>1, ChangesMove DEF Taken, Answered
  <2>3. UNCHANGED <<ToSay, ToDo, Sent, InHand, Waiting, issued, lost>>
    BY <2>1 DEF queueVars, rqVars, baseVars, RequestInHand, ToSay, ToDo, Sent, InHand, Waiting
  <2> QED
    BY <1>4, <2>2, <2>3
<1>17. ASSUME UNCHANGED proxyVars
       PROVE  UNCHANGED <<Taken, InHand, Waiting, issued, lost>>
  BY <1>17
     DEF proxyVars, apiVars, queueVars, rqVars, rsVars, RequestInHand, Taken, InHand,
         Waiting
<1>18. CASE InBase(MainPreprocessorReady) \/ InBase(MainTellFailure) \/ InBase(TellProxy)
  <2>1. PICK kind \in {"ON_INIT_OK", "ON_INIT_FAILED", "ON_DESTROY"} : Respond(Plain(kind, 0))
    BY <1>18 DEF InBase, MainPreprocessorReady, MainTellFailure, TellProxy
  <2> DEFINE m == Plain(kind, 0)
  <2>2. respChan' = Append(respChan, m) /\ m \in AnyMessage /\ m \notin Changes
    BY <2>1, BoundsAreNat DEF Respond, Plain, Message, AnyMessage, Messages, ResponseKinds,
                              InitAnswers, Changes
  <2> HIDE DEF m
  <2>3. Answered' = Answered
    BY <1>0, <2>2, ChangesAppend DEF Answered
  <2>4. UNCHANGED <<todo, processQueue, reqChan>> /\ UNCHANGED proxyVars
    BY <1>18 DEF InBase, MainPreprocessorReady, MainTellFailure, TellProxy
  <2>5. UNCHANGED <<ToSay, ToDo, Sent>>
    BY <2>4 DEF ToSay, ToDo, Sent
  <2> QED
    BY <1>4, <1>17, <2>3, <2>4, <2>5
<1>19. CASE InBase(MainPush) \/ InBase(MainPreprocessorFails)
  <2>1. PICK kind \in {"DATA_PROCESS", "DESTROY"} :
          processQueue' = Append(processQueue, Plain(kind, 0))
    BY <1>19 DEF InBase, MainPush, MainPreprocessorFails, Frame
  <2> DEFINE m == Plain(kind, 0)
  <2>2. processQueue' = Append(processQueue, m) /\ m \in AnyMessage /\ m \notin Changes
    BY <2>1, BoundsAreNat DEF Plain, Message, AnyMessage, Messages, RequestKinds, Changes
  <2> HIDE DEF m
  <2>3. ToDo' = ToDo
    BY <1>0, <2>2, ChangesAppend DEF ToDo
  <2>4. UNCHANGED <<todo, chanVars, proxyVars>>
    BY <1>19 DEF InBase, MainPush, MainPreprocessorFails
  <2>5. UNCHANGED <<Answered, ToSay, Sent>>
    BY <2>4 DEF Answered, ToSay, Sent, chanVars
  <2> QED
    BY <1>4, <1>17, <2>3, <2>4, <2>5
<1>20. CASE InBase(ProcessPop)
  <2> DEFINE m == Head(processQueue)
             a == Message("ON_CALLBACK", m.call, m.state)
  <2>1. /\ processQueue # <<>> /\ processQueue' = Tail(processQueue) /\ todo = <<>>
        /\ UNCHANGED <<chanVars, proxyVars>>
    BY <1>20 DEF InBase, ProcessPop, Types, ProcessTypes
  <2>2. ToDo = StateChanges(<<m>>) \o ToDo'
    BY <1>0, <2>1, ChangesTail DEF ToDo
  <2>3. m \in AnyMessage /\ m \in Packages
    <3>1. m \in AnyMessage
      BY <1>0, <2>1, HeadOfMessages
    <3> QED
      BY <2>1, <3>1 DEF Types, ProcessTypes, Numbered
  <2>4. m.kind # "SET_STATE" => m \notin Changes
    BY <2>3 DEF Packages, Changes, Messages, Passed
  <2>5. m.kind = "SET_STATE" => m \in Changes
    BY <2>3 DEF Packages, Changes, Messages
  <2>6. a \in AnyMessage /\ a \in Changes /\ StateChange(a) = StateChange(m)
    BY <2>3 DEF Packages, Changes, Messages, AnyMessage, Message, StateChange, ResponseKinds
  <2>7. \/ m.kind # "SET_STATE" /\ todo' = todo
        \/ m.kind # "SET_STATE" /\ todo' \in Results
        \/ m.kind = "SET_STATE" /\ todo' = <<a>>
    BY <1>20 DEF InBase, ProcessPop, Frame, Plain, Message, Passed
  <2> HIDE DEF m, a
  <2>8. StateChanges(<<m>>) = IF m.kind = "SET_STATE" THEN <<StateChange(m)>> ELSE <<>>
    BY <2>3, <2>4, <2>5, ChangesOne
  <2>9. StateChanges(<<a>>) = <<StateChange(m)>>
    BY <2>6, ChangesOne
  <2>10. ToSay = <<>> /\ ToSay' = StateChanges(<<m>>)
    BY <2>1, <2>7, <2>8, <2>9, ChangesEmpty, EventsAreNoChanges DEF ToSay
  <2>11. ToSay' \o ToDo' = ToSay \o ToDo
    BY <1>1, <2>2, <2>10, NothingAdded DEF C
  <2>12. UNCHANGED <<Answered, Sent>>
    BY <2>1 DEF Answered, Sent, chanVars
  <2> QED
    BY <1>6, <1>17, <2>1, <2>11, <2>12
<1>21. CASE InBase(ProcessWrite)
  <2>1. /\ respChan' = Append(respChan, Head(todo)) /\ todo' = Tail(todo) /\ todo # <<>>
        /\ UNCHANGED <<processQueue, reqChan>> /\ UNCHANGED proxyVars
    BY <1>21 DEF InBase, ProcessWrite, Respond, Types, ProcessTypes
  <2>2. Answered' \o ToSay' = Answered \o ToSay
    BY <1>0, <2>1, ChangesMove DEF Answered, ToSay
  <2>3. UNCHANGED <<ToDo, Sent>>
    BY <2>1 DEF ToDo, Sent
  <2> QED
    BY <1>5, <1>17, <2>1, <2>2, <2>3
<1>22. CASE InBase(BaseTake)
  <2> DEFINE m == Head(reqChan)
  <2>1. /\ reqChan # <<>> /\ reqChan' = Tail(reqChan) /\ UNCHANGED <<todo, respChan>>
        /\ UNCHANGED proxyVars
    BY <1>22 DEF InBase, BaseTake
  <2>2. \/ m.kind \in {"START_PROCESS_STREAM", "STOP_PROCESS_STREAM"} /\ processQueue' = processQueue
        \/ processQueue' = Append(processQueue, m)
    BY <1>22 DEF InBase, BaseTake
  <2>3. m.kind \in {"START_PROCESS_STREAM", "STOP_PROCESS_STREAM"} => m \notin Changes
    BY DEF Changes, Messages
  <2>4. m \in AnyMessage
    BY <1>0, <2>1, HeadOfMessages
  <2>5. Sent = StateChanges(<<m>>) \o Sent'
    BY <1>0, <2>1, ChangesTail DEF Sent
  <2>6. m \notin Changes => StateChanges(<<m>>) = <<>>
    BY <2>4, ChangesOne
  <2>7. ToDo' \o Sent' = ToDo \o Sent
    <3>1. CASE /\ m.kind \in {"START_PROCESS_STREAM", "STOP_PROCESS_STREAM"}
               /\ processQueue' = processQueue
      <4>1. Sent' = Sent
        BY <1>1, <2>3, <2>5, <2>6, <3>1, NothingAdded DEF C
      <4> QED
        BY <3>1, <4>1 DEF ToDo
    <3>2. CASE processQueue' = Append(processQueue, m)
      BY <1>0, <2>1, <3>2, ChangesMove DEF ToDo, Sent
    <3> QED
      BY <2>2, <3>1, <3>2
  <2>8. UNCHANGED <<Answered, ToSay>>
    BY <2>1 DEF Answered, ToSay
  <2> QED
    BY <1>7, <1>17, <2>1, <2>7, <2>8
<1> QED
  BY <1>0, <1>11, <1>12, <1>13, <1>14, <1>15, <1>16, <1>18, <1>19, <1>20, <1>21, <1>22,
     MessageSteps DEF Types

\* No step loses, doubles or reorders a state change on its way round.
LEMMA ChangesAccountedStep ==
  AnswerInv /\ AnswerInv' /\ ChangesAccounted /\ [Next]_vars => ChangesAccounted'
<1> SUFFICES ASSUME AnswerInv, AnswerInv', ChangesAccounted, [Next]_vars
             PROVE  ChangesAccounted'
  OBVIOUS
<1> USE DEF AnswerInv
<1> DEFINE C == ChangeSet
           sent == StateChanges(issued)
           gone == StateChanges(lost)
<1>0. /\ Accounted(sent, gone, Circle)
      /\ ChangesAccounted' <=> (Accounted(sent, gone, Circle))'
      /\ MessagesEverywhere /\ MessagesEverywhere' /\ Legs /\ Legs'
  BY CircleIs, CircleIsAfter, MessageSequences, MessageSequencesAfter, TypesGiveLegs,
     LegsAfter
<1>1. CASE Circle' = Circle /\ UNCHANGED <<issued, lost>>
  BY <1>0, <1>1 DEF Accounted
<1>2. ASSUME NEW m \in RequestsForBase, Issues(m) PROVE ChangesAccounted'
  <2> DEFINE x == Taken \o Answered \o ToSay \o ToDo \o Sent \o InHand
             c == StateChanges(<<m>>)
  <2>1. m \in AnyMessage /\ <<m>> \in Seq(AnyMessage)
    BY DEF RequestsForBase, ForBase, Numbered, AnyMessage, Messages
  <2>2. c \in Seq(C) /\ sent \in Seq(C) /\ gone \in Seq(C)
    BY <1>0, <2>1, ChangesType DEF MessagesEverywhere
  <2>3. /\ UNCHANGED <<Taken, Answered, ToSay, ToDo, Sent, InHand>>
        /\ issued' = Append(issued, m) /\ PushRequest(m)
    BY <1>2
       DEF Issues, Issue, rqVars, rsVars, chanVars, baseVars, Taken, Answered, ToSay, ToDo,
                Sent, InHand, RequestInHand
  <2>4. Waiting \in Seq(C) /\ Waiting' \in Seq(C) /\ x \in Seq(C)
    <3> HIDE DEF C
    <3>1. /\ Taken \in Seq(C) /\ Answered \in Seq(C) /\ ToSay \in Seq(C) /\ ToDo \in Seq(C)
          /\ Sent \in Seq(C) /\ InHand \in Seq(C) /\ Waiting \in Seq(C) /\ Waiting' \in Seq(C)
      BY <1>0 DEF Legs, C
    <3> QED
      BY <3>1
  <2>5. Circle = x \o Waiting /\ Circle' = x \o Waiting'
    BY <2>3 DEF Circle
  <2>6. sent' = sent \o c
    BY <1>0, <2>1, <2>3, ChangesAppend DEF MessagesEverywhere
  <2>7. Balanced(sent, gone, Circle) /\ (lost = <<>> => sent = Circle)
    BY <1>0 DEF Accounted, Balanced
  <2> HIDE DEF x, C, c, sent, gone
  <2>8. Circle \in Seq(C) /\ Circle' \in Seq(C)
    BY <2>4, <2>5
  <2>9. NoRequest \notin Changes
    BY DEF NoRequest, Plain, Message, Changes, Messages
  <2>10. CASE requestQueue' = Append(requestQueue, m) /\ lost' = lost
    <3>1. Waiting' = Waiting \o c
      BY <1>0, <2>1, <2>10, ChangesAppend DEF Waiting, c, MessagesEverywhere
    <3>2. x \o (Waiting \o c) = (x \o Waiting) \o c
      BY <2>2, <2>4
    <3>3. Circle' = Circle \o c
      BY <2>5, <3>1, <3>2
    <3>4. Balanced(sent \o c, gone, Circle \o c)
      BY <2>2, <2>7, <2>8, BalancedRoom
    <3>5. gone' = gone
      BY <2>10 DEF gone
    <3> QED
      BY <1>0, <2>6, <2>7, <2>10, <3>3, <3>4, <3>5 DEF Accounted, Balanced
  <2>11. CASE /\ lost' = Append(lost, m) /\ lost' # <<>>
              /\ Len(Within(requestQueue', Changes)) = Len(Within(requestQueue, Changes))
              /\ ToSet(Within(requestQueue', Changes)) = ToSet(Within(requestQueue, Changes))
    <3>1. Len(Waiting') = Len(Waiting) /\ ToSet(Waiting') = ToSet(Waiting)
      <4> DEFINE v == Within(requestQueue, Changes)
                 w == Within(requestQueue', Changes)
      <4>1. v \in Seq(AnyMessage) /\ w \in Seq(AnyMessage)
        BY <1>0, WithinType DEF MessagesEverywhere
      <4>2. Waiting = Noted(v) /\ Waiting' = Noted(w)
        BY ChangesNoted DEF Waiting
      <4> HIDE DEF v, w
      <4>3. /\ Len(Noted(v)) = Len(v) /\ ToSet(Noted(v)) = {StateChange(k) : k \in ToSet(v)}
            /\ Len(Noted(w)) = Len(w) /\ ToSet(Noted(w)) = {StateChange(k) : k \in ToSet(w)}
        BY <4>1, NotedFacts
      <4>4. Len(v) = Len(w) /\ ToSet(v) = ToSet(w)
        BY <2>11 DEF v, w
      <4> QED
        BY <4>2, <4>3, <4>4
    <3>2. Len(x \o Waiting') = Len(x \o Waiting)
      <4>1. Len(x \o Waiting') = Len(x) + Len(Waiting') /\ Len(x \o Waiting) = Len(x) + Len(Waiting)
        BY <2>4
      <4> QED
        BY <3>1, <4>1
    <3>3. ToSet(x \o Waiting') = ToSet(x) \cup ToSet(Waiting')
          /\ ToSet(x \o Waiting) = ToSet(x) \cup ToSet(Waiting)
      BY <2>4, ToSetConcat
    <3>4. Len(Circle') = Len(Circle) /\ ToSet(Circle') = ToSet(Circle)
      BY <2>5, <3>1, <3>2, <3>3
    <3>5. Balanced(sent \o c, gone \o c, Circle')
      BY <2>2, <2>7, <2>8, <3>4, BalancedFull
    <3>6. gone' = gone \o c
      BY <1>0, <2>1, <2>11, ChangesAppend DEF gone, c, MessagesEverywhere
    <3> QED
      BY <1>0, <2>6, <2>11, <3>5, <3>6 DEF Accounted, Balanced
  <2>12. RequestTypes
    BY DEF Types
  <2> QED
    BY <2>3, <2>9, <2>10, <2>11, <2>12, PushKept
<1> QED
  BY <1>1, <1>2, CircleStep

\* Only set_siren_state with a callback installs one.
LEMMA CallbackSlotStep == Types /\ CallbackSlot /\ [Next]_vars => CallbackSlot'
<1> SUFFICES ASSUME Types, CallbackSlot, [Next]_vars PROVE CallbackSlot'
  OBVIOUS
<1>1. /\ calls \in Nat /\ asyncCalls \subseteq 1..calls
      /\ calls \in 0..(MaxCalls + 1)
  BY BoundsAreNat DEF Types, ScalarTypes
<1>2. ASSUME NEW s \in States, SetStateAsync(s) PROVE CallbackSlot'
  <2>1. /\ asyncCalls' = asyncCalls \cup {calls + 1} /\ stateChangeCallback' = calls + 1
    BY <1>2 DEF SetStateAsync
  <2> QED
    BY <1>1, <2>1 DEF CallbackSlot
<1>3. ASSUME UNCHANGED <<asyncCalls, stateChangeCallback>> PROVE CallbackSlot'
  BY <1>3 DEF CallbackSlot
<1>4. CASE UNCHANGED vars
  BY <1>3, <1>4 DEF vars, proxyVars, apiVars, stateVars
<1>5. CASE BaseNext /\ UNCHANGED proxyVars
  BY <1>3, <1>5 DEF proxyVars, apiVars, stateVars
<1>6. CASE ApiCall
  BY <1>2, <1>3, <1>6
     DEF ApiCall, StartProcessStream, StopProcessStream, SetStateSync, PassRequest,
         DestroyRecorder,
         stateVars
<1>7. CASE ApiContinues
  BY <1>3, <1>7
     DEF ApiContinues, InitLaunched, InitAnswered, InitFailureJoins, PushStart,
         PauseRecording,
         PushSetState, SyncReturn, PushDestroy, DestroyJoins, stateVars
<1>8. CASE RequestThread \/ ResponseThread \/ Recorder
  BY <1>3, <1>8
     DEF RequestThread, RequestPop, RequestWrite, RequestCompare, ResponseThread,
         ResponseLoop,
         ResponseTake, ResponseNotify, ResponseCallback, Recorder, RecordRead, RecordWrite,
         apiVars, stateVars, rsVars
<1> QED
  BY <1>4, <1>5, <1>6, <1>7, <1>8 DEF Next, ProxyNext

RoundInv == AnswerInv /\ RequestsAccounted /\ ChangesAccounted /\ CallbackSlot

\* A session starts with nothing on its way.
LEMMA InitRoundInv == Init => RoundInv
<1> SUFFICES ASSUME Init PROVE RoundInv
  OBVIOUS
<1> USE DEF Init, ChannelInit, ProxyInit, BaseInit
<1>1. AnswerInv /\ Types
  BY InitAnswerInv DEF AnswerInv
<1>2. RequestInHand = <<>> /\ Within(<<>>, Messages(RequestKinds \ {"DESTROY_ON_INIT"})) = <<>>
  BY WithinEmpty DEF RequestInHand
<1>3. <<>> \o <<>> = <<>> /\ Len(<<>>) = 0
  OBVIOUS
<1>4. OnTheWay = <<>>
  BY <1>2, <1>3 DEF OnTheWay
<1>5. RequestsAccounted
  BY <1>3, <1>4 DEF RequestsAccounted, Accounted
<1>6. StateChanges(issued) = <<>> /\ StateChanges(lost) = <<>>
  BY ChangesEmpty
<1>7. StateChanges(seen \o respChan \o todo \o processQueue \o reqChan \o RequestInHand
                     \o requestQueue) = <<>>
  BY <1>2, <1>3, ChangesEmpty
<1>8. ChangesAccounted
  BY <1>3, <1>6, <1>7 DEF ChangesAccounted, Accounted
<1>9. CallbackSlot
  BY DEF CallbackSlot
<1> QED
  BY <1>1, <1>5, <1>8, <1>9 DEF RoundInv

\* No request is lost on its way from the API call to the base, none is doubled and
\* none overtakes another, except those a full request queue refused; every state
\* change is acknowledged in the order of the calls; and the callback that
\* onStateChanged finds is of this call or of a later one.
THEOREM RoundTrip == Spec => []RequestsGoRound
<1>1. RoundInv /\ [Next]_vars => RoundInv'
  <2> SUFFICES ASSUME RoundInv, [Next]_vars PROVE RoundInv'
    OBVIOUS
  <2>1. AnswerInv' /\ Types
    BY AnswerInvStep DEF RoundInv, AnswerInv
  <2> QED
    BY <2>1, RequestsAccountedStep, ChangesAccountedStep, CallbackSlotStep DEF RoundInv
<1>2. RoundInv => RequestsGoRound
  <2> SUFFICES ASSUME RoundInv PROVE RequestsGoRound
    OBVIOUS
  <2>1. \A c \in asyncCalls : stateChangeCallback \in asyncCalls /\ stateChangeCallback >= c
    <3>1. stateChangeCallback \in Nat /\ asyncCalls \subseteq Nat
      BY DEF RoundInv, AnswerInv, Types, ScalarTypes
    <3> QED
      BY <3>1 DEF RoundInv, CallbackSlot
  <2> QED
    BY <2>1 DEF RoundInv, RequestsAccounted, ChangesAccounted, RequestsGoRound
<1> QED
  BY <1>1, <1>2, InitRoundInv, PTL DEF Spec

-----------------------------------------------------------------------------
(* Responses find their call *)

NoneOf(q, kind) == \A i \in DOMAIN q : q[i].kind # kind

NoFrames == rec # "write" /\ (recordingStart => rec = "gone") /\ wire = 0 /\ bm # "push"
NoEvents ==
  /\ rs # "event" /\ NoneOf(processQueue, "DATA_PROCESS")
  /\ NoneOf(todo, "ON_VOICE_EVENT") /\ NoneOf(respChan, "ON_VOICE_EVENT")

\* Without a callback, and with none taken back, no frame is recorded, and without a
\* frame there is no event.
NoEventYet == hasCallback \/ revoked \/ (NoFrames /\ NoEvents)

InSync == api \in {"setting", "syncWait"}
Heard ==
  \E i \in DOMAIN seen :
    seen[i].kind = "ON_CALLBACK" /\ seen[i].call \in overlap \cup {calls}

\* What is under way during a synchronous call is its own change or was under way when
\* it cleared the flag, and what raised the flag since is one of these.
FlagInv ==
  /\ InSync => UnderWay \subseteq overlap \cup {calls}
  /\ InSync /\ waitStateChange => Heard

\* A sequence without messages of a kind has none behind its head.
LEMMA NoneOfTail ==
  ASSUME NEW T, NEW q \in Seq(T), q # <<>>, NEW kind, NoneOf(q, kind)
  PROVE  NoneOf(Tail(q), kind) /\ Head(q).kind # kind
<1>1. /\ DOMAIN q = 1..Len(q) /\ Len(q) \in Nat \ {0} /\ Head(q) = q[1]
      /\ DOMAIN Tail(q) = 1..(Len(q) - 1) /\ \A i \in 1..(Len(q) - 1) : Tail(q)[i] = q[i + 1]
  BY TailPoints
<1>2. \A i \in 1..(Len(q) - 1) : i + 1 \in 1..Len(q)
  BY <1>1
<1>3. 1 \in 1..Len(q)
  BY <1>1
<1> QED
  BY <1>1, <1>2, <1>3 DEF NoneOf

\* Nor has it one when a message of another kind is appended.
LEMMA NoneOfAppend ==
  ASSUME NEW T, NEW q \in Seq(T), NEW e \in T, NEW kind, NoneOf(q, kind), e.kind # kind
  PROVE  NoneOf(Append(q, e), kind)
<1>1. /\ DOMAIN q = 1..Len(q) /\ Len(q) \in Nat /\ DOMAIN Append(q, e) = 1..(Len(q) + 1)
      /\ Append(q, e)[Len(q) + 1] = e /\ \A i \in 1..Len(q) : Append(q, e)[i] = q[i]
  BY AppendPoints
<1>2. \A i \in 1..(Len(q) + 1) : i \in 1..Len(q) \/ i = Len(q) + 1
  BY <1>1
<1> QED
  BY <1>1, <1>2 DEF NoneOf

\* A callback is taken back by a start that fails, which then is remembered, and by
\* nothing else; such a start leaves the recorder as it was.
LEMMA CallbackStays ==
  ASSUME ScalarTypes, [Next]_vars, ~hasCallback', ~revoked'
  PROVE  /\ ~hasCallback /\ ~revoked
         /\ StartProcessStream => UNCHANGED recVars
<1>1. CASE StartProcessStream
  <2>1. PICK ok \in InputStarts : /\ hasCallback' = ok
                                  /\ revoked' = (revoked \/ (hasCallback /\ ~ok))
                                  /\ recordingStart' = (recordingStart \/ ok)
    BY <1>1 DEF StartProcessStream
  <2>2. ok = FALSE
    BY <2>1, OutcomesKnown
  <2>3. ~hasCallback /\ ~revoked
    BY <2>1, <2>2
  <2>4. recordingStart' = recordingStart
    BY <2>1, <2>2 DEF ScalarTypes
  <2> QED
    BY <1>1, <2>3, <2>4 DEF StartProcessStream, recVars
<1>2. CASE ~StartProcessStream
  <2>1. UNCHANGED callbackVars
    <3>1. CASE UNCHANGED vars \/ UNCHANGED proxyVars
      BY <3>1 DEF vars, proxyVars, apiVars
    <3>2. CASE ApiCall
      BY <1>2, <3>2 DEF ApiCall, StopProcessStream, SetStateAsync, SetStateSync, PassRequest,
                        DestroyRecorder
    <3>3. CASE ApiContinues
      BY <3>3 DEF ApiContinues, InitLaunched, InitAnswered, InitFailureJoins, PushStart,
                  PauseRecording, PushSetState, SyncReturn, PushDestroy, DestroyJoins
    <3>4. CASE RequestThread \/ ResponseThread \/ Recorder
      BY <3>4 DEF RequestThread, RequestPop, RequestWrite, RequestCompare, ResponseThread,
                  ResponseLoop, ResponseTake, ResponseNotify, ResponseCallback, Recorder,
                  RecordRead, RecordWrite, apiVars
    <3> QED
      BY <3>1, <3>2, <3>3, <3>4 DEF Next, ProxyNext, BaseNext
  <2> QED
    BY <1>2, <2>1 DEF callbackVars
<1> QED
  BY <1>1, <1>2

\* Without a callback the recorder does not run, so the base reads nothing.
LEMMA NoFramesStep ==
  ASSUME ScalarTypes, [Next]_vars, ~hasCallback', ~revoked', NoFrames
  PROVE  NoFrames'
<1>1. StartProcessStream => UNCHANGED recVars
  BY CallbackStays
<1>2. CASE UNCHANGED vars
  BY <1>2 DEF vars, proxyVars, baseVars, recVars, chanVars, NoFrames
<1>3. CASE ProxyNext /\ UNCHANGED baseVars
  <2>1. bm' = bm
    BY <1>3 DEF baseVars
  <2>2. CASE ApiCall
    <3>1. CASE DestroyRecorder
      BY <2>1, <3>1 DEF DestroyRecorder, NoFrames
    <3>2. CASE \/ StopProcessStream \/ SetStateSync
               \/ \E s \in States : SetStateAsync(s)
               \/ \E kind \in Passed : PassRequest(kind)
      BY <2>1, <3>2 DEF StopProcessStream, SetStateAsync, SetStateSync, PassRequest,
                        recVars, chanVars, NoFrames
    <3>3. CASE StartProcessStream
      BY <1>1, <2>1, <3>3 DEF StartProcessStream, recVars, chanVars, NoFrames
    <3> QED
      BY <2>2, <3>1, <3>2, <3>3 DEF ApiCall
  <2>3. CASE ApiContinues
    BY <2>1, <2>3 DEF ApiContinues, InitLaunched, InitAnswered, InitFailureJoins, PushStart,
                      PauseRecording, PushSetState, SyncReturn, PushDestroy, DestroyJoins,
                      recVars, chanVars, NoFrames
  <2>4. CASE RequestThread \/ ResponseThread
    BY <2>1, <2>4 DEF RequestThread, RequestPop, RequestWrite, RequestCompare, ResponseThread,
                      ResponseLoop, ResponseTake, ResponseNotify, ResponseCallback,
                      recVars, chanVars, NoFrames
  <2>5. CASE Recorder
    BY <2>5 DEF Recorder, RecordRead, RecordWrite, NoFrames
  <2> QED
    BY <1>3, <2>2, <2>3, <2>4, <2>5 DEF ProxyNext
<1>4. CASE BaseNext /\ UNCHANGED proxyVars
  <2>1. UNCHANGED <<rec, recordingStart>>
    BY <1>4 DEF proxyVars, recVars
  <2>2. CASE MainThread
    <3>1. CASE MainRead
      BY <2>1, <3>1 DEF MainRead, NoFrames
    <3>2. CASE MainPush
      BY <2>1, <3>2 DEF MainPush, NoFrames
    <3>3. CASE MainCheck \/ MainBlock \/ MainLaunch \/ MainPreprocessorReady
               \/ MainPreprocessorFails \/ MainTellFailure
      BY <2>1, <3>3 DEF MainCheck, MainBlock, MainLaunch, MainPreprocessorReady,
                        MainPreprocessorFails, MainTellFailure, chanVars, NoFrames
    <3>4. CASE MainWait \/ MainExitCheck \/ MainJoins
      BY <2>1, <3>4 DEF MainWait, MainExitCheck, MainJoins, chanVars, NoFrames
    <3> QED
      BY <2>2, <3>1, <3>2, <3>3, <3>4 DEF MainThread
  <2>3. CASE ProcessThread \/ BaseResponseThread
    BY <2>1, <2>3 DEF ProcessThread, ProcessInit, ProcessPop, ProcessWrite, BaseResponseThread,
                      BaseTake, TellProxy, ReleaseMain, chanVars, NoFrames
  <2> QED
    BY <1>4, <2>2, <2>3 DEF BaseNext
<1> QED
  BY <1>2, <1>3, <1>4 DEF Next

\* Without frames nothing that the base says is an event.
LEMMA NoEventsStep ==
  ASSUME Types, NoFrames, NoEvents, [Next]_vars
  PROVE  NoEvents'
<1>1. /\ respChan \in Seq(AnyMessage) /\ processQueue \in Seq(AnyMessage)
      /\ todo \in Seq(AnyMessage) /\ reqChan \in Seq(RequestsForBase)
  BY MessageSequences DEF MessagesEverywhere, Types, RequestTypes
<1>2. CASE UNCHANGED <<processQueue, applied, bp, todo>>
  <2>1. CASE UNCHANGED <<respChan, rsVars>>
    BY <1>2, <2>1 DEF NoEvents, rsVars
  <2>2. CASE InProxy(ResponseThread)
    <3>1. CASE ResponseTake
      <4>1. respChan # <<>> /\ respChan' = Tail(respChan)
        BY <3>1 DEF ResponseTake
      <4>2. NoneOf(respChan', "ON_VOICE_EVENT") /\ Head(respChan).kind # "ON_VOICE_EVENT"
        BY <1>1, <4>1, NoneOfTail DEF NoEvents
      <4>3. rs' # "event"
        BY <3>1, <4>2 DEF ResponseTake
      <4> QED
        BY <1>2, <4>2, <4>3 DEF NoEvents
    <3>2. CASE ResponseLoop \/ ResponseNotify \/ ResponseCallback
      BY <1>2, <3>2 DEF ResponseLoop, ResponseNotify, ResponseCallback, chanVars, NoEvents
    <3> QED
      BY <2>2, <3>1, <3>2 DEF InProxy, ResponseThread
  <2>3. CASE InBase(MainPreprocessorReady) \/ InBase(MainTellFailure) \/ InBase(TellProxy)
    <3>1. PICK kind \in {"ON_INIT_OK", "ON_INIT_FAILED", "ON_DESTROY"} : Respond(Plain(kind, 0))
      BY <2>3 DEF InBase, MainPreprocessorReady, MainTellFailure, TellProxy
    <3> DEFINE m == Plain(kind, 0)
    <3>2. respChan' = Append(respChan, m) /\ m \in AnyMessage /\ m.kind # "ON_VOICE_EVENT"
      BY <3>1, BoundsAreNat DEF Respond, Plain, Message, AnyMessage, Messages, ResponseKinds,
                                InitAnswers
    <3> HIDE DEF m
    <3>3. NoneOf(respChan', "ON_VOICE_EVENT")
      BY <1>1, <3>2, NoneOfAppend DEF NoEvents
    <3>4. rs' = rs
      BY <2>3 DEF InBase, proxyVars, rsVars
    <3> QED
      BY <1>2, <3>3, <3>4 DEF NoEvents
  <2>4. ~InBase(ProcessWrite)
    <3>1. ASSUME ProcessWrite PROVE FALSE
      <4>1. todo # <<>> /\ todo' = Tail(todo) /\ todo \in Seq(AnyMessage)
        BY <1>1, <3>1 DEF ProcessWrite, Types, ProcessTypes
      <4>2. Len(Tail(todo)) = Len(todo) - 1 /\ Len(todo) \in Nat
        <5> HIDE DEF AnyMessage
        <5> QED BY <4>1
      <4> QED
        BY <1>2, <4>1, <4>2
    <3> QED
      BY <3>1 DEF InBase
  <2> QED
    BY <2>1, <2>2, <2>3, <2>4, ResponseSteps
<1>3. CASE InBase(ProcessThread)
  <2>1. rs' = rs
    BY <1>3 DEF InBase, proxyVars, rsVars
  <2>2. CASE ProcessInit
    BY <2>1, <2>2 DEF ProcessInit, chanVars, NoEvents
  <2>3. CASE ProcessPop
    <3> DEFINE m == Head(processQueue)
               a == Message("ON_CALLBACK", m.call, m.state)
    <3>1. processQueue # <<>> /\ processQueue' = Tail(processQueue) /\ respChan' = respChan
      BY <2>3 DEF ProcessPop, chanVars
    <3>2. NoneOf(processQueue', "DATA_PROCESS") /\ m.kind # "DATA_PROCESS"
      BY <1>1, <3>1, NoneOfTail DEF NoEvents
    <3>3. m # Frame
      BY <3>2 DEF Frame, Plain, Message
    <3>4. todo' = todo \/ todo' = <<a>>
      BY <2>3, <3>3 DEF ProcessPop
    <3>5. NoneOf(<<a>>, "ON_VOICE_EVENT")
      BY DEF NoneOf, Message
    <3> QED
      BY <2>1, <3>1, <3>2, <3>4, <3>5 DEF NoEvents
  <2>4. CASE ProcessWrite
    <3>1. /\ todo # <<>> /\ todo' = Tail(todo) /\ respChan' = Append(respChan, Head(todo))
          /\ processQueue' = processQueue
      BY <2>4 DEF ProcessWrite, Respond, Types, ProcessTypes
    <3>2. NoneOf(todo', "ON_VOICE_EVENT") /\ Head(todo).kind # "ON_VOICE_EVENT"
      BY <1>1, <3>1, NoneOfTail DEF NoEvents
    <3>3. Head(todo) \in AnyMessage
      BY <1>1, <3>1, HeadOfMessages
    <3>4. NoneOf(respChan', "ON_VOICE_EVENT")
      BY <1>1, <3>1, <3>2, <3>3, NoneOfAppend DEF NoEvents
    <3> QED
      BY <2>1, <3>1, <3>2, <3>4 DEF NoEvents
  <2> QED
    BY <1>3, <2>2, <2>3, <2>4 DEF InBase, ProcessThread
<1>4. CASE InBase(BaseTake) \/ InBase(MainPush) \/ InBase(MainPreprocessorFails)
  <2>1. UNCHANGED <<rs, todo, respChan>> /\ ~InBase(MainPush)
    BY <1>4 DEF InBase, BaseTake, MainPush, MainPreprocessorFails, proxyVars, rsVars, chanVars,
                NoFrames
  <2>2. \/ processQueue' = processQueue
        \/ \E m \in AnyMessage : m.kind # "DATA_PROCESS" /\ processQueue' = Append(processQueue, m)
    <3>1. CASE InBase(BaseTake)
      <4> DEFINE m == Head(reqChan)
      <4>1. /\ reqChan # <<>>
            /\ processQueue' = processQueue \/ processQueue' = Append(processQueue, m)
        BY <3>1 DEF InBase, BaseTake
      <4>2. m \in RequestsForBase
        BY <1>1, <4>1
      <4>3. m \in AnyMessage /\ m.kind # "DATA_PROCESS"
        BY <4>2 DEF RequestsForBase, Numbered, ForBase, AnyMessage, Messages, RequestKinds, Passed
      <4> QED
        BY <4>1, <4>3
    <3>2. CASE InBase(MainPreprocessorFails)
      <4>1. Plain("DESTROY", 0) \in AnyMessage /\ Plain("DESTROY", 0).kind # "DATA_PROCESS"
        BY BoundsAreNat DEF Plain, Message, AnyMessage, Messages, RequestKinds
      <4> QED
        BY <3>2, <4>1 DEF InBase, MainPreprocessorFails
    <3> QED
      BY <1>4, <2>1, <3>1, <3>2
  <2>3. NoneOf(processQueue', "DATA_PROCESS")
    BY <1>1, <2>2, NoneOfAppend DEF NoEvents
  <2> QED
    BY <2>1, <2>3 DEF NoEvents
<1> QED
  BY <1>2, <1>3, <1>4, ProcessSteps

\* Message e is a state change of call c, or its acknowledgement; one such is in q.
IsChange(e, c) == e.kind \in {"SET_STATE", "ON_CALLBACK"} /\ e.call = c
Has(q, c) == \E e \in ToSet(q) : IsChange(e, c)

\* The places where a change may be.
LEMMA UnderWayPlaces ==
  ASSUME NEW c
  PROVE  c \in UnderWay <=>
           \/ Has(requestQueue, c) \/ Has(RequestInHand, c) \/ Has(reqChan, c)
           \/ Has(processQueue, c) \/ Has(todo, c) \/ Has(respChan, c) \/ Has(AnswerInHand, c)
BY DEF UnderWay, Has, IsChange

\* The same after a step.
LEMMA UnderWayPlacesAfter ==
  ASSUME NEW c
  PROVE  c \in UnderWay' <=>
           \/ Has(requestQueue', c) \/ Has(RequestInHand', c) \/ Has(reqChan', c)
           \/ Has(processQueue', c) \/ Has(todo', c) \/ Has(respChan', c)
           \/ Has(AnswerInHand', c)
BY DEF UnderWay, Has, IsChange

\* The head of a sequence is in it, and so is what its tail holds.
LEMMA HasTail ==
  ASSUME NEW T, NEW q \in Seq(T), q # <<>>, NEW c
  PROVE  /\ Has(Tail(q), c) => Has(q, c)
         /\ IsChange(Head(q), c) => Has(q, c)
<1>1. /\ DOMAIN q = 1..Len(q) /\ Len(q) \in Nat \ {0} /\ Head(q) = q[1]
      /\ DOMAIN Tail(q) = 1..(Len(q) - 1) /\ \A i \in 1..(Len(q) - 1) : Tail(q)[i] = q[i + 1]
  BY TailPoints
<1>2. ToSet(Tail(q)) \subseteq ToSet(q) /\ Head(q) \in ToSet(q)
  <2>1. 1 \in 1..Len(q) /\ \A i \in 1..(Len(q) - 1) : i + 1 \in 1..Len(q)
    BY <1>1
  <2> QED
    BY <1>1, <2>1 DEF ToSet
<1> QED
  BY <1>2 DEF Has

\* What a sequence holds that grew by one message.
LEMMA HasAppend ==
  ASSUME NEW T, NEW q \in Seq(T), NEW e, NEW c, Has(Append(q, e), c)
  PROVE  Has(q, c) \/ IsChange(e, c)
BY ToSetAppend DEF Has

\* What short sequences hold.
LEMMA HasShort ==
  ASSUME NEW c
  PROVE  ~Has(<<>>, c) /\ \A e : Has(<<e>>, c) <=> IsChange(e, c)
<1>1. ToSet(<<>>) = {} /\ \A e : ToSet(<<e>>) = {e}
  BY DEF ToSet
<1> QED
  BY <1>1 DEF Has

\* A push adds no message but the one pushed, also where it moves another.
LEMMA HasPush ==
  ASSUME NEW T, NEW q \in Seq(T), NEW e, NEW null, NEW slots \in Nat \ {0}, NEW c,
         Has(PushTo(q, e, slots, null), c)
  PROVE  Has(q, c) \/ IsChange(e, c) \/ IsChange(null, c)
<1> DEFINE p == PushTo(q, e, slots, null)
<1>1. CASE Len(q) < slots
  BY <1>1, HasAppend DEF PushTo
<1>2. CASE Len(q) >= slots
  <2> DEFINE last == Len(q) + 1 - slots
             r == [q EXCEPT ![last] = null]
  <2>1. last \in DOMAIN q
    BY <1>2
  <2>2. p = Append(r, q[last])
    BY <1>2 DEF PushTo
  <2>3. ToSet(r) \subseteq ToSet(q) \cup {null} /\ q[last] \in ToSet(q)
    BY <2>1 DEF ToSet
  <2>4. r \in Seq(T \cup {null})
    <3>1. q \in Seq(T \cup {null})
      OBVIOUS
    <3> QED
      BY <2>1, <3>1
  <2> HIDE DEF last, r
  <2>5. ToSet(p) = ToSet(r) \cup {q[last]}
    BY <2>2, <2>4, ToSetAppend
  <2> QED
    BY <2>3, <2>5 DEF Has
<1> QED
  BY <1>1, <1>2

\* Between a step's two states an acknowledgement comes into the response thread's hand
\* only from the channel.
LEMMA AnswerInHandStep ==
  ASSUME [Next]_vars, ~InProxy(ResponseTake), NEW c, Has(AnswerInHand', c)
  PROVE  Has(AnswerInHand, c)
<1>1. rs' = "notify"
  BY HasShort DEF AnswerInHand
<1>2. UNCHANGED <<rs, rsMsg>>
  BY <1>1, ResponseSteps
     DEF ResponseThread, ResponseLoop, ResponseNotify, ResponseCallback, InProxy, InBase, rsVars,
         proxyVars
<1> QED
  BY <1>2 DEF AnswerInHand

\* A change is carried from place to place; one that was nowhere is of the call being made.
LEMMA UnderWayStep ==
  ASSUME Types, [Next]_vars
  PROVE  UnderWay' \subseteq UnderWay \cup {calls'}
<1> SUFFICES ASSUME NEW c, c \in UnderWay', c # calls' PROVE c \in UnderWay
  OBVIOUS
<1> DEFINE Rest == \/ Has(requestQueue, c) \/ Has(RequestInHand, c) \/ Has(reqChan, c)
                   \/ Has(processQueue, c) \/ Has(todo, c) \/ Has(respChan, c)
                   \/ Has(AnswerInHand, c)
           Rest2 == \/ Has(requestQueue', c) \/ Has(RequestInHand', c) \/ Has(reqChan', c)
                    \/ Has(processQueue', c) \/ Has(todo', c) \/ Has(respChan', c)
                    \/ Has(AnswerInHand', c)
<1>1. Rest2
  BY UnderWayPlacesAfter
<1>2. SUFFICES Rest
  BY UnderWayPlaces
<1>3. MessagesEverywhere /\ RequestTypes /\ ResponseTypes /\ ProcessTypes
  BY MessageSequences DEF Types
<1>4. InProxy(ResponseTake) \/ (Has(AnswerInHand', c) => Has(AnswerInHand, c))
  BY AnswerInHandStep
<1>5. CASE UNCHANGED messageVars
  <2>1. ~InProxy(ResponseTake)
    <3>1. ASSUME seen' = Append(seen, Head(respChan)), seen' = seen PROVE FALSE
      <4>1. Len(Append(seen, Head(respChan))) = Len(seen) + 1 /\ Len(seen) \in Nat
        BY <1>3 DEF ResponseTypes
      <4> QED
        BY <3>1, <4>1
    <3> QED
      BY <1>5, <3>1 DEF InProxy, ResponseTake, messageVars
  <2> QED
    BY <1>1, <1>4, <1>5, <2>1 DEF messageVars, rqVars, RequestInHand
<1>6. ASSUME NEW m \in RequestsForBase, Issues(m) PROVE Rest
  <2>1. ~IsChange(m, c)
    BY <1>6 DEF Issues, IsChange, RequestsForBase, Numbered, ForBase, Messages, RequestKinds,
                Passed
  <2>2. ~IsChange(NoRequest, c)
    BY DEF IsChange, NoRequest, Plain, Message
  <2>3. requestQueue' = PushTo(requestQueue, m, RequestSlots, NoRequest)
    BY <1>6 DEF Issues, Issue, PushRequest
  <2>4. Has(requestQueue', c) => Has(requestQueue, c)
    BY <1>3, <2>1, <2>2, <2>3, HasPush, RequestSlotsPositive DEF RequestTypes
  <2>5. UNCHANGED <<RequestInHand, reqChan, processQueue, todo, respChan, AnswerInHand>>
    BY <1>6 DEF Issues, rqVars, rsVars, chanVars, baseVars, RequestInHand, AnswerInHand
  <2> QED
    BY <1>1, <2>4, <2>5
<1>7. CASE InProxy(InitAnswered)
  <2>1. \/ requestQueue' = requestQueue
        \/ requestQueue' = PushTo(requestQueue, Plain("DESTROY_ON_INIT", 0), RequestSlots,
                                  NoRequest)
    BY <1>7 DEF InProxy, InitAnswered, PushRequest, queueVars
  <2>2. ~IsChange(NoRequest, c) /\ ~IsChange(Plain("DESTROY_ON_INIT", 0), c)
    BY DEF IsChange, NoRequest, Plain, Message
  <2>3. Has(requestQueue', c) => Has(requestQueue, c)
    BY <1>3, <2>1, <2>2, HasPush, RequestSlotsPositive DEF RequestTypes
  <2>4. UNCHANGED <<RequestInHand, reqChan, processQueue, todo, respChan, AnswerInHand>>
    BY <1>7 DEF InProxy, InitAnswered, rqVars, rsVars, chanVars, baseVars, RequestInHand,
                AnswerInHand
  <2> QED
    BY <1>1, <2>3, <2>4
<1>8. CASE InProxy(RequestPop)
  <2>1. /\ requestQueue # <<>> /\ requestQueue' = Tail(requestQueue)
        /\ rq' = "write" => rqMsg' = <<Head(requestQueue)>>
        /\ UNCHANGED <<reqChan, processQueue, todo, respChan, AnswerInHand>>
    BY <1>8 DEF InProxy, RequestPop, RequestThreadExits, rqVars, rsVars, chanVars, baseVars,
                AnswerInHand
  <2>2. /\ Has(requestQueue', c) => Has(requestQueue, c)
        /\ IsChange(Head(requestQueue), c) => Has(requestQueue, c)
    BY <1>3, <2>1, HasTail DEF RequestTypes
  <2>3. Has(RequestInHand', c) => IsChange(Head(requestQueue), c)
    BY <2>1, HasShort DEF RequestInHand
  <2> QED
    BY <1>1, <2>1, <2>2, <2>3
<1>9. CASE InProxy(RequestWrite)
  <2>1. /\ reqChan' = Append(reqChan, Head(rqMsg)) /\ rq = "write" /\ rq' # "write"
        /\ UNCHANGED <<requestQueue, processQueue, todo, respChan, AnswerInHand>>
    BY <1>9 DEF InProxy, RequestWrite, queueVars, rsVars, baseVars, AnswerInHand
  <2>2. IsChange(Head(rqMsg), c) => Has(RequestInHand, c)
    BY <1>3, <2>1, HasTail DEF RequestTypes, RequestInHand
  <2>3. Has(reqChan', c) => Has(reqChan, c) \/ IsChange(Head(rqMsg), c)
    BY <1>3, <2>1, HasAppend DEF RequestTypes
  <2>4. ~Has(RequestInHand', c)
    BY <2>1, HasShort DEF RequestInHand
  <2> QED
    BY <1>1, <2>1, <2>2, <2>3, <2>4
<1>10. CASE InProxy(RequestCompare)
  <2>1. /\ rq' # "write"
        /\ UNCHANGED <<requestQueue, reqChan, processQueue, todo, respChan, AnswerInHand>>
    BY <1>10 DEF InProxy, RequestCompare, RequestThreadExits, queueVars, rsVars, chanVars,
                 baseVars, AnswerInHand
  <2>2. ~Has(RequestInHand', c)
    BY <2>1, HasShort DEF RequestInHand
  <2> QED
    BY <1>1, <2>1, <2>2
<1>11. CASE InProxy(ResponseTake)
  <2>1. /\ respChan # <<>> /\ respChan' = Tail(respChan)
        /\ rs' = "notify" => rsMsg' = <<Head(respChan)>>
        /\ UNCHANGED <<requestQueue, RequestInHand, reqChan, processQueue, todo>>
    BY <1>11 DEF InProxy, ResponseTake, queueVars, rqVars, baseVars, RequestInHand
  <2>2. /\ Has(respChan', c) => Has(respChan, c)
        /\ IsChange(Head(respChan), c) => Has(respChan, c)
    BY <1>3, <2>1, HasTail DEF ResponseTypes
  <2>3. Has(AnswerInHand', c) => IsChange(Head(respChan), c)
    BY <2>1, HasShort DEF AnswerInHand
  <2> QED
    BY <1>1, <2>1, <2>2, <2>3
<1>12. CASE InBase(MainPreprocessorReady) \/ InBase(MainTellFailure) \/ InBase(TellProxy)
  <2>1. PICK kind \in {"ON_INIT_OK", "ON_INIT_FAILED", "ON_DESTROY"} :
          respChan' = Append(respChan, Plain(kind, 0))
    BY <1>12 DEF InBase, MainPreprocessorReady, MainTellFailure, TellProxy, Respond
  <2>2. ~IsChange(Plain(kind, 0), c)
    BY DEF IsChange, Plain, Message
  <2>3. Has(respChan', c) => Has(respChan, c)
    BY <1>3, <2>1, <2>2, HasAppend DEF ResponseTypes
  <2>4. UNCHANGED <<requestQueue, RequestInHand, reqChan, processQueue, todo, AnswerInHand>>
    BY <1>12 DEF InBase, MainPreprocessorReady, MainTellFailure, TellProxy, proxyVars, queueVars,
                 rqVars, rsVars, RequestInHand, AnswerInHand
  <2> QED
    BY <1>1, <2>3, <2>4
<1>13. CASE InBase(MainPreprocessorFails) \/ InBase(MainPush)
  <2>1. PICK kind \in {"DESTROY", "DATA_PROCESS"} :
          processQueue' = Append(processQueue, Plain(kind, 0))
    BY <1>13 DEF InBase, MainPreprocessorFails, MainPush, Frame
  <2>2. ~IsChange(Plain(kind, 0), c)
    BY DEF IsChange, Plain, Message
  <2>3. Has(processQueue', c) => Has(processQueue, c)
    BY <1>3, <2>1, <2>2, HasAppend DEF ProcessTypes
  <2>4. UNCHANGED <<requestQueue, RequestInHand, reqChan, todo, respChan, AnswerInHand>>
    BY <1>13 DEF InBase, MainPreprocessorFails, MainPush, proxyVars, queueVars, rqVars, rsVars,
                 chanVars, RequestInHand, AnswerInHand
  <2> QED
    BY <1>1, <2>3, <2>4
<1>14. CASE InBase(ProcessPop)
  <2> DEFINE m == Head(processQueue)
             a == Message("ON_CALLBACK", m.call, m.state)
  <2>1. /\ processQueue # <<>> /\ processQueue' = Tail(processQueue)
        /\ UNCHANGED <<requestQueue, RequestInHand, reqChan, respChan, AnswerInHand>>
    BY <1>14 DEF InBase, ProcessPop, proxyVars, queueVars, rqVars, rsVars, chanVars,
                 RequestInHand, AnswerInHand
  <2>2. /\ Has(processQueue', c) => Has(processQueue, c)
        /\ IsChange(m, c) => Has(processQueue, c)
    BY <1>3, <2>1, HasTail DEF ProcessTypes
  <2>3. \/ todo' \in Results
        \/ m.kind = "SET_STATE" /\ todo' = <<a>>
        \/ todo' = todo
    BY <1>14 DEF InBase, ProcessPop
  <2>4. todo' \in Results => ~Has(todo', c)
    <3>1. \A e \in {Event, SleepEvent} : ~IsChange(e, c)
      BY DEF IsChange, Event, SleepEvent, Plain, Message
    <3>2. ASSUME NEW t \in Seq({Event, SleepEvent}) PROVE ToSet(t) \subseteq {Event, SleepEvent}
      BY DEF ToSet
    <3> QED
      BY <3>1, <3>2, ResultsAreEvents DEF Has
  <2>5. m.kind = "SET_STATE" /\ IsChange(a, c) => IsChange(m, c)
    BY DEF IsChange, Message
  <2>6. Has(<<a>>, c) => IsChange(a, c)
    BY HasShort
  <2> HIDE DEF m, a
  <2> QED
    BY <1>1, <2>1, <2>2, <2>3, <2>4, <2>5, <2>6
<1>15. CASE InBase(ProcessWrite)
  <2>1. /\ todo # <<>> /\ todo' = Tail(todo) /\ respChan' = Append(respChan, Head(todo))
        /\ UNCHANGED <<requestQueue, RequestInHand, reqChan, processQueue, AnswerInHand>>
    BY <1>3, <1>15 DEF InBase, ProcessWrite, Respond, ProcessTypes, proxyVars, queueVars, rqVars,
                       rsVars, RequestInHand, AnswerInHand
  <2>2. /\ Has(todo', c) => Has(todo, c)
        /\ IsChange(Head(todo), c) => Has(todo, c)
    BY <1>3, <2>1, HasTail DEF ProcessTypes
  <2>3. Has(respChan', c) => Has(respChan, c) \/ IsChange(Head(todo), c)
    BY <1>3, <2>1, HasAppend DEF ResponseTypes
  <2> QED
    BY <1>1, <2>1, <2>2, <2>3
<1>16. CASE InBase(BaseTake)
  <2>1. /\ reqChan # <<>> /\ reqChan' = Tail(reqChan)
        /\ processQueue' \in {processQueue, Append(processQueue, Head(reqChan))}
        /\ UNCHANGED <<requestQueue, RequestInHand, todo, respChan, AnswerInHand>>
    BY <1>16 DEF InBase, BaseTake, proxyVars, queueVars, rqVars, rsVars, RequestInHand,
                 AnswerInHand
  <2>2. /\ Has(reqChan', c) => Has(reqChan, c)
        /\ IsChange(Head(reqChan), c) => Has(reqChan, c)
    BY <1>3, <2>1, HasTail DEF RequestTypes
  <2>3. Has(processQueue', c) => Has(processQueue, c) \/ IsChange(Head(reqChan), c)
    BY <1>3, <2>1, HasAppend DEF ProcessTypes
  <2> QED
    BY <1>1, <2>1, <2>2, <2>3
<1> HIDE DEF Rest
<1>17. ScalarTypes
  BY DEF Types
<1> QED
  BY <1>5, <1>6, <1>7, <1>8, <1>9, <1>10, <1>11, <1>12, <1>13, <1>14, <1>15, <1>16, <1>17,
     MessageSteps

\* A step within a synchronous call begins it with the flag cleared, or leaves call and
\* flag alone but for the response thread, which alone takes and notifies.
LEMMA SyncSteps ==
  ASSUME [Next]_vars, InSync'
  PROVE  \/ ~waitStateChange' /\ overlap' = UnderWay
         \/ /\ InSync /\ UNCHANGED <<calls, overlap>>
            /\ \/ UNCHANGED <<waitStateChange, seen>>
               \/ InProxy(ResponseTake) \/ InProxy(ResponseNotify)
<1> USE DEF InProxy, InSync
<1>1. CASE UNCHANGED vars
  BY <1>1 DEF vars, proxyVars, apiVars, stateVars, rsVars
<1>2. CASE BaseNext /\ UNCHANGED proxyVars /\ KeepsOverlap
  BY <1>2 DEF KeepsOverlap, proxyVars, apiVars, stateVars, rsVars
<1>3. CASE ProxyNext /\ UNCHANGED baseVars /\ KeepsOverlap
  <2>1. CASE ApiCall
    <3>1. SetStateSync
      BY <2>1 DEF ApiCall, MayCall, StartProcessStream, StopProcessStream, SetStateAsync,
                  PassRequest, DestroyRecorder
    <3> QED
      BY <1>3, <3>1 DEF SetStateSync, MayCall, KeepsOverlap
  <2>2. CASE ApiContinues
    <3>1. PICK s \in States : PushSetState(s)
      BY <2>2 DEF ApiContinues, InitLaunched, InitAnswered, InitFailureJoins, PushStart,
                  PauseRecording, SyncReturn, PushDestroy, DestroyJoins
    <3> QED
      BY <1>3, <3>1 DEF PushSetState, KeepsOverlap, stateVars, rsVars
  <2>3. CASE RequestThread \/ Recorder
    BY <1>3, <2>3 DEF RequestThread, RequestPop, RequestWrite, RequestCompare, Recorder,
                      RecordRead, RecordWrite, apiVars, stateVars, rsVars, KeepsOverlap
  <2>4. CASE ResponseThread
    BY <1>3, <2>4 DEF ResponseThread, ResponseLoop, ResponseTake, ResponseNotify,
                      ResponseCallback, apiVars, stateVars, KeepsOverlap
  <2> QED
    BY <1>3, <2>1, <2>2, <2>3, <2>4 DEF ProxyNext
<1> QED
  BY <1>1, <1>2, <1>3 DEF Next

\* Every step keeps the flag of a synchronous call its own.
LEMMA FlagStep ==
  ASSUME Types, FlagInv, [Next]_vars
  PROVE  FlagInv'
<1> SUFFICES ASSUME InSync'
             PROVE  /\ UnderWay' \subseteq overlap' \cup {calls'}
                    /\ waitStateChange' => Heard'
  BY DEF FlagInv
<1>1. UnderWay' \subseteq UnderWay \cup {calls'}
  BY UnderWayStep
<1>2. CASE ~waitStateChange' /\ overlap' = UnderWay
  BY <1>1, <1>2
<1>3. CASE InSync /\ UNCHANGED <<calls, overlap>>
  <2>1. UnderWay \subseteq overlap \cup {calls} /\ (waitStateChange => Heard)
    BY <1>3 DEF FlagInv
  <2>2. CASE UNCHANGED <<waitStateChange, seen>>
    BY <1>1, <1>3, <2>1, <2>2 DEF Heard
  <2>3. CASE InProxy(ResponseTake)
    <3>1. seen' = Append(seen, Head(respChan)) /\ waitStateChange' = waitStateChange
      BY <2>3 DEF InProxy, ResponseTake, stateVars
    <3>2. \A i \in DOMAIN seen : i \in DOMAIN seen' /\ seen'[i] = seen[i]
      BY <3>1 DEF Types, ResponseTypes
    <3> QED
      BY <1>1, <1>3, <2>1, <3>1, <3>2 DEF Heard
  <2>4. CASE InProxy(ResponseNotify)
    <3>1. rs = "notify" /\ seen' = seen
      BY <2>4 DEF InProxy, ResponseNotify
    <3>2. /\ rsMsg \in Seq(Messages(ResponseKinds)) /\ rsMsg # <<>> /\ seen # <<>>
          /\ rsMsg[1] = seen[Len(seen)] /\ rsMsg[1].kind = "ON_CALLBACK"
          /\ seen \in Seq(Messages(ResponseKinds))
      BY <3>1 DEF Types, ResponseTypes
    <3>3. rsMsg[1].call \in UnderWay
      <4>1. Has(AnswerInHand, rsMsg[1].call)
        BY <3>1, <3>2, HasTail DEF AnswerInHand, IsChange
      <4> QED
        BY <4>1, UnderWayPlaces
    <3>4. Len(seen) \in DOMAIN seen
      BY <3>2
    <3> QED
      BY <1>1, <1>3, <2>1, <3>1, <3>2, <3>3, <3>4 DEF Heard
  <2> QED
    BY <1>2, <1>3, <2>2, <2>3, <2>4, SyncSteps DEF FlagInv
<1> QED
  BY <1>2, <1>3, SyncSteps

CallInv == AnswerInv /\ NoEventYet /\ FlagInv

\* What the response thread hands over finds the one it is for, with calls of every kind,
\* timeouts and starts that fail: an event finds a callback unless a failed start took
\* it back, and the flag that ends a synchronous set_siren_state is raised for it or for
\* a change that it overlaps.
THEOREM FindTheirCall == Spec => []ResponsesFindTheirCall
<1>1. Init => CallInv
  <2> SUFFICES ASSUME Init PROVE CallInv
    OBVIOUS
  <2> USE DEF Init, ChannelInit, ProxyInit, BaseInit
  <2>1. AnswerInv
    BY InitAnswerInv
  <2>2. NoEventYet
    BY DEF NoEventYet, NoFrames, NoEvents, NoneOf
  <2>3. FlagInv
    BY DEF FlagInv, InSync
  <2> QED
    BY <2>1, <2>2, <2>3 DEF CallInv
<1>2. CallInv /\ [Next]_vars => CallInv'
  <2> SUFFICES ASSUME CallInv, [Next]_vars PROVE CallInv'
    OBVIOUS
  <2>1. AnswerInv /\ AnswerInv' /\ Types /\ Types' /\ ScalarTypes
    BY AnswerInvStep DEF CallInv, AnswerInv, Types
  <2>2. FlagInv'
    BY <2>1, FlagStep DEF CallInv
  <2>3. CASE hasCallback' \/ revoked'
    BY <2>1, <2>2, <2>3 DEF CallInv, NoEventYet
  <2>4. CASE ~hasCallback' /\ ~revoked'
    <3>1. NoFrames /\ NoEvents
      BY <2>1, <2>4, CallbackStays DEF CallInv, NoEventYet
    <3>2. NoFrames' /\ NoEvents'
      BY <2>1, <2>4, <3>1, NoFramesStep, NoEventsStep
    <3> QED
      BY <2>1, <2>2, <3>2 DEF CallInv, NoEventYet
  <2> QED
    BY <2>3, <2>4
<1>3. CallInv => ResponsesFindTheirCall
  BY DEF CallInv, NoEventYet, NoEvents, FlagInv, InSync, Heard, ResponsesFindTheirCall
<1> QED
  BY <1>1, <1>2, <1>3, PTL DEF Spec
=============================================================================
