---------------------- MODULE RecentConnectionsProofs ----------------------
(***************************************************************************)
(* Theorems about RecentConnections, for any texts, any limit and any      *)
(* number of saves.                                                        *)
(*                                                                         *)
(* StoresMostRecent does not survive a save by itself: the proof also has  *)
(* to know that what is stored is valid, so that nothing is lost in the    *)
(* JSON text (OnlyValid). Then the argument is about one upsert. No        *)
(* identity has two last uses (LastIsUnique), so at most one item leaves   *)
(* the list and Kept is the list without that item (KeptButOne, by         *)
(* induction over the list); the uses above it go down the list by one     *)
(* and the ones below it stay, which is what happens to their ranks        *)
(* (NewCount, NewRank). UpsertIsMostRecent puts the two together.          *)
(***************************************************************************)
EXTENDS RecentConnections, FiniteSetTheorems, WellFoundedInduction, TLAPS

-----------------------------------------------------------------------------
(* Induction, said of a set: the least number that is not in P is not 0, and *)
(* is not the successor of one that is.                                      *)
LEMMA Induction ==
    ASSUME NEW P \in SUBSET Nat, 0 \in P, \A n \in P : n + 1 \in P
    PROVE  P = Nat
<1> SUFFICES ASSUME P # Nat PROVE FALSE
    OBVIOUS
<1> DEFINE Q == Nat \ P
<1>1. \E x \in Q : \A y \in Q : ~(<<y, x>> \in OpToRel(<, Nat))
    BY WFMin, NatLessThanWellFounded
<1>2. PICK x \in Q : \A y \in Q : ~(y < x)
    BY <1>1 DEF OpToRel
<1>3. x # 0 /\ x - 1 \in Nat /\ x - 1 \notin Q
    BY <1>2
<1> QED
    BY <1>2, <1>3

(* A sequence without its item at p, of its first n items                    *)
Without(items, p, n) ==
    [k \in 1 .. (IF p <= n THEN n - 1 ELSE n) |->
        IF k < p THEN items[k] ELSE items[k + 1]]

(* The equation of the function that Kept is computed with                   *)
Keeps(f, items, I) ==
    f = [n \in 0 .. Len(items) |->
            IF n = 0 THEN <<>>
            ELSE IF n \in I THEN Append(f[n - 1], items[n]) ELSE f[n - 1]]

(* One more item is kept unless it is the one left out.                      *)
LEMMA WithoutNext ==
    ASSUME NEW T, NEW items \in Seq(T), NEW p \in Nat \ {0}, NEW n \in 1 .. Len(items)
    PROVE  /\ n = p => Without(items, p, n) = Without(items, p, n - 1)
           /\ n # p => Without(items, p, n) = Append(Without(items, p, n - 1), items[n])
           /\ Without(items, p, 0) = <<>>
<1> DEFINE w == Without(items, p, n - 1)
           m == IF p <= n - 1 THEN n - 2 ELSE n - 1
<1>1. n = p => Without(items, p, n) = Without(items, p, n - 1)
    BY DEF Without
<1>2. ASSUME n # p
      PROVE  Without(items, p, n) = Append(w, items[n])
    <2>1. m \in Nat /\ w = [k \in 1 .. m |-> IF k < p THEN items[k] ELSE items[k + 1]]
        BY DEF Without
    <2>2. w \in Seq(T) /\ Len(w) = m
        BY <2>1
    <2>3. Append(w, items[n]) = [k \in 1 .. m + 1 |-> IF k = m + 1 THEN items[n] ELSE w[k]]
        BY <2>2
    <2>4. \A k \in 1 .. m : w[k] = IF k < p THEN items[k] ELSE items[k + 1]
        BY <2>1
    <2>5. (IF p <= n THEN n - 1 ELSE n) = m + 1
        BY <1>2
    <2>6. (IF m + 1 < p THEN items[m + 1] ELSE items[m + 1 + 1]) = items[n]
        BY <1>2
    <2> HIDE DEF w, m
    <2>7. Without(items, p, n) = [k \in 1 .. m + 1 |-> IF k < p THEN items[k] ELSE items[k + 1]]
        BY <2>5 DEF Without
    <2> QED
        BY <2>1, <2>3, <2>4, <2>6, <2>7
<1>3. Without(items, p, 0) = <<>>
    BY DEF Without
<1> QED
    BY <1>1, <1>2, <1>3

(* The function is the one that leaves out p up to every n.                  *)
LEMMA KeepsIsWithout ==
    ASSUME NEW T, NEW items \in Seq(T), NEW p \in Nat \ {0}, NEW f,
           Keeps(f, items, DOMAIN items \ {p})
    PROVE  \A n \in 0 .. Len(items) : f[n] = Without(items, p, n)
<1> DEFINE P == {n \in Nat : n <= Len(items) => f[n] = Without(items, p, n)}
<1>0. Len(items) \in Nat /\ DOMAIN items = 1 .. Len(items)
    OBVIOUS
<1>1. 0 \in P
    <2>1. f[0] = <<>>
        BY <1>0 DEF Keeps
    <2>2. Without(items, p, 0) = <<>>
        BY DEF Without
    <2> QED
        BY <2>1, <2>2
<1>2. ASSUME NEW n \in P
      PROVE  n + 1 \in P
    <2> SUFFICES ASSUME n + 1 <= Len(items)
                 PROVE  f[n + 1] = Without(items, p, n + 1)
        OBVIOUS
    <2>1. f[n] = Without(items, p, n) /\ n + 1 \in 1 .. Len(items)
        BY <1>0, <1>2
    <2> DEFINE m == n + 1
    <2>2. m - 1 = n /\ m \in 0 .. Len(items) /\ m # 0
        BY <2>1
    <2>3. m \in DOMAIN items \ {p} <=> m # p
        BY <1>0, <2>1
    <2> HIDE DEF m
    <2>4. f[m] = IF m \in DOMAIN items \ {p} THEN Append(f[m - 1], items[m]) ELSE f[m - 1]
        BY <2>2 DEF Keeps
    <2>5. m = p => Without(items, p, m) = Without(items, p, m - 1)
        BY <2>1, <2>2, WithoutNext DEF m
    <2>6. m # p => Without(items, p, m) = Append(Without(items, p, m - 1), items[m])
        BY <2>1, <2>2, WithoutNext DEF m
    <2>7. f[m] = Without(items, p, m)
        BY <2>1, <2>2, <2>3, <2>4, <2>5, <2>6
    <2> QED
        BY <2>7 DEF m
<1>3. P = Nat
    <2> HIDE DEF P
    <2>1. P \subseteq Nat
        BY DEF P
    <2> QED
        BY <1>1, <1>2, <2>1, Induction
<1> QED
    BY <1>0, <1>3

(* There is such a function.                                                 *)
LEMMA WithoutKeeps ==
    ASSUME NEW T, NEW items \in Seq(T), NEW p \in Nat \ {0}
    PROVE  Keeps([n \in 0 .. Len(items) |-> Without(items, p, n)], items, DOMAIN items \ {p})
<1> DEFINE f == [n \in 0 .. Len(items) |-> Without(items, p, n)]
<1>0. Len(items) \in Nat /\ DOMAIN items = 1 .. Len(items)
    OBVIOUS
<1>1. ASSUME NEW n \in 0 .. Len(items)
      PROVE  Without(items, p, n) =
                IF n = 0 THEN <<>>
                ELSE IF n \in DOMAIN items \ {p} THEN Append(f[n - 1], items[n]) ELSE f[n - 1]
    <2>1. CASE n = 0
        BY <2>1 DEF Without
    <2>2. CASE n # 0
        <3>1. n \in 1 .. Len(items) /\ n - 1 \in 0 .. Len(items)
            BY <1>0, <2>2
        <3>2. f[n - 1] = Without(items, p, n - 1)
            BY <3>1
        <3>3. n \in DOMAIN items \ {p} <=> n # p
            BY <1>0, <3>1
        <3> HIDE DEF f
        <3> QED
            BY <2>2, <3>1, <3>2, <3>3, WithoutNext
    <2> QED
        BY <2>1, <2>2
<1> QED
    BY <1>1 DEF Keeps

(* All but one item: what is left of a list                                  *)
LEMMA KeptButOne ==
    ASSUME NEW T, NEW items \in Seq(T), NEW p \in Nat \ {0}
    PROVE  Kept(items, DOMAIN items \ {p}) = Without(items, p, Len(items))
<1> DEFINE I == DOMAIN items \ {p}
           kept == CHOOSE f : Keeps(f, items, I)
<1>1. Keeps(kept, items, I)
    BY WithoutKeeps
<1>2. Kept(items, I) = kept[Len(items)]
    BY DEF Kept, Keeps
<1>3. ASSUME NEW f, Keeps(f, items, I)
      PROVE  f[Len(items)] = Without(items, p, Len(items))
    <2>1. Len(items) \in 0 .. Len(items)
        OBVIOUS
    <2> QED
        BY <1>3, <2>1, KeepsIsWithout
<1> HIDE DEF kept
<1> QED
    BY <1>1, <1>2, <1>3

(* Nothing is left out: p is behind the last item.                           *)
LEMMA KeptAll ==
    ASSUME NEW T, NEW items \in Seq(T)
    PROVE  Kept(items, DOMAIN items) = items
<1> DEFINE n == Len(items)
<1>1. n \in Nat /\ DOMAIN items = 1 .. n /\ n + 1 \notin 1 .. n
    OBVIOUS
<1>2. Kept(items, DOMAIN items) = Without(items, Len(items) + 1, Len(items))
    <2>1. DOMAIN items \ {n + 1} = DOMAIN items /\ n + 1 \in Nat \ {0}
        BY <1>1
    <2> QED
        BY <2>1, KeptButOne
<1>3. Without(items, Len(items) + 1, Len(items)) = items
    BY DEF Without
<1> QED
    BY <1>2, <1>3

-----------------------------------------------------------------------------
(* What a click on Connect lets through, as the list stores it and as it is  *)
(* read                                                                      *)
GoodForms   == {f \in Forms : validate(f)}
GoodConfigs == {c \in Configs : validate(c) /\ c.domain # NoText}

ValidPorts  == 1 .. 65535

(* validate, without the numbers                                             *)
LEMMA Validates ==
    ASSUME NEW c
    PROVE  validate(c) <=> /\ c.host # NoText /\ c.port \in ValidPorts
                           /\ c.username # NoText /\ c.password # NoText
    BY SMT DEF validate, ValidPorts

(* A valid form is a good configuration, a good configuration is stored as a *)
(* valid form, and both are complete.                                        *)
LEMMA GoodConversions ==
    /\ \A f \in GoodForms : Complete(f) /\ ConfigOf(f) \in GoodConfigs
    /\ \A c \in GoodConfigs : FormOf(c) \in GoodForms /\ ConfigOf(FormOf(c)) = c
<1>1. ASSUME NEW f \in GoodForms
      PROVE  Complete(f) /\ ConfigOf(f) \in GoodConfigs
    <2>1. Complete(f)
        BY Validates DEF GoodForms, Complete
    <2>2. ConfigOf(f) = [host |-> f.host, port |-> f.port, username |-> f.username,
                         password |-> f.password,
                         domain |-> IF f.domain = NoText THEN Null ELSE f.domain]
        BY DEF GoodForms, Forms, ConfigOf
    <2>3. Null # NoText
        BY TextsAssumption
    <2> QED
        BY <2>1, <2>2, <2>3, Validates, TextsAssumption DEF GoodForms, GoodConfigs, Forms, Configs
<1>2. ASSUME NEW c \in GoodConfigs
      PROVE  FormOf(c) \in GoodForms /\ ConfigOf(FormOf(c)) = c
    <2>1. FormOf(c) = [host |-> c.host, port |-> c.port, username |-> c.username,
                       password |-> c.password,
                       domain |-> IF c.domain = Null THEN NoText ELSE c.domain]
        BY DEF GoodConfigs, Configs, FormOf
    <2>2. FormOf(c) \in GoodForms
        BY <2>1, Validates, TextsAssumption DEF GoodForms, GoodConfigs, Forms, Configs
    <2>3. c = [host |-> c.host, port |-> c.port, username |-> c.username,
               password |-> c.password, domain |-> c.domain]
        BY DEF GoodConfigs, Configs
    <2>4. ConfigOf(FormOf(c)) =
                [host |-> c.host, port |-> c.port, username |-> c.username,
                 password |-> c.password,
                 domain |-> IF FormOf(c).domain = NoText THEN Null ELSE FormOf(c).domain]
        BY <2>1 DEF ConfigOf
    <2>5. (IF FormOf(c).domain = NoText THEN Null ELSE FormOf(c).domain) = c.domain
        BY <2>1 DEF GoodConfigs
    <2> QED
        BY <2>2, <2>3, <2>4, <2>5
<1> QED
    BY <1>1, <1>2

(* The list is read entry by entry: none of a good list is skipped.          *)
LEMMA DecodeGood ==
    ASSUME NEW raw \in Seq(GoodForms)
    PROVE  /\ decodeConnections(raw) = [i \in DOMAIN raw |-> ConfigOf(raw[i])]
           /\ decodeConnections(raw) \in Seq(GoodConfigs)
           /\ Len(decodeConnections(raw)) = Len(raw)
<1> DEFINE list == [i \in DOMAIN raw |-> ConfigOf(raw[i])]
<1>1. DOMAIN raw = 1 .. Len(raw) /\ Len(raw) \in Nat
    OBVIOUS
<1>2. \A i \in DOMAIN raw : raw[i] \in GoodForms
    OBVIOUS
<1>3. {i \in DOMAIN raw : Complete(raw[i])} = DOMAIN raw
    BY <1>2, GoodConversions
<1>4. \A i \in DOMAIN raw : ConfigOf(raw[i]) \in GoodConfigs
    BY <1>2, GoodConversions
<1>5. list \in Seq(GoodConfigs) /\ DOMAIN list = DOMAIN raw /\ Len(list) = Len(raw)
    BY <1>1, <1>4
<1>6. decodeConnections(raw) = Kept(list, DOMAIN list)
    BY <1>3, <1>5 DEF decodeConnections
<1> HIDE DEF list
<1>7. Kept(list, DOMAIN list) = list
    BY <1>5, KeptAll
<1> QED
    BY <1>5, <1>6, <1>7 DEF list

(* What is written is what is read.                                          *)
LEMMA DecodeEncode ==
    ASSUME NEW list \in Seq(GoodConfigs)
    PROVE  /\ encodeConnections(list) \in Seq(GoodForms)
           /\ decodeConnections(encodeConnections(list)) = list
<1> DEFINE raw == encodeConnections(list)
<1>1. DOMAIN list = 1 .. Len(list) /\ Len(list) \in Nat
    OBVIOUS
<1>2. \A i \in DOMAIN list : list[i] \in GoodConfigs
    OBVIOUS
<1>3. \A i \in DOMAIN list : FormOf(list[i]) \in GoodForms /\ ConfigOf(FormOf(list[i])) = list[i]
    BY <1>2, GoodConversions
<1>4. raw = [i \in 1 .. Len(list) |-> FormOf(list[i])]
    BY <1>1 DEF encodeConnections
<1>5. raw \in Seq(GoodForms) /\ DOMAIN raw = DOMAIN list
    BY <1>1, <1>3, <1>4
<1>6. \A i \in DOMAIN list : ConfigOf(raw[i]) = list[i]
    BY <1>1, <1>3, <1>4
<1> HIDE DEF raw
<1>7. decodeConnections(raw) = [i \in DOMAIN raw |-> ConfigOf(raw[i])]
    BY <1>5, DecodeGood
<1>8. list = [i \in DOMAIN list |-> list[i]]
    BY <1>1
<1>9. decodeConnections(raw) = list
    BY <1>5, <1>6, <1>7, <1>8
<1> QED
    BY <1>5, <1>9 DEF raw

-----------------------------------------------------------------------------
(* The identities that n saves of the history u were last used by, and how   *)
(* many of them were used after save i                                       *)
Last(u, n)  == {i \in 1 .. n : \A j \in i + 1 .. n : Identity(u[j]) # Identity(u[i])}
Above(L, i) == {j \in L : j > i}
Rank(L, i)  == Cardinality(Above(L, i))

(* A rank is less than the number of uses, and a later use has a lower one.  *)
LEMMA Ranks ==
    ASSUME NEW n \in Nat, NEW L \in SUBSET (1 .. n)
    PROVE  /\ IsFiniteSet(L) /\ Cardinality(L) \in Nat
           /\ \A i \in L : Rank(L, i) \in Nat /\ Rank(L, i) < Cardinality(L)
           /\ \A i, j \in L : i < j => Rank(L, j) < Rank(L, i)
<1>1. IsFiniteSet(L) /\ Cardinality(L) \in Nat
    <2>1. IsFiniteSet(1 .. n)
        BY FS_Interval
    <2>2. IsFiniteSet(L)
        BY <2>1, FS_Subset
    <2> QED
        BY <2>2, FS_CardinalityType
<1>2. ASSUME NEW i \in L
      PROVE  /\ IsFiniteSet(Above(L, i)) /\ Rank(L, i) \in Nat
             /\ Rank(L, i) < Cardinality(L)
    <2>1. Above(L, i) \in SUBSET L /\ Above(L, i) # L
        BY DEF Above
    <2>2. /\ IsFiniteSet(Above(L, i)) /\ Cardinality(Above(L, i)) <= Cardinality(L)
          /\ Cardinality(L) # Cardinality(Above(L, i))
        BY <1>1, <2>1, FS_Subset
    <2>3. Cardinality(Above(L, i)) \in Nat
        BY <2>2, FS_CardinalityType
    <2> QED
        BY <1>1, <2>2, <2>3 DEF Rank
<1>3. ASSUME NEW i \in L, NEW j \in L, i < j
      PROVE  Rank(L, j) < Rank(L, i)
    <2>0. L \subseteq Int
        OBVIOUS
    <2>1. Above(L, j) \in SUBSET Above(L, i) /\ Above(L, j) # Above(L, i)
        <3>1. \A x \in L : x > j => x > i
            BY <1>3, <2>0
        <3>2. j \in Above(L, i) /\ j \notin Above(L, j)
            BY <1>3, <2>0 DEF Above
        <3> QED
            BY <3>1, <3>2 DEF Above
    <2>2. /\ Cardinality(Above(L, j)) <= Cardinality(Above(L, i))
          /\ Cardinality(Above(L, j)) # Cardinality(Above(L, i))
        BY <1>2, <2>1, FS_Subset
    <2>3. Rank(L, j) \in Nat /\ Rank(L, i) \in Nat
        BY <1>2
    <2> QED
        BY <2>2, <2>3 DEF Rank
<1> QED
    BY <1>1, <1>2, <1>3

(* Equal ranks are of one use.                                               *)
LEMMA RankIsInjective ==
    ASSUME NEW n \in Nat, NEW L \in SUBSET (1 .. n), NEW i \in L, NEW j \in L,
           Rank(L, i) = Rank(L, j)
    PROVE  i = j
<1>1. i \in Int /\ j \in Int
    OBVIOUS
<1>2. /\ Rank(L, i) \in Nat /\ Rank(L, j) \in Nat
      /\ i < j => Rank(L, j) < Rank(L, i)
      /\ j < i => Rank(L, i) < Rank(L, j)
    BY Ranks
<1> QED
    BY <1>1, <1>2

(* The uses after save n + 1, which takes the place of use q                 *)
NewUses(L, q, n) == (L \ {q}) \cup {n + 1}

(* What one more save does to the ranks: it is a use above all the others,   *)
(* and the use q of the same identity, if there is one, is gone.             *)
LEMMA NewCount ==
    ASSUME NEW n \in Nat, NEW L \in SUBSET (1 .. n), NEW q \in Nat
    PROVE  /\ Cardinality(NewUses(L, q, n)) =
                 IF q \in L THEN Cardinality(L) ELSE Cardinality(L) + 1
           /\ Rank(NewUses(L, q, n), n + 1) = 0
<1> DEFINE M == NewUses(L, q, n)
<1>1. L \subseteq Int /\ n + 1 \notin L /\ \A i \in L : i < n + 1
    OBVIOUS
<1>2. IsFiniteSet(L) /\ Cardinality(L) \in Nat
    BY Ranks
<1>3. M = (L \ {q}) \cup {n + 1}
    BY DEF NewUses
<1> HIDE DEF M
<1>4. Cardinality(M) = IF q \in L THEN Cardinality(L) ELSE Cardinality(L) + 1
    <2>1. /\ IsFiniteSet(L \ {q})
          /\ Cardinality(L \ {q}) = IF q \in L THEN Cardinality(L) - 1 ELSE Cardinality(L)
        BY <1>2, FS_RemoveElement
    <2>2. n + 1 \notin L \ {q}
        BY <1>1
    <2>3. Cardinality(M) = Cardinality(L \ {q}) + 1
        BY <1>3, <2>1, <2>2, FS_AddElement
    <2> QED
        BY <1>2, <2>1, <2>3
<1>5. Rank(M, n + 1) = 0
    <2>1. \A i \in M : ~ (i > n + 1)
        BY <1>1, <1>3
    <2>2. Above(M, n + 1) = {}
        BY <2>1 DEF Above
    <2> QED
        BY <2>2, FS_EmptySet DEF Rank
<1> QED
    BY <1>4, <1>5 DEF M

(* A use that stays: it goes up by one, unless q was above it.               *)
LEMMA NewRank ==
    ASSUME NEW n \in Nat, NEW L \in SUBSET (1 .. n), NEW q \in Nat, NEW i \in L, i # q
    PROVE  Rank(NewUses(L, q, n), i) =
                IF q \in Above(L, i) THEN Rank(L, i) ELSE Rank(L, i) + 1
<1> DEFINE M == NewUses(L, q, n)
           A == Above(L, i)
<1>1. L \subseteq Int /\ n + 1 \notin L /\ i < n + 1
    OBVIOUS
<1>2. A \in SUBSET L
    BY DEF Above
<1>3. Above(M, i) = (A \ {q}) \cup {n + 1}
    BY <1>1 DEF Above, NewUses
<1> HIDE DEF M, A
<1>4. IsFiniteSet(A) /\ Cardinality(A) \in Nat
    <2>1. IsFiniteSet(L)
        BY Ranks
    <2> QED
        BY <1>2, <2>1, FS_Subset, FS_CardinalityType
<1>5. /\ IsFiniteSet(A \ {q})
      /\ Cardinality(A \ {q}) = IF q \in A THEN Cardinality(A) - 1 ELSE Cardinality(A)
    BY <1>4, FS_RemoveElement
<1>6. n + 1 \notin A \ {q}
    BY <1>1, <1>2
<1>7. Rank(M, i) = Cardinality(A \ {q}) + 1
    BY <1>3, <1>5, <1>6, FS_AddElement DEF Rank
<1>8. Rank(M, i) = IF q \in A THEN Cardinality(A) ELSE Cardinality(A) + 1
    BY <1>4, <1>5, <1>7
<1> QED
    BY <1>8 DEF Rank, M, A

-----------------------------------------------------------------------------
(* No identity was last used twice.                                          *)
LEMMA LastIsUnique ==
    ASSUME NEW u, NEW n \in Nat, NEW i \in Last(u, n), NEW j \in Last(u, n),
           Identity(u[i]) = Identity(u[j])
    PROVE  i = j
<1>1. i \in 1 .. n /\ j \in 1 .. n
    BY DEF Last
<1>2. /\ \A k \in i + 1 .. n : Identity(u[k]) # Identity(u[i])
      /\ \A k \in j + 1 .. n : Identity(u[k]) # Identity(u[j])
    BY DEF Last
<1>3. j \notin i + 1 .. n /\ i \notin j + 1 .. n
    BY <1>2
<1> QED
    BY <1>1, <1>3

(* What was saved later does not matter.                                     *)
LEMMA LastOfPrefix ==
    ASSUME NEW u, NEW v, NEW n \in Nat, \A i \in 1 .. n : u[i] = v[i]
    PROVE  Last(u, n) = Last(v, n)
<1>1. \A i \in 1 .. n : i + 1 .. n \subseteq 1 .. n
    OBVIOUS
<1>2. ASSUME NEW i \in 1 .. n
      PROVE  (\A j \in i + 1 .. n : Identity(u[j]) # Identity(u[i])) <=>
             (\A j \in i + 1 .. n : Identity(v[j]) # Identity(v[i]))
    BY <1>1
<1> QED
    BY <1>2 DEF Last

(* One more save: its use is the last, and the one of the same identity, q   *)
(* if there is one, is no longer the last of it.                             *)
LEMMA LastOfAppend ==
    ASSUME NEW S, NEW u \in Seq(S), NEW c \in S, NEW q \in Nat,
           \A i \in Last(u, Len(u)) : Identity(u[i]) = Identity(c) <=> i = q
    PROVE  Last(Append(u, c), Len(u) + 1) = (Last(u, Len(u)) \ {q}) \cup {Len(u) + 1}
<1> DEFINE n == Len(u)
           v == Append(u, c)
           L == Last(u, n)
           L2 == Last(v, n + 1)
<1>1. n \in Nat /\ v[n + 1] = c /\ \A i \in 1 .. n : v[i] = u[i]
    OBVIOUS
<1>2. Last(v, n) = L
    BY <1>1, LastOfPrefix
<1> HIDE DEF n, v
<1>3. n + 1 \in L2
    <2>1. (n + 1) + 1 .. n + 1 = {} /\ n + 1 \in 1 .. n + 1
        BY <1>1
    <2> QED
        BY <2>1 DEF Last
<1>4. ASSUME NEW i \in 1 .. n
      PROVE  i \in L2 <=> i \in L /\ Identity(u[i]) # Identity(c)
    <2>1. i + 1 .. n + 1 = (i + 1 .. n) \cup {n + 1} /\ i \in 1 .. n + 1
        BY <1>1
    <2>2. i \in L2 <=> (i \in Last(v, n) /\ Identity(v[n + 1]) # Identity(v[i]))
        BY <2>1 DEF Last
    <2> QED
        BY <1>1, <1>2, <2>2
<1>5. L \subseteq 1 .. n /\ L2 \subseteq (1 .. n) \cup {n + 1}
    <2>1. 1 .. n + 1 = (1 .. n) \cup {n + 1}
        BY <1>1
    <2> QED
        BY <2>1 DEF Last
<1>6. \A i \in L : Identity(u[i]) = Identity(c) <=> i = q
    BY DEF n
<1> HIDE DEF L, L2
<1>7. L2 = (L \ {q}) \cup {n + 1}
    BY <1>3, <1>4, <1>5, <1>6
<1> QED
    BY <1>7 DEF L, L2, n, v

(* MostRecent, of any history u                                              *)
IsMostRecent(list, u, n) ==
    LET L == Last(u, n) IN
    /\ Len(list) = IF Cardinality(L) < MaxCount THEN Cardinality(L) ELSE MaxCount
    /\ \A k \in DOMAIN list : \E i \in L : list[k] = u[i] /\ Rank(L, i) = k - 1

(* The list as of n saves does not depend on what was saved later.           *)
LEMMA MostRecentOfPrefix ==
    ASSUME NEW list, NEW u, NEW v, NEW n \in Nat, \A i \in 1 .. n : u[i] = v[i],
           IsMostRecent(list, u, n)
    PROVE  IsMostRecent(list, v, n)
<1>1. Last(u, n) = Last(v, n)
    BY LastOfPrefix
<1>2. \A i \in Last(u, n) : u[i] = v[i]
    BY DEF Last
<1> QED
    BY <1>1, <1>2 DEF IsMostRecent
(* The limit cuts a list that is not empty.                                  *)
LEMMA LimitOfList ==
    ASSUME NEW S, NEW c \in S, NEW w \in Seq(S)
    PROVE  LET m == applyLimit(<<c>> \o w) IN
           /\ m \in Seq(S) /\ DOMAIN m = 1 .. Len(m) /\ Len(m) \in Nat
           /\ Len(m) = IF Len(w) + 1 < MaxCount THEN Len(w) + 1 ELSE MaxCount
           /\ m[1] = c /\ \A k \in 2 .. Len(m) : k - 1 \in DOMAIN w /\ m[k] = w[k - 1]
<1> DEFINE all == <<c>> \o w
           e == IF Len(all) < MaxCount THEN Len(all) ELSE MaxCount
           m == SubSeq(all, 1, e)
<1>1. MaxCount \in Nat \ {0}
    BY BoundsAssumption
<1>2. /\ all \in Seq(S) /\ Len(all) = Len(w) + 1 /\ Len(w) \in Nat /\ all[1] = c
      /\ \A k \in 2 .. Len(all) : k - 1 \in DOMAIN w /\ all[k] = w[k - 1]
    OBVIOUS
<1> HIDE DEF all
<1>3. e \in 1 .. Len(all)
    BY <1>1, <1>2
<1> HIDE DEF e
<1>4. m \in Seq(S) /\ Len(m) = e /\ \A k \in 1 .. e : m[k] = all[k]
    BY <1>2, <1>3
<1>5. applyLimit(all) = m
    BY DEF applyLimit, e
<1> HIDE DEF m
<1>6. DOMAIN m = 1 .. Len(m) /\ Len(m) \in Nat
    BY <1>4
<1>7. m[1] = c /\ \A k \in 2 .. Len(m) : k - 1 \in DOMAIN w /\ m[k] = w[k - 1]
    BY <1>2, <1>3, <1>4
<1>8. Len(m) = IF Len(w) + 1 < MaxCount THEN Len(w) + 1 ELSE MaxCount
    BY <1>2, <1>4 DEF e
<1> QED
    BY <1>4, <1>5, <1>6, <1>7, <1>8 DEF all

(* upsert turns the most recent connections of a history into those of the   *)
(* history with one more save. q is the last use of the saved identity, if   *)
(* there is one, and p its place on the list, behind the list if it is not   *)
(* on it: what is in front of p is pushed back by one, what is behind stays. *)
LEMMA UpsertIsMostRecent ==
    ASSUME NEW S, NEW u \in Seq(S), NEW c \in S, NEW list \in Seq(S),
           IsMostRecent(list, u, Len(u))
    PROVE  /\ upsert(list, c) \in Seq(S)
           /\ IsMostRecent(upsert(list, c), Append(u, c), Len(Append(u, c)))
<1> DEFINE n == Len(u)
           v == Append(u, c)
           L == Last(u, n)
           C == Cardinality(L)
           M == Last(v, n + 1)
           q == IF \E i \in L : Identity(u[i]) = Identity(c)
                THEN CHOOSE i \in L : Identity(u[i]) = Identity(c) ELSE 0
           r == Rank(L, q)
           p == IF q \in L /\ r < MaxCount THEN r + 1 ELSE Len(list) + 1
           w == Kept(list, DOMAIN list \ {p})
           m == applyLimit(<<c>> \o w)
<1>1. /\ n \in Nat /\ Len(v) = n + 1 /\ v[n + 1] = c
      /\ \A i \in 1 .. n : v[i] = u[i] /\ u[i] \in S
    OBVIOUS
<1>2. Len(list) \in Nat /\ DOMAIN list = 1 .. Len(list) /\ MaxCount \in Nat \ {0}
    BY BoundsAssumption
<1>3. /\ Len(list) = IF C < MaxCount THEN C ELSE MaxCount
      /\ \A k \in DOMAIN list : \E i \in L : list[k] = u[i] /\ Rank(L, i) = k - 1
    BY DEF IsMostRecent
<1>4. L \in SUBSET (1 .. n)
    BY DEF Last
<1>5. \A i, j \in L : Identity(u[i]) = Identity(u[j]) => i = j
    BY <1>1, LastIsUnique
<1> HIDE DEF n, v, L, M
<1>6. q \in Nat /\ \A i \in L : Identity(u[i]) = Identity(c) <=> i = q
    <2>1. CASE \E i \in L : Identity(u[i]) = Identity(c)
        <3>1. q \in L /\ Identity(u[q]) = Identity(c)
            BY <2>1
        <3> HIDE DEF q
        <3> QED
            BY <1>1, <1>4, <1>5, <3>1
    <2>2. CASE ~ \E i \in L : Identity(u[i]) = Identity(c)
        BY <1>1, <1>4, <2>2
    <2> QED
        BY <2>1, <2>2
<1> HIDE DEF q
<1>7. M = (L \ {q}) \cup {n + 1}
    BY <1>6, LastOfAppend DEF L, M, n, v
<1>8. /\ Cardinality(M) = IF q \in L THEN C ELSE C + 1
      /\ Rank(M, n + 1) = 0
      /\ \A i \in L : i # q => Rank(M, i) = IF q \in Above(L, i) THEN Rank(L, i)
                                                               ELSE Rank(L, i) + 1
    <2>1. M = NewUses(L, q, n)
        BY <1>7 DEF NewUses
    <2>2. n \in Nat
        BY <1>1
    <2> HIDE DEF M
    <2>3. Cardinality(M) = IF q \in L THEN C ELSE C + 1
        BY <1>4, <1>6, <2>1, <2>2, NewCount
    <2>4. Rank(M, n + 1) = 0
        BY <1>4, <1>6, <2>1, <2>2, NewCount
    <2>5. ASSUME NEW i \in L, i # q
          PROVE  Rank(M, i) = IF q \in Above(L, i) THEN Rank(L, i) ELSE Rank(L, i) + 1
        BY <1>4, <1>6, <2>1, <2>2, <2>5, NewRank
    <2> QED
        BY <2>3, <2>4, <2>5
<1>9. C \in Nat /\ (q \in L => r \in Nat /\ r < C)
    BY <1>1, <1>4, Ranks
<1> HIDE DEF C, r
<1>10. p \in 1 .. Len(list) + 1
    BY <1>2, <1>3, <1>9
<1>11. ASSUME NEW k \in DOMAIN list, NEW i \in L, Rank(L, i) = k - 1
       PROVE  /\ k = p <=> i = q
              /\ k < p => q \notin Above(L, i)
              /\ k > p => q \in Above(L, i)
    <2>0. q \in Above(L, i) <=> q \in L /\ q > i
        BY DEF Above
    <2>1. k \in Nat /\ 1 <= k /\ k <= Len(list) /\ i \in Nat
        BY <1>2, <1>4
    <2>2. CASE q \notin L
        <3>1. p = Len(list) + 1
            BY <2>2
        <3> QED
            BY <1>2, <2>0, <2>1, <2>2, <3>1
    <2>3. CASE q \in L
        <3>1. /\ q < i => Rank(L, i) < r
              /\ i < q => r < Rank(L, i)
              /\ Rank(L, i) = r => i = q
              /\ i = q => Rank(L, i) = r
            BY <1>1, <1>4, <2>3, Ranks, RankIsInjective DEF r
        <3>2. CASE r < MaxCount
            <4>1. p = r + 1
                BY <2>3, <3>2
            <4> QED
                BY <1>6, <1>9, <1>11, <2>0, <2>1, <2>3, <3>1, <4>1
        <3>3. CASE ~ (r < MaxCount)
            <4>1. p = Len(list) + 1 /\ Len(list) <= r
                BY <1>2, <1>3, <1>9, <2>3, <3>3
            <4> QED
                BY <1>2, <1>6, <1>9, <1>11, <2>0, <2>1, <2>3, <3>1, <4>1
        <3> QED
            BY <3>2, <3>3
    <2> QED
        BY <2>2, <2>3
<1>12. upsert(list, c) = m
    <2>1. ASSUME NEW k \in DOMAIN list
          PROVE  Identity(list[k]) # Identity(c) <=> k # p
        <3>1. PICK i \in L : list[k] = u[i] /\ Rank(L, i) = k - 1
            BY <1>3
        <3> QED
            BY <1>6, <1>11, <3>1
    <2>2. {k \in DOMAIN list : Identity(list[k]) # Identity(c)} = DOMAIN list \ {p}
        BY <2>1
    <2> QED
        BY <2>2 DEF upsert
<1>13. w = Without(list, p, Len(list))
    BY <1>2, <1>10, KeptButOne
<1> HIDE DEF p, w
<1>14. /\ w \in Seq(S) /\ DOMAIN w = 1 .. Len(w)
       /\ Len(w) = IF p <= Len(list) THEN Len(list) - 1 ELSE Len(list)
       /\ \A k \in DOMAIN w : w[k] = IF k < p THEN list[k] ELSE list[k + 1]
    BY <1>2, <1>10, <1>13 DEF Without
<1>indices. Len(w) \in Nat /\ \A k \in DOMAIN w : k \in Nat /\ 1 <= k /\ k <= Len(w)
    BY <1>14
<1>15. ASSUME NEW k \in DOMAIN w
       PROVE  \E i \in L \ {q} : w[k] = u[i] /\ Rank(M, i) = k
    <2>1. CASE k < p
        <3>0. k \in Nat /\ 1 <= k /\ k <= Len(list)
            <4>1. k \in Nat /\ 1 <= k
                BY <1>indices
            <4>2. p \in Nat /\ p <= Len(list) + 1
                BY <1>2, <1>10
            <4> QED
                BY <1>2, <2>1, <4>1, <4>2
        <3>1. k \in DOMAIN list /\ w[k] = list[k]
            <4>1. w[k] = IF k < p THEN list[k] ELSE list[k + 1]
                BY <1>14
            <4>2. k \in 1 .. Len(list)
                BY <1>2, <3>0
            <4>3. w[k] = list[k]
                BY <4>1, <2>1
            <4> QED
                BY <1>2, <4>2, <4>3
        <3>2. PICK i \in L : list[k] = u[i] /\ Rank(L, i) = k - 1
            BY <1>3, <3>1
        <3>3. i # q /\ q \notin Above(L, i)
            BY <1>2, <1>10, <1>11, <2>1, <3>1, <3>2
        <3>4. Rank(M, i) = (k - 1) + 1
            BY <1>8, <3>2, <3>3
        <3> QED
            BY <1>2, <3>1, <3>2, <3>3, <3>4
    <2>2. CASE ~ (k < p)
        <3>0. k \in Nat /\ 1 <= k /\ k + 1 <= Len(list) /\ k + 1 > p
            <4>1. k \in Nat /\ 1 <= k /\ k <= Len(w)
                BY <1>indices
            <4>2. p \in Nat /\ p <= Len(list) + 1
                BY <1>2, <1>10
            <4>3. Len(w) = IF p <= Len(list) THEN Len(list) - 1 ELSE Len(list)
                BY <1>14
            <4>4. p <= k /\ k \in Int /\ p \in Int /\ Len(list) \in Int
                BY <1>2, <2>2, <4>1, <4>2
            <4>5. p <= Len(list)
                <5> SUFFICES ASSUME ~ (p <= Len(list)) PROVE FALSE
                    OBVIOUS
                <5>1. Len(w) = Len(list)
                    BY <4>3
                <5> QED
                    BY <4>1, <4>4, <5>1
            <4>6. Len(w) = Len(list) - 1
                BY <4>3, <4>5
            <4>7. k + 1 <= Len(list)
                BY <4>1, <4>4, <4>6
            <4> QED
                BY <4>1, <4>4, <4>7
        <3>1. k + 1 \in DOMAIN list /\ w[k] = list[k + 1] /\ k + 1 > p /\ k \in Nat
            <4>1. w[k] = IF k < p THEN list[k] ELSE list[k + 1]
                BY <1>14
            <4>2. k + 1 \in 1 .. Len(list)
                BY <1>2, <3>0
            <4>3. w[k] = list[k + 1]
                BY <4>1, <2>2
            <4> QED
                BY <1>2, <3>0, <4>2, <4>3
        <3>2. PICK i \in L : list[k + 1] = u[i] /\ Rank(L, i) = (k + 1) - 1
            BY <1>3, <3>1
        <3>3. i # q /\ q \in Above(L, i)
            BY <1>2, <1>10, <1>11, <3>1, <3>2
        <3>4. Rank(M, i) = (k + 1) - 1
            BY <1>8, <3>2, <3>3
        <3> QED
            BY <3>1, <3>2, <3>3, <3>4
    <2> QED
        BY <2>1, <2>2
<1>16. /\ m \in Seq(S) /\ DOMAIN m = 1 .. Len(m) /\ Len(m) \in Nat
       /\ Len(m) = IF Len(w) + 1 < MaxCount THEN Len(w) + 1 ELSE MaxCount
       /\ m[1] = c /\ \A k \in 2 .. Len(m) : k - 1 \in DOMAIN w /\ m[k] = w[k - 1]
    BY <1>14, LimitOfList
<1> HIDE DEF m
<1>17. Len(m) = IF Cardinality(M) < MaxCount THEN Cardinality(M) ELSE MaxCount
    <2>1. CASE q \in L /\ r < MaxCount
        <3>1. p = r + 1 /\ p <= Len(list)
            BY <1>2, <1>3, <1>9, <2>1 DEF p
        <3> QED
            BY <1>2, <1>3, <1>8, <1>9, <1>14, <1>16, <2>1, <3>1
    <2>2. CASE q \in L /\ ~ (r < MaxCount)
        <3>1. p = Len(list) + 1 /\ Len(list) = MaxCount /\ ~ (C < MaxCount)
            BY <1>2, <1>3, <1>9, <2>2 DEF p
        <3> QED
            BY <1>2, <1>8, <1>9, <1>14, <1>16, <2>2, <3>1
    <2>3. CASE q \notin L
        <3>1. p = Len(list) + 1
            BY <2>3 DEF p
        <3> QED
            BY <1>2, <1>3, <1>8, <1>9, <1>14, <1>16, <2>3, <3>1
    <2> QED
        BY <2>1, <2>2, <2>3
<1>18. ASSUME NEW k \in DOMAIN m
       PROVE  \E i \in M : m[k] = v[i] /\ Rank(M, i) = k - 1
    <2>1. CASE k = 1
        <3>1. n + 1 \in M /\ m[k] = v[n + 1] /\ Rank(M, n + 1) = k - 1
            BY <1>1, <1>7, <1>8, <1>16, <2>1
        <3> QED
            BY <3>1
    <2>2. CASE k # 1
        <3>1. k \in 2 .. Len(m)
            BY <1>16, <2>2
        <3>2. k - 1 \in DOMAIN w /\ m[k] = w[k - 1]
            BY <1>16, <3>1
        <3>3. PICK i \in L \ {q} : w[k - 1] = u[i] /\ Rank(M, i) = k - 1
            BY <1>15, <3>2
        <3>4. i \in M /\ v[i] = u[i]
            BY <1>1, <1>4, <1>7, <3>3
        <3> QED
            BY <3>2, <3>3, <3>4
    <2> QED
        BY <2>1, <2>2
<1>19. IsMostRecent(m, v, n + 1)
    BY <1>17, <1>18 DEF IsMostRecent, M
<1> QED
    BY <1>1, <1>12, <1>16, <1>19 DEF v

-----------------------------------------------------------------------------
(* Saving a configuration: the stored list follows the history.              *)
LEMMA SaveIsMostRecent ==
    ASSUME NEW raw \in Seq(GoodForms), NEW c \in GoodConfigs, NEW u \in Seq(GoodConfigs),
           IsMostRecent(decodeConnections(raw), u, Len(u))
    PROVE  LET saved == encodeConnections(upsert(decodeConnections(raw), c)) IN
           /\ saved \in Seq(GoodForms)
           /\ decodeConnections(saved) \in Seq(GoodConfigs)
           /\ IsMostRecent(decodeConnections(saved), Append(u, c), Len(Append(u, c)))
<1> DEFINE list == upsert(decodeConnections(raw), c)
<1>1. decodeConnections(raw) \in Seq(GoodConfigs)
    BY DecodeGood
<1>2. list \in Seq(GoodConfigs) /\ IsMostRecent(list, Append(u, c), Len(Append(u, c)))
    BY <1>1, UpsertIsMostRecent
<1> HIDE DEF list
<1>3. /\ encodeConnections(list) \in Seq(GoodForms)
      /\ decodeConnections(encodeConnections(list)) = list
    BY <1>2, DecodeEncode
<1> QED
    BY <1>2, <1>3 DEF list

(* What a prefix of a history keeps                                          *)
LEMMA PrefixOfHistory ==
    ASSUME NEW S, NEW u \in Seq(S), NEW n \in 0 .. Len(u)
    PROVE  /\ SubSeq(u, 1, n) \in Seq(S) /\ Len(SubSeq(u, 1, n)) = n
           /\ \A i \in 1 .. n : u[i] = SubSeq(u, 1, n)[i]
    OBVIOUS

(* What an append to a history keeps                                         *)
LEMMA AppendToHistory ==
    ASSUME NEW S, NEW u \in Seq(S), NEW c \in S, NEW n \in 0 .. Len(u)
    PROVE  /\ Append(u, c) \in Seq(S) /\ n \in 0 .. Len(Append(u, c))
           /\ \A i \in 1 .. n : u[i] = Append(u, c)[i]
    OBVIOUS

-----------------------------------------------------------------------------
(* The parts of the inductive invariant. Only what Connect accepts is stored *)
(* or shown;                                                                 *)
OnlyValid ==
    /\ memory \in Seq(GoodForms) /\ disk \in Seq(GoodForms)
    /\ used \in Seq(GoodConfigs) /\ recent \in Seq(GoodConfigs)

(* the list in memory is up to date, and the one on the disk as of flushed   *)
(* saves.                                                                    *)
MemoryFollows == IsMostRecent(decodeConnections(memory), used, Len(used))
DiskFollows   == IsMostRecent(decodeConnections(disk), used, flushed)

RecentInv == TypeOK /\ OnlyValid /\ MemoryFollows /\ DiskFollows /\ ShowsStored

(* MostRecent speaks of the history of this state.                           *)
LEMMA StoreIsMostRecent == MemoryFollows /\ DiskFollows => StoresMostRecent
<1>1. ASSUME NEW list, NEW n, IsMostRecent(list, used, n)
      PROVE  MostRecent(list, n)
    <2>1. LastUses(n) = Last(used, n)
        BY DEF LastUses, Last
    <2>2. \A i : {j \in LastUses(n) : j > i} = Above(Last(used, n), i)
        BY <2>1 DEF Above
    <2> QED
        BY <1>1, <2>1, <2>2 DEF MostRecent, IsMostRecent, Rank
<1> QED
    BY <1>1 DEF MemoryFollows, DiskFollows, StoresMostRecent

(* A card that holds a good configuration fills the form with it.            *)
LEMMA ValidCardsConnect == OnlyValid => CardsConnect
<1>1. ASSUME OnlyValid, NEW i \in DOMAIN recent
      PROVE  ConfigOf(FormOf(recent[i])) = recent[i] /\ validate(ConfigOf(FormOf(recent[i])))
    <2>1. recent[i] \in GoodConfigs
        BY <1>1 DEF OnlyValid
    <2>2. ConfigOf(FormOf(recent[i])) = recent[i]
        BY <2>1, GoodConversions
    <2> QED
        BY <2>1, <2>2 DEF GoodConfigs
<1> QED
    BY <1>1 DEF CardsConnect

(* The two representations of a list of nothing                              *)
LEMMA NothingStored ==
    /\ <<>> \in Seq(GoodForms) /\ <<>> \in Seq(GoodConfigs)
    /\ IsMostRecent(decodeConnections(<<>>), <<>>, 0)
<1>1. <<>> \in Seq(GoodForms) /\ <<>> \in Seq(GoodConfigs) /\ Len(<<>>) = 0
    OBVIOUS
<1>2. Len(decodeConnections(<<>>)) = 0 /\ decodeConnections(<<>>) \in Seq(GoodConfigs)
    BY <1>1, DecodeGood
<1>3. DOMAIN decodeConnections(<<>>) = {}
    BY <1>2
<1>4. Last(<<>>, 0) = {}
    BY DEF Last
<1>5. Cardinality({}) = 0
    BY FS_EmptySet
<1>6. 0 < MaxCount
    BY BoundsAssumption
<1> QED
    BY <1>1, <1>2, <1>3, <1>4, <1>5, <1>6 DEF IsMostRecent

(* Forms and configurations are converted into each other.                   *)
LEMMA Conversions ==
    /\ \A f \in Forms : ConfigOf(f) \in Configs
    /\ \A c \in Configs : FormOf(c) \in Forms
    /\ empty \in Configs
<1>1. ASSUME NEW f \in Forms
      PROVE  ConfigOf(f) \in Configs
    BY DEF ConfigOf, Forms, Configs
<1>2. ASSUME NEW c \in Configs
      PROVE  FormOf(c) \in Forms
    <2>1. FormOf(c) = [host |-> c.host, port |-> c.port, username |-> c.username,
                       password |-> c.password,
                       domain |-> IF c.domain = Null THEN NoText ELSE c.domain]
        BY DEF Configs, FormOf
    <2> QED
        BY <2>1, TextsAssumption DEF Forms, Configs
<1>3. empty \in Configs
    BY TextsAssumption, PortsAssumption DEF empty, Configs
<1> QED
    BY <1>1, <1>2, <1>3

(* What is good is well typed.                                               *)
LEMMA GoodIsTyped ==
    /\ Seq(GoodForms) \subseteq Seq(Forms) /\ Seq(GoodConfigs) \subseteq Seq(Configs)
<1>1. GoodForms \subseteq Forms /\ GoodConfigs \subseteq Configs
    BY DEF GoodForms, GoodConfigs
<1> HIDE DEF GoodForms, GoodConfigs
<1> QED
    BY <1>1

(* It holds initially: nothing is stored.                                    *)
LEMMA RecentInitially == Init => RecentInv
<1> SUFFICES ASSUME Init
             PROVE  RecentInv
    OBVIOUS
<1>1. OnlyValid
    BY NothingStored DEF Init, OnlyValid
<1>2. MemoryFollows /\ DiskFollows
    <2>1. Len(<<>>) = 0
        OBVIOUS
    <2> QED
        BY <2>1, NothingStored DEF Init, MemoryFollows, DiskFollows
<1>3. TypeOK
    <2>1. form \in Forms /\ active \in Configs
        BY Conversions DEF Init
    <2> QED
        BY <2>1 DEF Init, TypeOK
<1>4. ShowsStored
    BY DEF Init, ShowsStored
<1> QED
    BY <1>1, <1>2, <1>3, <1>4 DEF RecentInv
(* A step that leaves the stores and the history alone: the rest is left to  *)
(* the screen.                                                               *)
LEMMA StoresUnchanged ==
    ASSUME RecentInv, UNCHANGED <<memory, disk, used, flushed>>
    PROVE  MemoryFollows' /\ DiskFollows'
    BY DEF RecentInv, MemoryFollows, DiskFollows

(* What a click on Connect with a valid form does to the stores              *)
LEMMA SavesFollows ==
    ASSUME RecentInv, NEW config \in GoodConfigs, Saves(config), UNCHANGED <<disk, flushed>>
    PROVE  /\ memory' \in Seq(GoodForms) /\ used' \in Seq(GoodConfigs)
           /\ flushed \in 0 .. Len(used')
           /\ MemoryFollows' /\ DiskFollows'
<1>1. /\ memory \in Seq(GoodForms) /\ used \in Seq(GoodConfigs) /\ flushed \in 0 .. Len(used)
      /\ MemoryFollows /\ DiskFollows
    BY DEF RecentInv, OnlyValid, TypeOK
<1>2. CASE prefs = "open"
    <2>1. /\ memory' = encodeConnections(upsert(decodeConnections(memory), config))
          /\ used' = Append(used, config)
        BY <1>2 DEF Saves
    <2>2. IsMostRecent(decodeConnections(memory), used, Len(used))
        BY <1>1 DEF MemoryFollows
    <2>3. memory' \in Seq(GoodForms) /\ IsMostRecent(decodeConnections(memory'), used', Len(used'))
        BY <1>1, <2>1, <2>2, SaveIsMostRecent
    <2>4. /\ used' \in Seq(GoodConfigs) /\ flushed \in 0 .. Len(used')
          /\ \A i \in 1 .. flushed : used[i] = used'[i]
        BY <1>1, <2>1, AppendToHistory
    <2>5. IsMostRecent(decodeConnections(disk), used', flushed)
        <3>1. IsMostRecent(decodeConnections(disk), used, flushed) /\ flushed \in Nat
            BY <1>1 DEF DiskFollows
        <3> QED
            BY <2>4, <3>1, MostRecentOfPrefix
    <2> QED
        BY <2>3, <2>4, <2>5 DEF MemoryFollows, DiskFollows
<1>3. CASE prefs # "open"
    <2>1. UNCHANGED <<memory, used>>
        BY <1>3 DEF Saves
    <2> QED
        BY <1>1, <2>1 DEF MemoryFollows, DiskFollows
<1> QED
    BY <1>2, <1>3

(* The invariant is inductive: one step for each action.                     *)
LEMMA RecentStep == RecentInv /\ [Next]_vars => RecentInv'
<1> SUFFICES ASSUME RecentInv, [Next]_vars
             PROVE  RecentInv'
    OBVIOUS
<1>0. /\ TypeOK /\ OnlyValid /\ MemoryFollows /\ DiskFollows /\ ShowsStored
    BY DEF RecentInv
<1>stored. decodeConnections(memory) \in Seq(GoodConfigs)
    BY <1>0, DecodeGood DEF OnlyValid
<1>nothing. <<>> \in Seq(GoodConfigs)
    OBVIOUS
<1>1. ASSUME ReadsList
      PROVE  RecentInv'
    <2>1. UNCHANGED <<memory, disk, screen, form, active, used, flushed>>
        BY <1>1 DEF ReadsList
    <2>2. prefs' \in {"open", "failed"} /\ recent' \in Seq(GoodConfigs)
        BY <1>1, <1>stored, <1>nothing DEF ReadsList
    <2>3. TypeOK'
        BY <1>0, <2>1, <2>2, GoodIsTyped DEF TypeOK
    <2>4. OnlyValid'
        BY <1>0, <2>1, <2>2 DEF OnlyValid
    <2>5. ShowsStored'
        BY <1>1, <2>1 DEF ReadsList, ShowsStored
    <2> QED
        BY <2>1, <2>3, <2>4, <2>5, StoresUnchanged DEF RecentInv
<1>2. ASSUME FillsForm
      PROVE  RecentInv'
    <2>1. UNCHANGED <<prefs, memory, disk, screen, active, recent, used, flushed>>
        BY <1>2 DEF FillsForm
    <2>2. form' \in Forms
        BY <1>2, InputsAssumption DEF FillsForm
    <2>3. TypeOK'
        BY <1>0, <2>1, <2>2 DEF TypeOK
    <2>4. OnlyValid' /\ ShowsStored'
        BY <1>0, <2>1 DEF OnlyValid, ShowsStored
    <2> QED
        BY <2>1, <2>3, <2>4, StoresUnchanged DEF RecentInv
<1>3. ASSUME ClickConnect
      PROVE  RecentInv'
    <2> DEFINE config == ConfigOf(form)
    <2>1. /\ validate(config) /\ Saves(config) /\ active' = config /\ screen' = "SESSION"
          /\ recent' = IF prefs = "open" THEN decodeConnections(memory') ELSE <<>>
          /\ UNCHANGED <<prefs, disk, form, flushed>>
        BY <1>3 DEF ClickConnect
    <2>2. config \in GoodConfigs
        <3>1. config \in Configs
            BY <1>0, Conversions DEF TypeOK
        <3>2. config.domain # NoText
            BY <1>0, TextsAssumption DEF TypeOK, Forms, ConfigOf
        <3> HIDE DEF config
        <3> QED
            BY <2>1, <3>1, <3>2 DEF GoodConfigs
    <2> HIDE DEF config
    <2>3. /\ memory' \in Seq(GoodForms) /\ used' \in Seq(GoodConfigs)
          /\ flushed \in 0 .. Len(used')
          /\ MemoryFollows' /\ DiskFollows'
        BY <2>1, <2>2, SavesFollows
    <2>4. recent' \in Seq(GoodConfigs)
        <3>1. decodeConnections(memory') \in Seq(GoodConfigs)
            BY <2>3, DecodeGood
        <3> QED
            BY <1>nothing, <2>1, <3>1
    <2>5. OnlyValid'
        BY <1>0, <2>1, <2>3, <2>4 DEF OnlyValid
    <2>6. TypeOK'
        <3>1. config \in Configs
            BY <2>2 DEF GoodConfigs
        <3>2. memory' \in Seq(Forms) /\ used' \in Seq(Configs) /\ recent' \in Seq(Configs)
            BY <2>3, <2>4, GoodIsTyped
        <3> QED
            BY <1>0, <2>1, <2>3, <3>1, <3>2 DEF TypeOK
    <2>7. ShowsStored'
        BY <2>1 DEF ShowsStored
    <2> QED
        BY <2>3, <2>5, <2>6, <2>7 DEF RecentInv
<1>4. ASSUME GoesBack
      PROVE  RecentInv'
    <2>1. UNCHANGED <<prefs, memory, disk, active, recent, used, flushed>>
        BY <1>4 DEF GoesBack
    <2>2. form' \in Forms /\ screen' = "CONNECTION"
        BY <1>0, <1>4, Conversions DEF GoesBack, TypeOK
    <2>3. TypeOK'
        BY <1>0, <2>1, <2>2 DEF TypeOK
    <2>4. OnlyValid' /\ ShowsStored'
        BY <1>0, <2>1 DEF OnlyValid, ShowsStored
    <2> QED
        BY <2>1, <2>3, <2>4, StoresUnchanged DEF RecentInv
<1>5. ASSUME NEW i \in DOMAIN recent, SelectsRecent(i)
      PROVE  RecentInv'
    <2>1. UNCHANGED <<prefs, memory, disk, screen, recent, used, flushed>>
        BY <1>5 DEF SelectsRecent
    <2>2. recent[i] \in Configs
        BY <1>0 DEF TypeOK
    <2>3. form' \in Forms /\ active' \in Configs
        BY <1>5, <2>2, Conversions DEF SelectsRecent
    <2>4. TypeOK'
        BY <1>0, <2>1, <2>3 DEF TypeOK
    <2>5. OnlyValid' /\ ShowsStored'
        BY <1>0, <2>1 DEF OnlyValid, ShowsStored
    <2> QED
        BY <2>1, <2>4, <2>5, StoresUnchanged DEF RecentInv
<1>6. ASSUME Applied
      PROVE  RecentInv'
    <2>1. /\ disk' = memory /\ flushed' = Len(used)
          /\ UNCHANGED <<prefs, memory, screen, form, active, recent, used>>
        BY <1>6 DEF Applied
    <2>2. OnlyValid' /\ ShowsStored'
        BY <1>0, <2>1 DEF OnlyValid, ShowsStored
    <2>3. TypeOK'
        BY <1>0, <2>1 DEF TypeOK
    <2>4. MemoryFollows' /\ DiskFollows'
        BY <1>0, <2>1 DEF MemoryFollows, DiskFollows
    <2> QED
        BY <2>2, <2>3, <2>4 DEF RecentInv
<1>7. ASSUME Recomposed
      PROVE  /\ prefs' = "lazy" /\ screen' = "CONNECTION" /\ recent' = <<>>
             /\ form' \in Forms /\ active' \in Configs
             /\ ShowsStored'
    BY <1>7, Conversions DEF Recomposed, ShowsStored
<1>8. ASSUME ActivityRecreated
      PROVE  RecentInv'
    <2>1. Recomposed /\ UNCHANGED <<memory, disk, used, flushed>>
        BY <1>8 DEF ActivityRecreated
    <2>2. OnlyValid'
        BY <1>0, <1>7, <1>nothing, <2>1 DEF OnlyValid
    <2>3. TypeOK'
        BY <1>0, <1>7, <2>1, <2>2, GoodIsTyped DEF TypeOK, OnlyValid
    <2> QED
        BY <1>7, <2>1, <2>2, <2>3, StoresUnchanged DEF RecentInv
<1>9. ASSUME ProcessDies
      PROVE  RecentInv'
    <2>1. /\ Recomposed /\ memory' = disk /\ used' = SubSeq(used, 1, flushed)
          /\ UNCHANGED <<disk, flushed>>
        BY <1>9 DEF ProcessDies
    <2>2. used \in Seq(GoodConfigs) /\ flushed \in 0 .. Len(used)
        BY <1>0 DEF OnlyValid, TypeOK
    <2>3. /\ used' \in Seq(GoodConfigs) /\ Len(used') = flushed
          /\ \A i \in 1 .. flushed : used[i] = used'[i]
        BY <2>1, <2>2, PrefixOfHistory
    <2>4. IsMostRecent(decodeConnections(disk), used', flushed)
        <3>1. IsMostRecent(decodeConnections(disk), used, flushed) /\ flushed \in Nat
            BY <1>0, <2>2 DEF DiskFollows
        <3> QED
            BY <2>3, <3>1, MostRecentOfPrefix
    <2>5. MemoryFollows' /\ DiskFollows'
        BY <2>1, <2>3, <2>4 DEF MemoryFollows, DiskFollows
    <2>6. OnlyValid'
        BY <1>0, <1>7, <1>nothing, <2>1, <2>3 DEF OnlyValid
    <2>7. TypeOK'
        <3>1. flushed' \in 0 .. Len(used')
            BY <2>1, <2>2, <2>3
        <3> QED
            BY <1>7, <2>1, <2>6, <3>1, GoodIsTyped DEF TypeOK, OnlyValid
    <2> QED
        BY <1>7, <2>1, <2>5, <2>6, <2>7 DEF RecentInv
<1>10. ASSUME UNCHANGED vars
       PROVE  RecentInv'
    <2>1. UNCHANGED <<prefs, memory, disk, screen, form, active, recent, used, flushed>>
        BY <1>10 DEF vars
    <2>2. TypeOK' /\ OnlyValid' /\ ShowsStored'
        BY <1>0, <2>1 DEF TypeOK, OnlyValid, ShowsStored
    <2> QED
        BY <2>1, <2>2, StoresUnchanged DEF RecentInv
<1> QED
    BY <1>1, <1>2, <1>3, <1>4, <1>5, <1>6, <1>8, <1>9, <1>10 DEF Next

(* The inductive invariant holds in every behaviour.                         *)
LEMMA RecentInvariance == Spec => []RecentInv
    BY RecentInitially, RecentStep, PTL DEF Spec

(* Every reachable state has its type: what is decoded is a configuration,   *)
(* what a card or a return puts into the form is a text in every field.      *)
THEOREM ListTypeCorrect == Spec => []TypeOK
<1>1. RecentInv => TypeOK
    BY DEF RecentInv
<1> QED
    BY <1>1, RecentInvariance, PTL

(* For a list of any length, and any number of saves, restarts and losses:   *)
(* the stored list is the last uses of the saved connections, each once,     *)
(* newest first and MaxCount at most, and what a restart finds is that list  *)
(* as of the saves that had reached the disk.                                *)
THEOREM ListIsMostRecent == Spec => []StoresMostRecent
<1>1. RecentInv => StoresMostRecent
    BY StoreIsMostRecent DEF RecentInv
<1> QED
    BY <1>1, RecentInvariance, PTL

(* Whenever the preferences are open, the screen shows what they hold.       *)
THEOREM ScreenShowsList == Spec => []ShowsStored
<1>1. RecentInv => ShowsStored
    BY DEF RecentInv
<1> QED
    BY <1>1, RecentInvariance, PTL

(* A card restores its configuration, the absent domain included, and Connect*)
(* accepts it.                                                               *)
THEOREM CardsAlwaysConnect == Spec => []CardsConnect
<1>1. RecentInv => CardsConnect
    BY ValidCardsConnect DEF RecentInv
<1> QED
    BY <1>1, RecentInvariance, PTL
=============================================================================
