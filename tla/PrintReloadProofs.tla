------------------------- MODULE PrintReloadProofs -------------------------
(***************************************************************************)
(* Theorems about PrintReload: for any .tablet file and any styli of the     *)
(* database, parsing the description of a device gives the device back.      *)
(***************************************************************************)
EXTENDS PrintReload, MatchesProofs, FiniteSetTheorems

(***************************************************************************)
(* FlattenSeq and Kept.  FlattenSeq is a function on positions; that there   *)
(* is one is shown by induction on their number.                             *)
(***************************************************************************)
IsFlat(f, seqs, n) == f = [i \in 1..n |-> IF i = 1 THEN seqs[i] ELSE f[i - 1] \o seqs[i]]

LEMMA FlatGrows ==
  ASSUME NEW seqs, NEW n \in Nat, NEW f, IsFlat(f, seqs, n)
  PROVE  \E g : IsFlat(g, seqs, n + 1)
<1> DEFINE last == IF n = 0 THEN seqs[1] ELSE f[n] \o seqs[n + 1]
           g == [i \in 1..(n + 1) |-> IF i = n + 1 THEN last ELSE f[i]]
<1>1. ASSUME NEW i \in 1..(n + 1)
      PROVE  g[i] = IF i = 1 THEN seqs[i] ELSE g[i - 1] \o seqs[i]
  <2>1. CASE i = n + 1 /\ n = 0
    BY <2>1
  <2>2. CASE i = n + 1 /\ n # 0
    <3>1. n \in 1..(n + 1) /\ n # n + 1 /\ i - 1 = n /\ i # 1
      BY <2>2
    <3>2. g[n] = f[n]
      BY <3>1
    <3> QED BY <2>2, <3>1, <3>2
  <2>3. CASE i # n + 1
    <3>1. i \in 1..n
      BY <2>3
    <3>2. f[i] = IF i = 1 THEN seqs[i] ELSE f[i - 1] \o seqs[i]
      BY <3>1 DEF IsFlat
    <3>3. i # 1 => i - 1 \in 1..(n + 1) /\ i - 1 # n + 1
      BY <3>1
    <3>4. i # 1 => g[i - 1] = f[i - 1]
      BY <3>3
    <3> QED BY <2>3, <3>2, <3>4
  <2> QED BY <2>1, <2>2, <2>3
<1>2. g = [i \in 1..(n + 1) |-> g[i]]
  OBVIOUS
<1> HIDE DEF g
<1>3. g = [i \in 1..(n + 1) |-> IF i = 1 THEN seqs[i] ELSE g[i - 1] \o seqs[i]]
  BY <1>1, <1>2
<1> QED BY <1>3 DEF IsFlat

LEMMA FlatExists ==
  ASSUME NEW seqs, NEW n \in Nat
  PROVE  \E f : IsFlat(f, seqs, n)
<1> DEFINE S == {k \in Nat : \E f : IsFlat(f, seqs, k)}
<1>1. 0 \in S
  <2> DEFINE f == [i \in 1..0 |-> seqs[i]]
  <2>1. f = [i \in 1..0 |-> IF i = 1 THEN seqs[i] ELSE f[i - 1] \o seqs[i]]
    OBVIOUS
  <2> QED BY <2>1 DEF IsFlat
<1>2. ASSUME NEW k \in Nat, k \in S PROVE k + 1 \in S
  <2>1. PICK f : IsFlat(f, seqs, k)
    BY <1>2
  <2>2. \E g : IsFlat(g, seqs, k + 1)
    BY <2>1, FlatGrows
  <2> QED BY <2>2
<1> HIDE DEF S
<1>3. n \in S
  BY <1>1, <1>2, Induction
<1> QED BY <1>3 DEF S

\* The sequences are joined one after the other.
LEMMA FlattenStep ==
  ASSUME NEW W, NEW seqs \in Seq(Seq(W))
  PROVE  \E acc : /\ acc[0] = <<>>
                  /\ \A k \in 1..Len(seqs) : acc[k] = acc[k - 1] \o seqs[k]
                  /\ FlattenSeq(seqs) = acc[Len(seqs)]
<1> DEFINE n == Len(seqs)
           f == CHOOSE f : f = [i \in 1..n |-> IF i = 1 THEN seqs[i] ELSE f[i - 1] \o seqs[i]]
           acc == [k \in 0..n |-> IF k = 0 THEN <<>> ELSE f[k]]
<1>1. n \in Nat /\ \A i \in 1..n : seqs[i] \in Seq(W)
  OBVIOUS
<1>2. IsFlat(f, seqs, n)
  BY <1>1, FlatExists DEF IsFlat
<1>3. FlattenSeq(seqs) = IF n = 0 THEN seqs ELSE f[n]
  BY DEF FlattenSeq
<1> HIDE DEF f
<1>4. acc[0] = <<>>
  BY <1>1
<1>5. ASSUME NEW k \in 1..n PROVE acc[k] = acc[k - 1] \o seqs[k]
  <2>1. k \in 0..n /\ k - 1 \in 0..n /\ k # 0
    BY <1>1
  <2>2. f[k] = IF k = 1 THEN seqs[k] ELSE f[k - 1] \o seqs[k]
    BY <1>2 DEF IsFlat
  <2>3. CASE k = 1
    <3>1. <<>> \o seqs[k] = seqs[k]
      BY <1>1
    <3> QED BY <2>1, <2>2, <2>3, <3>1
  <2>4. CASE k # 1
    <3>1. k - 1 # 0
      BY <2>1, <2>4
    <3>2. acc[k] = f[k] /\ acc[k - 1] = f[k - 1]
      BY <2>1, <3>1
    <3> QED BY <2>2, <2>4, <3>2
  <2> QED BY <2>3, <2>4
<1>6. FlattenSeq(seqs) = acc[n]
  <2>1. n = 0 => seqs = <<>>
    OBVIOUS
  <2>2. n \in 0..n
    BY <1>1
  <2>3. acc[n] = IF n = 0 THEN <<>> ELSE f[n]
    BY <2>2
  <2> QED BY <1>3, <2>1, <2>3
<1> QED BY <1>4, <1>5, <1>6

LEMMA FlattenIn ==
  ASSUME NEW W, NEW seqs \in Seq(Seq(W))
  PROVE  FlattenSeq(seqs) \in Seq(W)
<1> DEFINE n == Len(seqs)
<1>1. PICK acc : /\ acc[0] = <<>>
                 /\ \A k \in 1..n : acc[k] = acc[k - 1] \o seqs[k]
                 /\ FlattenSeq(seqs) = acc[n]
  BY FlattenStep
<1> DEFINE S == {k \in Nat : k <= n => acc[k] \in Seq(W)}
<1>2. 0 \in S
  <2>1. <<>> \in Seq(W)
    OBVIOUS
  <2> QED BY <1>1, <2>1
<1>3. ASSUME NEW k \in Nat, k \in S PROVE k + 1 \in S
  <2> SUFFICES ASSUME k + 1 <= n PROVE acc[k + 1] \in Seq(W)
    OBVIOUS
  <2>1. k + 1 \in 1..n /\ (k + 1) - 1 = k /\ k <= n /\ n \in Nat
    OBVIOUS
  <2>2. acc[k] \in Seq(W) /\ seqs[k + 1] \in Seq(W)
    BY <2>1, <1>3
  <2>3. acc[k + 1] = acc[k] \o seqs[k + 1]
    BY <1>1, <2>1
  <2> QED BY <2>2, <2>3
<1> HIDE DEF S
<1>4. n \in S /\ n \in Nat
  BY <1>2, <1>3, Induction
<1> QED BY <1>1, <1>4 DEF S

\* The elements are looked at one after the other.
LEMMA KeptStep ==
  ASSUME NEW W, NEW list \in Seq(W), NEW S
  PROVE  \E acc : /\ acc[0] = <<>>
                  /\ \A k \in 1..Len(list) :
                       acc[k] = IF list[k] \in S THEN Append(acc[k - 1], list[k]) ELSE acc[k - 1]
                  /\ Kept(list, S) = acc[Len(list)]
<1> DEFINE seqs == [i \in DOMAIN list |-> IF list[i] \in S THEN <<list[i]>> ELSE <<>>]
           n == Len(list)
<1>1. n \in Nat /\ DOMAIN list = 1..n /\ \A i \in 1..n : list[i] \in W
  OBVIOUS
<1>2. \A i \in 1..n : seqs[i] \in Seq(W)
  BY <1>1
<1>3. seqs \in Seq(Seq(W)) /\ Len(seqs) = n
  BY <1>1, <1>2
<1>4. Kept(list, S) = FlattenSeq(seqs)
  BY DEF Kept
<1>5. \A i \in 1..n : seqs[i] = IF list[i] \in S THEN <<list[i]>> ELSE <<>>
  BY <1>1
<1> HIDE DEF seqs
<1>6. PICK acc : /\ acc[0] = <<>>
                 /\ \A k \in 1..n : acc[k] = acc[k - 1] \o seqs[k]
                 /\ FlattenSeq(seqs) = acc[n]
  BY <1>3, FlattenStep
<1> DEFINE T == {k \in Nat : k <= n => acc[k] \in Seq(W)}
<1>7. 0 \in T
  <2>1. <<>> \in Seq(W)
    OBVIOUS
  <2> QED BY <1>6, <2>1
<1>8. ASSUME NEW k \in Nat, k \in T PROVE k + 1 \in T
  <2> SUFFICES ASSUME k + 1 <= n PROVE acc[k + 1] \in Seq(W)
    OBVIOUS
  <2>1. k + 1 \in 1..n /\ (k + 1) - 1 = k /\ k <= n
    BY <1>1
  <2>2. acc[k] \in Seq(W) /\ seqs[k + 1] \in Seq(W)
    BY <2>1, <1>2, <1>8
  <2>3. acc[k + 1] = acc[k] \o seqs[k + 1]
    BY <1>6, <2>1
  <2> QED BY <2>2, <2>3
<1> HIDE DEF T
<1>9. Nat \subseteq T
  BY <1>7, <1>8, Induction
<1>10. \A k \in 0..n : acc[k] \in Seq(W)
  BY <1>1, <1>9 DEF T
<1>11. ASSUME NEW k \in 1..n
       PROVE  acc[k] = IF list[k] \in S THEN Append(acc[k - 1], list[k]) ELSE acc[k - 1]
  <2>1. k - 1 \in 0..n
    BY <1>1
  <2>2. acc[k - 1] \in Seq(W) /\ list[k] \in W
    BY <1>1, <1>10, <2>1
  <2>3. acc[k] = acc[k - 1] \o (IF list[k] \in S THEN <<list[k]>> ELSE <<>>)
    BY <1>5, <1>6
  <2>4. /\ acc[k - 1] \o <<list[k]>> = Append(acc[k - 1], list[k])
        /\ acc[k - 1] \o <<>> = acc[k - 1]
    BY <2>2
  <2> QED BY <2>3, <2>4
<1> QED BY <1>4, <1>6, <1>11

LEMMA KeptFacts ==
  ASSUME NEW W, NEW list \in Seq(W), NEW S
  PROVE  /\ Kept(list, S) \in Seq(W \cap S)
         /\ Range(Kept(list, S)) = Range(list) \cap S
<1> DEFINE n == Len(list)
<1>1. PICK acc : /\ acc[0] = <<>>
                 /\ \A k \in 1..n :
                      acc[k] = IF list[k] \in S THEN Append(acc[k - 1], list[k]) ELSE acc[k - 1]
                 /\ Kept(list, S) = acc[n]
  BY KeptStep
<1> DEFINE T == {k \in Nat : k <= n => /\ acc[k] \in Seq(W \cap S)
                                       /\ Range(acc[k]) = {list[i] : i \in 1..k} \cap S}
<1>2. 0 \in T
  <2>1. <<>> \in Seq(W \cap S) /\ Range(<<>>) = {} /\ {list[i] : i \in 1..0} = {}
    BY DEF Range
  <2> QED BY <1>1, <2>1
<1>3. ASSUME NEW k \in Nat, k \in T PROVE k + 1 \in T
  <2> SUFFICES ASSUME k + 1 <= n
               PROVE  /\ acc[k + 1] \in Seq(W \cap S)
                      /\ Range(acc[k + 1]) = {list[i] : i \in 1..(k + 1)} \cap S
    OBVIOUS
  <2>1. k + 1 \in 1..n /\ (k + 1) - 1 = k /\ k <= n /\ list[k + 1] \in W
    OBVIOUS
  <2>2. acc[k] \in Seq(W \cap S) /\ Range(acc[k]) = {list[i] : i \in 1..k} \cap S
    BY <2>1, <1>3
  <2>3. {list[i] : i \in 1..(k + 1)} = {list[i] : i \in 1..k} \cup {list[k + 1]}
    <3>1. 1..(k + 1) = 1..k \cup {k + 1}
      OBVIOUS
    <3> QED BY <3>1
  <2>4. CASE list[k + 1] \in S
    <3>1. acc[k + 1] = Append(acc[k], list[k + 1])
      BY <1>1, <2>1, <2>4
    <3>2. PICK t, e : t = acc[k] /\ e = list[k + 1] /\ t \in Seq(W \cap S) /\ e \in W \cap S
      BY <2>1, <2>2, <2>4
    <3>3. Append(t, e) \in Seq(W \cap S) /\ Range(Append(t, e)) = Range(t) \cup {e}
      <4>1. /\ DOMAIN Append(t, e) = 1..(Len(t) + 1) /\ DOMAIN t = 1..Len(t) /\ Len(t) \in Nat
            /\ Append(t, e)[Len(t) + 1] = e
            /\ \A i \in 1..Len(t) : Append(t, e)[i] = t[i]
        BY <3>2
      <4>2. 1..(Len(t) + 1) = 1..Len(t) \cup {Len(t) + 1}
        BY <4>1
      <4>3. Range(Append(t, e)) = Range(t) \cup {e}
        BY <4>1, <4>2 DEF Range
      <4> QED BY <3>2, <4>3
    <3> QED BY <2>2, <2>3, <2>4, <3>1, <3>2, <3>3
  <2>5. CASE list[k + 1] \notin S
    <3>1. acc[k + 1] = acc[k]
      BY <1>1, <2>1, <2>5
    <3> QED BY <2>2, <2>3, <2>5, <3>1
  <2> QED BY <2>4, <2>5
<1> HIDE DEF T
<1>4. n \in T /\ n \in Nat
  BY <1>2, <1>3, Induction
<1>5. Kept(list, S) \in Seq(W \cap S) /\ Range(Kept(list, S)) = {list[i] : i \in 1..n} \cap S
  BY <1>1, <1>4 DEF T
<1>6. {list[i] : i \in 1..n} = Range(list)
  BY DEF Range
<1> QED BY <1>5, <1>6

\* All elements are kept if all are in the set.
LEMMA KeptAll ==
  ASSUME NEW W, NEW list \in Seq(W), NEW S, \A i \in 1..Len(list) : list[i] \in S
  PROVE  Kept(list, S) = list
<1> DEFINE n == Len(list)
<1>1. PICK acc : /\ acc[0] = <<>>
                 /\ \A k \in 1..n :
                      acc[k] = IF list[k] \in S THEN Append(acc[k - 1], list[k]) ELSE acc[k - 1]
                 /\ Kept(list, S) = acc[n]
  BY KeptStep
<1> DEFINE T == {k \in Nat : k <= n => /\ acc[k] \in Seq(W) /\ Len(acc[k]) = k
                                       /\ \A i \in 1..k : acc[k][i] = list[i]}
<1>2. 0 \in T
  <2>1. <<>> \in Seq(W) /\ Len(<<>>) = 0 /\ 1..0 = {}
    OBVIOUS
  <2> QED BY <1>1, <2>1
<1>3. ASSUME NEW k \in Nat, k \in T PROVE k + 1 \in T
  <2> SUFFICES ASSUME k + 1 <= n
               PROVE  /\ acc[k + 1] \in Seq(W) /\ Len(acc[k + 1]) = k + 1
                      /\ \A i \in 1..(k + 1) : acc[k + 1][i] = list[i]
    OBVIOUS
  <2>1. k + 1 \in 1..n /\ (k + 1) - 1 = k /\ k <= n /\ list[k + 1] \in W
    OBVIOUS
  <2>2. PICK t, e : /\ t = acc[k] /\ e = list[k + 1] /\ t \in Seq(W) /\ e \in W
                    /\ Len(t) = k /\ \A i \in 1..k : t[i] = list[i]
    BY <2>1, <1>3
  <2>3. acc[k + 1] = Append(t, e)
    BY <1>1, <2>1, <2>2
  <2>4. /\ Append(t, e) \in Seq(W) /\ Len(Append(t, e)) = k + 1
        /\ Append(t, e)[k + 1] = e /\ \A i \in 1..k : Append(t, e)[i] = t[i]
    BY <2>2
  <2>5. \A i \in 1..(k + 1) : i = k + 1 \/ i \in 1..k
    OBVIOUS
  <2> QED BY <2>2, <2>3, <2>4, <2>5
<1> HIDE DEF T
<1>4. n \in T /\ n \in Nat
  BY <1>2, <1>3, Induction
<1>5. acc[n] \in Seq(W) /\ Len(acc[n]) = n /\ \A i \in 1..n : acc[n][i] = list[i]
  BY <1>4 DEF T
<1>6. acc[n] = list
  BY <1>5, SeqEqual
<1> QED BY <1>1, <1>6

Increasing(s) == \A i, j \in 1..Len(s) : i < j => s[i] < s[j]

\* What is kept of an increasing list is increasing.
LEMMA KeptIncreasing ==
  ASSUME NEW list \in Seq(Int), NEW S, Increasing(list)
  PROVE  Increasing(Kept(list, S))
<1> DEFINE n == Len(list)
<1>1. PICK acc : /\ acc[0] = <<>>
                 /\ \A k \in 1..n :
                      acc[k] = IF list[k] \in S THEN Append(acc[k - 1], list[k]) ELSE acc[k - 1]
                 /\ Kept(list, S) = acc[n]
  BY KeptStep
<1> DEFINE UpTo(t, k) == \A i \in 1..Len(t) : \E j \in 1..k : t[i] = list[j]
           T == {k \in Nat : k <= n => acc[k] \in Seq(Int) /\ Increasing(acc[k]) /\ UpTo(acc[k], k)}
<1>2. 0 \in T
  <2>1. <<>> \in Seq(Int) /\ Len(<<>>) = 0 /\ 1..0 = {}
    OBVIOUS
  <2> QED BY <1>1, <2>1 DEF Increasing
<1>3. ASSUME NEW k \in Nat, k \in T PROVE k + 1 \in T
  <2> SUFFICES ASSUME k + 1 <= n 
               PROVE  acc[k + 1] \in Seq(Int) /\ Increasing(acc[k + 1]) /\ UpTo(acc[k + 1], k + 1)
    OBVIOUS
  <2>1. k + 1 \in 1..n /\ (k + 1) - 1 = k /\ k <= n /\ k \in 0..n /\ 1..k \subseteq 1..(k + 1) /\ n \in Nat
    OBVIOUS
  <2>2. acc[k] \in Seq(Int) /\ Increasing(acc[k]) /\ UpTo(acc[k], k)
    BY <2>1, <1>3
  <2>3. CASE list[k + 1] \in S
    <3>1. PICK t, e : t = acc[k] /\ e = list[k + 1] /\ t \in Seq(Int) /\ e \in Int
      BY <2>1, <2>2
    <3>2. acc[k + 1] = Append(t, e)
      BY <1>1, <2>1, <2>3, <3>1
    <3>3. /\ Append(t, e) \in Seq(Int) /\ Len(Append(t, e)) = Len(t) + 1 /\ Len(t) \in Nat
          /\ Append(t, e)[Len(t) + 1] = e
          /\ \A i \in 1..Len(t) : Append(t, e)[i] = t[i]
      BY <3>1
    <3>4. \A i \in 1..Len(t) : t[i] < e
      <4> TAKE i \in 1..Len(t)
      <4>1. PICK j \in 1..k : t[i] = list[j]
        BY <2>2, <3>1
      <4>2. j \in 1..n /\ j < k + 1
        BY <2>1
      <4> QED BY <2>1, <3>1, <4>1, <4>2 DEF Increasing
    <3>5. Increasing(Append(t, e))
      <4> SUFFICES ASSUME NEW i \in 1..(Len(t) + 1), NEW j \in 1..(Len(t) + 1), i < j
                   PROVE  Append(t, e)[i] < Append(t, e)[j]
        BY <3>3 DEF Increasing
      <4>1. i \in 1..Len(t)
        BY <3>3
      <4>2. CASE j = Len(t) + 1
        BY <3>3, <3>4, <4>1, <4>2
      <4>3. CASE j # Len(t) + 1
        <5>1. j \in 1..Len(t)
          BY <3>3, <4>3
        <5>2. t[i] < t[j]
          BY <2>2, <3>1, <4>1, <5>1 DEF Increasing
        <5> QED BY <3>3, <4>1, <5>1, <5>2
      <4> QED BY <4>2, <4>3
    <3>6. UpTo(Append(t, e), k + 1)
      <4> SUFFICES ASSUME NEW i \in 1..(Len(t) + 1)
                   PROVE  \E j \in 1..(k + 1) : Append(t, e)[i] = list[j]
        BY <3>3
      <4>1. CASE i = Len(t) + 1
        <5>1. k + 1 \in 1..(k + 1)
          OBVIOUS
        <5> QED BY <3>1, <3>3, <4>1, <5>1
      <4>2. CASE i # Len(t) + 1
        <5>1. i \in 1..Len(t)
          BY <3>3, <4>2
        <5>2. PICK j \in 1..k : t[i] = list[j]
          BY <2>2, <3>1, <5>1
        <5> QED BY <2>1, <3>3, <5>1, <5>2
      <4> QED BY <4>1, <4>2
    <3> QED BY <3>2, <3>3, <3>5, <3>6
  <2>4. CASE list[k + 1] \notin S
    <3>1. acc[k + 1] = acc[k]
      BY <1>1, <2>1, <2>4
    <3> QED BY <2>1, <2>2, <3>1
  <2> QED BY <2>3, <2>4
<1> HIDE DEF T
<1>4. n \in T /\ n \in Nat
  BY <1>2, <1>3, Induction
<1> QED BY <1>1, <1>4 DEF T

-----------------------------------------------------------------------------
(***************************************************************************)
(* Sort.  A list has a sorted rearrangement, by induction on its length, and *)
(* only one: of an element that is too small in one, there would be more     *)
(* elements up to it in the one than in the other.                           *)
(***************************************************************************)
Id == [vid : Int, tool : Int]

LEMMA BeforeFacts ==
  ASSUME NEW a \in Id, NEW b \in Id, NEW c \in Id
  PROVE  /\ ~StylusBefore(a, a)
         /\ StylusBefore(a, b) => ~StylusBefore(b, a)
         /\ StylusBefore(a, b) \/ StylusBefore(b, a) \/ a = b
         /\ ~StylusBefore(b, a) /\ ~StylusBefore(c, b) => ~StylusBefore(c, a)
<1>1. PICK av, at, bv, bt, cv, ct :
        /\ av \in Int /\ at \in Int /\ bv \in Int /\ bt \in Int /\ cv \in Int /\ ct \in Int
        /\ a = [vid |-> av, tool |-> at] /\ b = [vid |-> bv, tool |-> bt]
        /\ c = [vid |-> cv, tool |-> ct]
  BY DEF Id
<1> QED BY <1>1 DEF StylusBefore

LEMMA SortExists ==
  ASSUME NEW n \in Nat
  PROVE  \A list \in [1..n -> Id] : \E q \in [1..n -> 1..n] :
           /\ \A i, j \in 1..n : q[i] = q[j] => i = j
           /\ \A i, j \in 1..n : i < j => ~StylusBefore(list[q[j]], list[q[i]])
<1> DEFINE Sorts(list, q, k) ==
             /\ q \in [1..k -> 1..k]
             /\ \A i, j \in 1..k : q[i] = q[j] => i = j
             /\ \A i, j \in 1..k : i < j => ~StylusBefore(list[q[j]], list[q[i]])
           S == {k \in Nat : \A list \in [1..k -> Id] : \E q : Sorts(list, q, k)}
<1>1. 0 \in S
  <2> SUFFICES ASSUME NEW list PROVE \E q : Sorts(list, q, 0)
    OBVIOUS
  <2> DEFINE q == [i \in 1..0 |-> i]
  <2>1. Sorts(list, q, 0)
    OBVIOUS
  <2> QED BY <2>1
<1>2. ASSUME NEW k \in Nat, k \in S PROVE k + 1 \in S
  <2> SUFFICES ASSUME NEW list \in [1..(k + 1) -> Id] PROVE \E q : Sorts(list, q, k + 1)
    OBVIOUS
  <2> DEFINE most == [i \in 1..k |-> list[i]]
             x == list[k + 1]
  <2>1. most \in [1..k -> Id] /\ x \in Id /\ k + 1 \in 1..(k + 1) /\ 1..k \subseteq 1..(k + 1)
    OBVIOUS
  <2>2. PICK p : Sorts(most, p, k)
    BY <1>2, <2>1
  <2>3. \A i \in 1..k : p[i] \in 1..k /\ most[p[i]] = list[p[i]] /\ list[p[i]] \in Id
    BY <2>1, <2>2
  <2>10. \A l, m \in 1..k : l < m => ~StylusBefore(list[p[m]], list[p[l]])
    BY <2>2, <2>3
  \* The place of the last element: before the first that is greater.
  <2> DEFINE Greater == {i \in 1..k : StylusBefore(x, list[p[i]])}
             place == IF Greater = {} THEN k + 1 ELSE Min(Greater)
  <2>4. /\ place \in 1..(k + 1)
        /\ \A i \in 1..k : i < place => ~StylusBefore(x, list[p[i]])
        /\ \A i \in 1..k : i >= place => ~StylusBefore(list[p[i]], x)
    <3>1. CASE Greater = {}
      BY <3>1
    <3>2. CASE Greater # {}
      <4>1. Greater \in SUBSET Nat
        OBVIOUS
      <4>2. Min(Greater) \in Greater /\ \A y \in Greater : Min(Greater) <= y
        BY <3>2, <4>1, LeastElement
      <4>3. place \in Greater /\ \A y \in Greater : place <= y
        BY <3>2, <4>2
      <4> HIDE DEF place
      <4>4. place \in 1..k /\ StylusBefore(x, list[p[place]])
        BY <4>3
      <4>5. \A i \in 1..k : i < place => ~StylusBefore(x, list[p[i]])
        BY <4>3, <4>4
      <4>6. ASSUME NEW i \in 1..k, i >= place PROVE ~StylusBefore(list[p[i]], x)
        <5>1. i = place \/ ~StylusBefore(list[p[i]], list[p[place]])
          BY <2>10, <4>4, <4>6
        <5> QED BY <2>1, <2>3, <4>4, <4>6, <5>1, BeforeFacts
      <4> QED BY <4>4, <4>5, <4>6
    <3> QED BY <3>1, <3>2
  <2> HIDE DEF place
  <2> DEFINE q == [i \in 1..(k + 1) |-> IF i < place THEN p[i] ELSE IF i = place THEN k + 1 ELSE p[i - 1]]
  <2>5. ASSUME NEW i \in 1..(k + 1)
        PROVE  \/ i < place /\ i \in 1..k /\ q[i] = p[i]
               \/ i = place /\ q[i] = k + 1
               \/ i > place /\ i - 1 \in 1..k /\ i - 1 >= place /\ q[i] = p[i - 1]
    BY <2>4
  <2> HIDE DEF q
  <2>6. \A i \in 1..(k + 1) : q[i] \in 1..(k + 1)
    BY <2>1, <2>3, <2>5
  <2>7. ASSUME NEW i \in 1..(k + 1), NEW j \in 1..(k + 1), q[i] = q[j] PROVE i = j
    <3>1. \A l \in 1..k : p[l] # k + 1
      <4>1. \A e \in 1..k : e # k + 1
        OBVIOUS
      <4>2. \A l \in 1..k : p[l] \in 1..k
        BY <2>3
      <4> QED BY <4>1, <4>2, Zenon
    <3>2. \A l, m \in 1..k : p[l] = p[m] => l = m
      BY <2>2
    <3> QED BY <2>4, <2>5, <2>7, <3>1, <3>2
  <2>8. ASSUME NEW i \in 1..(k + 1), NEW j \in 1..(k + 1), i < j
        PROVE  ~StylusBefore(list[q[j]], list[q[i]])
    <3>2. CASE j < place
      <4>1. i < place /\ j \in 1..k /\ i \in 1..k /\ q[i] = p[i] /\ q[j] = p[j]
        BY <2>4, <2>5, <2>8, <3>2
      <4> QED BY <2>8, <2>10, <4>1
    <3>3. CASE j = place
      <4>1. i < place /\ i \in 1..k /\ q[i] = p[i] /\ q[j] = k + 1
        BY <2>4, <2>5, <2>8, <3>3
      <4> QED BY <2>4, <4>1
    <3>4. CASE j > place
      <4>1. j - 1 \in 1..k /\ j - 1 >= place /\ q[j] = p[j - 1]
        BY <2>4, <2>5, <3>4
      <4>2. CASE i = place
        <5>1. q[i] = k + 1
          BY <2>4, <2>5, <4>2
        <5> QED BY <2>4, <4>1, <5>1
      <4>3. CASE i < place
        <5>1. i \in 1..k /\ q[i] = p[i] /\ i < j - 1
          BY <2>4, <2>5, <4>1, <4>3
        <5> QED BY <2>10, <4>1, <5>1
      <4>4. CASE i > place
        <5>1. i - 1 \in 1..k /\ q[i] = p[i - 1] /\ i - 1 < j - 1
          BY <2>4, <2>5, <2>8, <4>4
        <5> QED BY <2>10, <4>1, <5>1
      <4> QED BY <2>4, <4>2, <4>3, <4>4
    <3> QED BY <2>4, <3>2, <3>3, <3>4
  <2>9. q \in [1..(k + 1) -> 1..(k + 1)]
    BY <2>6 DEF q
  <2>11. Sorts(list, q, k + 1)
    BY <2>7, <2>8, <2>9
  <2> QED BY <2>11
<1>3. \A list \in [1..n -> Id] : \E q : Sorts(list, q, n)
  <2> HIDE DEF Sorts
  <2>1. n \in S
    <3> HIDE DEF S
    <3> QED BY <1>1, <1>2, Induction
  <2> QED BY <2>1
<1> QED BY <1>3

\* A sorted rearrangement has no element smaller than the other has at its place.
LEMMA NoLess ==
  ASSUME NEW n \in Nat, NEW t \in [1..n -> Id], NEW u \in [1..n -> Id], Ascending(t), Ascending(u),
         NEW q \in [1..n -> 1..n], \A k \in 1..n : \E j \in 1..n : q[j] = k,
         \A j \in 1..n : u[j] = t[q[j]],
         NEW i \in 1..n
  PROVE  ~StylusBefore(t[i], u[i])
<1> SUFFICES ASSUME StylusBefore(t[i], u[i]) PROVE FALSE
  OBVIOUS
<1> DEFINE A == {j \in 1..n : ~StylusBefore(t[i], u[j])}
           B == {k \in 1..n : ~StylusBefore(t[i], t[k])}
           f == [j \in A |-> q[j]]
<1>1. /\ \A j, k \in 1..n : j < k => ~StylusBefore(t[k], t[j])
      /\ \A j, k \in 1..n : j < k => ~StylusBefore(u[k], u[j])
  BY DEF Ascending
<1>2. \A j \in 1..n : t[j] \in Id /\ u[j] \in Id
  OBVIOUS
<1>3. A \subseteq 1..(i - 1)
  <2> SUFFICES ASSUME NEW j \in 1..n, j >= i PROVE StylusBefore(t[i], u[j])
    OBVIOUS
  <2>1. j = i \/ ~StylusBefore(u[j], u[i])
    BY <1>1
  <2> QED BY <1>2, <2>1, BeforeFacts
<1>4. 1..i \subseteq B
  <2>0. 1..i \subseteq {k \in 1..n : k <= i}
    OBVIOUS
  <2> SUFFICES ASSUME NEW k \in 1..n, k <= i PROVE ~StylusBefore(t[i], t[k])
    BY <2>0
  <2>1. k = i \/ ~StylusBefore(t[i], t[k])
    BY <1>1
  <2> QED BY <1>2, <2>1, BeforeFacts
<1>5. f \in Surjection(A, B)
  <2>1. \A j \in A : f[j] \in B
    OBVIOUS
  <2>2. \A k \in B : \E j \in A : f[j] = k
    OBVIOUS
  <2> QED BY <2>1, <2>2 DEF Surjection
<1>6. IsFiniteSet(1..(i - 1)) /\ Cardinality(1..(i - 1)) = i - 1 /\ Cardinality(1..i) = i
  <2>1. i - 1 \in Int /\ i \in Int /\ 1 \in Int /\ i >= 1
    OBVIOUS
  <2>2. /\ IsFiniteSet(1..(i - 1))
        /\ Cardinality(1..(i - 1)) = IF 1 > i - 1 THEN 0 ELSE (i - 1) - 1 + 1
        /\ Cardinality(1..i) = IF 1 > i THEN 0 ELSE i - 1 + 1
    BY <2>1, FS_Interval
  <2> QED BY <2>1, <2>2
<1>7. IsFiniteSet(A) /\ Cardinality(A) <= i - 1 /\ Cardinality(A) \in Nat
  BY <1>3, <1>6, FS_Subset, FS_CardinalityType
<1>8. IsFiniteSet(B) /\ Cardinality(B) <= Cardinality(A)
  BY <1>5, <1>7, FS_Surjection
<1>9. i <= Cardinality(B) /\ Cardinality(B) \in Nat
  <2>1. Cardinality(1..i) <= Cardinality(B) /\ Cardinality(B) \in Nat
    BY <1>4, <1>8, FS_Subset, FS_CardinalityType
  <2> QED BY <1>6, <2>1
<1> HIDE DEF A, B
<1> QED BY <1>7, <1>8, <1>9

LEMMA SortFacts ==
  ASSUME NEW list \in Seq(Id)
  PROVE  /\ Sort(list) \in Rearranged(list) /\ Ascending(Sort(list))
         /\ Sort(list) \in Seq(Id)
<1> DEFINE n == Len(list)
<1>1. n \in Nat /\ DOMAIN list = 1..n /\ list \in [1..n -> Id]
  OBVIOUS
<1>2. PICK q \in [1..n -> 1..n] :
        /\ \A i, j \in 1..n : q[i] = q[j] => i = j
        /\ \A i, j \in 1..n : i < j => ~StylusBefore(list[q[j]], list[q[i]])
  BY <1>1, SortExists
<1>3. q \in Bijection(1..n, 1..n)
  <2>1. q \in Injection(1..n, 1..n)
    BY <1>2 DEF Injection, IsInjective
  <2>2. IsFiniteSet(1..n)
    BY <1>1, FS_Interval
  <2>3. q \in Surjection(1..n, 1..n)
    BY <2>1, <2>2, FS_Injection
  <2> QED BY <2>1, <2>3 DEF Bijection
<1> DEFINE sorted == [i \in DOMAIN list |-> list[q[i]]]
<1>4. sorted \in Rearranged(list)
  BY <1>1, <1>3 DEF Rearranged
<1>5. Ascending(sorted)
  BY <1>1, <1>2 DEF Ascending
<1> HIDE DEF sorted
<1>6. Sort(list) \in Rearranged(list) /\ Ascending(Sort(list))
  BY <1>4, <1>5 DEF Sort
<1>7. Sort(list) \in Seq(Id)
  <2>1. PICK p \in Bijection(1..n, 1..n) : Sort(list) = [i \in DOMAIN list |-> list[p[i]]]
    BY <1>1, <1>6 DEF Rearranged
  <2>2. p \in [1..n -> 1..n]
    BY DEF Bijection, Injection
  <2> QED BY <1>1, <2>1, <2>2
<1> QED BY <1>6, <1>7

\* A sorted list is not changed.
LEMMA SortSorted ==
  ASSUME NEW list \in Seq(Id), Ascending(list)
  PROVE  Sort(list) = list
<1> DEFINE n == Len(list)
<1>1. n \in Nat /\ DOMAIN list = 1..n /\ list \in [1..n -> Id]
  OBVIOUS
<1>2. PICK u : u = Sort(list) /\ u \in Rearranged(list) /\ Ascending(u)
  BY SortFacts
<1>3. PICK p \in Bijection(1..n, 1..n) : u = [i \in 1..n |-> list[p[i]]]
  BY <1>1, <1>2 DEF Rearranged
<1>4. /\ p \in [1..n -> 1..n] /\ \A k \in 1..n : \E j \in 1..n : p[j] = k
      /\ \A i, j \in 1..n : p[i] = p[j] => i = j
  BY DEF Bijection, Injection, Surjection, IsInjective
<1>5. u \in [1..n -> Id] /\ \A j \in 1..n : u[j] = list[p[j]]
  BY <1>1, <1>3, <1>4
<1>6. \A i \in 1..n : ~StylusBefore(list[i], u[i])
  <2> HIDE DEF n
  <2>1. Ascending(list) /\ Ascending(u)
    BY <1>2
  <2>2. /\ n \in Nat /\ list \in [1..n -> Id] /\ u \in [1..n -> Id] /\ p \in [1..n -> 1..n]
        /\ \A k \in 1..n : \E j \in 1..n : p[j] = k
        /\ \A j \in 1..n : u[j] = list[p[j]]
    BY <1>1, <1>4, <1>5
  <2> QED BY <2>1, <2>2, NoLess, Zenon
<1> DEFINE r == [k \in 1..n |-> CHOOSE j \in 1..n : p[j] = k]
<1>7. \A k \in 1..n : r[k] \in 1..n /\ p[r[k]] = k
  BY <1>4
<1>8. r \in [1..n -> 1..n]
  BY <1>7
<1> HIDE DEF r
<1>9. \A k \in 1..n : \E j \in 1..n : r[j] = k
  BY <1>4, <1>7
<1>10. \A k \in 1..n : list[k] = u[r[k]]
  BY <1>5, <1>7
<1>11. \A i \in 1..n : ~StylusBefore(u[i], list[i])
  BY <1>1, <1>2, <1>5, <1>8, <1>9, <1>10, NoLess
<1>12. \A i \in 1..n : u[i] = list[i]
  <2> TAKE i \in 1..n
  <2>1. u[i] \in Id /\ list[i] \in Id
    BY <1>1, <1>5
  <2> QED BY <2>1, <1>6, <1>11, BeforeFacts
<1>13. u = list
  BY <1>1, <1>5, <1>12
<1> QED BY <1>2, <1>13

-----------------------------------------------------------------------------
(***************************************************************************)
(* Matches: one that is read prints as a string that reads as the match, and *)
(* matches collected from a file are collected once more from what they      *)
(* print.                                                                    *)
(***************************************************************************)
LEMMA PrintedShape ==
  ASSUME NEW s, IsMatchText(s), IsMatchString(s), s # Generic
  PROVE  LET m == MatchFromString(s)
             r == PrintMatch(m)
         IN  /\ m = MatchNew(PieceOf(s, 4), PieceOf(s, 5), s[1], s[2], s[3])
             /\ s[1] \in Bus /\ s[2] \in 0..MaxId /\ s[3] \in 0..MaxId
             /\ Len(s) = 3 => r = <<s[1], s[2], s[3]>>
             /\ Len(s) = 4 => r = <<s[1], s[2], s[3], s[4]>>
             /\ Len(s) > 4 => r = <<s[1], s[2], s[3], s[4], s[5]>>
<1> DEFINE name == PieceOf(s, 4)
           uniq == PieceOf(s, 5)
<1>1. PICK b, v, p, x, y : b = s[1] /\ v = s[2] /\ p = s[3] /\ x = s[4] /\ y = s[5]
  OBVIOUS
<1>2. Len(s) \in Nat /\ Len(s) >= 3 /\ b \in Bus /\ v \in 0..MaxId /\ p \in 0..MaxId
  BY <1>1 DEF IsMatchText, IsList, IsMatchString
<1>3. PICK m : m = MatchFromString(s)
  OBVIOUS
<1>4. m = MatchNew(name, uniq, b, v, p)
  BY <1>1, <1>3 DEF MatchFromString
<1>5. /\ name = IF Len(s) >= 4 THEN <<x>> ELSE Null
      /\ uniq = IF Len(s) >= 5 THEN <<y>> ELSE Null
      /\ Len(s) >= 4 => <<x>> # Null
      /\ Len(s) >= 5 => <<y>> # Null
  BY <1>1, <1>2 DEF PieceOf, IsMatchText
<1> HIDE DEF name, uniq
<1>6. b # "unknown"
  BY <1>2 DEF Bus
<1>7. m = [name |-> name, uniq |-> uniq, bus |-> b, vid |-> v, pid |-> p,
           match |-> MakeMatchString(name, uniq, b, v, p)]
  BY <1>4, <1>6 DEF MatchNew
<1>8. /\ m.name = name /\ m.uniq = uniq /\ m.bus = b /\ m.vid = v /\ m.pid = p
      /\ m.match = MakeMatchString(name, uniq, b, v, p)
  BY <1>7
<1>9. Shape(m.match, name, uniq, b, v, p, x, y)
  <2>1. (name # Null => name = <<x>>) /\ (uniq # Null => uniq = <<y>>)
    BY <1>5
  <2> QED BY <1>8, <2>1, Shapes
<1>10. m.match # Generic
  <2>1. PICK t : t = m.match
    OBVIOUS
  <2>2. Len(t) = IF uniq # Null THEN 5 ELSE IF name # Null THEN 4 ELSE 3
    BY <1>9, <2>1, TupleLengths DEF Shape
  <2>3. Len(t) # 1
    BY <2>2
  <2> QED BY <2>1, <2>3, TupleLengths
<1>11. PrintMatch(m) = <<b, v, p>> \o PiecesIf(name) \o PiecesIf(uniq)
  BY <1>8, <1>10 DEF PrintMatch
<1>12. CASE Len(s) = 3
  <2>1. name = Null /\ uniq = Null
    BY <1>5, <1>12
  <2>2. PrintMatch(m) = <<b, v, p>> \o <<>> \o <<>>
    BY <1>11, <2>1 DEF PiecesIf
  <2>3. PrintMatch(m) = <<b, v, p>>
    BY <2>2, JoinNone
  <2>4. Len(s) # 4 /\ ~(Len(s) > 4)
    BY <1>12
  <2> QED BY <1>1, <1>2, <1>3, <1>4, <2>3, <2>4 DEF name, uniq
<1>13. CASE Len(s) = 4
  <2>1. name = <<x>> /\ name # Null /\ uniq = Null
    BY <1>5, <1>13
  <2>2. PrintMatch(m) = <<b, v, p>> \o <<x>> \o <<>>
    BY <1>11, <2>1 DEF PiecesIf
  <2>3. PrintMatch(m) = <<b, v, p, x>>
    BY <2>2, Join4, JoinNone
  <2>4. Len(s) # 3 /\ ~(Len(s) > 4)
    BY <1>13
  <2> QED BY <1>1, <1>2, <1>3, <1>4, <2>3, <2>4 DEF name, uniq
<1>14. CASE Len(s) > 4
  <2>1. name = <<x>> /\ name # Null /\ uniq = <<y>> /\ uniq # Null
    BY <1>2, <1>5, <1>14
  <2>2. PrintMatch(m) = <<b, v, p>> \o <<x>> \o <<y>>
    BY <1>11, <2>1 DEF PiecesIf
  <2>3. PrintMatch(m) = <<b, v, p, x, y>>
    <3>1. <<b, v, p>> \o <<x>> = <<b, v, p, x>>
      BY Join4
    <3>2. <<b, v, p, x>> \o <<y>> = <<b, v, p, x, y>>
      BY Join5
    <3> QED BY <2>2, <3>1, <3>2, Zenon
  <2>4. Len(s) # 3 /\ Len(s) # 4
    BY <1>14
  <2>5. /\ MatchFromString(s) = m
        /\ m = MatchNew(PieceOf(s, 4), PieceOf(s, 5), s[1], s[2], s[3])
        /\ s[1] \in Bus /\ s[2] \in 0..MaxId /\ s[3] \in 0..MaxId
        /\ PrintMatch(m) = <<s[1], s[2], s[3], s[4], s[5]>>
    BY <1>1, <1>2, <1>3, <1>4, <2>3 DEF name, uniq
  <2> QED BY <2>4, <2>5, Zenon
<1>15. Len(s) = 3 \/ Len(s) = 4 \/ Len(s) > 4
  <2>1. PICK n : n = Len(s) /\ n \in Nat /\ n >= 3
    BY <1>2
  <2>2. n = 3 \/ n = 4 \/ n > 4
    BY <2>1
  <2> QED BY <2>1, <2>2, Zenon
<1> QED BY <1>12, <1>13, <1>14, <1>15, Zenon

LEMMA ReadPrinted ==
  ASSUME NEW s, IsMatchText(s), IsMatchString(s)
  PROVE  LET m == MatchFromString(s)
         IN  /\ IsMatchString(PrintMatch(m))
             /\ MatchFromString(PrintMatch(m)) = m
             /\ s # Generic => PrintMatch(m) # Generic
<1>1. PICK m : m = MatchFromString(s)
  OBVIOUS
<1>2. CASE s = Generic
  <2>1. m = MatchNew(Null, Null, "unknown", 0, 0)
    BY <1>1, <1>2 DEF MatchFromString
  <2>2. m.match = Generic
    BY <2>1 DEF MatchNew
  <2>3. PrintMatch(m) = Generic
    BY <2>2 DEF PrintMatch
  <2> QED BY <1>1, <1>2, <2>3 DEF IsMatchString
<1>3. CASE s # Generic
  <2>1. PICK b, v, p, x, y, n :
          b = s[1] /\ v = s[2] /\ p = s[3] /\ x = s[4] /\ y = s[5] /\ n = Len(s)
    OBVIOUS
  <2>2. PICK r : r = PrintMatch(m)
    OBVIOUS
  <2>3. /\ m = MatchNew(PieceOf(s, 4), PieceOf(s, 5), b, v, p)
        /\ b \in Bus /\ v \in 0..MaxId /\ p \in 0..MaxId
        /\ n = 3 => r = <<b, v, p>>
        /\ n = 4 => r = <<b, v, p, x>>
        /\ n > 4 => r = <<b, v, p, x, y>>
    BY <1>1, <1>3, <2>1, <2>2, PrintedShape
  <2>4. n \in Nat /\ n >= 3
    BY <1>3, <2>1 DEF IsMatchText, IsList, IsMatchString
  <2>5. /\ r[1] = b /\ r[2] = v /\ r[3] = p /\ Len(r) >= 3
        /\ n = 3 => Len(r) = 3
        /\ n = 4 => Len(r) = 4 /\ r[4] = x
        /\ n > 4 => Len(r) = 5 /\ r[4] = x /\ r[5] = y
    <3>1. n = 3 \/ n = 4 \/ n > 4
      BY <2>4
    <3>2. CASE n = 3
      BY <2>3, <3>2, TupleLengths
    <3>3. CASE n = 4
      BY <2>3, <3>3, TupleLengths
    <3>4. CASE n > 4
      BY <2>3, <3>4, <2>4, TupleLengths
    <3> QED BY <3>1, <3>2, <3>3, <3>4
  <2>6. r # Generic
    BY <2>5, TupleLengths
  <2>7. PieceOf(r, 4) = PieceOf(s, 4) /\ PieceOf(r, 5) = PieceOf(s, 5)
    BY <2>1, <2>4, <2>5 DEF PieceOf
  <2>8. MatchFromString(r) = m
    BY <2>3, <2>5, <2>6, <2>7 DEF MatchFromString
  <2>9. IsMatchString(r)
    BY <2>3, <2>5 DEF IsMatchString
  <2> QED BY <1>1, <2>2, <2>6, <2>8, <2>9
<1> QED BY <1>2, <1>3

LEMMA ParsePrinted ==
  ASSUME NEW W, NEW ms \in Seq(W), NoneTwice(ms),
         \A m \in W : IsMatchString(PrintMatch(m)) /\ MatchFromString(PrintMatch(m)) = m
  PROVE  ParseMatches([i \in DOMAIN ms |-> PrintMatch(ms[i])]) = ms
<1> DEFINE strings == [i \in DOMAIN ms |-> PrintMatch(ms[i])]
           n == Len(ms)
<1>1. n \in Nat /\ DOMAIN ms = 1..n /\ DOMAIN strings = 1..n /\ \A i \in 1..n : ms[i] \in W
  OBVIOUS
<1>2. \A i \in 1..n : IsMatchString(strings[i]) /\ MatchFromString(strings[i]) = ms[i]
  BY <1>1
<1> HIDE DEF strings
<1>3. PICK acc : /\ acc[0] = <<>>
                 /\ \A k \in 1..n : acc[k] = Collect(acc[k - 1], strings[k])
                 /\ ParseMatches(strings) = acc[n]
  BY <1>1, ParseStep
<1> DEFINE T == {k \in Nat : k <= n => /\ acc[k] \in Seq(W) /\ Len(acc[k]) = k
                                       /\ \A i \in 1..k : acc[k][i] = ms[i]}
<1>4. 0 \in T
  <2>1. <<>> \in Seq(W) /\ Len(<<>>) = 0 /\ 1..0 = {}
    OBVIOUS
  <2> QED BY <1>3, <2>1
<1>5. ASSUME NEW k \in Nat, k \in T PROVE k + 1 \in T
  <2> SUFFICES ASSUME k + 1 <= n
               PROVE  /\ acc[k + 1] \in Seq(W) /\ Len(acc[k + 1]) = k + 1
                      /\ \A i \in 1..(k + 1) : acc[k + 1][i] = ms[i]
    OBVIOUS
  <2>1. k + 1 \in 1..n /\ (k + 1) - 1 = k /\ k <= n
    OBVIOUS
  <2>2. PICK t, e : /\ t = acc[k] /\ e = ms[k + 1] /\ t \in Seq(W) /\ e \in W
                    /\ Len(t) = k /\ \A i \in 1..k : t[i] = ms[i]
    BY <1>1, <2>1, <1>5
  <2>3. acc[k + 1] = AddMatch(t, e)
    BY <1>2, <1>3, <2>1, <2>2 DEF Collect
  <2>4. ~ \E i \in DOMAIN t : t[i].match = e.match
    <3> SUFFICES ASSUME NEW i \in DOMAIN t, t[i].match = e.match PROVE FALSE
      OBVIOUS
    <3>1. i \in 1..k /\ i \in 1..n /\ i # k + 1
      BY <2>1, <2>2
    <3>2. ms[i].match = ms[k + 1].match
      BY <2>2, <3>1
    <3> QED BY <1>1, <2>1, <3>1, <3>2 DEF NoneTwice
  <2>5. acc[k + 1] = Append(t, e)
    BY <2>3, <2>4 DEF AddMatch
  <2>6. /\ Append(t, e) \in Seq(W) /\ Len(Append(t, e)) = k + 1
        /\ Append(t, e)[k + 1] = e /\ \A i \in 1..k : Append(t, e)[i] = t[i]
    BY <2>2
  <2>7. \A i \in 1..(k + 1) : i = k + 1 \/ i \in 1..k
    OBVIOUS
  <2> QED BY <2>2, <2>5, <2>6, <2>7
<1> HIDE DEF T
<1>6. n \in T /\ n \in Nat
  BY <1>1, <1>4, <1>5, Induction
<1>7. acc[n] \in Seq(W) /\ Len(acc[n]) = n /\ \A i \in 1..n : acc[n][i] = ms[i]
  BY <1>6 DEF T
<1>8. acc[n] = ms
  BY <1>7, SeqEqual
<1> QED BY <1>3, <1>8 DEF strings

LEMMA MatchesReread ==
  ASSUME NEW f, IsTabletFile(f)
  PROVE  LET ms == ParseMatches(f.deviceMatch)
         IN  ParseMatches([i \in DOMAIN ms |-> PrintMatch(ms[i])]) = ms
<1>1. PICK strings : strings = f.deviceMatch
  OBVIOUS
<1>2. /\ Len(strings) \in Nat /\ DOMAIN strings = 1..Len(strings)
      /\ \A t \in Range(strings) : IsMatchText(t)
  BY <1>1 DEF IsTabletFile, IsList, Range
<1>3. ParseMatches(strings) \in Seq(Read(strings)) /\ NoneTwice(ParseMatches(strings))
  BY <1>2, ParseFacts
<1>4. \A m \in Read(strings) : IsMatchString(PrintMatch(m)) /\ MatchFromString(PrintMatch(m)) = m
  BY <1>2, ReadPrinted DEF Read
<1> QED BY <1>1, <1>3, <1>4, ParsePrinted

LEMMA PairedReread ==
  ASSUME NEW f, IsTabletFile(f), NEW g,
         g.pairedID = IF PairedOf(f) = Null THEN Null ELSE PrintMatch(PairedOf(f))
  PROVE  PairedOf(g) = PairedOf(f)
<1>1. CASE PairedOf(f) = Null
  BY <1>1 DEF PairedOf
<1>2. CASE PairedOf(f) # Null
  <2>1. PICK s : s = f.pairedID
    OBVIOUS
  <2>2. /\ s # Null /\ s # Generic /\ IsMatchString(s) /\ PairedOf(f) = MatchFromString(s)
    BY <1>2, <2>1 DEF PairedOf
  <2>3. IsMatchText(s) /\ PrintMatch(MatchFromString(s)) # Null
    BY <2>1, <2>2 DEF IsTabletFile
  <2>4. /\ IsMatchString(PrintMatch(MatchFromString(s)))
        /\ MatchFromString(PrintMatch(MatchFromString(s))) = MatchFromString(s)
        /\ PrintMatch(MatchFromString(s)) # Generic
    BY <2>2, <2>3, ReadPrinted
  <2>5. g.pairedID = PrintMatch(MatchFromString(s))
    BY <1>2, <2>2
  <2> QED BY <2>2, <2>3, <2>4, <2>5 DEF PairedOf
<1> QED BY <1>1, <1>2

-----------------------------------------------------------------------------
(***************************************************************************)
(* The other keys, but for the buttons.                                      *)
(***************************************************************************)
LEMMA SizeReread == \A n \in Int : SizeInMm(SizeInMm(n)) = SizeInMm(n)
<1> TAKE n \in Int
<1>1. CASE n \in 1..19
  <2>1. PICK m : m = (n * 254 + 5) \div 10
    OBVIOUS
  <2>2. m >= 20
    BY <1>1, <2>1
  <2>3. SizeInMm(n) = m
    BY <1>1, <2>1 DEF SizeInMm
  <2>4. m \notin 1..19
    BY <2>2
  <2>5. SizeInMm(m) = m
    BY <2>4 DEF SizeInMm
  <2> QED BY <2>3, <2>5
<1>2. CASE n \notin 1..19
  BY <1>2 DEF SizeInMm
<1> QED BY <1>1, <1>2

LEMMA ClassReread == \A string : ClassOf(ClassOf(string)) = ClassOf(string)
<1>1. "Unknown" \notin Class
  BY DEF Class
<1> QED BY <1>1 DEF ClassOf

LEMMA IntegrationReread ==
  ASSUME NEW f, NEW g,
         g.integratedIn = IF IntegrationOf(f) = Null THEN Null
                          ELSE Kept(<<"Display", "System", "Remote">>, IntegrationOf(f))
  PROVE  IntegrationOf(g) = IntegrationOf(f)
<1>1. CASE IntegrationOf(f) = Null
  BY <1>1 DEF IntegrationOf
<1>2. CASE IntegrationOf(f) # Null
  <2> DEFINE all == <<"Display", "System", "Remote">>
             kept == Kept(all, IntegrationOf(f))
  <2>1. all \in Seq(IntegrationFlag) /\ Range(all) = IntegrationFlag
    <3>1. PICK a, b, c : a = "Display" /\ b = "System" /\ c = "Remote"
      OBVIOUS
    <3>2. PICK t : t = <<a, b, c>>
      OBVIOUS
    <3>3. t \in Seq({a, b, c}) /\ Range(t) = {a, b, c}
      BY <3>2 DEF Range
    <3>4. IntegrationFlag = {a, b, c} /\ all = t
      BY <3>1, <3>2 DEF IntegrationFlag
    <3> QED BY <3>3, <3>4
  <2>2. IntegrationOf(f) \subseteq IntegrationFlag
    BY <1>2 DEF IntegrationOf
  <2> HIDE DEF all
  <2>3. /\ kept \in Seq(IntegrationFlag \cap IntegrationOf(f))
        /\ Range(kept) = Range(all) \cap IntegrationOf(f)
    BY <2>1, KeptFacts
  <2>4. kept \in Seq(IntegrationFlag) /\ Range(kept) = IntegrationOf(f)
    BY <2>1, <2>2, <2>3
  <2>5. kept # Null
    BY <2>4, NullAssumption
  <2>6. g.integratedIn = kept
    BY <1>2 DEF all
  <2> QED BY <2>2, <2>4, <2>5, <2>6 DEF IntegrationOf
<1> QED BY <1>1, <1>2

\* Kept looks at the elements of a list only.
LEMMA KeptOf ==
  ASSUME NEW list, IsList(list), NEW S
  PROVE  Kept(list, S) \in Seq(S)
<1> DEFINE copy == [i \in DOMAIN list |-> list[i]]
<1>1. copy \in Seq(Range(list))
  BY DEF IsList, Range
<1>2. Kept(copy, S) \in Seq(Range(list) \cap S)
  BY <1>1, KeptFacts
<1>3. Kept(list, S) = Kept(copy, S)
  <2>1. [i \in DOMAIN list |-> IF list[i] \in S THEN <<list[i]>> ELSE <<>>]
          = [i \in DOMAIN copy |-> IF copy[i] \in S THEN <<copy[i]>> ELSE <<>>]
    OBVIOUS
  <2> QED BY <2>1 DEF Kept
<1> QED BY <1>2, <1>3

LEMMA LedsReread ==
  ASSUME NEW list, IsList(list)
  PROVE  Kept(Kept(Kept(list, ModeSwitch), ModeSwitch), ModeSwitch) = Kept(list, ModeSwitch)
<1>1. PICK leds : leds = Kept(list, ModeSwitch) /\ leds \in Seq(ModeSwitch)
  BY KeptOf
<1>2. \A i \in 1..Len(leds) : leds[i] \in ModeSwitch
  BY <1>1
<1>3. Kept(leds, ModeSwitch) = leds
  BY <1>1, <1>2, KeptAll
<1> QED BY <1>1, <1>3

\* The styli of a device are styli of the database.
LEMMA ItemFacts ==
  ASSUME NEW item
  PROVE  StyliOfItem(item) \in Seq(DOMAIN StylusGroup)
<1>1. CASE "group" \in DOMAIN item
  <2> DEFINE S == {id \in DOMAIN StylusGroup : StylusGroup[id] = item.group}
             n == Cardinality(S)
  <2>1. IsFiniteSet(S)
    BY StylusAssumption, FS_Subset
  <2>2. n \in Nat /\ ExistsBijection(1..n, S)
    BY <2>1, FS_CardinalityType
  <2>3. PICK q : q \in [1..n -> S] /\ IsInjective(q)
    BY <2>2 DEF ExistsBijection, Bijection, Injection
  <2>4. SetToSeq(S) \in [1..n -> S]
    BY <2>3 DEF SetToSeq
  <2>5. SetToSeq(S) \in Seq(DOMAIN StylusGroup)
    BY <2>2, <2>4
  <2> QED BY <1>1, <2>5 DEF StyliOfItem
<1>2. CASE "group" \notin DOMAIN item
  <2>1. PICK id : id = ParsedStylusId(item)
    OBVIOUS
  <2>2. <<id>> \in Seq({id})
    OBVIOUS
  <2>3. Kept(<<id>>, DOMAIN StylusGroup) \in Seq({id} \cap DOMAIN StylusGroup)
    BY <2>2, KeptFacts
  <2>4. Kept(<<id>>, DOMAIN StylusGroup) \in Seq(DOMAIN StylusGroup)
    BY <2>3
  <2> QED BY <1>2, <2>1, <2>4 DEF StyliOfItem
<1> QED BY <1>1, <1>2

StyliOfItems(items) == Sort(FlattenSeq([i \in DOMAIN items |-> StyliOfItem(items[i])]))

LEMMA StyliFacts ==
  ASSUME NEW items, IsList(items)
  PROVE  StyliOfItems(items) \in Seq(DOMAIN StylusGroup) /\ Ascending(StyliOfItems(items))
<1> DEFINE seqs == [i \in DOMAIN items |-> StyliOfItem(items[i])]
<1>1. seqs \in Seq(Seq(DOMAIN StylusGroup))
  BY ItemFacts DEF IsList
<1>2. PICK list : list = FlattenSeq(seqs) /\ list \in Seq(DOMAIN StylusGroup)
  BY <1>1, FlattenIn
<1>3. list \in Seq(Id)
  <2>1. DOMAIN StylusGroup \subseteq Id
    BY StylusAssumption DEF Id
  <2> QED BY <1>2, <2>1
<1>4. Sort(list) \in Rearranged(list) /\ Ascending(Sort(list))
  BY <1>3, SortFacts
<1>5. Sort(list) \in Seq(DOMAIN StylusGroup)
  <2>1. PICK p \in Bijection(DOMAIN list, DOMAIN list) : Sort(list) = [i \in DOMAIN list |-> list[p[i]]]
    BY <1>4 DEF Rearranged
  <2>2. p \in [DOMAIN list -> DOMAIN list]
    BY DEF Bijection, Injection
  <2>3. Len(list) \in Nat /\ DOMAIN list = 1..Len(list) /\ \A i \in DOMAIN list : list[i] \in DOMAIN StylusGroup
    BY <1>2
  <2> QED BY <2>1, <2>2, <2>3
<1> QED BY <1>2, <1>4, <1>5 DEF StyliOfItems

LEMMA StylusIdReread ==
  ASSUME NEW id \in DOMAIN StylusGroup
  PROVE  /\ StyliOfItem(PrintStylusId(id)) = <<id>>
         /\ PrintStylusId(id) \in [tool : Int] \cup [vid : Int, tool : Int]
<1>1. PICK v, x : id = [vid |-> v, tool |-> x] /\ v \in Int /\ x \in Int
  BY StylusAssumption
<1>2. PICK item : item = PrintStylusId(id)
  OBVIOUS
<1>3. /\ item \in [tool : Int] \cup [vid : Int, tool : Int]
      /\ "group" \notin DOMAIN item
      /\ ParsedStylusId(item) = id
  <2>1. CASE v = Wacom
    <3>1. item = [tool |-> x]
      BY <1>1, <1>2, <2>1 DEF PrintStylusId
    <3>2. DOMAIN item = {"tool"} /\ item.tool = x
      BY <3>1
    <3> QED BY <1>1, <2>1, <3>1, <3>2 DEF ParsedStylusId
  <2>2. CASE v # Wacom
    <3>1. item = [vid |-> v, tool |-> x]
      BY <1>1, <1>2, <2>2 DEF PrintStylusId
    <3>2. DOMAIN item = {"vid", "tool"} /\ item.tool = x /\ item.vid = v
      BY <3>1
    <3> QED BY <1>1, <3>1, <3>2 DEF ParsedStylusId
  <2> QED BY <2>1, <2>2
<1>4. Kept(<<id>>, DOMAIN StylusGroup) = <<id>>
  <2>1. <<id>> \in Seq({id}) /\ \A i \in 1..Len(<<id>>) : <<id>>[i] \in DOMAIN StylusGroup
    OBVIOUS
  <2> QED BY <2>1, KeptAll
<1> QED BY <1>2, <1>3, <1>4 DEF StyliOfItem

LEMMA NoStyli == StyliOfItems(<<>>) = <<>>
<1>1. [i \in DOMAIN <<>> |-> StyliOfItem(<<>>[i])] = <<>>
  OBVIOUS
<1>2. FlattenSeq(<<>>) = <<>>
  BY DEF FlattenSeq
<1>3. Sort(<<>>) = <<>>
  <2>1. <<>> \in Seq(Id) /\ Ascending(<<>>)
    BY DEF Ascending
  <2> QED BY <2>1, SortSorted
<1> QED BY <1>1, <1>2, <1>3 DEF StyliOfItems

LEMMA StyliOfFacts ==
  ASSUME NEW f, IsTabletFile(f)
  PROVE  StyliOf(f) \in Seq(DOMAIN StylusGroup) /\ Ascending(StyliOf(f))
<1> DEFINE two == <<[vid |-> 0, tool |-> EraserFallback], [vid |-> 0, tool |-> StylusFallback]>>
<1>1. PICK items : /\ items = IF f.styli # Null THEN f.styli
                              ELSE IF FallbackStyli(f) THEN two ELSE <<>>
                   /\ StyliOf(f) = StyliOfItems(items)
  BY DEF StyliOf, StyliOfItems
<1>2. IsList(two) /\ IsList(<<>>)
  <2>1. PICK a, b : two = <<a, b>>
    OBVIOUS
  <2>2. IsList(<<a, b>>)
    BY DEF IsList
  <2>3. IsList(<<>>)
    BY DEF IsList
  <2> QED BY <2>1, <2>2, <2>3
<1>3. IsList(items)
  BY <1>1, <1>2 DEF IsTabletFile
<1> QED BY <1>1, <1>3, StyliFacts

LEMMA StyliReread ==
  ASSUME NEW f, IsTabletFile(f), StyliOf(f) # <<>> => f.stylus = TRUE,
         NEW g, g.features = TRUE, g.stylus = (f.stylus = TRUE),
         g.styli = IF f.stylus = TRUE
                   THEN [i \in DOMAIN StyliOf(f) |-> PrintStylusId(StyliOf(f)[i])] ELSE Null
  PROVE  StyliOf(g) = StyliOf(f)
<1>1. PICK styli : styli = StyliOf(f) /\ styli \in Seq(DOMAIN StylusGroup) /\ Ascending(styli)
  BY StyliOfFacts
<1>2. CASE f.stylus = TRUE
  <2>1. PICK items : items = [i \in DOMAIN styli |-> PrintStylusId(styli[i])]
    OBVIOUS
  <2>2. \A i \in DOMAIN styli : /\ styli[i] \in DOMAIN StylusGroup
                                /\ StyliOfItem(PrintStylusId(styli[i])) = <<styli[i]>>
                                /\ PrintStylusId(styli[i]) \in [tool : Int] \cup [vid : Int, tool : Int]
    BY <1>1, StylusIdReread
  <2>3. items \in Seq([tool : Int] \cup [vid : Int, tool : Int])
    BY <1>1, <2>1, <2>2
  <2>4. g.styli = items /\ items # Null
    <3>1. items # Null
      BY <2>3, NullAssumption
    <3> QED BY <1>1, <1>2, <2>1, <3>1
  <2>5. StyliOf(g) = StyliOfItems(items)
    BY <2>4 DEF StyliOf, StyliOfItems
  <2>6. [i \in DOMAIN items |-> StyliOfItem(items[i])]
          = [i \in DOMAIN styli |-> IF styli[i] \in DOMAIN StylusGroup THEN <<styli[i]>> ELSE <<>>]
    BY <2>1, <2>2
  <2>7. FlattenSeq([i \in DOMAIN items |-> StyliOfItem(items[i])]) = styli
    <3>1. \A i \in 1..Len(styli) : styli[i] \in DOMAIN StylusGroup
      BY <1>1
    <3>2. Kept(styli, DOMAIN StylusGroup) = styli
      BY <1>1, <3>1, KeptAll
    <3> QED BY <2>6, <3>2, Zenon DEF Kept
  <2>8. Sort(styli) = styli
    <3>1. DOMAIN StylusGroup \subseteq Id
      BY StylusAssumption DEF Id
    <3>2. styli \in Seq(Id)
      BY <1>1, <3>1
    <3> QED BY <1>1, <3>2, SortSorted
  <2> QED BY <1>1, <2>5, <2>7, <2>8, Zenon DEF StyliOfItems
<1>3. CASE f.stylus # TRUE
  <2>1. StyliOf(f) = <<>>
    BY <1>3
  <2>2. g.styli = Null /\ g.stylus = FALSE
    BY <1>3
  <2>3. ~FallbackStyli(g)
    BY <2>2, NullAssumption DEF FallbackStyli
  <2>4. StyliOf(g) = StyliOfItems(<<>>)
    BY <2>2, <2>3, Zenon DEF StyliOf, StyliOfItems
  <2> QED BY <2>1, <2>4, NoStyli
<1> QED BY <1>2, <1>3

LEMMA FeaturesReread ==
  ASSUME NEW f, NEW g,
         g.stylus = ("stylus" \in FeaturesOf(f)), g.touch = ("touch" \in FeaturesOf(f)),
         g.reversible = ("reversible" \in FeaturesOf(f)),
         g.touchSwitch = ("touchSwitch" \in FeaturesOf(f))
  PROVE  FeaturesOf(g) = FeaturesOf(f)
<1> DEFINE names == {"stylus", "touch", "reversible", "touchSwitch"}
<1>1. FeaturesOf(f) \subseteq names /\ FeaturesOf(g) \subseteq names
  BY DEF FeaturesOf
<1>2. \A x \in names : x \in FeaturesOf(g) <=> g[x] = TRUE
  BY DEF FeaturesOf
<1>3. \A x \in names : g[x] = (x \in FeaturesOf(f))
  OBVIOUS
<1> HIDE DEF names
<1>4. \A x \in names : x \in FeaturesOf(g) <=> x \in FeaturesOf(f)
  BY <1>2, <1>3, Zenon
<1> QED BY <1>1, <1>4

LEMMA HasStylusIs == \A f : "stylus" \in FeaturesOf(f) <=> f.stylus = TRUE
BY DEF FeaturesOf

-----------------------------------------------------------------------------
(***************************************************************************)
(* The buttons: first what a group of keys stands for, if no letter is       *)
(* skipped.                                                                  *)
(***************************************************************************)
IsGroup(g, n) ==
  /\ g.vals \in [Range(Option) -> Seq({Bad} \cup Letter)]
  /\ g.codes = Absent \/ g.codes \in Seq({Bad} \cup (Nat \ {0}))
  /\ g.numModes \in [Feature -> Int]
  /\ g.small \in BOOLEAN
  /\ n \in Nat /\ LettersOf(g) = 1..n

LEMMA GreatestElement ==
  ASSUME NEW n \in Nat, NEW S \in SUBSET (1..n), S # {}
  PROVE  Max(S) \in S
<1> DEFINE T == {n - x : x \in S}
<1>1. T \in SUBSET Nat /\ T # {}
  <2>1. \A x \in S : n - x \in Nat
    OBVIOUS
  <2>2. PICK x : x \in S
    OBVIOUS
  <2>3. n - x \in T
    BY <2>2
  <2> QED BY <2>1, <2>3
<1>2. Min(T) \in T /\ \A y \in T : Min(T) <= y
  BY <1>1, LeastElement
<1>3. PICK x \in S : \A y \in S : n - x <= n - y
  BY <1>2
<1>4. \A y \in S : x >= y
  BY <1>3
<1> QED BY <1>4 DEF Max

LEMMA OptionFacts == Len(Option) = 11 /\ \A p \in 1..11 : Option[p] \in Range(Option)
<1>1. Len(Option) = 11 /\ DOMAIN Option = 1..11
  BY DEF Option
<1> QED BY <1>1 DEF Range

LEMMA HeuristicFacts == \A b \in BOOLEAN : \A l \in 1..26 : HeuristicCode(b, l) \in Nat
BY DEF HeuristicCode

LEMMA CountUpTo ==
  ASSUME NEW n \in Nat
  PROVE  IsFiniteSet(1..n) /\ Cardinality(1..n) = n
<1>1. /\ IsFiniteSet(1..n)
      /\ Cardinality(1..n) = IF 1 > n THEN 0 ELSE n - 1 + 1
  BY FS_Interval
<1> QED BY <1>1

LEMMA ProblemFacts ==
  ASSUME NEW g, NEW n, IsGroup(g, n), g.codes # Absent
  PROVE  /\ CodeProblem(g) = 0 <=> \A i \in 1..n : ~(NoCodeFor(g, i) \/ g.codes[i] = Bad)
         /\ CodeProblem(g) # 0 => CodeProblem(g) \in 1..n
<1> DEFINE id == [i \in 1..n |-> i]
           I == {i \in 1..Len(id) : NoCodeFor(g, id[i]) \/ g.codes[id[i]] = Bad}
<1>1. n \in Nat /\ Cardinality(LettersOf(g)) = n
  BY CountUpTo DEF IsGroup
<1>2. CodeProblem(g) = IF I # {} THEN Min(I) ELSE 0
  BY <1>1 DEF CodeProblem, SelectInSeq
<1>3. I = {i \in 1..n : NoCodeFor(g, i) \/ g.codes[i] = Bad}
  BY <1>1
<1> HIDE DEF I
<1>4. I # {} => Min(I) \in I
  <2>1. I \in SUBSET Nat
    BY <1>1, <1>3
  <2> QED BY <2>1, LeastElement
<1>5. I # {} => Min(I) \in 1..n /\ Min(I) # 0
  BY <1>1, <1>3, <1>4
<1> QED BY <1>2, <1>3, <1>5

LEMMA CodeFacts ==
  ASSUME NEW g, NEW n, IsGroup(g, n), NEW l \in 1..n
  PROVE  /\ CodeOf(g, l) \in Nat
         /\ g.codes # Absent /\ CodeProblem(g) = 0 => CodeOf(g, l) \in Nat \ {0}
<1>1. n \in Nat /\ l \in 1..26 /\ l \in LettersOf(g)
  <2>1. l \in LettersOf(g) /\ LettersOf(g) \subseteq Letter
    BY DEF IsGroup, LettersOf
  <2> QED BY <2>1, LetterAssumption DEF IsGroup
<1>2. CASE g.codes = Absent \/ CodeProblem(g) # 0
  <2>1. HeuristicCode(g.small, l) \in Nat
    BY <1>1, HeuristicFacts DEF IsGroup
  <2> QED BY <1>2, <2>1 DEF CodeOf
<1>3. CASE g.codes # Absent /\ CodeProblem(g) = 0
  <2>1. ~(NoCodeFor(g, l) \/ g.codes[l] = Bad)
    BY <1>3, ProblemFacts
  <2>2. g.codes \in Seq({Bad} \cup (Nat \ {0}))
    BY <1>3 DEF IsGroup
  <2>3. ~(l > Len(g.codes))
    BY <2>1 DEF NoCodeFor
  <2>4. g.codes[l] \in Nat \ {0}
    BY <1>1, <2>1, <2>2, <2>3
  <2> QED BY <1>3, <2>4 DEF CodeOf
<1> QED BY <1>2, <1>3

LEMMA ModeFacts ==
  ASSUME NEW g, NEW n, IsGroup(g, n), NEW l
  PROVE  ModeOf(g, l) \in Int
<1> DEFINE O == {p \in 1..Len(Option) : Option[p] \in NamedBy(g, l) \cap ModeSwitch}
           o == SelectLastInSeq(Option, LAMBDA p : p \in NamedBy(g, l) \cap ModeSwitch)
           v == g.vals[Option[o]]
           J == {i \in 1..Len(v) : v[i] = l}
           last == SelectLastInSeq(v, LAMBDA x : x = l)
<1>1. o = IF O # {} THEN Max(O) ELSE 0
  BY DEF SelectLastInSeq
<1>2. last = IF J # {} THEN Max(J) ELSE 0
  BY DEF SelectLastInSeq
<1>3. ModeOf(g, l) = IF o = 0 \/ Len(v) = 1 THEN CycleModes
                     ELSE Cardinality({j \in 1..(last - 1) : v[j] # Bad})
  BY DEF ModeOf
<1>4. o # 0 => o \in 1..11
  <2>1. O \in SUBSET (1..11) /\ 11 \in Nat
    BY OptionFacts
  <2> HIDE DEF O, o
  <2>2. O # {} => Max(O) \in 1..11
    BY <2>1, GreatestElement
  <2> QED BY <1>1, <2>2
<1> HIDE DEF o
<1>5. CASE o = 0 \/ Len(v) = 1
  BY <1>3, <1>5 DEF CycleModes
<1>6. CASE ~(o = 0 \/ Len(v) = 1)
  <2>1. v \in Seq({Bad} \cup Letter)
    BY <1>4, <1>6, OptionFacts DEF IsGroup
  <2> HIDE DEF v, last
  <2>2. last \in Int
    <3>1. J \in SUBSET (1..Len(v)) /\ Len(v) \in Nat
      BY <2>1
    <3> HIDE DEF J
    <3>2. J # {} => Max(J) \in 1..Len(v)
      BY <3>1, GreatestElement
    <3> QED BY <1>2, <3>1, <3>2
  <2>3. IsFiniteSet(1..(last - 1))
    BY <2>2, FS_Interval
  <2>4. IsFiniteSet({j \in 1..(last - 1) : v[j] # Bad})
    BY <2>3, FS_Subset
  <2>5. Cardinality({j \in 1..(last - 1) : v[j] # Bad}) \in Nat
    BY <2>4, FS_CardinalityType
  <2> QED BY <1>3, <1>6, <2>5
<1> QED BY <1>5, <1>6

\* The getters of a device with the buttons of a group
LEMMA ButtonsFacts ==
  ASSUME NEW g, NEW n, IsGroup(g, n), NEW d, d.buttons = ButtonsOf(g)
  PROVE  /\ LettersIn(d) = 1..n /\ NumButtons(d) = n
         /\ \A l \in Letter : Flags(d, l) = NamedBy(g, l)
         /\ \A l \in 1..n : l \in Letter /\ EvdevCode(d, l) = CodeOf(g, l)
<1>1. LettersOf(g) = 1..n /\ LettersOf(g) \subseteq Letter /\ n \in Nat
  BY DEF IsGroup, LettersOf
<1>2. \A l \in Letter : l \notin 1..n => NamedBy(g, l) = {}
  BY <1>1 DEF LettersOf
<1>3. \A l \in 1..n : /\ d.buttons[l].flags = NamedBy(g, l) /\ d.buttons[l].code = CodeOf(g, l)
                      /\ d.buttons[l] # NoButton
  <2> TAKE l \in 1..n
  <2>1. d.buttons[l] = [flags |-> NamedBy(g, l), mode |-> ModeOf(g, l), code |-> CodeOf(g, l)]
    BY <1>1 DEF ButtonsOf
  <2>2. NamedBy(g, l) \in SUBSET Range(Option)
    BY DEF NamedBy
  <2>3. ModeOf(g, l) \in Int /\ CodeOf(g, l) \in Int
    BY ModeFacts, CodeFacts
  <2>4. d.buttons[l] \in Button
    BY <2>1, <2>2, <2>3 DEF Button
  <2> QED BY <2>1, <2>4, NoButtonAssumption
<1>4. \A l \in Letter : l \notin 1..n => d.buttons[l] = NoButton
  BY <1>1 DEF ButtonsOf
<1>5. LettersIn(d) = 1..n
  BY <1>1, <1>3, <1>4 DEF LettersIn
<1>6. NumButtons(d) = n
  BY <1>1, <1>5, CountUpTo DEF NumButtons
<1>7. \A l \in Letter : Flags(d, l) = NamedBy(g, l)
  <2> TAKE l \in Letter
  <2>1. CASE l \in 1..n
    BY <1>3, <1>5, <2>1 DEF Flags
  <2>2. CASE l \notin 1..n
    BY <1>2, <1>5, <2>2 DEF Flags
  <2> QED BY <2>1, <2>2
<1>8. \A l \in 1..n : EvdevCode(d, l) = CodeOf(g, l)
  BY <1>3, <1>5 DEF EvdevCode
<1> QED BY <1>1, <1>5, <1>6, <1>7, <1>8

\* The group that is printed for the buttons of a group
Printed(g, n, h) ==
  /\ h.vals = [o \in Range(Option) |->
                 Kept([l \in 1..n |-> l], {l \in 1..n : o \in NamedBy(g, l)})]
  /\ h.codes = IF n = 0 THEN Absent ELSE [l \in 1..n |-> PrintCode(CodeOf(g, l))]
  /\ h.numModes = IF n = 0 THEN [ft \in Feature |-> 0] ELSE NumModesOf(g)
  /\ h.small = g.small

LEMMA PrintedVals ==
  ASSUME NEW g, NEW n, IsGroup(g, n), NEW h, Printed(g, n, h), NEW o \in Range(Option)
  PROVE  /\ h.vals[o] \in Seq(1..n)
         /\ Range(h.vals[o]) = {l \in 1..n : o \in NamedBy(g, l)}
         /\ Increasing(h.vals[o])
<1> DEFINE id == [l \in 1..n |-> l]
           S == {l \in 1..n : o \in NamedBy(g, l)}
<1>1. h.vals[o] = Kept(id, S)
  BY DEF Printed
<1>2. n \in Nat
  BY DEF IsGroup
<1>3. id \in Seq(1..n) /\ Range(id) = 1..n /\ id \in Seq(Int) /\ Increasing(id)
  <2>1. Len(id) = n /\ \A l \in 1..n : id[l] = l
    BY <1>2
  <2>2. id \in Seq(1..n) /\ id \in Seq(Int)
    BY <1>2
  <2>3. Range(id) = 1..n
    BY DEF Range
  <2>4. Increasing(id)
    BY <1>2, <2>1 DEF Increasing
  <2> QED BY <2>2, <2>3, <2>4
<1> HIDE DEF id, S
<1>4. Kept(id, S) \in Seq(1..n) /\ Range(Kept(id, S)) = (1..n) \cap S
  <2>1. PICK W : W = 1..n
    OBVIOUS
  <2>2. id \in Seq(W) /\ Range(id) = W
    BY <1>3, <2>1
  <2>3. Kept(id, S) \in Seq(W \cap S) /\ Range(Kept(id, S)) = W \cap S
    BY <2>2, KeptFacts
  <2>4. Kept(id, S) \in Seq(W)
    BY <2>3
  <2> QED BY <2>1, <2>3, <2>4
<1>5. Increasing(Kept(id, S))
  BY <1>3, KeptIncreasing
<1>6. (1..n) \cap S = S /\ S \subseteq 1..n
  BY DEF S
<1> QED BY <1>1, <1>4, <1>5, <1>6 DEF S

LEMMA FlagsReread ==
  ASSUME NEW g, NEW n, IsGroup(g, n), NEW h, Printed(g, n, h)
  PROVE  /\ \A l \in Letter : NamedBy(h, l) = NamedBy(g, l)
         /\ LettersOf(h) = LettersOf(g)
         /\ IsGroup(h, n)
<1>1. n \in Nat /\ LettersOf(g) = 1..n /\ 1..n \subseteq Letter
  BY DEF IsGroup, LettersOf
<1>2. \A l \in Letter : l \notin 1..n => NamedBy(g, l) = {}
  BY <1>1 DEF LettersOf
<1>3. ASSUME NEW l \in Letter PROVE NamedBy(h, l) = NamedBy(g, l)
  <2>1. \A o \in Range(Option) : l \in Range(h.vals[o]) <=> l \in 1..n /\ o \in NamedBy(g, l)
    BY PrintedVals
  <2>2. NamedBy(h, l) \subseteq Range(Option) /\ NamedBy(g, l) \subseteq Range(Option)
    BY DEF NamedBy
  <2>3. \A o \in Range(Option) : o \in NamedBy(h, l) <=> l \in Range(h.vals[o])
    BY DEF NamedBy
  <2>4. \A o \in Range(Option) : o \in NamedBy(h, l) <=> o \in NamedBy(g, l)
    BY <1>2, <2>1, <2>3
  <2> QED BY <2>2, <2>4
<1>4. LettersOf(h) = LettersOf(g)
  BY <1>3 DEF LettersOf
<1>5. h.vals \in [Range(Option) -> Seq({Bad} \cup Letter)]
  <2>1. \A o \in Range(Option) : h.vals[o] \in Seq({Bad} \cup Letter)
    <3> TAKE o \in Range(Option)
    <3>1. PICK v : v = h.vals[o] /\ v \in Seq(1..n)
      BY PrintedVals
    <3>2. \A i \in 1..Len(v) : v[i] \in {Bad} \cup Letter
      BY <1>1, <3>1
    <3>3. v \in Seq({Bad} \cup Letter)
      BY <3>1, <3>2
    <3> QED BY <3>1, <3>3
  <2>2. h.vals = [o \in Range(Option) |-> h.vals[o]]
    BY DEF Printed
  <2> QED BY <2>1, <2>2
<1>6. h.codes = Absent \/ h.codes \in Seq({Bad} \cup (Nat \ {0}))
  <2>1. CASE n = 0
    BY <2>1 DEF Printed
  <2>2. CASE n # 0
    <3>1. \A l \in 1..n : PrintCode(CodeOf(g, l)) \in {Bad} \cup (Nat \ {0})
      BY CodeFacts DEF PrintCode
    <3>2. h.codes = [l \in 1..n |-> PrintCode(CodeOf(g, l))]
      BY <2>2 DEF Printed
    <3> QED BY <1>1, <3>1, <3>2
  <2> QED BY <2>1, <2>2
<1>7. h.numModes \in [Feature -> Int]
  <2>1. CASE n = 0
    BY <2>1 DEF Printed
  <2>2. CASE n # 0
    <3>1. h.numModes = NumModesOf(g)
      BY <2>2 DEF Printed
    <3>2. \A ft \in Feature : Cardinality({l \in LettersOf(g) : ft \in NamedBy(g, l)}) \in Nat
      BY <1>1, CountUpTo, FS_Subset, FS_CardinalityType
    <3>3. g.numModes \in [Feature -> Int]
      BY DEF IsGroup
    <3> QED BY <3>1, <3>2, <3>3 DEF NumModesOf
  <2> QED BY <2>1, <2>2
<1> QED BY <1>1, <1>3, <1>4, <1>5, <1>6, <1>7 DEF IsGroup, Printed

LEMMA CodesReread ==
  ASSUME NEW g, NEW n, IsGroup(g, n), NEW h, Printed(g, n, h)
  PROVE  /\ \A l \in 1..n : CodeOf(h, l) = CodeOf(g, l)
         /\ ~Aborts(h)
<1>1. n \in Nat /\ IsGroup(h, n) /\ h.small = g.small
  <2>1. IsGroup(h, n)
    BY FlagsReread
  <2> QED BY <2>1 DEF IsGroup, Printed
<1>2. CASE n = 0
  <2>1. h.codes = Absent
    BY <1>2 DEF Printed
  <2>2. CodeProblem(h) = 0
    BY <2>1 DEF CodeProblem
  <2> QED BY <1>2, <2>2 DEF Aborts
<1>3. CASE n # 0
  <2>1. h.codes = [l \in 1..n |-> PrintCode(CodeOf(g, l))]
    BY <1>3 DEF Printed
  <2>2. \A l \in 1..n : CodeOf(g, l) \in Nat
    BY CodeFacts
  <2>3. \A l \in 1..n : h.codes[l] = PrintCode(CodeOf(g, l))
    BY <2>1
  <2>4. h.codes \in Seq({Bad} \cup Nat) /\ Len(h.codes) = n
    <3>1. \A l \in 1..n : PrintCode(CodeOf(g, l)) \in {Bad} \cup Nat
      BY <2>2 DEF PrintCode
    <3> QED BY <1>1, <2>1, <3>1
  <2>5. h.codes # Absent
    BY <2>4, NullAssumption
  <2>6. \A i \in 1..n : ~NoCodeFor(h, i)
    BY <1>1, <2>4 DEF NoCodeFor, IsGroup
  <2>7. /\ CodeProblem(h) = 0 <=> \A i \in 1..n : h.codes[i] # Bad
        /\ CodeProblem(h) # 0 => CodeProblem(h) \in 1..n
    BY <1>1, <2>5, <2>6, ProblemFacts
  <2>8. ~Aborts(h)
    BY <2>6, <2>7 DEF Aborts
  <2>9. CASE \E l \in 1..n : CodeOf(g, l) = 0
    <3>1. g.codes = Absent \/ CodeProblem(g) # 0
      BY <2>9, CodeFacts
    <3>2. CodeProblem(h) # 0
      BY <2>3, <2>7, <2>9 DEF PrintCode
    <3> QED BY <1>1, <2>8, <3>1, <3>2 DEF CodeOf
  <2>10. CASE \A l \in 1..n : CodeOf(g, l) # 0
    <3>1. \A l \in 1..n : h.codes[l] = CodeOf(g, l)
      BY <2>3, <2>10 DEF PrintCode
    <3>2. CodeProblem(h) = 0
      BY <2>2, <2>7, <3>1, NullAssumption
    <3> QED BY <2>5, <2>8, <3>1, <3>2 DEF CodeOf
  <2> QED BY <2>9, <2>10
<1> QED BY <1>2, <1>3

LEMMA NumModesReread ==
  ASSUME NEW g, NEW n, IsGroup(g, n), NEW h, Printed(g, n, h),
         \A ft \in Feature : g.numModes[ft] >= 0,
         n = 0 => \A ft \in Feature : g.numModes[ft] = 0
  PROVE  NumModesOf(h) = NumModesOf(g)
<1> DEFINE Switches(ft) == Cardinality({l \in LettersOf(g) : ft \in NamedBy(g, l)})
<1>1. n \in Nat /\ LettersOf(g) = 1..n /\ 1..n \subseteq Letter /\ LettersOf(h) = LettersOf(g)
  <2>1. LettersOf(h) = LettersOf(g)
    BY FlagsReread
  <2> QED BY <2>1 DEF IsGroup, LettersOf
<1>2. ASSUME NEW ft \in Feature
      PROVE  /\ Switches(ft) \in Nat
             /\ Switches(ft) = Cardinality({l \in LettersOf(h) : ft \in NamedBy(h, l)})
             /\ n = 0 => Switches(ft) = 0
  <2>1. Switches(ft) \in Nat
    BY <1>1, CountUpTo, FS_Subset, FS_CardinalityType
  <2>2. {l \in LettersOf(g) : ft \in NamedBy(g, l)} = {l \in LettersOf(h) : ft \in NamedBy(h, l)}
    BY <1>1, FlagsReread
  <2>3. n = 0 => {l \in LettersOf(g) : ft \in NamedBy(g, l)} = {}
    BY <1>1
  <2> QED BY <2>1, <2>2, <2>3, FS_EmptySet
<1> HIDE DEF Switches
<1>3. ASSUME NEW ft \in Feature PROVE NumModesOf(h)[ft] = NumModesOf(g)[ft]
  <2>1. PICK m, k, c : m = g.numModes[ft] /\ k = h.numModes[ft] /\ c = Switches(ft)
    OBVIOUS
  <2>2. m \in Int /\ m >= 0 /\ c \in Nat
    BY <1>2, <2>1 DEF IsGroup
  <2>3. NumModesOf(g)[ft] = IF m > 0 THEN m ELSE m + c
    BY <2>1 DEF NumModesOf, Switches
  <2>4. NumModesOf(h)[ft] = IF k > 0 THEN k ELSE k + c
    BY <1>2, <2>1 DEF NumModesOf
  <2>5. CASE n = 0
    <3>1. m = 0 /\ c = 0 /\ k = 0
      BY <1>2, <2>1, <2>5 DEF Printed
    <3> QED BY <2>3, <2>4, <3>1
  <2>6. CASE n # 0
    <3>1. k = NumModesOf(g)[ft]
      BY <2>1, <2>6 DEF Printed
    <3> QED BY <2>2, <2>3, <2>4, <3>1
  <2> QED BY <2>5, <2>6
<1>4. NumModesOf(h) = [ft \in Feature |-> NumModesOf(h)[ft]]
      /\ NumModesOf(g) = [ft \in Feature |-> NumModesOf(g)[ft]]
  BY DEF NumModesOf
<1> QED BY <1>3, <1>4

\* An increasing list is known by its elements: no element of one is left behind by the
\* other.
LEMMA IncreasingPrefix ==
  ASSUME NEW s \in Seq(Int), NEW t \in Seq(Int), Increasing(s), Increasing(t), Range(s) = Range(t)
  PROVE  Len(s) <= Len(t) /\ \A i \in 1..Len(s) : s[i] = t[i]
<1> DEFINE m == Len(s)
           n == Len(t)
           T == {k \in Nat : k <= m => k <= n /\ \A i \in 1..k : s[i] = t[i]}
<1>1. /\ m \in Nat /\ n \in Nat
      /\ \A i \in 1..m : s[i] \in Int
      /\ \A i \in 1..n : t[i] \in Int
  OBVIOUS
<1>2. /\ \A i \in 1..m : \E j \in 1..n : t[j] = s[i]
      /\ \A i \in 1..n : \E j \in 1..m : s[j] = t[i]
  <2>1. /\ \A i \in 1..m : s[i] \in Range(s)
        /\ \A i \in 1..n : t[i] \in Range(t)
    BY DEF Range
  <2>2. /\ \A x \in Range(s) : \E j \in 1..m : s[j] = x
        /\ \A x \in Range(t) : \E j \in 1..n : t[j] = x
    BY DEF Range
  <2> HIDE DEF m, n
  <2> QED BY <2>1, <2>2
<1>3. /\ \A i, j \in 1..m : i < j => s[i] < s[j]
      /\ \A i, j \in 1..n : i < j => t[i] < t[j]
  BY DEF Increasing
<1> HIDE DEF m, n
<1>4. 0 \in T
  BY <1>1
<1>5. ASSUME NEW k \in Nat, k \in T PROVE k + 1 \in T
  <2> SUFFICES ASSUME k + 1 <= m
               PROVE  k + 1 <= n /\ \A i \in 1..(k + 1) : s[i] = t[i]
    OBVIOUS
  <2>1. k + 1 \in 1..m /\ k <= m /\ k <= n /\ \A i \in 1..k : i \in 1..m /\ i \in 1..n /\ s[i] = t[i]
    BY <1>1, <1>5
  <2>2. PICK j \in 1..n : t[j] = s[k + 1]
    BY <1>2, <2>1
  <2>3. j \notin 1..k
    <3> SUFFICES ASSUME j \in 1..k PROVE FALSE
      OBVIOUS
    <3>1. s[j] = s[k + 1] /\ j \in 1..m /\ j < k + 1
      BY <2>1, <2>2
    <3> QED BY <1>1, <1>3, <2>1, <3>1
  <2>4. k + 1 <= j /\ k + 1 \in 1..n
    BY <1>1, <2>3
  <2>5. PICK l \in 1..m : s[l] = t[k + 1]
    BY <1>2, <2>4
  <2>6. l \notin 1..k
    <3> SUFFICES ASSUME l \in 1..k PROVE FALSE
      OBVIOUS
    <3>1. t[l] = t[k + 1] /\ l \in 1..n /\ l < k + 1
      BY <2>1, <2>5
    <3> QED BY <1>1, <1>3, <2>4, <3>1
  <2>7. k + 1 = l \/ k + 1 < l
    BY <1>1, <2>6
  <2>8. k + 1 = j \/ k + 1 < j
    BY <1>1, <2>4
  <2>9. s[k + 1] <= t[k + 1]
    <3>1. k + 1 < l => s[k + 1] < s[l]
      BY <1>3, <2>1
    <3> QED BY <1>1, <2>1, <2>4, <2>5, <2>7, <3>1
  <2>10. t[k + 1] <= s[k + 1]
    <3>1. k + 1 < j => t[k + 1] < t[j]
      BY <1>3, <2>4
    <3> QED BY <1>1, <2>1, <2>2, <2>4, <2>8, <3>1
  <2>11. s[k + 1] = t[k + 1]
    BY <1>1, <2>1, <2>4, <2>9, <2>10
  <2>12. \A i \in 1..(k + 1) : i = k + 1 \/ i \in 1..k
    OBVIOUS
  <2> QED BY <2>1, <2>4, <2>11, <2>12
<1> HIDE DEF T
<1>6. m \in T
  BY <1>1, <1>4, <1>5, Induction
<1> QED BY <1>1, <1>6 DEF T, m, n

LEMMA SameIncreasing ==
  ASSUME NEW s \in Seq(Int), NEW t \in Seq(Int), Increasing(s), Increasing(t), Range(s) = Range(t)
  PROVE  s = t
<1>1. Len(s) <= Len(t) /\ \A i \in 1..Len(s) : s[i] = t[i]
  BY IncreasingPrefix
<1>2. Len(t) <= Len(s)
  BY IncreasingPrefix
<1>3. Len(s) = Len(t)
  BY <1>1, <1>2
<1> QED BY <1>1, <1>3, SeqEqual

LEMMA SwitchesAreOptions == ModeSwitch \subseteq Range(Option)
<1>1. DOMAIN Option = 1..11
  BY DEF Option
<1>2. Option[5] = "Ring" /\ Option[6] = "Ring2" /\ Option[7] = "Strip"
      /\ Option[8] = "Strip2" /\ Option[10] = "Dial" /\ Option[11] = "Dial2"
  BY DEF Option
<1>3. 5 \in 1..11 /\ 6 \in 1..11 /\ 7 \in 1..11 /\ 8 \in 1..11 /\ 10 \in 1..11 /\ 11 \in 1..11
  OBVIOUS
<1> QED BY <1>1, <1>2, <1>3 DEF ModeSwitch, Range

LEMMA ModesReread ==
  ASSUME NEW g, NEW n, IsGroup(g, n), NEW h, Printed(g, n, h), InOrder(g), NEW l \in Letter
  PROVE  ModeOf(h, l) = ModeOf(g, l)
<1>1. ASSUME NEW o \in ModeSwitch PROVE h.vals[o] = g.vals[o]
  <2>1. o \in Range(Option)
    BY SwitchesAreOptions
  <2>2. PICK s, t : s = h.vals[o] /\ t = g.vals[o]
    OBVIOUS
  <2>3. s \in Seq(1..n) /\ Range(s) = {k \in 1..n : o \in NamedBy(g, k)} /\ Increasing(s)
    BY <2>1, <2>2, PrintedVals
  <2>4. /\ t \in Seq({Bad} \cup Letter) /\ Bad \notin Range(t)
        /\ \A i, j \in DOMAIN t : i < j => t[i] < t[j]
    BY <2>1, <2>2 DEF IsGroup, InOrder
  <2>5. \A i \in 1..Len(t) : t[i] \in Letter
    BY <2>4 DEF Range
  <2>6. Letter \subseteq Int /\ 1..n \subseteq Int
    BY LetterAssumption DEF IsGroup
  <2>7. s \in Seq(Int) /\ t \in Seq(Int)
    <3>1. \A i \in 1..Len(t) : t[i] \in Int
      BY <2>5, <2>6
    <3>2. t \in Seq(Int)
      BY <2>4, <3>1
    <3>3. PICK W : W = 1..n
      OBVIOUS
    <3>4. s \in Seq(W) /\ W \subseteq Int
      BY <2>3, <2>6, <3>3
    <3>5. \A i \in 1..Len(s) : s[i] \in Int
      <4>1. \A i \in 1..Len(s) : s[i] \in W
        BY <3>4
      <4> QED BY <3>4, <4>1
    <3>6. s \in Seq(Int)
      BY <3>4, <3>5
    <3> QED BY <3>2, <3>6
  <2>8. Increasing(t)
    BY <2>4 DEF Increasing
  <2>9. Range(s) = Range(t)
    <3>1. \A k \in Range(t) : k \in Letter
      BY <2>4, <2>5 DEF Range
    <3>2. \A k : o \in NamedBy(g, k) <=> k \in Range(t)
      BY <2>1, <2>2 DEF NamedBy
    <3>3. \A k \in Range(t) : k \in LettersOf(g)
      BY <3>1, <3>2 DEF LettersOf
    <3>4. LettersOf(g) = 1..n
      BY DEF IsGroup
    <3> QED BY <2>3, <3>2, <3>3, <3>4
  <2>10. s = t
    BY <2>3, <2>7, <2>8, <2>9, SameIncreasing
  <2> QED BY <2>2, <2>10
<1>2. NamedBy(h, l) = NamedBy(g, l)
  BY FlagsReread
<1> DEFINE O == {p \in 1..Len(Option) : Option[p] \in NamedBy(g, l) \cap ModeSwitch}
           o == SelectLastInSeq(Option, LAMBDA p : p \in NamedBy(g, l) \cap ModeSwitch)
           oh == SelectLastInSeq(Option, LAMBDA p : p \in NamedBy(h, l) \cap ModeSwitch)
           ModeAt(v) == IF o = 0 \/ Len(v) = 1 THEN CycleModes
                        ELSE Cardinality({j \in 1..(SelectLastInSeq(v, LAMBDA x : x = l) - 1) : v[j] # Bad})
<1>3. ModeOf(g, l) = ModeAt(g.vals[Option[o]])
  BY DEF ModeOf
<1>4. ModeOf(h, l) = ModeAt(h.vals[Option[o]])
  <2>1. oh = o
    BY <1>2 DEF SelectLastInSeq
  <2>2. ModeOf(h, l) = LET v == h.vals[Option[oh]]
                       IN  IF oh = 0 \/ Len(v) = 1 THEN CycleModes
                           ELSE Cardinality({j \in 1..(SelectLastInSeq(v, LAMBDA x : x = l) - 1) : v[j] # Bad})
    BY DEF ModeOf
  <2> HIDE DEF o, oh
  <2> QED BY <2>1, <2>2
<1>5. o = IF O # {} THEN Max(O) ELSE 0
  BY DEF SelectLastInSeq
<1>6. o # 0 => Option[o] \in ModeSwitch
  <2>1. O \in SUBSET (1..11) /\ 11 \in Nat
    BY OptionFacts
  <2>2. O # {} => Max(O) \in O
    <3> HIDE DEF O
    <3> QED BY <2>1, GreatestElement
  <2> HIDE DEF o
  <2> QED BY <1>5, <2>2
<1> HIDE DEF o
<1>7. CASE o = 0
  BY <1>3, <1>4, <1>7
<1>8. CASE o # 0
  <2>1. h.vals[Option[o]] = g.vals[Option[o]]
    BY <1>1, <1>6, <1>8
  <2> HIDE DEF ModeAt
  <2> QED BY <1>3, <1>4, <2>1
<1> QED BY <1>7, <1>8

-----------------------------------------------------------------------------
(***************************************************************************)
(* The device that is read back                                              *)
(***************************************************************************)
LEMMA ParseFields ==
  ASSUME NEW f
  PROVE  LET d == Parse(f) IN
         /\ d.name = f.name /\ d.modelName = f.modelName
         /\ d.matches = ParseMatches(f.deviceMatch) /\ d.match = Head(ParseMatches(f.deviceMatch))
         /\ d.paired = PairedOf(f) /\ d.width = SizeInMm(f.width) /\ d.height = SizeInMm(f.height)
         /\ d.integration = IntegrationOf(f) /\ d.layout = LayoutOf(f) /\ d.cls = ClassOf(f.class)
         /\ d.styli = StyliOf(f) /\ d.features = FeaturesOf(f)
         /\ d.numRings = f.numRings /\ d.numStrips = f.numStrips /\ d.numDials = f.numDials
         /\ d.statusLEDs = Kept(f.statusLEDs, ModeSwitch)
         /\ d.buttons = ButtonsOf(ButtonKeys(f)) /\ d.numModes = NumModesOf(ButtonKeys(f))
BY DEF Parse

LEMMA DescribeFields ==
  ASSUME NEW d
  PROVE  LET f == Describe(d) IN
         /\ f.name = d.name /\ f.modelName = d.modelName
         /\ f.pairedID = IF d.paired = Null THEN Null ELSE PrintMatch(d.paired)
         /\ f.class = d.cls /\ f.width = d.width /\ f.height = d.height
         /\ f.integratedIn = PrintIntegration(d) /\ f.layout = d.layout /\ f.styli = PrintStyli(d)
         /\ f.features = TRUE /\ f.stylus = HasStylus(d) /\ f.touch = ("touch" \in d.features)
         /\ f.reversible = ("reversible" \in d.features)
         /\ f.touchSwitch = ("touchSwitch" \in d.features)
         /\ f.numRings = d.numRings /\ f.numStrips = d.numStrips /\ f.numDials = d.numDials
         /\ f.statusLEDs = PrintLeds(d) /\ f.vals = PrintVals(d)
         /\ f.numModes = IF NumButtons(d) = 0 THEN [ft \in Feature |-> 0] ELSE d.numModes
BY DEF Describe, PrintSize

\* Two devices agree on all but the modes of their buttons and the codes of their keys.
Agree(d, e) ==
  /\ e.name = d.name /\ e.modelName = d.modelName
  /\ e.matches = d.matches /\ e.match = d.match /\ e.paired = d.paired
  /\ e.width = d.width /\ e.height = d.height
  /\ e.integration = d.integration /\ e.layout = d.layout /\ e.cls = d.cls
  /\ e.styli = d.styli /\ e.features = d.features
  /\ e.numRings = d.numRings /\ e.numStrips = d.numStrips /\ e.numDials = d.numDials
  /\ e.statusLEDs = d.statusLEDs /\ e.numModes = d.numModes
  /\ LettersIn(e) = LettersIn(d)
  /\ \A l : Flags(e, l) = Flags(d, l) /\ EvdevCode(e, l) = EvdevCode(d, l)

LEMMA AgreeSame ==
  ASSUME NEW d, NEW e, Agree(d, e)
  PROVE  Same(d, e, TRUE) /\ Same(e, d, TRUE)
BY Zenon DEF Agree, Same, SameIntegration, SamePaired, SameMatches, MatchesAmong, NumButtons

LEMMA AgreeDescribe ==
  ASSUME NEW d, NEW e, Agree(d, e)
  PROVE  Describe(e) = Describe(d)
<1>1. NumButtons(e) = NumButtons(d) /\ PrintedLetters(e) = PrintedLetters(d)
  BY DEF Agree, NumButtons, PrintedLetters
<1>2. PrintVals(e) = PrintVals(d)
  BY <1>1 DEF Agree, PrintVals
<1>3. [l \in PrintedLetters(e) |-> PrintCode(EvdevCode(e, l))]
        = [l \in PrintedLetters(d) |-> PrintCode(EvdevCode(d, l))]
  BY <1>1 DEF Agree
<1>4. HasStylus(e) = HasStylus(d) /\ PrintStyli(e) = PrintStyli(d)
  BY DEF Agree, HasStylus, PrintStyli
<1>5. PrintIntegration(e) = PrintIntegration(d) /\ PrintLeds(e) = PrintLeds(d)
  BY DEF Agree, PrintIntegration, PrintLeds
<1> QED BY <1>1, <1>2, <1>3, <1>4, <1>5 DEF Agree, Describe, PrintSize

LEMMA AgreeAnswers ==
  ASSUME NEW d, NEW e, Agree(d, e), e.buttons = d.buttons
  PROVE  Answers(e) = Answers(d)
<1>1. \A l : ModeSwitchMode(e, l) = ModeSwitchMode(d, l)
  BY DEF Agree, ModeSwitchMode
<1>2. \A l : LedGroup(e, l) = LedGroup(d, l)
  <2> TAKE l
  <2>1. Flags(e, l) = Flags(d, l) /\ e.statusLEDs = d.statusLEDs
    BY DEF Agree
  <2>2. /\ LedGroup(e, l) = SelectInSeq(e.statusLEDs, LAMBDA x : x \in Flags(e, l)) - 1
        /\ LedGroup(d, l) = SelectInSeq(d.statusLEDs, LAMBDA x : x \in Flags(d, l)) - 1
    BY DEF LedGroup
  <2>3. SelectInSeq(e.statusLEDs, LAMBDA x : x \in Flags(e, l))
          = SelectInSeq(d.statusLEDs, LAMBDA x : x \in Flags(d, l))
    BY <2>1 DEF SelectInSeq
  <2> QED BY <2>2, <2>3
<1>3. [l \in Letter |-> <<Flags(e, l), EvdevCode(e, l), ModeSwitchMode(e, l), LedGroup(e, l)>>]
        = [l \in Letter |-> <<Flags(d, l), EvdevCode(d, l), ModeSwitchMode(d, l), LedGroup(d, l)>>]
  BY <1>1, <1>2 DEF Agree
<1>4. GetIntegration(e) = GetIntegration(d) /\ GetClass(e) = GetClass(d)
  BY DEF Agree, GetIntegration, GetClass
<1>5. SupportedStyli(e) = SupportedStyli(d) /\ NumButtons(e) = NumButtons(d)
  BY DEF Agree, SupportedStyli, NumButtons
<1>6. Identity(e) = Identity(d)
  BY <1>4 DEF Agree, Identity
<1> QED BY <1>3, <1>4, <1>5, <1>6 DEF Agree, Answers

LEMMA GroupFacts ==
  ASSUME NEW f, IsTabletFile(f), Whole(f)
  PROVE  LET n == Cardinality(LettersOf(ButtonKeys(f)))
         IN  /\ IsGroup(ButtonKeys(f), n)
             /\ ButtonKeys(f).small = (ClassOf(f.class) \in {"Bamboo", "Graphire"})
             /\ ButtonKeys(f).numModes = f.numModes /\ ButtonKeys(f).vals = f.vals
             /\ ButtonKeys(f).codes = f.codes
<1> DEFINE g == ButtonKeys(f)
           n == Cardinality(LettersOf(g))
<1>1. /\ g.vals = f.vals /\ g.codes = f.codes /\ g.numModes = f.numModes
      /\ g.small = (ClassOf(f.class) \in {"Bamboo", "Graphire"})
  BY DEF ButtonKeys
<1>2. LettersOf(g) \subseteq 1..26
  BY LetterAssumption DEF LettersOf
<1>3. IsFiniteSet(LettersOf(g))
  BY <1>2, CountUpTo, FS_Subset
<1>4. n \in Nat
  BY <1>3, FS_CardinalityType
<1>5. LettersOf(g) = 1..n
  BY DEF Whole
<1> HIDE DEF g
<1>6. IsGroup(g, n)
  BY <1>1, <1>4, <1>5 DEF IsGroup, IsTabletFile
<1> QED BY <1>1, <1>6 DEF g

LEMMA PrintedGroup ==
  ASSUME NEW f, IsTabletFile(f), Whole(f), NEW d, d = Parse(f)
  PROVE  Printed(ButtonKeys(f), Cardinality(LettersOf(ButtonKeys(f))), ButtonKeys(Describe(d)))
<1> DEFINE g == ButtonKeys(f)
           n == Cardinality(LettersOf(g))
           h == ButtonKeys(Describe(d))
<1>1. /\ IsGroup(g, n) /\ g.small = (ClassOf(f.class) \in {"Bamboo", "Graphire"})
  BY GroupFacts
<1>2. d.buttons = ButtonsOf(g) /\ d.numModes = NumModesOf(g) /\ d.cls = ClassOf(f.class)
  BY ParseFields
<1> HIDE DEF g, n
<1>3. /\ NumButtons(d) = n /\ PrintedLetters(d) = 1..n
      /\ \A l \in 1..n : Flags(d, l) = NamedBy(g, l) /\ EvdevCode(d, l) = CodeOf(g, l)
  BY <1>1, <1>2, ButtonsFacts DEF PrintedLetters
<1>4. h.vals = PrintVals(d) /\ h.numModes = (IF n = 0 THEN [ft \in Feature |-> 0] ELSE d.numModes)
  BY <1>3, DescribeFields DEF ButtonKeys
<1>5. h.codes = IF n = 0 THEN Absent ELSE [l \in PrintedLetters(d) |-> PrintCode(EvdevCode(d, l))]
  <2>1. Describe(d).codes = IF NumButtons(d) = 0 THEN Absent
                            ELSE [l \in PrintedLetters(d) |-> PrintCode(EvdevCode(d, l))]
    BY Zenon DEF Describe
  <2>2. h.codes = Describe(d).codes
    BY DEF ButtonKeys
  <2> QED BY <1>3, <2>1, <2>2
<1>6. h.small = g.small
  <2>1. h.small = (ClassOf(d.cls) \in {"Bamboo", "Graphire"})
    BY DescribeFields DEF ButtonKeys
  <2> QED BY <1>1, <1>2, <2>1, ClassReread
<1> HIDE DEF h
<1>7. h.vals = [o \in Range(Option) |->
                  Kept([l \in 1..n |-> l], {l \in 1..n : o \in NamedBy(g, l)})]
  <2>1. h.vals = [o \in Range(Option) |->
                    Kept([l \in 1..n |-> l], {l \in 1..n : o \in Flags(d, l)})]
    BY <1>3, <1>4 DEF PrintVals
  <2>2. \A o : {l \in 1..n : o \in Flags(d, l)} = {l \in 1..n : o \in NamedBy(g, l)}
    BY <1>3
  <2> QED BY <2>1, <2>2
<1>8. h.codes = IF n = 0 THEN Absent ELSE [l \in 1..n |-> PrintCode(CodeOf(g, l))]
  BY <1>3, <1>5
<1> QED BY <1>2, <1>4, <1>6, <1>7, <1>8 DEF Printed, g, n, h

LEMMA Reread ==
  ASSUME NEW f, IsTabletFile(f), Whole(f), NEW d, d = Parse(f)
  PROVE  /\ ~FileAborts(Describe(d))
         /\ Agree(d, Parse(Describe(d)))
         /\ InOrder(f) => Parse(Describe(d)).buttons = d.buttons
<1> DEFINE g == ButtonKeys(f)
           n == Cardinality(LettersOf(g))
<1>1. PICK t : t = Describe(d)
  OBVIOUS
<1>2. PICK e : e = Parse(t)
  OBVIOUS
<1>3. PICK h : h = ButtonKeys(t)
  OBVIOUS
<1>4. IsGroup(g, n) /\ g.numModes = f.numModes /\ g.vals = f.vals
  BY GroupFacts
<1>5. Printed(g, n, h)
  BY <1>1, <1>3, PrintedGroup
<1>6. n = 0 => LettersOf(g) = {}
  BY DEF Whole
<1>7. /\ \A ft \in Feature : g.numModes[ft] >= 0
      /\ n = 0 => \A ft \in Feature : g.numModes[ft] = 0
  BY <1>4, <1>6 DEF Whole
<1> HIDE DEF n
<1>8. IsGroup(h, n) /\ \A l \in Letter : NamedBy(h, l) = NamedBy(g, l)
  BY <1>4, <1>5, FlagsReread
<1>9. (\A l \in 1..n : CodeOf(h, l) = CodeOf(g, l)) /\ ~Aborts(h)
  BY <1>4, <1>5, CodesReread
<1>10. NumModesOf(h) = NumModesOf(g)
  BY <1>4, <1>5, <1>7, NumModesReread
<1>11. /\ d.buttons = ButtonsOf(g) /\ e.buttons = ButtonsOf(h)
       /\ d.numModes = NumModesOf(g) /\ e.numModes = NumModesOf(h)
  BY <1>2, <1>3, ParseFields
<1>12. /\ LettersIn(d) = 1..n /\ LettersIn(e) = 1..n /\ 1..n \subseteq Letter
       /\ \A l \in Letter : Flags(d, l) = NamedBy(g, l) /\ Flags(e, l) = NamedBy(h, l)
       /\ \A l \in 1..n : EvdevCode(d, l) = CodeOf(g, l) /\ EvdevCode(e, l) = CodeOf(h, l)
  <2>1. /\ LettersIn(d) = 1..n
        /\ \A l \in Letter : Flags(d, l) = NamedBy(g, l)
        /\ \A l \in 1..n : l \in Letter /\ EvdevCode(d, l) = CodeOf(g, l)
    BY <1>4, <1>11, ButtonsFacts
  <2>2. /\ LettersIn(e) = 1..n
        /\ \A l \in Letter : Flags(e, l) = NamedBy(h, l)
        /\ \A l \in 1..n : l \in Letter /\ EvdevCode(e, l) = CodeOf(h, l)
    BY <1>8, <1>11, ButtonsFacts
  <2> QED BY <2>1, <2>2
<1>13. \A l : Flags(e, l) = Flags(d, l) /\ EvdevCode(e, l) = EvdevCode(d, l)
  <2> TAKE l
  <2>1. CASE l \in 1..n
    BY <1>8, <1>9, <1>12, <2>1
  <2>2. CASE l \notin 1..n
    BY <1>12, <2>2 DEF Flags, EvdevCode
  <2> QED BY <2>1, <2>2
<1>14. InOrder(f) => e.buttons = d.buttons
  <2> SUFFICES ASSUME InOrder(f) PROVE ButtonsOf(h) = ButtonsOf(g)
    BY <1>11
  <2>1. InOrder(g)
    BY <1>4 DEF InOrder
  <2>2. \A l \in Letter : ModeOf(h, l) = ModeOf(g, l)
    BY <1>4, <1>5, <2>1, ModesReread
  <2>3. LettersOf(h) = 1..n /\ LettersOf(g) = 1..n
    BY <1>4, <1>8 DEF IsGroup
  <2> HIDE DEF g
  <2> QED BY <1>8, <1>9, <2>2, <2>3 DEF ButtonsOf
<1>15. ~FileAborts(t)
  BY <1>3, <1>9 DEF FileAborts
<1> HIDE DEF g
<1>16. /\ e.name = d.name /\ e.modelName = d.modelName
       /\ e.numRings = d.numRings /\ e.numStrips = d.numStrips /\ e.numDials = d.numDials
  <2>1. /\ e.name = t.name /\ e.modelName = t.modelName
        /\ e.numRings = t.numRings /\ e.numStrips = t.numStrips /\ e.numDials = t.numDials
    BY <1>2, ParseFields
  <2>2. /\ t.name = d.name /\ t.modelName = d.modelName
        /\ t.numRings = d.numRings /\ t.numStrips = d.numStrips /\ t.numDials = d.numDials
    BY <1>1, DescribeFields
  <2> QED BY <2>1, <2>2
<1>17. e.matches = d.matches /\ e.match = d.match
  <2>1. d.matches = ParseMatches(f.deviceMatch) /\ d.match = Head(ParseMatches(f.deviceMatch))
    BY ParseFields
  <2>2. t.deviceMatch = [i \in DOMAIN d.matches |-> PrintMatch(d.matches[i])]
    BY <1>1, Zenon DEF Describe
  <2>3. ParseMatches(t.deviceMatch) = d.matches
    BY <2>1, <2>2, MatchesReread
  <2>4. e.matches = ParseMatches(t.deviceMatch) /\ e.match = Head(ParseMatches(t.deviceMatch))
    BY <1>2, ParseFields
  <2> QED BY <2>1, <2>3, <2>4
<1>18. e.paired = d.paired
  <2>1. d.paired = PairedOf(f) /\ e.paired = PairedOf(t)
    BY <1>2, ParseFields
  <2>2. t.pairedID = IF d.paired = Null THEN Null ELSE PrintMatch(d.paired)
    BY <1>1, DescribeFields
  <2> QED BY <2>1, <2>2, PairedReread
<1>19. e.width = d.width /\ e.height = d.height /\ e.cls = d.cls /\ e.layout = d.layout
  <2>1. /\ d.width = SizeInMm(f.width) /\ d.height = SizeInMm(f.height)
        /\ d.cls = ClassOf(f.class) /\ d.layout = LayoutOf(f)
    BY ParseFields
  <2>2. /\ e.width = SizeInMm(t.width) /\ e.height = SizeInMm(t.height)
        /\ e.cls = ClassOf(t.class) /\ e.layout = LayoutOf(t)
    BY <1>2, ParseFields
  <2>3. t.width = d.width /\ t.height = d.height /\ t.class = d.cls /\ t.layout = d.layout
    BY <1>1, DescribeFields
  <2>4. f.width \in Int /\ f.height \in Int
    BY DEF IsTabletFile
  <2>5. LayoutOf(t) = LayoutOf(f)
    BY <2>1, <2>3 DEF LayoutOf
  <2> QED BY <2>1, <2>2, <2>3, <2>4, <2>5, SizeReread, ClassReread
<1>20. e.integration = d.integration
  <2>1. d.integration = IntegrationOf(f) /\ e.integration = IntegrationOf(t)
    BY <1>2, ParseFields
  <2>2. t.integratedIn = IF d.integration = Null THEN Null
                         ELSE Kept(<<"Display", "System", "Remote">>, d.integration)
    BY <1>1, DescribeFields DEF PrintIntegration
  <2> QED BY <2>1, <2>2, IntegrationReread
<1>21. e.features = d.features /\ e.styli = d.styli
  <2>1. /\ d.features = FeaturesOf(f) /\ e.features = FeaturesOf(t)
        /\ d.styli = StyliOf(f) /\ e.styli = StyliOf(t)
    BY <1>2, ParseFields
  <2>2. /\ t.features = TRUE /\ t.stylus = ("stylus" \in d.features) /\ t.styli = PrintStyli(d)
        /\ t.touch = ("touch" \in d.features) /\ t.reversible = ("reversible" \in d.features)
        /\ t.touchSwitch = ("touchSwitch" \in d.features)
    BY <1>1, DescribeFields DEF HasStylus
  <2>3. FeaturesOf(t) = FeaturesOf(f)
    BY <2>1, <2>2, FeaturesReread
  <2>4. t.stylus = (f.stylus = TRUE)
    BY <2>1, <2>2, HasStylusIs
  <2>5. t.styli = IF f.stylus = TRUE
                  THEN [i \in DOMAIN StyliOf(f) |-> PrintStylusId(StyliOf(f)[i])] ELSE Null
    BY <2>1, <2>2, HasStylusIs DEF PrintStyli, HasStylus
  <2>6. StyliOf(f) # <<>> => f.stylus = TRUE
    BY DEF Whole
  <2> QED BY <2>1, <2>2, <2>3, <2>4, <2>5, <2>6, StyliReread
<1>22. e.statusLEDs = d.statusLEDs
  <2>1. /\ d.statusLEDs = Kept(f.statusLEDs, ModeSwitch)
        /\ e.statusLEDs = Kept(t.statusLEDs, ModeSwitch)
    BY <1>2, ParseFields
  <2>2. t.statusLEDs = Kept(d.statusLEDs, ModeSwitch)
    BY <1>1, DescribeFields DEF PrintLeds
  <2>3. IsList(f.statusLEDs)
    BY DEF IsTabletFile
  <2> QED BY <2>1, <2>2, <2>3, LedsReread
<1>23. Agree(d, e)
  BY <1>10, <1>11, <1>12, <1>13, <1>16, <1>17, <1>18, <1>19, <1>20, <1>21, <1>22 DEF Agree
<1> QED BY <1>1, <1>2, <1>14, <1>15, <1>23

-----------------------------------------------------------------------------
(***************************************************************************)
(* What the variables can be, of a file that keeps everything: the first     *)
(* device is printed and read back, and from then on nothing changes.        *)
(***************************************************************************)
First       == Parse(file)
Description == Describe(First)
Again       == Parse(Description)

\* The file is read for the first time.
Reading == pc \in {"parse", "aborted"} /\ text = file /\ device = Null /\ before = Null /\ printed = NoFile

\* The file has been read, and is printed.
Printing ==
  \/ pc = "print" /\ text = file /\ device = First /\ before = Null
  \/ pc = "parse" /\ text = Description /\ device = First /\ before = Null /\ printed = NoFile

\* The description has been read, once or more.
Reprinting ==
  /\ text = Description /\ device = Again
  /\ \/ pc = "print" /\ before \in {First, Again}
     \/ pc = "parse" /\ printed \in {NoFile, Description}

\* The inductive invariant
ReloadInv ==
  /\ file \in File
  /\ Whole(file) => Reading \/ Printing \/ Reprinting

LEMMA ReloadInitInv == ReloadInit => ReloadInv
BY DEF ReloadInit, ReloadInv, Reading, NoFile

LEMMA RereadFacts ==
  ASSUME NEW f \in File, Whole(f), NEW d, d = Parse(f)
  PROVE  /\ ~FileAborts(Describe(d))
         /\ Agree(d, Parse(Describe(d)))
         /\ InOrder(f) => Parse(Describe(d)).buttons = d.buttons
         /\ Describe(Parse(Describe(d))) = Describe(d)
<1>1. IsTabletFile(f)
  BY FileAssumption
<1>2. /\ ~FileAborts(Describe(d))
      /\ Agree(d, Parse(Describe(d)))
      /\ InOrder(f) => Parse(Describe(d)).buttons = d.buttons
  BY <1>1, Reread
<1> QED BY <1>2, AgreeDescribe

LEMMA ReloadStep ==
  ASSUME ReloadInv, [ReloadNext]_reloadVars
  PROVE  ReloadInv'
<1>1. PICK f : f = file
  OBVIOUS
<1>2. file' = f /\ file' \in File
  BY <1>1 DEF ReloadInv, ReloadNext, ParseText, AbortParse, PrintDevice, reloadVars
<1> SUFFICES ASSUME Whole(f) PROVE (Reading \/ Printing \/ Reprinting)'
  BY <1>1, <1>2 DEF ReloadInv
<1> DEFINE d == Parse(f)
           t == Describe(d)
           e == Parse(t)
<1>3. ~FileAborts(t) /\ Describe(e) = t
  BY <1>1, RereadFacts DEF ReloadInv
<1>4. /\ First = d /\ Description = t /\ Again = e
      /\ First' = d /\ Description' = t /\ Again' = e
  BY <1>1, <1>2 DEF First, Description, Again
<1>5. Reading \/ Printing \/ Reprinting
  BY <1>1 DEF ReloadInv
<1> HIDE DEF d, t, e
<1>6. CASE ParseText
  <2>1. /\ pc = "parse" /\ pc' = "print" /\ before' = device /\ device' = Parse(text)
        /\ text' = text
    BY <1>6 DEF ParseText
  <2>2. CASE Reading
    BY <1>1, <1>2, <1>4, <2>1, <2>2 DEF Reading, Printing, First
  <2>3. CASE Printing
    <3>1. text = t /\ device = d
      BY <1>4, <2>1, <2>3 DEF Printing
    <3> QED BY <1>4, <2>1, <3>1 DEF Reprinting, e
  <2>4. CASE Reprinting
    <3>1. text = t /\ device = e
      BY <1>4, <2>4 DEF Reprinting
    <3> QED BY <1>4, <2>1, <3>1 DEF Reprinting, e
  <2> QED BY <1>5, <2>2, <2>3, <2>4
<1>7. CASE AbortParse
  <2>1. /\ pc = "parse" /\ FileAborts(text) /\ pc' = "aborted"
        /\ text' = text /\ device' = device /\ before' = before /\ printed' = printed
    BY <1>7 DEF AbortParse
  <2>2. text # t
    BY <1>3, <2>1
  <2>3. Reading
    BY <1>4, <1>5, <2>1, <2>2 DEF Printing, Reprinting
  <2> QED BY <1>1, <1>2, <2>1, <2>3 DEF Reading, NoFile
<1>8. CASE PrintDevice
  <2>1. /\ pc = "print" /\ pc' = "parse" /\ text' = Describe(device)
        /\ printed' = (IF before = Null THEN NoFile ELSE text)
        /\ device' = device /\ before' = before
    BY <1>8 DEF PrintDevice
  <2>2. CASE Printing
    <3>1. device = d /\ before = Null
      BY <1>4, <2>1, <2>2 DEF Printing
    <3> QED BY <1>4, <2>1, <3>1 DEF Printing, t
  <2>3. CASE Reprinting
    <3>1. text = t /\ device = e
      BY <1>4, <2>3 DEF Reprinting
    <3>2. text' = t /\ device' = e /\ printed' \in {NoFile, t}
      BY <1>3, <2>1, <3>1
    <3> QED BY <1>4, <2>1, <3>2 DEF Reprinting
  <2> QED BY <1>5, <2>1, <2>2, <2>3 DEF Reading
<1>9. CASE UNCHANGED reloadVars
  BY <1>1, <1>4, <1>5, <1>9 DEF reloadVars, Reading, Printing, Reprinting, NoFile
<1> QED BY <1>6, <1>7, <1>8, <1>9 DEF ReloadNext

\* Of a file that keeps everything, the device printed is the one that is read back.
THEOREM ReloadInvariance == ReloadSpec => []ReloadInv
BY ReloadInitInv, ReloadStep, PTL DEF ReloadSpec

\* A device that is printed and read back compares as the same, either way round.
THEOREM ReadsBackTheorem == ReloadSpec => []ReadsBack
<1>1. ReloadInv => ReadsBack
  <2> SUFFICES ASSUME ReloadInv, pc = "print", before # Null, Whole(file)
               PROVE  Same(before, device, TRUE) /\ Same(device, before, TRUE)
    BY DEF ReadsBack
  <2>1. device = Again /\ before \in {First, Again}
    BY DEF ReloadInv, Reading, Printing, Reprinting
  <2>2. Agree(First, Again)
    BY RereadFacts DEF ReloadInv, First, Again, Description
  <2>3. Agree(Again, Again)
    BY DEF Agree
  <2> QED BY <2>1, <2>2, <2>3, AgreeSame
<1> QED BY <1>1, ReloadInvariance, PTL

\* All getters answer as they did, if the buttons of a mode switch are in order.
THEOREM AnswersTheorem == ReloadSpec => []AnswersKept
<1>1. ReloadInv => AnswersKept
  <2> SUFFICES ASSUME ReloadInv, pc = "print", before # Null, Whole(file), InOrder(file)
               PROVE  Answers(device) = Answers(before)
    BY DEF AnswersKept
  <2>1. device = Again /\ before \in {First, Again}
    BY DEF ReloadInv, Reading, Printing, Reprinting
  <2>2. Agree(First, Again) /\ Again.buttons = First.buttons
    BY RereadFacts DEF ReloadInv, First, Again, Description
  <2> QED BY <2>1, <2>2, AgreeAnswers
<1> QED BY <1>1, ReloadInvariance, PTL

\* The text does not change any more, and no description ends the process.
THEOREM SettlesTheorem == ReloadSpec => []Settles
<1>1. ReloadInv => Settles
  BY DEF ReloadInv, Settles, Reading, Printing, Reprinting, NoFile
<1> QED BY <1>1, ReloadInvariance, PTL
=============================================================================
