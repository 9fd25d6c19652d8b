--------------------------- MODULE MatchesProofs ---------------------------
(***************************************************************************)
(* Lemmas about Matches: what ParseMatches collects from any list of        *)
(* strings, and that match strings tell matches apart; before them, two      *)
(* facts about sets of numbers.                                              *)
(***************************************************************************)
EXTENDS Matches, SequenceTheorems, WellFoundedInduction, TLAPS

LEMMA LessOnNat == OpToRel(<, Nat) = {ss \in Nat \X Nat : ss[1] < ss[2]}
BY DEF OpToRel

\* A nonempty set of numbers has a least element.
LEMMA LeastElement ==
  ASSUME NEW S \in SUBSET Nat, S # {}
  PROVE  Min(S) \in S /\ \A y \in S : Min(S) <= y
<1> DEFINE R == {ss \in Nat \X Nat : ss[1] < ss[2]}
<1>1. IsWellFoundedOn(R, Nat)
  BY NatLessThanWellFounded, LessOnNat
<1> HIDE DEF R
<1>2. PICK x \in S : \A y \in S : ~(<<y, x>> \in R)
  BY <1>1, WFMin
<1>3. x \in Nat /\ S \subseteq Nat
  BY <1>2
<1>4. \A y \in S : ~(y < x)
  <2> TAKE y \in S
  <2>1. ASSUME y < x PROVE FALSE
    <3>1. <<y, x>> \in Nat \X Nat
      BY <1>3
    <3>2. <<y, x>> \in R
      BY <3>1, <2>1 DEF R
    <3> QED BY <3>2, <1>2
  <2> QED BY <2>1
<1>5. \A y \in S : x <= y
  BY <1>4, <1>3
<1>6. \A z \in S : (\A y \in S : z <= y) => z = x
  BY <1>5, <1>3
<1> QED BY <1>2, <1>5, <1>6 DEF Min

(***************************************************************************)
(* ParseMatches.  The fold it is defined by is a function on sets of        *)
(* positions; that there is one is shown by induction on their number.      *)
(***************************************************************************)
Collect(ms, s) == IF IsMatchString(s) THEN AddMatch(ms, MatchFromString(s)) ELSE ms

IsFold(f, strings, n) ==
  f = [S \in SUBSET (1..n) |-> IF S = {} THEN <<>> ELSE Collect(f[S \ {Max(S)}], strings[Max(S)])]

\* Induction on the natural numbers, for a set.
LEMMA Induction ==
  ASSUME NEW S, 0 \in S, \A n \in Nat : n \in S => n + 1 \in S
  PROVE  Nat \subseteq S
<1> DEFINE T == {n \in Nat : n \notin S}
           k == Min(T)
<1>1. SUFFICES ASSUME T # {} PROVE FALSE
  OBVIOUS
<1>2. k \in T /\ \A n \in T : k <= n
  BY <1>1, LeastElement
<1>3. k \in Nat /\ k \notin S /\ \A n \in Nat : n \notin S => k <= n
  BY <1>2
<1> HIDE DEF k
<1>4. k - 1 \in Nat /\ k - 1 \in S
  BY <1>3
<1>5. (k - 1) + 1 \in S
  BY <1>4
<1> QED BY <1>3, <1>5

LEMMA MaxTop ==
  ASSUME NEW n \in Nat, NEW S \in SUBSET (1..(n + 1)), n + 1 \in S
  PROVE  Max(S) = n + 1
<1>1. \A y \in S : n + 1 >= y
  OBVIOUS
<1>2. \A x \in S : (\A y \in S : x >= y) => x = n + 1
  OBVIOUS
<1> QED BY <1>1, <1>2 DEF Max

LEMMA FoldGrows ==
  ASSUME NEW strings, NEW n \in Nat, NEW f, IsFold(f, strings, n)
  PROVE  \E g : IsFold(g, strings, n + 1)
<1> DEFINE g == [S \in SUBSET (1..(n + 1)) |->
                   IF n + 1 \in S THEN Collect(f[S \ {n + 1}], strings[n + 1]) ELSE f[S]]
<1>1. ASSUME NEW S \in SUBSET (1..(n + 1))
      PROVE  g[S] = IF S = {} THEN <<>> ELSE Collect(g[S \ {Max(S)}], strings[Max(S)])
  <2>1. CASE n + 1 \in S
    <3>1. Max(S) = n + 1
      BY <2>1, MaxTop
    <3>2. g[S \ {n + 1}] = f[S \ {n + 1}]
      OBVIOUS
    <3> QED BY <3>1, <3>2, <2>1
  <2>2. CASE n + 1 \notin S
    <3>1. S \in SUBSET (1..n)
      BY <2>2
    <3>2. f[S] = IF S = {} THEN <<>> ELSE Collect(f[S \ {Max(S)}], strings[Max(S)])
      BY <3>1 DEF IsFold
    <3>3. g[S] = f[S] /\ g[S \ {Max(S)}] = f[S \ {Max(S)}]
      <4>1. S \ {Max(S)} \in SUBSET (1..(n + 1)) /\ n + 1 \notin S \ {Max(S)}
        BY <2>2
      <4> QED BY <4>1, <2>2
    <3> QED BY <3>2, <3>3
  <2> QED BY <2>1, <2>2
<1>2. g = [S \in SUBSET (1..(n + 1)) |-> g[S]]
  OBVIOUS
<1> HIDE DEF g
<1>3. IsFold(g, strings, n + 1)
  BY <1>1, <1>2 DEF IsFold
<1> QED BY <1>3

LEMMA FoldExists ==
  ASSUME NEW strings, NEW n \in Nat
  PROVE  \E f : IsFold(f, strings, n)
<1> DEFINE S == {k \in Nat : \E f : IsFold(f, strings, k)}
<1>1. 0 \in S
  <2> DEFINE f == [T \in SUBSET (1..0) |-> <<>>]
  <2>1. SUBSET (1..0) = {{}}
    OBVIOUS
  <2>2. IsFold(f, strings, 0)
    BY <2>1 DEF IsFold
  <2> QED BY <2>2
<1>2. \A k \in Nat : k \in S => k + 1 \in S
  BY FoldGrows
<1> HIDE DEF S
<1>3. n \in S
  BY <1>1, <1>2, Induction
<1> QED BY <1>3 DEF S

\* The strings are collected one after the other, from the first to the last.
LEMMA ParseStep ==
  ASSUME NEW strings, NEW n \in Nat, DOMAIN strings = 1..n
  PROVE  \E acc : /\ acc[0] = <<>>
                  /\ \A k \in 1..n : acc[k] = Collect(acc[k - 1], strings[k])
                  /\ ParseMatches(strings) = acc[n]
<1> DEFINE f == CHOOSE f : f = [S \in SUBSET (1..n) |->
                  IF S = {} THEN <<>> ELSE Collect(f[S \ {Max(S)}], strings[Max(S)])]
           acc == [k \in 0..n |-> f[1..k]]
<1>1. IsFold(f, strings, n)
  BY FoldExists DEF IsFold
<1>2. ParseMatches(strings) = f[1..n]
  BY DEF ParseMatches, FoldLeft, MapThenFoldSet, Collect
<1> HIDE DEF f
<1>3. acc[0] = <<>>
  <2>1. 1..0 = {}
    OBVIOUS
  <2> QED BY <1>1, <2>1 DEF IsFold
<1>4. ASSUME NEW k \in 1..n PROVE acc[k] = Collect(acc[k - 1], strings[k])
  <2>1. k - 1 \in Nat /\ (k - 1) + 1 = k /\ k - 1 \in 0..n /\ k \in 0..n
    OBVIOUS
  <2>2. Max(1..k) = k
    <3>1. 1..k \in SUBSET (1..((k - 1) + 1)) /\ (k - 1) + 1 \in 1..k
      BY <2>1
    <3>2. Max(1..k) = (k - 1) + 1
      BY <2>1, <3>1, MaxTop
    <3> QED BY <2>1, <3>2
  <2>3. (1..k) \ {k} = 1..(k - 1) /\ 1..k # {} /\ 1..k \in SUBSET (1..n)
    OBVIOUS
  <2>4. f[1..k] = Collect(f[1..(k - 1)], strings[k])
    BY <1>1, <2>2, <2>3 DEF IsFold
  <2> QED BY <2>1, <2>4
<1>5. ParseMatches(strings) = acc[n]
  BY <1>2
<1> QED BY <1>3, <1>4, <1>5

-----------------------------------------------------------------------------
\* The matches that strings of a list stand for.
Read(strings) == {MatchFromString(s) : s \in {t \in Range(strings) : IsMatchString(t)}}

NoneTwice(ms) == \A i, j \in DOMAIN ms : ms[i].match = ms[j].match => i = j

\* An array collected has matches of the strings only, and no match string twice.
LEMMA CollectFacts ==
  ASSUME NEW strings, NEW s \in Range(strings), NEW ms \in Seq(Read(strings)), NoneTwice(ms)
  PROVE  Collect(ms, s) \in Seq(Read(strings)) /\ NoneTwice(Collect(ms, s))
<1> DEFINE m == MatchFromString(s)
<1>1. CASE IsMatchString(s) /\ ~ \E i \in DOMAIN ms : ms[i].match = m.match
  <2>1. Collect(ms, s) = Append(ms, m)
    BY <1>1 DEF Collect, AddMatch
  <2>2. m \in Read(strings)
    BY <1>1 DEF Read
  <2> HIDE DEF m
  <2>3. /\ Append(ms, m) \in Seq(Read(strings))
        /\ DOMAIN ms = 1..Len(ms) /\ Len(ms) \in Nat
        /\ DOMAIN Append(ms, m) = 1..(Len(ms) + 1)
        /\ Append(ms, m)[Len(ms) + 1] = m
        /\ \A i \in DOMAIN ms : Append(ms, m)[i] = ms[i]
    BY <2>2
  <2>4. NoneTwice(Append(ms, m))
    <3> DEFINE A == Append(ms, m)
    <3> SUFFICES ASSUME NEW i \in 1..(Len(ms) + 1), NEW j \in 1..(Len(ms) + 1),
                        A[i].match = A[j].match
                 PROVE  i = j
      BY <2>3 DEF NoneTwice
    <3> HIDE DEF A
    <3>1. \A k \in 1..(Len(ms) + 1) : k = Len(ms) + 1 \/ k \in DOMAIN ms
      BY <2>3
    <3>2. /\ \A k \in DOMAIN ms : A[k] = ms[k]
          /\ A[Len(ms) + 1] = m
      BY <2>3 DEF A
    <3> QED BY <1>1, <3>1, <3>2 DEF NoneTwice
  <2> QED BY <2>1, <2>3, <2>4
<1>2. CASE ~(IsMatchString(s) /\ ~ \E i \in DOMAIN ms : ms[i].match = m.match)
  <2>1. Collect(ms, s) = ms
    BY <1>2 DEF Collect, AddMatch
  <2> QED BY <2>1
<1> QED BY <1>1, <1>2

\* So have the matches of a file, however often and in whatever spelling it has them.
LEMMA ParseFacts ==
  ASSUME NEW strings, Len(strings) \in Nat, DOMAIN strings = 1..Len(strings)
  PROVE  ParseMatches(strings) \in Seq(Read(strings)) /\ NoneTwice(ParseMatches(strings))
<1> DEFINE n == Len(strings)
<1>1. PICK acc : /\ acc[0] = <<>>
                 /\ \A k \in 1..n : acc[k] = Collect(acc[k - 1], strings[k])
                 /\ ParseMatches(strings) = acc[n]
  BY ParseStep
<1> DEFINE Good(ms) == ms \in Seq(Read(strings)) /\ NoneTwice(ms)
           S == {k \in Nat : k <= n => Good(acc[k])}
<1>2. 0 \in S
  <2>1. <<>> \in Seq(Read(strings)) /\ DOMAIN <<>> = {}
    OBVIOUS
  <2> QED BY <1>1, <2>1 DEF NoneTwice
<1>3. ASSUME NEW k \in Nat, k \in S PROVE k + 1 \in S
  <2> SUFFICES ASSUME k + 1 <= n PROVE Good(acc[k + 1])
    OBVIOUS
  <2>1. k + 1 \in 1..n /\ (k + 1) - 1 = k /\ k <= n
    OBVIOUS
  <2>2. Good(acc[k])
    BY <2>1, <1>3
  <2>3. acc[k + 1] = Collect(acc[k], strings[k + 1])
    BY <1>1, <2>1
  <2>4. strings[k + 1] \in Range(strings)
    BY <2>1 DEF Range
  <2> QED BY <2>2, <2>3, <2>4, CollectFacts
<1> HIDE DEF S
<1>4. n \in S
  BY <1>2, <1>3, Induction
<1> QED BY <1>1, <1>4 DEF S

-----------------------------------------------------------------------------
(***************************************************************************)
(* Match strings tell matches apart, if no name or uniq has a '|' in it.     *)
(***************************************************************************)
OnePiece(t) == t # Null /\ t = <<t[1]>>

LEMMA ConcatIs ==
  ASSUME NEW W, NEW s \in Seq(W), NEW t \in Seq(W), NEW r \in Seq(W), NEW n \in Nat, NEW m \in Nat,
         Len(s) = n, Len(t) = m, Len(r) = n + m,
         \A i \in 1..n : r[i] = s[i], \A i \in 1..m : r[n + i] = t[i]
  PROVE  s \o t = r
<1>1. s \o t \in Seq(W) /\ Len(s \o t) = n + m
  OBVIOUS
<1>2. \A i \in 1..n : (s \o t)[i] = s[i]
  OBVIOUS
<1>3. \A i \in 1..m : (s \o t)[n + i] = t[i]
  OBVIOUS
<1>4. \A i \in 1..Len(s \o t) : (s \o t)[i] = r[i]
  <2> TAKE i \in 1..Len(s \o t)
  <2>1. CASE i \in 1..n
    BY <2>1, <1>2
  <2>2. CASE i \notin 1..n
    <3>1. i - n \in 1..m /\ n + (i - n) = i
      BY <1>1, <2>2
    <3> QED BY <3>1, <1>3
  <2> QED BY <2>1, <2>2
<1> QED BY <1>1, <1>4, SeqEqual

LEMMA Join4 ==
  ASSUME NEW b, NEW v, NEW p, NEW x
  PROVE  <<b, v, p>> \o <<x>> = <<b, v, p, x>>
<1> DEFINE s == <<b, v, p>>
           t == <<x>>
           r == <<b, v, p, x>>
<1>1. PICK W, n, m : W = {b, v, p, x} /\ n = 3 /\ m = 1
  OBVIOUS
<1>2. /\ s \in Seq(W) /\ t \in Seq(W) /\ r \in Seq(W) /\ n \in Nat /\ m \in Nat
      /\ Len(s) = n /\ Len(t) = m /\ Len(r) = n + m
  BY <1>1
<1>3. (\A i \in 1..n : r[i] = s[i]) /\ \A i \in 1..m : r[n + i] = t[i]
  BY <1>1
<1> HIDE DEF s, t, r
<1>4. s \o t = r
  BY <1>2, <1>3, ConcatIs
<1> QED BY <1>4 DEF s, t, r

LEMMA Join5 ==
  ASSUME NEW b, NEW v, NEW p, NEW x, NEW y
  PROVE  <<b, v, p, x>> \o <<y>> = <<b, v, p, x, y>>
<1> DEFINE s == <<b, v, p, x>>
           t == <<y>>
           r == <<b, v, p, x, y>>
<1>1. PICK W, n, m : W = {b, v, p, x, y} /\ n = 4 /\ m = 1
  OBVIOUS
<1>2. /\ s \in Seq(W) /\ t \in Seq(W) /\ r \in Seq(W) /\ n \in Nat /\ m \in Nat
      /\ Len(s) = n /\ Len(t) = m /\ Len(r) = n + m
  BY <1>1
<1>3. (\A i \in 1..n : r[i] = s[i]) /\ \A i \in 1..m : r[n + i] = t[i]
  BY <1>1
<1> HIDE DEF s, t, r
<1>4. s \o t = r
  BY <1>2, <1>3, ConcatIs
<1> QED BY <1>4 DEF s, t, r

LEMMA JoinNone ==
  ASSUME NEW b, NEW v, NEW p, NEW x
  PROVE  /\ <<b, v, p>> \o <<>> = <<b, v, p>>
         /\ <<b, v, p, x>> \o <<>> = <<b, v, p, x>>
<1>1. <<b, v, p>> \in Seq({b, v, p}) /\ <<b, v, p, x>> \in Seq({b, v, p, x})
  OBVIOUS
<1> QED BY <1>1, ConcatEmptySeq

\* What a string s looks like for texts that are x and y.
Shape(s, name, uniq, b, v, p, x, y) ==
  /\ uniq = Null /\ name = Null => s = <<b, v, p>>
  /\ uniq = Null /\ name # Null => s = <<b, v, p, x>>
  /\ uniq # Null /\ name = Null => s = <<b, v, p, "", y>>
  /\ uniq # Null /\ name # Null => s = <<b, v, p, x, y>>

LEMMA Shapes ==
  ASSUME NEW name, NEW uniq, NEW b, NEW v, NEW p, NEW x, NEW y,
         name # Null => name = <<x>>, uniq # Null => uniq = <<y>>
  PROVE  Shape(MakeMatchString(name, uniq, b, v, p), name, uniq, b, v, p, x, y)
<1> DEFINE z == IF name = Null THEN "" ELSE x
           s == MakeMatchString(name, uniq, b, v, p)
<1>1. CASE uniq = Null /\ name = Null
  <2>1. s = <<b, v, p>> \o <<>> \o <<>>
    BY <1>1 DEF MakeMatchString, NamePieces, PiecesIf
  <2> QED BY <1>1, <2>1, JoinNone DEF Shape
<1>2. CASE uniq = Null /\ name # Null
  <2>1. s = <<b, v, p>> \o <<x>> \o <<>>
    BY <1>2 DEF MakeMatchString, NamePieces, PiecesIf
  <2>2. s = <<b, v, p, x>>
    BY <2>1, Join4, JoinNone
  <2> QED BY <1>2, <2>2, Zenon DEF Shape
<1>3. CASE uniq # Null
  <2>1. s = <<b, v, p>> \o <<z>> \o <<y>>
    BY <1>3 DEF MakeMatchString, NamePieces, PiecesIf
  <2> HIDE DEF z
  <2>2. <<b, v, p>> \o <<z>> = <<b, v, p, z>>
    BY Join4
  <2>3. <<b, v, p, z>> \o <<y>> = <<b, v, p, z, y>>
    BY Join5
  <2>4. s = <<b, v, p, z, y>>
    BY <2>1, <2>2, <2>3, Zenon
  <2>5. (name = Null => z = "") /\ (name # Null => z = x)
    BY DEF z
  <2> QED BY <1>3, <2>4, <2>5, Zenon DEF Shape
<1> QED BY <1>1, <1>2, <1>3

LEMMA TupleLengths ==
  ASSUME NEW a1, NEW a2, NEW a3, NEW a4, NEW a5
  PROVE  /\ Len(<<a1, a2, a3>>) = 3
         /\ Len(<<a1, a2, a3, a4>>) = 4
         /\ Len(<<a1, a2, a3, a4, a5>>) = 5
         /\ Len(Generic) = 1
BY DEF Generic

LEMMA SamePiece ==
  ASSUME NEW t, NEW t2, NEW x, NEW x2, t # Null => t = <<x>>, t2 # Null => t2 = <<x2>>,
         t # Null, t2 # Null
  PROVE  t = t2 <=> x = x2
OBVIOUS

\* The names of two strings, printed before a uniq; e is the empty piece.
LEMMA SameName ==
  ASSUME NEW name, NEW name2, NEW x, NEW x2, NEW e, NEW z, NEW z2,
         name # Null => name = <<x>>, name2 # Null => name2 = <<x2>>,
         z = IF name = Null THEN e ELSE x, z2 = IF name2 = Null THEN e ELSE x2
  PROVE  z = z2 <=> (name = name2 \/ {name, name2} \subseteq {Null, <<e>>})
<1>1. CASE name # Null /\ name2 # Null
  <2>1. name = name2 <=> x = x2
    BY <1>1, SamePiece
  <2>2. ASSUME {name, name2} \subseteq {Null, <<e>>} PROVE name = name2
    BY <1>1, <2>2
  <2> QED BY <1>1, <2>1, <2>2
<1>2. CASE name = Null /\ name2 = Null
  BY <1>2
<1>3. CASE name = Null /\ name2 # Null
  <2>1. name2 = <<e>> <=> x2 = e
    BY <1>3
  <2> QED BY <1>3, <2>1
<1>4. CASE name # Null /\ name2 = Null
  <2>1. name = <<e>> <=> x = e
    BY <1>4
  <2> QED BY <1>4, <2>1
<1> QED BY <1>1, <1>2, <1>3, <1>4

SameTexts(name, uniq, name2, uniq2) ==
  uniq = uniq2 /\ (name = name2 \/ (uniq2 # Null /\ {name, name2} \subseteq {Null, <<"">>}))

\* Two strings are equal if and only if bus, ids and texts are, an empty name before a
\* uniq being none.
LEMMA SameString ==
  ASSUME NEW name, NEW uniq, NEW b, NEW v, NEW p,
         NEW name2, NEW uniq2, NEW b2, NEW v2, NEW p2,
         \A t \in {name, uniq, name2, uniq2} \ {Null} : OnePiece(t)
  PROVE  MakeMatchString(name, uniq, b, v, p) = MakeMatchString(name2, uniq2, b2, v2, p2)
           <=> b = b2 /\ v = v2 /\ p = p2 /\ SameTexts(name, uniq, name2, uniq2)
<1>1. PICK x : name # Null => name = <<x>>
  BY DEF OnePiece
<1>2. PICK y : uniq # Null => uniq = <<y>>
  BY DEF OnePiece
<1>3. PICK x2 : name2 # Null => name2 = <<x2>>
  BY DEF OnePiece
<1>4. PICK y2 : uniq2 # Null => uniq2 = <<y2>>
  BY DEF OnePiece
<1>5. PICK s : s = MakeMatchString(name, uniq, b, v, p)
  OBVIOUS
<1>6. PICK t : t = MakeMatchString(name2, uniq2, b2, v2, p2)
  OBVIOUS
<1>7. Shape(s, name, uniq, b, v, p, x, y)
  BY <1>1, <1>2, <1>5, Shapes
<1>8. Shape(t, name2, uniq2, b2, v2, p2, x2, y2)
  BY <1>3, <1>4, <1>6, Shapes
<1> SUFFICES s = t <=> /\ b = b2 /\ v = v2 /\ p = p2 /\ uniq = uniq2
                       /\ name = name2 \/ (uniq2 # Null /\ {name, name2} \subseteq {Null, <<"">>})
  BY <1>5, <1>6, Zenon DEF SameTexts
<1>9. PICK e : e = ""
  OBVIOUS
<1>10. Len(s) = IF uniq # Null THEN 5 ELSE IF name # Null THEN 4 ELSE 3
  BY <1>7, TupleLengths DEF Shape
<1>11. Len(t) = IF uniq2 # Null THEN 5 ELSE IF name2 # Null THEN 4 ELSE 3
  BY <1>8, TupleLengths DEF Shape
<1>12. CASE uniq = Null /\ uniq2 = Null
  <2>1. CASE name = Null /\ name2 = Null
    BY <1>7, <1>8, <1>12, <2>1 DEF Shape
  <2>2. CASE name # Null /\ name2 # Null
    <3>1. name = name2 <=> x = x2
      BY <1>1, <1>3, <2>2, SamePiece
    <3> QED BY <1>7, <1>8, <1>12, <2>2, <3>1 DEF Shape
  <2>3. CASE ~(name = Null <=> name2 = Null)
    BY <1>10, <1>11, <1>12, <2>3
  <2> QED BY <2>1, <2>2, <2>3
<1>13. CASE uniq # Null /\ uniq2 # Null
  <2>1. PICK z, z2 : z = (IF name = Null THEN e ELSE x) /\ z2 = (IF name2 = Null THEN e ELSE x2)
    OBVIOUS
  <2>2. s = <<b, v, p, z, y>> /\ t = <<b2, v2, p2, z2, y2>>
    BY <1>7, <1>8, <1>9, <1>13, <2>1 DEF Shape
  <2>3. s = t <=> (b = b2 /\ v = v2 /\ p = p2 /\ z = z2 /\ y = y2)
    BY <2>2
  <2>4. z = z2 <=> (name = name2 \/ {name, name2} \subseteq {Null, <<e>>})
    BY <1>1, <1>3, <2>1, SameName
  <2>5. uniq = uniq2 <=> y = y2
    BY <1>2, <1>4, <1>13, SamePiece
  <2>6. s = t <=> (b = b2 /\ v = v2 /\ p = p2 /\ uniq = uniq2
                     /\ (name = name2 \/ {name, name2} \subseteq {Null, <<e>>}))
    BY <2>3, <2>4, <2>5
  <2> QED BY <1>9, <1>13, <2>6, Zenon
<1>14. CASE ~(uniq = Null <=> uniq2 = Null)
  <2>1. s # t
    BY <1>10, <1>11, <1>14
  <2> QED BY <1>14, <2>1
<1> QED BY <1>12, <1>13, <1>14
=============================================================================
