--------------------------- MODULE LoadBalancerProofs ---------------------------
(***************************************************************************)
(* Theorems about LoadBalancer, for every finite set of apps with URLs of  *)
(* their own, any requests, and any number of changes and of faults.       *)
(*                                                                         *)
(* First the order of paths: it is strict and total, so every set of apps  *)
(* has a first and a last one, which is what First and Best choose.  Then  *)
(* URL maps: what a map made of some apps says when it is read back, and   *)
(* where it takes a request.  Then the invariant of a round, each of its   *)
(* parts kept by each step, and by the plan that begins the next round.    *)
(***************************************************************************)
EXTENDS LoadBalancer, FiniteSetTheorems, SequenceTheorems, WellFoundedInduction, TLAPS

----------------------------------------------------------------------------
(* The order of paths *)

\* A non-empty set of numbers has a least one.
LEMMA LeastOf ==
    ASSUME NEW T, T \subseteq Nat, T # {}
    PROVE  \E x \in T : \A y \in T : x <= y
<1> DEFINE R == OpToRel(<, Nat)
<1>1. PICK x \in T : \A y \in T : ~ (<<y, x>> \in R)
  <2>1. IsWellFoundedOn(R, Nat)
        BY NatLessThanWellFounded
  <2> HIDE DEF R
  <2> QED
      BY <2>1, WFMin
<1>2. \A y \in T : ~ (y < x)
      BY <1>1 DEF OpToRel
<1> QED
    BY <1>2

\* Before is a strict order.
LEMMA NotBeforeItself ==
    ASSUME NEW s \in Seq(Nat)
    PROVE  ~Before(s, s)
BY DEF Before

\* What is before what is before a path is before it.
LEMMA BeforeInTurn ==
    ASSUME NEW s \in Seq(Nat), NEW t \in Seq(Nat), NEW u \in Seq(Nat),
           Before(s, t), Before(t, u)
    PROVE  Before(s, u)
<1>1. PICK i \in 1..Len(t) :
         /\ \A j \in 1..(i - 1) : j <= Len(s) /\ s[j] = t[j]
         /\ i > Len(s) \/ s[i] < t[i]
      BY DEF Before
<1>2. PICK k \in 1..Len(u) :
         /\ \A j \in 1..(k - 1) : j <= Len(t) /\ t[j] = u[j]
         /\ k > Len(t) \/ t[k] < u[k]
      BY DEF Before
<1>3. CASE i < k
  <2>1. i \in 1..Len(u) /\ t[i] = u[i]
        BY <1>2, <1>3
  <2>2. \A j \in 1..(i - 1) : j <= Len(s) /\ s[j] = u[j]
        BY <1>1, <1>2, <1>3
  <2> QED
      BY <1>1, <2>1, <2>2 DEF Before
<1>4. CASE i = k
  <2>1. i \in 1..Len(t) /\ i \in 1..Len(u) /\ t[i] < u[i]
        BY <1>1, <1>2, <1>4
  <2>2. i > Len(s) \/ s[i] < u[i]
    <3> SUFFICES ASSUME ~(i > Len(s)) PROVE s[i] < u[i]
        OBVIOUS
    <3>1. i \in 1..Len(s) /\ s[i] < t[i]
          BY <1>1
    <3>2. s[i] \in Nat /\ t[i] \in Nat /\ u[i] \in Nat
          BY <2>1, <3>1, ElementOfSeq
    <3>3. \A x, y, z \in Nat : x < y /\ y < z => x < z
          OBVIOUS
    <3> QED
        BY <2>1, <3>1, <3>2, <3>3
  <2>3. \A j \in 1..(i - 1) : j <= Len(s) /\ s[j] = u[j]
        BY <1>1, <1>2, <1>4
  <2> QED
      BY <1>2, <1>4, <2>2, <2>3 DEF Before
<1>5. CASE k < i
  <2>1. k <= Len(s) /\ s[k] = t[k] /\ t[k] < u[k]
        BY <1>1, <1>2, <1>5
  <2>2. \A j \in 1..(k - 1) : j <= Len(s) /\ s[j] = u[j]
        BY <1>1, <1>2, <1>5
  <2> QED
      BY <2>1, <2>2 DEF Before
<1> QED
    BY <1>3, <1>4, <1>5

\* Of two paths one is before the other.
LEMMA OneIsBefore ==
    ASSUME NEW s \in Seq(Nat), NEW t \in Seq(Nat), s # t
    PROVE  Before(s, t) \/ Before(t, s)
<1> DEFINE Differ == {i \in Nat \ {0} : i > Len(s) \/ i > Len(t) \/ s[i] # t[i]}
<1>1. Len(s) + 1 \in Differ
      OBVIOUS
<1>2. PICK i \in Differ : \A j \in Differ : i <= j
  <2> HIDE DEF Differ
  <2>1. Differ \subseteq Nat
        BY DEF Differ
  <2> QED
      BY <1>1, <2>1, LeastOf
<1>3. \A j \in 1..(i - 1) : j <= Len(s) /\ j <= Len(t) /\ s[j] = t[j]
  <2> SUFFICES ASSUME NEW j \in 1..(i - 1)
               PROVE  j <= Len(s) /\ j <= Len(t) /\ s[j] = t[j]
      OBVIOUS
  <2>1. j \notin Differ
        BY <1>2
  <2> QED
      BY <2>1
<1>4. CASE i > Len(s) /\ i > Len(t)
  <2>1. Len(s) >= i - 1 /\ Len(t) >= i - 1
    <3>1. CASE i = 1
          BY <3>1
    <3>2. CASE i > 1
      <4>1. i - 1 \in 1..(i - 1)
            BY <3>2
      <4> QED
          BY <4>1, <1>3
    <3> QED
        BY <3>1, <3>2
  <2>2. Len(s) = Len(t) /\ \A j \in 1..Len(s) : s[j] = t[j]
        BY <1>3, <1>4, <2>1
  <2> QED
      BY <2>2, SeqEqual
<1>5. CASE i > Len(s) /\ i <= Len(t)
      BY <1>3, <1>5 DEF Before
<1>6. CASE i <= Len(s) /\ i > Len(t)
      BY <1>3, <1>6 DEF Before
<1>7. CASE i <= Len(s) /\ i <= Len(t)
  <2>1. s[i] # t[i] /\ s[i] \in Nat /\ t[i] \in Nat
        BY <1>7
  <2>2. s[i] < t[i] \/ t[i] < s[i]
        BY <2>1
  <2>3. i \in 1..Len(s) /\ i \in 1..Len(t)
        BY <1>7
  <2>4. /\ \A j \in 1..(i - 1) : j <= Len(s) /\ s[j] = t[j]
        /\ \A j \in 1..(i - 1) : j <= Len(t) /\ t[j] = s[j]
        BY <1>3
  <2> HIDE DEF Differ
  <2> QED
      BY <2>2, <2>3, <2>4 DEF Before
<1> QED
    BY <1>4, <1>5, <1>6, <1>7

----------------------------------------------------------------------------
(* The paths of apps *)

\* The mapping of an app, and the order of mappings.
Entry(a) == [host |-> Url[a].host, path |-> SplitURL(Url[a]), app |-> a]
Prior(a, b) == \/ Url[a].host < Url[b].host
               \/ Url[a].host = Url[b].host /\ Before(SplitURL(Url[a]), SplitURL(Url[b]))

\* A path has an element, and ends in 0 when it stands for all below it.
LEMMA Split ==
    ASSUME NEW a \in Apps
    PROVE  LET u == Url[a] IN
           /\ u.path \in Seq(Nat \ {0}) /\ u.host \in Nat /\ u.host \in Hosts /\ u.slash \in BOOLEAN
           /\ SplitURL(u) \in Seq(Nat) /\ Len(SplitURL(u)) > 0
           /\ u.path = << >> \/ u.slash =>
                 /\ Len(SplitURL(u)) = Len(u.path) + 1 /\ SplitURL(u)[Len(u.path) + 1] = 0
                 /\ \A i \in 1..Len(u.path) : SplitURL(u)[i] = u.path[i]
           /\ u.path # << >> /\ ~u.slash => SplitURL(u) = u.path
<1> DEFINE u == Url[a]
<1>1. u.path \in Seq(Nat \ {0}) /\ u.host \in Hosts /\ u.slash \in BOOLEAN
      BY LoadBalancerAssumption
<1>2. u.host \in Nat /\ u.path \in Seq(Nat) /\ <<0>> \in Seq(Nat) /\ Len(u.path) \in Nat
      BY <1>1, LoadBalancerAssumption
<1> HIDE DEF u
<1>3. CASE u.path = << >> \/ u.slash
  <2>1. SplitURL(u) = u.path \o <<0>>
        BY <1>3 DEF SplitURL
  <2> QED
      BY <1>1, <1>2, <1>3, <2>1 DEF u
<1>4. CASE u.path # << >> /\ ~u.slash
  <2>1. SplitURL(u) = u.path
        BY <1>4 DEF SplitURL
  <2> QED
      BY <1>1, <1>2, <1>4, <2>1 DEF u
<1> QED
    BY <1>3, <1>4

\* No two apps of a host have one path.
LEMMA PathsDiffer ==
    ASSUME NEW a \in Apps, NEW b \in Apps, Url[a].host = Url[b].host,
           SplitURL(Url[a]) = SplitURL(Url[b])
    PROVE  a = b
<1> DEFINE u == Url[a]
           v == Url[b]
<1>1. /\ u.path \in Seq(Nat \ {0}) /\ v.path \in Seq(Nat \ {0})
      /\ u.slash \in BOOLEAN /\ v.slash \in BOOLEAN
      BY Split
<1>2. Url[a].path = Url[b].path
  <2>1. CASE (u.path = << >> \/ u.slash) <=> (v.path = << >> \/ v.slash)
    <3>1. CASE u.path = << >> \/ u.slash
      <4>1. Len(u.path) = Len(v.path) /\ \A i \in 1..Len(u.path) : u.path[i] = v.path[i]
        <5>1. Len(SplitURL(u)) = Len(u.path) + 1 /\ Len(SplitURL(u)) = Len(v.path) + 1
              BY <2>1, <3>1, Split
        <5>2. Len(u.path) = Len(v.path)
          <6>1. Len(u.path) \in Nat /\ Len(v.path) \in Nat
                BY <1>1
          <6> QED
              BY <5>1, <6>1
        <5>3. \A i \in 1..Len(u.path) : SplitURL(u)[i] = u.path[i] /\ SplitURL(u)[i] = v.path[i]
          <6>1. \A i \in 1..Len(u.path) : SplitURL(u)[i] = u.path[i]
                BY <3>1, Split
          <6>2. \A i \in 1..Len(v.path) : SplitURL(v)[i] = v.path[i]
                BY <2>1, <3>1, Split
          <6> QED
              BY <5>2, <6>1, <6>2
        <5> QED
            BY <5>2, <5>3
      <4> QED
          BY <1>1, <4>1, SeqEqual
    <3>2. CASE ~(u.path = << >> \/ u.slash)
          BY <2>1, <3>2, Split
    <3> QED
        BY <3>1, <3>2
  <2>2. CASE (u.path = << >> \/ u.slash) /\ ~(v.path = << >> \/ v.slash)
    <3>1. SplitURL(u)[Len(u.path) + 1] = 0 /\ Len(SplitURL(u)) = Len(u.path) + 1
          BY <2>2, Split
    <3>2. SplitURL(u) = v.path
          BY <2>2, Split
    <3> QED
        BY <1>1, <3>1, <3>2
  <2>3. CASE ~(u.path = << >> \/ u.slash) /\ (v.path = << >> \/ v.slash)
    <3>1. SplitURL(v)[Len(v.path) + 1] = 0 /\ Len(SplitURL(v)) = Len(v.path) + 1
          BY <2>3, Split
    <3>2. SplitURL(v) = u.path
          BY <2>3, Split
    <3> QED
        BY <1>1, <3>1, <3>2
  <2> QED
      BY <2>1, <2>2, <2>3
<1>3. u.path # << >> => (u.slash <=> v.slash)
  <2> SUFFICES ASSUME u.path # << >>, u.slash # v.slash PROVE FALSE
      BY <1>1
  <2>1. Len(u.path) \in Nat /\ u.path = v.path /\ SplitURL(u) = SplitURL(v)
        BY <1>1, <1>2
  <2>2. CASE u.slash /\ ~v.slash
    <3>1. Len(SplitURL(u)) = Len(u.path) + 1 /\ SplitURL(v) = v.path
          BY <2>1, <2>2, Split
    <3> QED
        BY <2>1, <3>1
  <2>3. CASE ~u.slash /\ v.slash
    <3>1. Len(SplitURL(v)) = Len(v.path) + 1 /\ SplitURL(u) = u.path
          BY <2>1, <2>3, Split
    <3> QED
        BY <2>1, <3>1
  <2> QED
      BY <1>1, <2>2, <2>3
<1> QED
    BY <1>1, <1>2, <1>3, LoadBalancerAssumption

\* Prior is a strict order of the apps.
LEMMA PriorOrder ==
    /\ \A a \in Apps : ~Prior(a, a)
    /\ \A a, b, c \in Apps : Prior(a, b) /\ Prior(b, c) => Prior(a, c)
    /\ \A a, b \in Apps : a = b \/ Prior(a, b) \/ Prior(b, a)
<1>1. \A a \in Apps : ~Prior(a, a)
  <2> SUFFICES ASSUME NEW a \in Apps PROVE ~Prior(a, a)
      OBVIOUS
  <2>1. Url[a].host \in Nat /\ SplitURL(Url[a]) \in Seq(Nat)
        BY Split
  <2> QED
      BY <2>1, NotBeforeItself DEF Prior
<1>2. \A a, b, c \in Apps : Prior(a, b) /\ Prior(b, c) => Prior(a, c)
  <2> SUFFICES ASSUME NEW a \in Apps, NEW b \in Apps, NEW c \in Apps, Prior(a, b), Prior(b, c)
               PROVE  Prior(a, c)
      OBVIOUS
  <2>1. /\ Url[a].host \in Nat /\ SplitURL(Url[a]) \in Seq(Nat)
        /\ Url[b].host \in Nat /\ SplitURL(Url[b]) \in Seq(Nat)
        /\ Url[c].host \in Nat /\ SplitURL(Url[c]) \in Seq(Nat)
        BY Split
  <2>2. CASE Url[a].host = Url[b].host /\ Url[b].host = Url[c].host
    <3>1. Before(SplitURL(Url[a]), SplitURL(Url[b])) /\ Before(SplitURL(Url[b]), SplitURL(Url[c]))
          BY <2>1, <2>2 DEF Prior
    <3>2. Before(SplitURL(Url[a]), SplitURL(Url[c]))
          BY <2>1, <3>1, BeforeInTurn
    <3> QED
        BY <2>2, <3>2 DEF Prior
  <2>3. CASE Url[a].host < Url[b].host \/ Url[b].host < Url[c].host
        BY <2>1, <2>3 DEF Prior
  <2> QED
      BY <2>1, <2>2, <2>3 DEF Prior
<1>3. \A a, b \in Apps : a = b \/ Prior(a, b) \/ Prior(b, a)
  <2> SUFFICES ASSUME NEW a \in Apps, NEW b \in Apps, a # b PROVE Prior(a, b) \/ Prior(b, a)
      OBVIOUS
  <2>1. /\ Url[a].host \in Nat /\ SplitURL(Url[a]) \in Seq(Nat)
        /\ Url[b].host \in Nat /\ SplitURL(Url[b]) \in Seq(Nat)
        BY Split
  <2>2. CASE Url[a].host = Url[b].host
    <3>1. SplitURL(Url[a]) # SplitURL(Url[b])
          BY <2>2, PathsDiffer
    <3> QED
        BY <2>1, <2>2, <3>1, OneIsBefore DEF Prior
  <2>3. CASE Url[a].host # Url[b].host
        BY <2>1, <2>3 DEF Prior
  <2> QED
      BY <2>2, <2>3
<1> QED
    BY <1>1, <1>2, <1>3

\* What is ordered by R and finite has a first in that order.
LEMMA FirstOf ==
    ASSUME NEW S, IsFiniteSet(S), S # {}, NEW R,
           \A a \in S : <<a, a>> \notin R,
           \A a, b, c \in S : <<a, b>> \in R /\ <<b, c>> \in R => <<a, c>> \in R,
           \A a, b \in S : a = b \/ <<a, b>> \in R \/ <<b, a>> \in R
    PROVE  \E a \in S : \A b \in S \ {a} : <<a, b>> \in R
<1> DEFINE below == [a \in S |-> {b \in S : <<b, a>> \in R}]
           rank == [a \in S |-> Cardinality(below[a])]
<1>1. \A a, b \in S : b \in below[a] <=> <<b, a>> \in R
      OBVIOUS
<1>2. \A a \in S : below[a] \in SUBSET S
      OBVIOUS
<1>3. \A a \in S : rank[a] = Cardinality(below[a])
      OBVIOUS
<1> HIDE DEF below, rank
<1>4. \A a \in S : IsFiniteSet(below[a])
      BY <1>2, FS_Subset
<1>5. \A a \in S : rank[a] \in Nat
      BY <1>3, <1>4, FS_CardinalityType
<1> DEFINE T == {rank[a] : a \in S}
<1>6. PICK x \in T : \A y \in T : x <= y
  <2>1. T \subseteq Nat /\ T # {}
        BY <1>5
  <2> HIDE DEF T
  <2> QED
      BY <2>1, LeastOf
<1>7. PICK a \in S : x = rank[a]
      BY <1>6
<1>8. ASSUME NEW b \in S \ {a} PROVE <<a, b>> \in R
  <2> SUFFICES ASSUME <<b, a>> \in R PROVE FALSE
      OBVIOUS
  <2>1. b \in below[a] /\ b \notin below[b]
        BY <1>1
  <2>2. below[b] \in SUBSET below[a]
        BY <1>1, <1>2
  <2>3. /\ Cardinality(below[b]) <= Cardinality(below[a])
        /\ Cardinality(below[a]) = Cardinality(below[b]) => below[a] = below[b]
        BY <1>4, <2>2, FS_Subset
  <2>4. rank[a] <= rank[b]
        BY <1>6, <1>7
  <2>5. rank[a] \in Nat /\ rank[b] \in Nat
        BY <1>5
  <2> QED
      BY <1>3, <2>1, <2>3, <2>4, <2>5
<1> QED
    BY <1>8

\* Some of the apps have a first and a last one among them.
LEMMA FirstApp ==
    ASSUME NEW S \in SUBSET Apps, S # {}
    PROVE  \E a \in S : \A b \in S \ {a} : Prior(a, b)
<1> DEFINE R == {p \in Apps \X Apps : Prior(p[1], p[2])}
<1>1. \A a, b \in Apps : <<a, b>> \in R <=> Prior(a, b)
      OBVIOUS
<1>2. IsFiniteSet(S)
      BY FS_Subset, LoadBalancerAssumption
<1> HIDE DEF R
<1>3. /\ \A a \in S : <<a, a>> \notin R
      /\ \A a, b, c \in S : <<a, b>> \in R /\ <<b, c>> \in R => <<a, c>> \in R
      /\ \A a, b \in S : a = b \/ <<a, b>> \in R \/ <<b, a>> \in R
      BY <1>1, PriorOrder
<1>4. \E a \in S : \A b \in S \ {a} : <<a, b>> \in R
      BY <1>2, <1>3, FirstOf
<1> QED
    BY <1>1, <1>4

\* Likewise the last one.
LEMMA LastApp ==
    ASSUME NEW S \in SUBSET Apps, S # {}
    PROVE  \E a \in S : \A b \in S \ {a} : Prior(b, a)
<1> DEFINE R == {p \in Apps \X Apps : Prior(p[2], p[1])}
<1>1. \A a, b \in Apps : <<a, b>> \in R <=> Prior(b, a)
      OBVIOUS
<1>2. IsFiniteSet(S)
      BY FS_Subset, LoadBalancerAssumption
<1> HIDE DEF R
<1>3. /\ \A a \in S : <<a, a>> \notin R
      /\ \A a, b, c \in S : <<a, b>> \in R /\ <<b, c>> \in R => <<a, c>> \in R
      /\ \A a, b \in S : a = b \/ <<a, b>> \in R \/ <<b, a>> \in R
      BY <1>1, PriorOrder
<1>4. \E a \in S : \A b \in S \ {a} : <<a, b>> \in R
      BY <1>2, <1>3, FirstOf
<1> QED
    BY <1>1, <1>4

----------------------------------------------------------------------------
(* URL maps *)

\* The apps of a host; their rules; the first and the last of some apps.
Own(S, h) == {a \in S : Url[a].host = h}
Rule(a) == [path |-> SplitURL(Url[a]), app |-> a]
IsFirst(a, T) == a \in T /\ \A b \in T \ {a} : Prior(a, b)
IsLast(a, T)  == a \in T /\ \A b \in T \ {a} : Prior(b, a)

\* What First chooses is the first app's mapping.
LEMMA FirstIs ==
    ASSUME NEW T \in SUBSET Apps, T # {}
    PROVE  \E a \in T : IsFirst(a, T) /\ First(Mapping(T)) = Entry(a)
<1> DEFINE ms == Mapping(T)
           P(m) == \A n \in ms \ {m} : m.host < n.host \/ (m.host = n.host /\ Before(m.path, n.path))
<1>1. ms = {Entry(a) : a \in T}
      BY DEF Mapping, Entry
<1>2. \A a \in T : /\ Entry(a).host = Url[a].host /\ Entry(a).path = SplitURL(Url[a])
                   /\ Entry(a).app = a
      BY DEF Entry
<1>3. \A a \in T : IsFirst(a, T) <=> P(Entry(a))
  <2> SUFFICES ASSUME NEW a \in T PROVE IsFirst(a, T) <=> P(Entry(a))
      OBVIOUS
  <2>1. ASSUME IsFirst(a, T), NEW n \in ms \ {Entry(a)}
        PROVE  Entry(a).host < n.host \/ (Entry(a).host = n.host /\ Before(Entry(a).path, n.path))
    <3>1. PICK b \in T : n = Entry(b)
          BY <1>1
    <3>2. Prior(a, b)
          BY <2>1, <3>1 DEF IsFirst
    <3> QED
        BY <1>2, <3>1, <3>2 DEF Prior
  <2>2. ASSUME P(Entry(a)), NEW b \in T \ {a} PROVE Prior(a, b)
    <3>1. Entry(b) \in ms \ {Entry(a)}
          BY <1>1, <1>2
    <3>2. Entry(a).host < Entry(b).host \/ (Entry(a).host = Entry(b).host /\ Before(Entry(a).path, Entry(b).path))
          BY <2>2, <3>1
    <3> QED
        BY <1>2, <3>2 DEF Prior
  <2> QED
      BY <2>1, <2>2 DEF IsFirst
<1>4. \E m \in ms : P(m)
  <2>1. PICK a \in T : \A b \in T \ {a} : Prior(a, b)
        BY FirstApp
  <2>2. IsFirst(a, T)
        BY <2>1 DEF IsFirst
  <2> HIDE DEF P
  <2> QED
      BY <1>1, <1>3, <2>2
<1>5. First(ms) = CHOOSE m \in ms : P(m)
      BY DEF First
<1> HIDE DEF P, ms
<1>6. First(ms) \in ms /\ P(First(ms))
      BY <1>4, <1>5
<1>7. PICK a \in T : First(ms) = Entry(a)
      BY <1>1, <1>6
<1> QED
    BY <1>3, <1>6, <1>7 DEF ms

\* What Best chooses, among the rules of a host, is the last app's.
LEMMA BestIs ==
    ASSUME NEW T \in SUBSET Apps, T # {}, \A a, b \in T : Url[a].host = Url[b].host
    PROVE  \E a \in T : IsLast(a, T) /\ Best({Rule(b) : b \in T}) = Rule(a)
<1> DEFINE rs == {Rule(a) : a \in T}
           P(m) == \A n \in rs \ {m} : Before(n.path, m.path)
<1>1. \A a \in T : Rule(a).path = SplitURL(Url[a]) /\ Rule(a).app = a
      BY DEF Rule
<1>2. \A a, b \in T : Prior(b, a) <=> Before(SplitURL(Url[b]), SplitURL(Url[a]))
  <2> SUFFICES ASSUME NEW a \in T, NEW b \in T
               PROVE  Prior(b, a) <=> Before(SplitURL(Url[b]), SplitURL(Url[a]))
      OBVIOUS
  <2>1. Url[a].host = Url[b].host /\ Url[a].host \in Nat
        BY Split
  <2> QED
      BY <2>1 DEF Prior
<1>3. \A a \in T : IsLast(a, T) <=> P(Rule(a))
  <2> SUFFICES ASSUME NEW a \in T PROVE IsLast(a, T) <=> P(Rule(a))
      OBVIOUS
  <2>1. ASSUME IsLast(a, T), NEW n \in rs \ {Rule(a)} PROVE Before(n.path, Rule(a).path)
    <3>1. PICK b \in T : n = Rule(b)
          OBVIOUS
    <3>2. Prior(b, a)
          BY <2>1, <3>1 DEF IsLast
    <3> QED
        BY <1>1, <1>2, <3>1, <3>2
  <2>2. ASSUME P(Rule(a)), NEW b \in T \ {a} PROVE Prior(b, a)
    <3>1. Rule(b) \in rs \ {Rule(a)}
          BY <1>1
    <3>2. Before(Rule(b).path, Rule(a).path)
          BY <2>2, <3>1
    <3> QED
        BY <1>1, <1>2, <3>2
  <2> QED
      BY <2>1, <2>2 DEF IsLast
<1>4. \E m \in rs : P(m)
  <2>1. PICK a \in T : \A b \in T \ {a} : Prior(b, a)
        BY LastApp
  <2>2. IsLast(a, T)
        BY <2>1 DEF IsLast
  <2> HIDE DEF P
  <2> QED
      BY <1>3, <2>2
<1>5. Best(rs) = CHOOSE m \in rs : P(m)
      BY DEF Best
<1>6. \A m \in rs : \E a \in T : m = Rule(a)
      OBVIOUS
<1> HIDE DEF P, rs
<1>7. Best(rs) \in rs /\ P(Best(rs))
      BY <1>4, <1>5
<1>8. PICK a \in T : Best(rs) = Rule(a)
      BY <1>6, <1>7
<1> QED
    BY <1>3, <1>7, <1>8 DEF rs

\* The map made for some apps: the hosts are theirs, a host's default is its
\* first app, and its rules those of its other paths.
LEMMA MapMade ==
    ASSUME NEW S \in SUBSET Apps, NEW map, map = MakeURLMap(Mapping(S))
    PROVE  /\ S = {} => map.default = None
           /\ S # {} => map.default \in S
           /\ DOMAIN map.hosts = {Url[a].host : a \in S}
           /\ \A h \in DOMAIN map.hosts :
                 /\ IsFirst(map.hosts[h].default, Own(S, h))
                 /\ map.hosts[h].rules = {Rule(a) : a \in {b \in Own(S, h) : SplitURL(Url[b]) # Root}}
<1> DEFINE ms == Mapping(S)
           own(h) == {m \in ms : m.host = h}
<1>1. ms = {Entry(a) : a \in S}
      BY DEF Mapping, Entry
<1>2. \A a \in S : /\ Entry(a).host = Url[a].host /\ Entry(a).path = SplitURL(Url[a])
                   /\ Entry(a).app = a
      BY DEF Entry
<1>3. \A h : own(h) = Mapping(Own(S, h))
  <2> SUFFICES ASSUME NEW h PROVE own(h) = {Entry(a) : a \in Own(S, h)}
      BY DEF Mapping, Entry
  <2> QED
      BY <1>1, <1>2 DEF Own
<1>4. map.default = (IF ms = {} THEN None ELSE First(ms).app)
      BY DEF MakeURLMap
<1>5. map.hosts = [h \in {m.host : m \in ms} |->
                      [default |-> First(own(h)).app,
                       rules |-> {[path |-> m.path, app |-> m.app] : m \in {n \in own(h) : n.path # Root}}]]
      BY DEF MakeURLMap
<1>6. S = {} => map.default = None
      BY <1>1, <1>4
<1>7. S # {} => map.default \in S
  <2> SUFFICES ASSUME S # {} PROVE map.default \in S
      OBVIOUS
  <2>1. ms # {}
        BY <1>1
  <2>2. PICK a \in S : First(ms) = Entry(a)
        BY FirstIs
  <2>3. map.default = First(ms).app
    <3> HIDE DEF ms
    <3> QED
        BY <1>4, <2>1
  <2> QED
      BY <1>2, <2>2, <2>3
<1>8. DOMAIN map.hosts = {Url[a].host : a \in S}
  <2>1. {m.host : m \in ms} = {Url[a].host : a \in S}
    <3> HIDE DEF ms
    <3> QED
        BY <1>1, <1>2
  <2> HIDE DEF ms, own
  <2> QED
      BY <1>5, <2>1
<1>9. ASSUME NEW h \in DOMAIN map.hosts
      PROVE  /\ IsFirst(map.hosts[h].default, Own(S, h))
             /\ map.hosts[h].rules = {Rule(a) : a \in {b \in Own(S, h) : SplitURL(Url[b]) # Root}}
  <2>1. /\ map.hosts[h].default = First(own(h)).app
        /\ map.hosts[h].rules = {[path |-> m.path, app |-> m.app] : m \in {n \in own(h) : n.path # Root}}
    <3> HIDE DEF ms, own
    <3> QED
        BY <1>5
  <2>2. own(h) = Mapping(Own(S, h))
        BY <1>3
  <2>3. Own(S, h) # {} /\ Own(S, h) \in SUBSET Apps
        BY <1>8 DEF Own
  <2>4. PICK a \in Own(S, h) : IsFirst(a, Own(S, h)) /\ First(Mapping(Own(S, h))) = Entry(a)
        BY <2>3, FirstIs
  <2>5. map.hosts[h].default = a
    <3>1. Entry(a).app = a
          BY DEF Entry
    <3> HIDE DEF own
    <3> QED
        BY <2>1, <2>2, <2>4, <3>1
  <2>6. own(h) = {Entry(b) : b \in Own(S, h)}
        BY <2>2 DEF Mapping, Entry
  <2>7. {[path |-> m.path, app |-> m.app] : m \in {n \in own(h) : n.path # Root}}
           = {Rule(b) : b \in {c \in Own(S, h) : SplitURL(Url[c]) # Root}}
    <3>1. \A b \in Own(S, h) : /\ Entry(b).path = SplitURL(Url[b])
                               /\ [path |-> Entry(b).path, app |-> Entry(b).app] = Rule(b)
          BY DEF Entry, Rule
    <3> HIDE DEF own
    <3> QED
        BY <2>6, <3>1
  <2> QED
      BY <2>1, <2>4, <2>5, <2>7
<1> QED
    BY <1>6, <1>7, <1>8, <1>9

\* An app at the root of its host is the first of it.
LEMMA RootIsFirst ==
    ASSUME NEW S \in SUBSET Apps, NEW h, NEW d, IsFirst(d, Own(S, h)),
           NEW a \in Own(S, h), SplitURL(Url[a]) = Root
    PROVE  d = a
<1>1. d \in Apps /\ a \in Apps /\ Url[d].host = h /\ Url[a].host = h
      BY DEF IsFirst, Own
<1>2. h \in Nat /\ SplitURL(Url[d]) \in Seq(Nat) /\ Len(SplitURL(Url[d])) > 0
      BY <1>1, Split
<1> SUFFICES ASSUME d # a PROVE FALSE
    OBVIOUS
<1>3. Prior(d, a)
      BY DEF IsFirst
<1>4. Before(SplitURL(Url[d]), Root)
      BY <1>1, <1>2, <1>3 DEF Prior
<1>5. Len(Root) = 1 /\ Root[1] = 0
      BY DEF Root
<1>6. PICK i \in 1..Len(Root) : i > Len(SplitURL(Url[d])) \/ SplitURL(Url[d])[i] < Root[i]
      BY <1>4 DEF Before
<1>7. i = 1 /\ Len(SplitURL(Url[d])) \in Nat /\ SplitURL(Url[d])[1] \in Nat
      BY <1>2, <1>5, <1>6
<1> QED
    BY <1>2, <1>5, <1>6, <1>7

\* A host's app at the root is its default.
LEMMA RootIsDefault ==
    ASSUME NEW S \in SUBSET Apps, NEW map, map = MakeURLMap(Mapping(S)),
           NEW a \in S, SplitURL(Url[a]) = Root
    PROVE  /\ Url[a].host \in DOMAIN map.hosts
           /\ map.hosts[Url[a].host].default = a
<1> DEFINE h == Url[a].host
<1>1. h \in DOMAIN map.hosts
      BY MapMade
<1>2. a \in Own(S, h)
      BY DEF Own
<1>3. IsFirst(map.hosts[h].default, Own(S, h))
      BY <1>1, MapMade
<1> QED
    BY <1>1, <1>2, <1>3, RootIsFirst

\* What is read back of a map.
LEMMA ReadBack ==
    ASSUME NEW S \in SUBSET Apps, NEW map, map = MakeURLMap(Mapping(S))
    PROVE  ReadMap(map) = {Entry(a) : a \in {b \in S : SplitURL(Url[b]) # Root}}
                          \cup {[host |-> h, path |-> Root, app |-> map.hosts[h].default]
                                  : h \in DOMAIN map.hosts}
<1>1. ReadRules(map) = UNION {{[host |-> h, path |-> r.path, app |-> r.app] : r \in map.hosts[h].rules}
                                : h \in DOMAIN map.hosts}
      BY DEF ReadRules
<1>2. ASSUME NEW x \in ReadRules(map)
      PROVE  x \in {Entry(a) : a \in {b \in S : SplitURL(Url[b]) # Root}}
  <2>1. PICK h \in DOMAIN map.hosts :
           x \in {[host |-> h, path |-> r.path, app |-> r.app] : r \in map.hosts[h].rules}
        BY <1>1
  <2>2. PICK r \in map.hosts[h].rules : x = [host |-> h, path |-> r.path, app |-> r.app]
        BY <2>1
  <2>3. PICK a \in Own(S, h) : r = Rule(a) /\ SplitURL(Url[a]) # Root
        BY <2>2, MapMade
  <2>4. x = Entry(a)
        BY <2>2, <2>3 DEF Own, Rule, Entry
  <2> QED
      BY <2>3, <2>4 DEF Own
<1>3. ASSUME NEW a \in S, SplitURL(Url[a]) # Root
      PROVE  Entry(a) \in ReadRules(map)
  <2> DEFINE h == Url[a].host
  <2>1. h \in DOMAIN map.hosts /\ a \in Own(S, h)
        BY MapMade DEF Own
  <2>2. Rule(a) \in map.hosts[h].rules
        BY <1>3, <2>1, MapMade
  <2>3. Entry(a) = [host |-> h, path |-> Rule(a).path, app |-> Rule(a).app]
        BY DEF Entry, Rule
  <2> QED
      BY <1>1, <2>1, <2>2, <2>3
<1>4. ReadRules(map) = {Entry(a) : a \in {b \in S : SplitURL(Url[b]) # Root}}
      BY <1>2, <1>3
<1> QED
    BY <1>4 DEF ReadMap

\* The apps of a map are those it was made for, or some of them.
LEMMA MapApps ==
    ASSUME NEW S \in SUBSET Apps
    PROVE  {m.app : m \in ReadMap(MakeURLMap(Mapping(S)))} \subseteq S
<1> DEFINE map == MakeURLMap(Mapping(S))
<1>1. ASSUME NEW m \in ReadMap(map) PROVE m.app \in S
  <2>1. CASE m \in {Entry(a) : a \in {b \in S : SplitURL(Url[b]) # Root}}
        BY <2>1 DEF Entry
  <2>2. ASSUME NEW h \in DOMAIN map.hosts,
               m = [host |-> h, path |-> Root, app |-> map.hosts[h].default]
        PROVE  m.app \in S
    <3>1. IsFirst(map.hosts[h].default, Own(S, h))
          BY MapMade
    <3> QED
        BY <2>2, <3>1 DEF IsFirst, Own
  <2> QED
      BY <1>1, <2>1, <2>2, ReadBack
<1> QED
    BY <1>1

\* A map that reads as what some apps want was made for them.
LEMMA ReadsAsMade ==
    ASSUME NEW S \in SUBSET Apps, NEW T \in SUBSET Apps,
           ReadMap(MakeURLMap(Mapping(S))) = Mapping(T)
    PROVE  S = T
<1> DEFINE map == MakeURLMap(Mapping(S))
<1>1. Mapping(T) = {Entry(a) : a \in T}
      BY DEF Mapping, Entry
<1>2. \A a : Entry(a).app = a
      BY DEF Entry
<1>3. ASSUME NEW a \in S PROVE a \in T
  <2>1. \E m \in ReadMap(map) : m.app = a
    <3>1. CASE SplitURL(Url[a]) # Root
      <4>1. Entry(a) \in ReadMap(map)
            BY <3>1, ReadBack
      <4> QED
          BY <1>2, <4>1
    <3>2. CASE SplitURL(Url[a]) = Root
      <4>1. Url[a].host \in DOMAIN map.hosts /\ map.hosts[Url[a].host].default = a
            BY <3>2, RootIsDefault
      <4>2. [host |-> Url[a].host, path |-> Root, app |-> map.hosts[Url[a].host].default] \in ReadMap(map)
            BY <4>1, ReadBack
      <4> QED
          BY <4>1, <4>2
    <3> QED
        BY <3>1, <3>2
  <2>2. \E b \in T : Entry(b).app = a
        BY <1>1, <2>1
  <2> QED
      BY <1>2, <2>2
<1>4. ASSUME NEW a \in T PROVE a \in S
  <2>1. Entry(a) \in ReadMap(map)
        BY <1>1
  <2>2. Entry(a).app \in S
        BY <2>1, MapApps
  <2> QED
      BY <1>2, <2>2
<1> QED
    BY <1>3, <1>4

\* The apps with a rule that a request matches.
Hits(S, q) == {a \in Own(S, q.host) : SplitURL(Url[a]) # Root /\ Matches(SplitURL(Url[a]), q.path)}

\* Where a request goes: among those to the last, else to the first of its host,
\* and for another host to some app.
LEMMA Routes ==
    ASSUME NEW S \in SUBSET Apps, NEW q \in Requests
    PROVE  LET a == Route(MakeURLMap(Mapping(S)), q) IN
           /\ a \in S \cup {None}
           /\ Own(S, q.host) # {} =>
                 /\ Hits(S, q) # {} => IsLast(a, Hits(S, q))
                 /\ Hits(S, q) = {} => IsFirst(a, Own(S, q.host))
<1> DEFINE map == MakeURLMap(Mapping(S))
           h == q.host
           hits == {r \in map.hosts[h].rules : Matches(r.path, q.path)}
           target == Route(map, q)
<1>1. Own(S, h) # {} <=> h \in DOMAIN map.hosts
      BY MapMade DEF Own
<1>2. CASE Own(S, h) = {}
  <2>1. target = map.default
        BY <1>1, <1>2 DEF Route
  <2> QED
      BY <1>2, <2>1, MapMade
<1>3. CASE Own(S, h) # {}
  <2>1. target = IF hits = {} THEN map.hosts[h].default ELSE Best(hits).app
        BY <1>1, <1>3 DEF Route
  <2>2. hits = {Rule(a) : a \in Hits(S, q)}
    <3>1. map.hosts[h].rules = {Rule(a) : a \in {b \in Own(S, h) : SplitURL(Url[b]) # Root}}
          BY <1>1, <1>3, MapMade
    <3>2. \A a : Rule(a).path = SplitURL(Url[a])
          BY DEF Rule
    <3> HIDE DEF map
    <3> QED
        BY <3>1, <3>2 DEF Hits
  <2>3. Hits(S, q) \in SUBSET Apps /\ \A a, b \in Hits(S, q) : Url[a].host = Url[b].host
        BY DEF Hits, Own
  <2>4. CASE Hits(S, q) = {}
    <3>1. target = map.hosts[h].default
      <4> HIDE DEF map, hits
      <4> QED
          BY <2>1, <2>2, <2>4
    <3>2. IsFirst(target, Own(S, h))
          BY <1>1, <1>3, <3>1, MapMade
    <3> QED
        BY <2>4, <3>2 DEF IsFirst, Own
  <2>5. CASE Hits(S, q) # {}
    <3>1. PICK a \in Hits(S, q) : IsLast(a, Hits(S, q)) /\ Best({Rule(b) : b \in Hits(S, q)}) = Rule(a)
          BY <2>3, <2>5, BestIs
    <3>2. target = Best(hits).app
      <4>1. hits # {}
            BY <2>2, <2>5
      <4> HIDE DEF map, hits
      <4> QED
          BY <2>1, <4>1
    <3>3. target = a
      <4>1. Rule(a).app = a
            BY DEF Rule
      <4> HIDE DEF map, hits, target
      <4> QED
          BY <2>2, <3>1, <3>2, <4>1
    <3> QED
        BY <2>5, <3>1, <3>3 DEF Hits, Own
  <2> QED
      BY <2>4, <2>5
<1> QED
    BY <1>2, <1>3

\* A request that some app's URL stands for goes to one whose does.
LEMMA RoutedToMeant ==
    ASSUME NEW S \in SUBSET Apps, NEW q \in Requests, NEW b \in S, Meant(b, q)
    PROVE  LET a == Route(MakeURLMap(Mapping(S)), q) IN
           /\ a \in S /\ Meant(a, q)
           /\ a # b /\ SplitURL(Url[b]) # Root => Prior(b, a)
<1> DEFINE a == Route(MakeURLMap(Mapping(S)), q)
<1>1. b \in Own(S, q.host)
      BY DEF Own, Meant
<1>2. /\ Hits(S, q) # {} => IsLast(a, Hits(S, q))
      /\ Hits(S, q) = {} => IsFirst(a, Own(S, q.host))
      BY <1>1, Routes
<1>3. b \in Hits(S, q) <=> SplitURL(Url[b]) # Root
      BY <1>1 DEF Hits, Meant
<1> HIDE DEF a
<1>4. CASE Hits(S, q) # {}
  <2>1. a \in Hits(S, q) /\ \A c \in Hits(S, q) \ {a} : Prior(c, a)
        BY <1>2, <1>4 DEF IsLast
  <2> QED
      BY <1>3, <2>1 DEF Hits, Own, Meant, a
<1>5. CASE Hits(S, q) = {}
  <2>1. SplitURL(Url[b]) = Root /\ IsFirst(a, Own(S, q.host))
        BY <1>2, <1>3, <1>5
  <2>2. a = b
        BY <1>1, <2>1, RootIsFirst
  <2> QED
      BY <2>1, <2>2 DEF a
<1> QED
    BY <1>4, <1>5

----------------------------------------------------------------------------
(* The invariant *)

\* What the project is to have: the apps that take part, their map, their
\* certificates.
TheApps  == Included(want, skipped)
TheMap   == MakeURLMap(Mapping(TheApps))
TheCerts == WantedCerts(want, skipped)

\* The URL map is one of ours, and while there is none there is no proxy.
Standing ==
    /\ \E S \in SUBSET Apps : urlMap = MakeURLMap(Mapping(S))
    /\ urlMap = NoMap => proxy = {}
    /\ answer # "none" => todo = {}

\* The steps of a round are for what they may be for.
Fitting ==
    /\ \A a \in Apps :
          /\ <<"files", a>> \in todo => a \in Static \cap Due(want, skipped)
          /\ <<"push", a>> \in todo => a \in Due(want, skipped)
          /\ <<"run", a>> \in todo => a \in Due(want, skipped)
          /\ <<"backend", a>> \in todo => a \in TheApps
          /\ <<"delete", a>> \in todo => a \notin TheApps
    /\ \A c \in Certs : <<"drop", c>> \in todo => c \notin TheCerts
    /\ <<"map", None>> \in todo => TheApps # {}
    /\ <<"proxy", None>> \in todo => TheApps # {}
    /\ <<"invalidate", None>> \in todo => TheApps # {}
    /\ <<"remove", None>> \in todo => TheApps = {}

\* What is missing has its step still to come, unless the round failed.
Ahead ==
    answer # "failed" =>
        /\ \A a \in TheApps : a \in running \/ <<"run", a>> \in todo
        /\ \A a \in TheApps : a \in backends \/ <<"backend", a>> \in todo
        /\ \A c \in TheCerts : c \in certs \/ <<"cert", c>> \in todo
        /\ urlMap = TheMap \/ <<"map", None>> \in todo \/ <<"remove", None>> \in todo
        /\ proxy = TheCerts \/ <<"proxy", None>> \in todo \/ <<"remove", None>> \in todo

\* The steps that may change what an app answers; an invalidation that is due
\* comes after them.
Changing == \E a \in Apps : <<"files", a>> \in todo \/ <<"run", a>> \in todo
Invalidating ==
    answer = "none" =>
        /\ changed \subseteq Due(want, skipped)
        /\ changed # {} /\ Changing => <<"invalidate", None>> \in todo

\* A request that is not excused goes where it went, to an app whose URL stands
\* for it and whose file stays; if what the app answers is to change, the app is
\* to be invalidated; if its answer is old, that is yet to be invalidated.
Kept(q) ==
    LET a == Route(TheMap, q) IN
    /\ Route(urlMap, q) = a
    /\ a \in Apps => Meant(a, q)
    /\ Changing /\ a \in Due(want, skipped) => want[a] # 0
    /\ Changing /\ a \in Cached \cap Due(want, skipped) =>
          live[a] \in {0, want[a]} \/ a \in changed
    /\ Stale(q) => <<"invalidate", None>> \in todo /\ Invalidated(q)
Keeping ==
    /\ \A q \in Hot : edge[q] # << >> => edge[q][2] # 0
    /\ answer # "failed" => \A q \in Hot \ excused : Kept(q)

\* The types of the state.
Typed ==
    /\ want \in Wants /\ skipped \subseteq DOMAIN want
    /\ changed \subseteq Cached /\ excused \subseteq Hot
    /\ {art, spec, live} \subseteq [Apps -> Contents] /\ running \subseteq Apps
    /\ edge \in [Hot -> {<< >>} \cup (Cached \X Contents)]
    /\ answer \in {"none", "ok", "failed"} /\ faults \in 0..MaxFaults
\* What is named exists.
Named ==
    /\ {m.app : m \in ReadMap(urlMap)} \subseteq backends
    /\ backends \subseteq running /\ proxy \subseteq certs /\ certs \subseteq Certs

\* The inductive invariant.
LBInv == TypeOK /\ Standing /\ Fitting /\ Ahead /\ Invalidating /\ Keeping

\* The types fall into those of the state and what names what exists.
LEMMA TypeParts == TypeOK <=> Typed /\ Named
BY DEF TypeOK, Typed, Named

\* The same after a step.
LEMMA TypePartsNext == TypeOK' <=> Typed' /\ Named'
BY DEF TypeOK, Typed, Named

\* What a project wants is of its apps.
LEMMA Wanted ==
    ASSUME NEW w \in Wants, NEW sk
    PROVE  /\ DOMAIN w \subseteq Apps /\ \A a \in DOMAIN w : w[a] \in Contents
           /\ Included(w, sk) \subseteq DOMAIN w
           /\ DOMAIN w \ sk \subseteq Included(w, sk)
           /\ WantedCerts(w, sk) \subseteq Certs
<1>1. DOMAIN w \subseteq Apps /\ w \in [DOMAIN w -> Contents]
      BY LoadBalancerAssumption
<1>2. \A a \in DOMAIN w : w[a] \in Contents
      BY <1>1
<1>3. Included(w, sk) \subseteq DOMAIN w /\ DOMAIN w \ sk \subseteq Included(w, sk)
      BY DEF Included
<1>4. WantedCerts(w, sk) \subseteq Certs
  <2>1. \A a \in DOMAIN w : Url[a].host \in Hosts
        BY <1>1, Split
  <2> QED
      BY <2>1 DEF WantedCerts, Certs
<1> QED
    BY <1>1, <1>2, <1>3, <1>4

\* With no apps there is no map and no certificate.
LEMMA NoApps ==
    ASSUME NEW w, NEW sk, Included(w, sk) = {}
    PROVE  MakeURLMap(Mapping(Included(w, sk))) = NoMap /\ WantedCerts(w, sk) = {}
<1>1. Mapping({}) = {}
      BY DEF Mapping
<1> QED
    BY <1>1 DEF NoMap, WantedCerts

\* A map of some apps is one.
LEMMA SomeApps ==
    ASSUME NEW S \in SUBSET Apps, S # {}
    PROVE  MakeURLMap(Mapping(S)) # NoMap
<1>1. Mapping({}) = {}
      BY DEF Mapping
<1>2. DOMAIN NoMap.hosts = {Url[a].host : a \in {}}
  <2>1. NoMap = MakeURLMap(Mapping({}))
        BY <1>1 DEF NoMap
  <2> QED
      BY <2>1, MapMade
<1>3. DOMAIN MakeURLMap(Mapping(S)).hosts = {Url[a].host : a \in S}
      BY MapMade
<1> QED
    BY <1>2, <1>3

\* The steps within a round, and the edges'.
Within ==
    \/ UpdateMap \/ UpdateProxy \/ Process \/ RemoveLoadBalancer \/ End \/ Fail
    \/ \E a \in Apps : \/ Upload(a) \/ Push(a) \/ Run(a) \/ AddBackend(a) \/ Delete(a) \/ Clear(a)
                       \/ Serve(a)
    \/ \E c \in Certs : AddCert(c) \/ DropCert(c)
    \/ \E q \in Hot : Fill(q) \/ Expire(q)

\* A step begins a round or is within one, or an edge's.
LEMMA NextIs == Next <=> Begin \/ Within
BY DEF Next, Within

\* Within a round what the project is to have stays.
LEMMA Stays ==
    ASSUME LBInv, Within \/ UNCHANGED vars
    PROVE  /\ want' = want /\ skipped' = skipped
           /\ TheApps' = TheApps /\ TheMap' = TheMap /\ TheCerts' = TheCerts
<1>1. want' = want /\ skipped' = skipped
      BY DEF Within, UpdateMap, UpdateProxy, Process, RemoveLoadBalancer, End, Fail, Upload, Push, Run,
             AddBackend, Delete, Clear, Serve, AddCert, DropCert, Fill, Expire, Do, plan, vars
<1>2. \A a \in DOMAIN want : a \in skipped => (a \in running' <=> a \in running)
  <2>1. ASSUME NEW a \in Apps, Run(a), NEW b \in DOMAIN want, b \in skipped
        PROVE  b \in running' <=> b \in running
    <3>1. a \in Due(want, skipped)
          BY <2>1 DEF LBInv, Fitting, Run, Do
    <3> QED
        BY <2>1, <3>1 DEF Run, Due
  <2>2. ASSUME NEW a \in Apps, Delete(a), NEW b \in DOMAIN want
        PROVE  b \in running' <=> b \in running
        BY <2>2 DEF Delete
  <2>3. ASSUME NEW a \in Apps, Upload(a) \/ Push(a) \/ AddBackend(a) \/ Clear(a) \/ Serve(a)
        PROVE  running' = running
        BY <2>3 DEF Upload, Push, AddBackend, Clear, Serve, served
  <2>4. ASSUME NEW c \in Certs, AddCert(c) \/ DropCert(c) PROVE running' = running
        BY <2>4 DEF AddCert, DropCert, served
  <2>5. ASSUME NEW q \in Hot, Fill(q) \/ Expire(q) PROVE running' = running
        BY <2>5 DEF Fill, Expire, served
  <2>6. ASSUME UpdateMap \/ UpdateProxy \/ Process \/ RemoveLoadBalancer \/ End \/ Fail \/ UNCHANGED vars
        PROVE  running' = running
        BY <2>6 DEF UpdateMap, UpdateProxy, Process, RemoveLoadBalancer, End, Fail, served, vars
  <2> QED
      BY <2>1, <2>2, <2>3, <2>4, <2>5, <2>6 DEF Within
<1>3. TheApps' = TheApps
      BY <1>1, <1>2 DEF TheApps, Included
<1>4. TheMap' = TheMap
      BY <1>3 DEF TheMap
<1>5. TheCerts' = TheCerts
      BY <1>1, <1>3 DEF TheCerts, TheApps, WantedCerts
<1> QED
    BY <1>1, <1>3, <1>4, <1>5

----------------------------------------------------------------------------
(* Steps within a round *)

\* Nothing is wanted at first and nothing is there.
LEMMA InitLBInv == Init => LBInv
<1> SUFFICES ASSUME Init PROVE LBInv
    OBVIOUS
<1>1. TheApps = {} /\ DOMAIN want = {}
      BY DEF Init, TheApps, Included
<1>2. TheMap = NoMap /\ TheCerts = {}
      BY <1>1, NoApps DEF TheMap, TheApps, TheCerts
<1>3. urlMap = NoMap
  <2> DEFINE own(h) == {m \in {} : m.host = h}
             hosts == [h \in {m.host : m \in {}} |->
                         [default |-> First(own(h)).app,
                          rules |-> {[path |-> m.path, app |-> m.app] : m \in {n \in own(h) : n.path # Root}}]]
  <2>1. NoMap = [default |-> None, hosts |-> hosts]
        BY DEF NoMap, MakeURLMap
  <2>2. hosts = << >>
        OBVIOUS
  <2> HIDE DEF hosts
  <2> QED
      BY <2>1, <2>2 DEF Init
<1>4. NoMap = MakeURLMap(Mapping({}))
  <2>1. Mapping({}) = {}
        BY DEF Mapping
  <2> QED
      BY <2>1 DEF NoMap
<1>5. Typed
      BY <1>1, LoadBalancerAssumption DEF Init, Typed
<1>6. Named
  <2>1. {m.app : m \in ReadMap(urlMap)} \subseteq {}
        BY <1>3, <1>4, MapApps
  <2> QED
      BY <2>1 DEF Init, Named
<1>7. Standing
      BY <1>3, <1>4 DEF Init, Standing
<1>8. Fitting
      BY DEF Init, Fitting
<1>9. Ahead
      BY <1>1, <1>2, <1>3 DEF Init, Ahead
<1>10. Invalidating
      BY DEF Init, Invalidating
<1>11. Keeping
  <2> SUFFICES ASSUME NEW q \in Hot
               PROVE  edge[q] = << >> /\ Kept(q)
      BY DEF Keeping
  <2>1. edge[q] = << >>
        BY DEF Init
  <2>2. Route(TheMap, q) \in {None}
    <3>1. Route(MakeURLMap(Mapping({})), q) \in {} \cup {None}
          BY Routes, LoadBalancerAssumption
    <3> QED
        BY <1>2, <1>4, <3>1
  <2>3. ~Changing /\ ~Stale(q)
        BY <2>1 DEF Init, Changing, Stale
  <2> QED
      BY <1>2, <1>3, <2>1, <2>2, <2>3, LoadBalancerAssumption DEF Kept
<1> QED
    BY <1>5, <1>6, <1>7, <1>8, <1>9, <1>10, <1>11, TypeParts DEF LBInv

\* A step of a round is taken off those that are left.
LEMMA Doing ==
    ASSUME LBInv, NEW s, Do(s)
    PROVE  /\ s \in todo /\ After(s) = {} /\ todo' = todo \ {s}
           /\ answer = "none" /\ answer' = "none" /\ changed' = changed /\ faults' = faults
           /\ want' = want /\ skipped' = skipped
<1>1. s \in todo /\ After(s) = {} /\ todo' = todo \ {s}
      BY DEF Do
<1>2. answer = "none"
      BY <1>1 DEF LBInv, Standing
<1> QED
    BY <1>1, <1>2 DEF Do, plan

\* The steps that are left of a round only get fewer.
LEMMA Shrinks ==
    ASSUME LBInv, Within \/ UNCHANGED vars PROVE todo' \subseteq todo
BY DEF Within, UpdateMap, UpdateProxy, Process, RemoveLoadBalancer, End, Fail, Upload, Push, Run,
       AddBackend, Delete, Clear, Serve, AddCert, DropCert, Fill, Expire, Do, vars

\* The types hold within a round.
LEMMA WithinTyped == ASSUME LBInv, Within \/ UNCHANGED vars PROVE Typed'
<1>1. Typed /\ Fitting /\ want' = want /\ skipped' = skipped
      BY TypeParts, Stays DEF LBInv
<1>2. MaxFaults \in Nat /\ 0 \in Contents /\ Cached \subseteq Apps
      BY LoadBalancerAssumption
<1>3. \A a \in Due(want, skipped) : want[a] \in Contents
      BY <1>1, Wanted DEF Due, Typed
<1>4. CASE UpdateMap \/ UpdateProxy \/ RemoveLoadBalancer \/ UNCHANGED vars
      BY <1>1, <1>4 DEF Typed, UpdateMap, UpdateProxy, RemoveLoadBalancer, Do, served, plan, vars
<1>5. CASE Process
  <2>1. /\ edge' = [q \in Hot |-> IF Invalidated(q) THEN << >> ELSE edge[q]]
        /\ excused' \subseteq excused
        /\ UNCHANGED <<art, spec, live, running, changed, answer, faults>>
        BY <1>5 DEF Process, Do, served, plan
  <2>2. edge' \in [Hot -> {<< >>} \cup (Cached \X Contents)]
        BY <1>1, <2>1 DEF Typed
  <2> QED
      BY <1>1, <2>1, <2>2 DEF Typed
<1>6. CASE End
      BY <1>1, <1>6 DEF Typed, End, served
<1>7. CASE Fail
      BY <1>1, <1>2, <1>7 DEF Typed, Fail, served
<1>8. ASSUME NEW a \in Apps, Upload(a) PROVE Typed'
  <2>1. want[a] \in Contents
        BY <1>1, <1>3, <1>8 DEF Upload, Do, Fitting
  <2>2. live' \in [Apps -> Contents]
        BY <1>1, <1>8, <2>1 DEF Upload, Typed
  <2> QED
      BY <1>1, <1>8, <2>2 DEF Typed, Upload, Do, plan
<1>9. ASSUME NEW a \in Apps, Run(a) PROVE Typed'
  <2>1. want[a] \in Contents
        BY <1>1, <1>3, <1>9 DEF Run, Do, Fitting
  <2>2. {spec', live'} \subseteq [Apps -> Contents]
        BY <1>1, <1>9, <2>1 DEF Run, Typed
  <2> QED
      BY <1>1, <1>9, <2>2 DEF Typed, Run, Do, plan
<1>10. ASSUME NEW a \in Apps, AddBackend(a) PROVE Typed'
      BY <1>1, <1>10 DEF Typed, AddBackend, Do, served, plan
<1>11. ASSUME NEW a \in Apps, Delete(a) PROVE Typed'
  <2>1. {spec', live'} \subseteq [Apps -> Contents]
        BY <1>1, <1>2, <1>11 DEF Delete, Typed
  <2> QED
      BY <1>1, <1>11, <2>1 DEF Typed, Delete, Do, plan
<1>12. ASSUME NEW c \in Certs, AddCert(c) \/ DropCert(c) PROVE Typed'
      BY <1>1, <1>12 DEF Typed, AddCert, DropCert, Do, served, plan
<1>13. ASSUME NEW q \in Hot, Fill(q) PROVE Typed'
  <2> DEFINE a == Route(urlMap, q)
  <2>1. a \in Cached /\ live[a] \in Contents
        BY <1>1, <1>2, <1>13 DEF Fill, Typed
  <2>2. edge' = [edge EXCEPT ![q] = <<a, live[a]>>]
        BY <1>13 DEF Fill
  <2> HIDE DEF a
  <2>3. edge' \in [Hot -> {<< >>} \cup (Cached \X Contents)]
        BY <1>1, <2>1, <2>2 DEF Typed
  <2> QED
      BY <1>1, <1>13, <2>3 DEF Typed, Fill, served, plan
<1>14. ASSUME NEW q \in Hot, Expire(q) PROVE Typed'
  <2>1. edge' \in [Hot -> {<< >>} \cup (Cached \X Contents)]
        BY <1>1, <1>14 DEF Expire, Typed
  <2> QED
      BY <1>1, <1>14, <2>1 DEF Typed, Expire, served, plan
<1>15. ASSUME NEW a \in Apps, Push(a) PROVE Typed'
  <2>1. want[a] \in Contents
        BY <1>1, <1>3, <1>15 DEF Push, Do, Fitting
  <2>2. art' \in [Apps -> Contents]
        BY <1>1, <1>15, <2>1 DEF Push, Typed
  <2> QED
      BY <1>1, <1>15, <2>2 DEF Typed, Push, Do, plan
<1>16. ASSUME NEW a \in Apps, Clear(a) PROVE Typed'
  <2>1. art' \in [Apps -> Contents]
        BY <1>1, <1>2, <1>16 DEF Clear, Typed
  <2> QED
      BY <1>1, <1>16, <2>1 DEF Typed, Clear, Do, plan
<1>17. ASSUME NEW a \in Apps, Serve(a) PROVE Typed'
  <2>1. live' \in [Apps -> Contents]
        BY <1>1, <1>17 DEF Serve, Typed
  <2>2. excused' \subseteq Hot
        BY <1>1, <1>17 DEF Serve, Typed
  <2> QED
      BY <1>1, <1>17, <2>1, <2>2 DEF Typed, Serve, plan
<1> QED
    BY <1>4, <1>5, <1>6, <1>7, <1>8, <1>9, <1>10, <1>11, <1>12, <1>13, <1>14, <1>15, <1>16, <1>17
       DEF Within

\* Nothing is named that is not there.
LEMMA WithinNamed == ASSUME LBInv, Within \/ UNCHANGED vars PROVE Named'
<1>1. Named /\ Fitting /\ Ahead /\ running \subseteq Apps
      BY TypeParts DEF LBInv, Typed
<1>2. TheApps \in SUBSET Apps /\ TheCerts \subseteq Certs
      BY TypeParts, Wanted DEF LBInv, Typed, TheApps, TheCerts
<1>3. {m.app : m \in ReadMap(TheMap)} \subseteq TheApps
      BY <1>2, MapApps DEF TheMap
<1>4. CASE UpdateMap
  <2>1. \A a \in TheApps : a \in backends
    <3>1. ASSUME NEW a \in TheApps PROVE <<"backend", a>> \notin todo
      <4>1. {t \in todo : t[1] \in {"run", "backend"}} = {}
            BY <1>4 DEF UpdateMap, Do, After
      <4> QED
          BY <4>1
    <3>2. answer = "none"
          BY <1>4, Doing DEF UpdateMap
    <3> QED
        BY <1>1, <3>1, <3>2 DEF Ahead
  <2>2. urlMap' = TheMap
        BY <1>4 DEF UpdateMap, TheMap, TheApps
  <2> QED
      BY <1>1, <1>3, <1>4, <2>1, <2>2 DEF Named, UpdateMap, served
<1>5. CASE UpdateProxy
  <2>1. \A c \in TheCerts : c \in certs
    <3>1. ASSUME NEW c \in TheCerts PROVE <<"cert", c>> \notin todo
      <4>1. {t \in todo : t[1] \in {"run", "backend", "map", "cert"}} = {}
            BY <1>5 DEF UpdateProxy, Do, After
      <4> QED
          BY <4>1
    <3>2. answer = "none"
          BY <1>5, Doing DEF UpdateProxy
    <3> QED
        BY <1>1, <3>1, <3>2 DEF Ahead
  <2> QED
      BY <1>1, <1>5, <2>1 DEF Named, UpdateProxy, TheCerts, served
<1>6. CASE Process \/ End \/ Fail \/ UNCHANGED vars
      BY <1>1, <1>6 DEF Named, Process, End, Fail, served, lb, vars
<1>7. CASE RemoveLoadBalancer
  <2>1. NoMap = MakeURLMap(Mapping({}))
    <3>1. Mapping({}) = {}
          BY DEF Mapping
    <3> QED
        BY <3>1 DEF NoMap
  <2>2. {m.app : m \in ReadMap(NoMap)} \subseteq {}
        BY <2>1, MapApps
  <2> QED
      BY <1>1, <1>7, <2>2 DEF Named, RemoveLoadBalancer, served
<1>8. ASSUME NEW a \in Apps, Upload(a) \/ Push(a) \/ Run(a) \/ Clear(a) \/ Serve(a)
      PROVE Named'
      BY <1>1, <1>8 DEF Named, Upload, Push, Run, Clear, Serve, lb
<1>9. ASSUME NEW a \in Apps, AddBackend(a) PROVE Named'
  <2>1. a \in running
    <3>1. <<"run", a>> \notin todo
      <4>1. {t \in todo : t = <<"run", a>>} = {}
            BY <1>9 DEF AddBackend, Do, After
      <4> QED
          BY <4>1
    <3>2. answer = "none" /\ <<"backend", a>> \in todo
          BY <1>9, Doing DEF AddBackend
    <3> QED
        BY <1>1, <3>1, <3>2 DEF Ahead, Fitting
  <2> QED
      BY <1>1, <1>9, <2>1 DEF Named, AddBackend, served
<1>10. ASSUME NEW a \in Apps, Delete(a) PROVE Named'
  <2>1. {t \in todo : t[1] \in {"map", "remove"}} = {}
        BY <1>10 DEF Delete, Do, After
  <2>2. <<"map", None>> \notin todo /\ <<"remove", None>> \notin todo
        BY <2>1
  <2>3. answer = "none" /\ <<"delete", a>> \in todo
        BY <1>10, Doing DEF Delete
  <2>4. urlMap = TheMap /\ a \notin TheApps
        BY <1>1, <2>2, <2>3 DEF Ahead, Fitting
  <2>5. {m.app : m \in ReadMap(urlMap)} \subseteq backends \ {a}
        BY <1>1, <1>3, <2>4 DEF Named
  <2> QED
      BY <1>1, <1>10, <2>5 DEF Named, Delete
<1>11. ASSUME NEW c \in Certs, AddCert(c) PROVE Named'
      BY <1>1, <1>11 DEF Named, AddCert, served
<1>12. ASSUME NEW c \in Certs, DropCert(c) PROVE Named'
  <2>1. {t \in todo : t[1] \in {"proxy", "remove"}} = {}
        BY <1>12 DEF DropCert, Do, After
  <2>2. <<"proxy", None>> \notin todo /\ <<"remove", None>> \notin todo
        BY <2>1
  <2>3. answer = "none" /\ <<"drop", c>> \in todo
        BY <1>12, Doing DEF DropCert
  <2>4. proxy = TheCerts /\ c \notin TheCerts
        BY <1>1, <2>2, <2>3 DEF Ahead, Fitting
  <2> QED
      BY <1>1, <1>12, <2>4 DEF Named, DropCert, served
<1>13. ASSUME NEW q \in Hot, Fill(q) \/ Expire(q) PROVE Named'
      BY <1>1, <1>13 DEF Named, Fill, Expire, served, lb
<1> QED
    BY <1>4, <1>5, <1>6, <1>7, <1>8, <1>9, <1>10, <1>11, <1>12, <1>13 DEF Within

\* The URL map stays one of ours.
LEMMA WithinStanding == ASSUME LBInv, Within \/ UNCHANGED vars PROVE Standing'
<1>1. Standing /\ Ahead /\ Fitting
      BY DEF LBInv
<1>2. TheApps \in SUBSET Apps
      BY TypeParts, Wanted DEF LBInv, Typed, TheApps
<1>3. (answer # "none" => todo = {})'
      BY <1>1 DEF Standing, Within, UpdateMap, UpdateProxy, Process, RemoveLoadBalancer, End, Fail,
                  Upload, Push, Run, AddBackend, Delete, Clear, Serve, AddCert, DropCert, Fill, Expire, Do, vars
<1>4. CASE UpdateMap
  <2>1. urlMap' = TheMap /\ TheApps # {}
    <3>1. <<"map", None>> \in todo
          BY <1>4 DEF UpdateMap, Do
    <3> QED
        BY <1>1, <1>4, <3>1 DEF UpdateMap, TheMap, TheApps, Fitting
  <2>2. urlMap' # NoMap
        BY <1>2, <2>1, SomeApps DEF TheMap
  <2>3. \E S \in SUBSET Apps : urlMap' = MakeURLMap(Mapping(S))
        BY <1>2, <2>1 DEF TheMap
  <2> QED
      BY <1>3, <2>2, <2>3 DEF Standing
<1>5. CASE UpdateProxy
  <2>1. TheApps # {} /\ answer = "none" /\ <<"map", None>> \notin todo
    <3>1. {t \in todo : t[1] \in {"run", "backend", "map", "cert"}} = {}
          BY <1>5 DEF UpdateProxy, Do, After
    <3>2. <<"proxy", None>> \in todo /\ answer = "none"
          BY <1>5, Doing DEF UpdateProxy
    <3> QED
        BY <1>1, <3>1, <3>2 DEF Fitting
  <2>2. urlMap = TheMap
        BY <1>1, <2>1 DEF Ahead, Fitting
  <2>3. urlMap' # NoMap /\ urlMap' = urlMap
        BY <1>2, <1>5, <2>1, <2>2, SomeApps DEF TheMap, UpdateProxy
  <2> QED
      BY <1>1, <1>3, <2>3 DEF Standing
<1>6. CASE RemoveLoadBalancer
  <2>1. NoMap = MakeURLMap(Mapping({}))
    <3>1. Mapping({}) = {}
          BY DEF Mapping
    <3> QED
        BY <3>1 DEF NoMap
  <2> QED
      BY <1>3, <1>6, <2>1 DEF Standing, RemoveLoadBalancer
<1>7. CASE UNCHANGED <<urlMap, proxy>>
      BY <1>1, <1>3, <1>7 DEF Standing
<1>8. UpdateMap \/ UpdateProxy \/ RemoveLoadBalancer \/ UNCHANGED <<urlMap, proxy>>
      BY DEF Within, Process, End, Fail, Upload, Push, Run, AddBackend, Delete, Clear, Serve, AddCert, DropCert, Fill,
             Expire, lb, vars
<1> QED
    BY <1>4, <1>5, <1>6, <1>7, <1>8

\* The steps that are left stay what they may be for.
LEMMA WithinFitting == ASSUME LBInv, Within \/ UNCHANGED vars PROVE Fitting'
<1>1. Fitting
      BY DEF LBInv
<1>2. todo' \subseteq todo
      BY Shrinks
<1>3. want' = want /\ skipped' = skipped /\ TheApps' = TheApps /\ TheCerts' = TheCerts
      BY Stays
<1>4. Due(want, skipped)' = Due(want, skipped)
      BY <1>3 DEF Due
<1> QED
    BY <1>1, <1>2, <1>3, <1>4 DEF Fitting

\* A step taken makes what it was to make, or it was not the one to make it.
LEMMA WithinAhead == ASSUME LBInv, Within \/ UNCHANGED vars PROVE Ahead'
<1>1. Fitting /\ Ahead /\ Standing
      BY DEF LBInv
<1>2. TheApps' = TheApps /\ TheCerts' = TheCerts /\ TheMap' = TheMap
      BY Stays
<1>3. TheApps \in SUBSET Apps
      BY TypeParts, Wanted DEF LBInv, Typed, TheApps
<1> SUFFICES ASSUME answer' # "failed" PROVE Ahead'
    BY DEF Ahead
<1>4. answer # "failed" /\ ~Fail
      BY DEF Within, UpdateMap, UpdateProxy, Process, RemoveLoadBalancer, End, Fail, Upload, Push, Run,
             AddBackend, Delete, Clear, Serve, AddCert, DropCert, Fill, Expire, Do, vars
<1>5. CASE UpdateMap
      BY <1>1, <1>2, <1>4, <1>5 DEF Ahead, UpdateMap, Do, TheMap, TheApps, served
<1>6. CASE UpdateProxy
      BY <1>1, <1>2, <1>4, <1>6 DEF Ahead, UpdateProxy, Do, TheCerts, served
<1>7. CASE RemoveLoadBalancer
  <2>1. TheApps = {}
        BY <1>1, <1>7 DEF Fitting, RemoveLoadBalancer, Do
  <2>2. TheMap = NoMap /\ TheCerts = {}
        BY <2>1, NoApps DEF TheMap, TheApps, TheCerts
  <2> QED
      BY <1>2, <2>1, <2>2, <1>7 DEF Ahead, RemoveLoadBalancer, served
<1>8. CASE Process \/ End \/ UNCHANGED vars
      BY <1>1, <1>2, <1>4, <1>8 DEF Ahead, Process, End, Do, lb, vars, served
<1>9. ASSUME NEW a \in Apps, Upload(a) PROVE Ahead'
      BY <1>1, <1>2, <1>4, <1>9 DEF Ahead, Upload, Do, lb
<1>16. ASSUME NEW a \in Apps, Push(a) \/ Clear(a) \/ Serve(a) PROVE Ahead'
      BY <1>1, <1>2, <1>4, <1>16 DEF Ahead, Push, Clear, Serve, Do, lb
<1>10. ASSUME NEW a \in Apps, Run(a) PROVE Ahead'
      BY <1>1, <1>2, <1>4, <1>10 DEF Ahead, Run, Do, lb
<1>11. ASSUME NEW a \in Apps, AddBackend(a) PROVE Ahead'
      BY <1>1, <1>2, <1>4, <1>11 DEF Ahead, AddBackend, Do, served
<1>12. ASSUME NEW a \in Apps, Delete(a) PROVE Ahead'
  <2>1. a \notin TheApps
        BY <1>1, <1>12 DEF Delete, Do, Fitting
  <2> QED
      BY <1>1, <1>2, <1>4, <1>12, <2>1 DEF Ahead, Delete, Do
<1>13. ASSUME NEW c \in Certs, AddCert(c) PROVE Ahead'
      BY <1>1, <1>2, <1>4, <1>13 DEF Ahead, AddCert, Do, served
<1>14. ASSUME NEW c \in Certs, DropCert(c) PROVE Ahead'
  <2>1. c \notin TheCerts
        BY <1>1, <1>14 DEF DropCert, Do, Fitting
  <2> QED
      BY <1>1, <1>2, <1>4, <1>14, <2>1 DEF Ahead, DropCert, Do, served
<1>15. ASSUME NEW q \in Hot, Fill(q) \/ Expire(q) PROVE Ahead'
      BY <1>1, <1>2, <1>4, <1>15 DEF Ahead, Fill, Expire, lb, served
<1> QED
    BY <1>4, <1>5, <1>6, <1>7, <1>8, <1>9, <1>10, <1>11, <1>12, <1>13, <1>14, <1>15, <1>16
       DEF Within

\* What an app has changes, within a round, only to what is wanted of it, by a
\* step that was still to come; or the app goes, or its new revision is ready.
LEMMA LiveMoves ==
    ASSUME LBInv, Within \/ UNCHANGED vars, NEW a \in Apps, live'[a] # live[a]
    PROVE  \/ a \notin TheApps \/ Serve(a)
           \/ /\ answer = "none" /\ Changing /\ ~Process
              /\ a \in Due(want, skipped) /\ live'[a] = want[a]
<1>1. Typed /\ Fitting
      BY TypeParts DEF LBInv
<1>2. ASSUME NEW b \in Apps, Upload(b)
      PROVE  /\ answer = "none" /\ Changing /\ ~Process /\ a = b
             /\ a \in Due(want, skipped) /\ live'[a] = want[a]
  <2>1. <<"files", b>> \in todo /\ answer = "none" /\ todo' = todo \ {<<"files", b>>}
        BY <1>2, Doing DEF Upload
  <2>2. live' = [live EXCEPT ![b] = want[b]]
        BY <1>2 DEF Upload
  <2>3. ~Process
        BY <1>2, <2>1, <2>2 DEF Process, Upload, Do, served
  <2>4. a = b
        BY <1>1, <2>2 DEF Typed
  <2> QED
      BY <1>1, <2>1, <2>2, <2>3, <2>4 DEF Changing, Fitting, Typed
<1>3. ASSUME NEW b \in Apps, Run(b)
      PROVE  /\ answer = "none" /\ Changing /\ ~Process /\ a = b
             /\ a \in Due(want, skipped) /\ live'[a] = want[a]
  <2>1. <<"run", b>> \in todo /\ answer = "none" /\ todo' = todo \ {<<"run", b>>}
        BY <1>3, Doing DEF Run
  <2>2. live' = [live EXCEPT ![b] = want[b]]
        BY <1>3 DEF Run
  <2>3. ~Process
        BY <1>3, <2>1 DEF Process, Do
  <2>4. a = b
        BY <1>1, <2>2 DEF Typed
  <2> QED
      BY <1>1, <2>1, <2>2, <2>3, <2>4 DEF Changing, Fitting, Typed
<1>4. ASSUME NEW b \in Apps, Delete(b) PROVE a \notin TheApps
  <2>1. a = b
        BY <1>1, <1>4 DEF Typed, Delete
  <2>2. <<"delete", b>> \in todo
        BY <1>4, Doing DEF Delete
  <2> QED
      BY <1>1, <2>1, <2>2 DEF Fitting
<1>6. ASSUME NEW b \in Apps, Serve(b) PROVE Serve(a)
  <2>1. a = b
        BY <1>1, <1>6 DEF Typed, Serve
  <2> QED
      BY <1>6, <2>1
<1>5. \E b \in Apps : Upload(b) \/ Run(b) \/ Delete(b) \/ Serve(b)
      BY DEF Within, UpdateMap, UpdateProxy, Process, RemoveLoadBalancer, End, Fail, Push, Clear,
             AddBackend, AddCert, DropCert, Fill, Expire, served, vars
<1> QED
    BY <1>2, <1>3, <1>4, <1>5, <1>6

\* After the invalidation nothing changes any more.
LEMMA ProcessLast ==
    ASSUME LBInv, Process
    PROVE  /\ ~Changing /\ ~Changing' /\ TheApps # {} /\ urlMap = TheMap
           /\ answer = "none" /\ answer' = "none" /\ changed' = changed
<1>1. Fitting /\ Ahead
      BY DEF LBInv
<1>2. {t \in todo : t[1] \in {"run", "backend", "map", "files"}} = {}
      BY DEF Process, Do, After, FieldDependencies
<1>3. <<"map", None>> \notin todo
      BY <1>2
<1>4. ASSUME NEW a \in Apps PROVE <<"files", a>> \notin todo /\ <<"run", a>> \notin todo
      BY <1>2
<1>5. <<"invalidate", None>> \in todo /\ answer = "none" /\ answer' = "none" /\ changed' = changed
      /\ todo' \subseteq todo
      BY Doing DEF Process
<1>6. TheApps # {} /\ <<"remove", None>> \notin todo
      BY <1>1, <1>5 DEF Fitting
<1>7. urlMap = TheMap
      BY <1>1, <1>3, <1>5, <1>6 DEF Ahead
<1> QED
    BY <1>4, <1>5, <1>6, <1>7 DEF Changing

\* The invalidation is taken last, when nothing is left that changes an answer.
LEMMA WithinInvalidating == ASSUME LBInv, Within \/ UNCHANGED vars PROVE Invalidating'
<1>1. Typed /\ Invalidating
      BY TypeParts DEF LBInv
<1> SUFFICES ASSUME answer' = "none" PROVE Invalidating'
    BY DEF Invalidating
<1>2. ~End /\ ~Fail
      BY DEF End, Fail
<1>3. changed' = changed /\ answer = "none"
      BY <1>2 DEF Within, UpdateMap, UpdateProxy, Process, RemoveLoadBalancer, Upload, Push, Run, AddBackend,
             Delete, Clear, Serve, AddCert, DropCert, Fill, Expire, Do, plan, vars
<1>4. want' = want /\ skipped' = skipped /\ todo' \subseteq todo
      BY Stays, Shrinks
<1>7. Changing' => Changing
      BY <1>4 DEF Changing
<1>8. <<"invalidate", None>> \in todo /\ Changing' => <<"invalidate", None>> \in todo'
  <2>1. CASE Process
        BY <2>1, ProcessLast
  <2>2. CASE ~Process
        BY <1>2, <2>2 DEF Within, UpdateMap, UpdateProxy, RemoveLoadBalancer, Upload, Push, Run, AddBackend,
             Delete, Clear, Serve, AddCert, DropCert, Fill, Expire, Do, plan, vars
  <2> QED
      BY <2>1, <2>2
<1>9. Due(want, skipped)' = Due(want, skipped)
      BY <1>4 DEF Due
<1> QED
    BY <1>1, <1>3, <1>7, <1>8, <1>9 DEF Invalidating

\* A request goes, within a round, where it went or where it is to go.
LEMMA MapMoves ==
    ASSUME LBInv, Within \/ UNCHANGED vars
    PROVE  urlMap' = urlMap \/ urlMap' = TheMap
<1>1. CASE UpdateMap
      BY <1>1 DEF UpdateMap, TheMap, TheApps
<1>2. CASE RemoveLoadBalancer
  <2>1. TheApps = {}
        BY <1>2 DEF LBInv, Fitting, RemoveLoadBalancer, Do
  <2> QED
      BY <1>2, <2>1, NoApps DEF RemoveLoadBalancer, TheMap, TheApps
<1> QED
    BY <1>1, <1>2 DEF Within, UpdateProxy, Process, End, Fail, Upload, Push, Run, AddBackend, Delete, Clear, Serve, AddCert,
                      DropCert, Fill, Expire, lb, vars

\* A request that is not excused goes to an app that takes part, or to none.
LEMMA KeptTarget ==
    ASSUME LBInv, NEW q \in Hot
    PROVE  /\ TheApps \in SUBSET Apps /\ Route(TheMap, q) \in TheApps \cup {None}
           /\ Route(TheMap, q) \in Apps => Route(TheMap, q) \in TheApps
<1>1. TheApps \in SUBSET Apps
      BY TypeParts, Wanted DEF LBInv, Typed, TheApps
<1>2. Route(TheMap, q) \in TheApps \cup {None}
      BY <1>1, Routes, LoadBalancerAssumption DEF TheMap
<1> QED
    BY <1>1, <1>2, LoadBalancerAssumption

\* The request that an edge answers is not made old by anything but a step on
\* its app.
LEMMA StaleMoves ==
    ASSUME LBInv, Within \/ UNCHANGED vars, NEW q \in Hot, Route(urlMap', q) = Route(urlMap, q),
           Stale(q)', ~Stale(q)
    PROVE  LET a == Route(urlMap, q) IN
           /\ a \in Cached /\ live'[a] # live[a]
           /\ edge[q] = <<a, live[a]>> /\ edge[q] # << >>
<1> DEFINE a == Route(urlMap, q)
<1>1. edge'[q] # << >> /\ a \in Cached /\ edge'[q] # <<a, live'[a]>>
      BY DEF Stale
<1>2. edge[q] = << >> \/ edge[q] = <<a, live[a]>>
      BY <1>1 DEF Stale
<1>3. Typed
      BY TypeParts DEF LBInv
<1> HIDE DEF a
<1>4. edge'[q] = edge[q] \/ (edge'[q] = <<a, live[a]>> /\ live' = live)
  <2>1. CASE Process
    <3>1. edge'[q] = (IF Invalidated(q) THEN << >> ELSE edge[q])
          BY <2>1 DEF Process
    <3> QED
        BY <1>1, <3>1
  <2>2. ASSUME NEW r \in Hot, Fill(r) PROVE edge'[q] = edge[q] \/ (edge'[q] = <<a, live[a]>> /\ live' = live)
    <3>1. CASE r = q
          BY <1>3, <2>2, <3>1 DEF Fill, Typed, served, a
    <3>2. CASE r # q
          BY <1>3, <2>2, <3>2 DEF Fill, Typed
    <3> QED
        BY <3>1, <3>2
  <2>3. ASSUME NEW r \in Hot, Expire(r) PROVE edge'[q] = edge[q]
    <3>1. r # q
          BY <1>1, <1>3, <2>3 DEF Expire, Typed
    <3> QED
        BY <1>3, <2>3, <3>1 DEF Expire, Typed
  <2>4. CASE edge' = edge
        BY <2>4
  <2>5. Process \/ (\E r \in Hot : Fill(r) \/ Expire(r)) \/ edge' = edge
        BY DEF Within, UpdateMap, UpdateProxy, RemoveLoadBalancer, End, Fail, Upload, Push, Run, AddBackend,
               Delete, Clear, Serve, AddCert, DropCert, vars
  <2> QED
      BY <2>1, <2>2, <2>3, <2>4, <2>5
<1>5. edge'[q] = edge[q] /\ edge[q] # << >> /\ edge[q] = <<a, live[a]>>
      BY <1>1, <1>2, <1>4
<1> QED
    BY <1>1, <1>5 DEF a

\* What is invalidated goes where it is to go, to an app whose URL stands for it.
LEMMA ProcessKeeps ==
    ASSUME LBInv, Process, NEW q \in Hot, q \notin excused'
    PROVE  Kept(q)'
<1>1. Typed /\ Invalidating /\ Keeping
      BY TypeParts DEF LBInv
<1>2. /\ ~Changing' /\ TheApps # {} /\ urlMap = TheMap
      /\ answer = "none" /\ changed' = changed
      BY ProcessLast
<1>3. /\ want' = want /\ skipped' = skipped
      /\ TheApps' = TheApps /\ TheMap' = TheMap
      BY Stays DEF Within
<1>4. /\ urlMap' = urlMap /\ live' = live
      /\ edge'[q] = (IF Invalidated(q) THEN << >> ELSE edge[q])
      /\ Invalidated(q) \/ q \notin excused
      BY DEF Process, served, lb
<1> DEFINE a == Route(TheMap, q)
<1>5. CASE Invalidated(q)
  <2>1. PICK b \in changed : Meant(b, q)
        BY <1>5 DEF Invalidated
  <2>2. b \in TheApps /\ TheApps \in SUBSET Apps
        BY <1>1, <1>2, <2>1, Wanted DEF Invalidating, Typed, TheApps, Due
  <2>3. Meant(a, q)
        BY <2>1, <2>2, RoutedToMeant, LoadBalancerAssumption DEF TheMap
  <2>4. ~Stale(q)'
        BY <1>4, <1>5 DEF Stale
  <2> HIDE DEF a
  <2> QED
      BY <1>2, <1>3, <1>4, <2>3, <2>4 DEF Kept, a
<1>6. CASE ~Invalidated(q)
  <2>1. Kept(q) /\ edge'[q] = edge[q]
        BY <1>1, <1>2, <1>4, <1>6 DEF Keeping
  <2>2. ~Stale(q)
        BY <1>6, <2>1 DEF Kept
  <2>3. ~Stale(q)'
        BY <1>4, <2>1, <2>2 DEF Stale
  <2> QED
      BY <1>2, <1>3, <1>4, <2>1, <2>3 DEF Kept
<1> QED
    BY <1>5, <1>6

\* The other steps keep it so.
LEMMA OthersKeep ==
    ASSUME LBInv, Within \/ UNCHANGED vars, ~Process, answer' # "failed",
           NEW q \in Hot, q \notin excused'
    PROVE  Kept(q)'
<1>1. Typed /\ Invalidating /\ Keeping /\ Standing
      BY TypeParts DEF LBInv
<1>2. /\ want' = want /\ skipped' = skipped /\ todo' \subseteq todo
      /\ TheApps' = TheApps /\ TheMap' = TheMap
      BY Stays, Shrinks
<1>3. answer # "failed" /\ excused \subseteq excused'
      BY DEF Within, UpdateMap, UpdateProxy, RemoveLoadBalancer, End, Fail, Upload, Push, Run, AddBackend,
             Delete, Clear, Serve, AddCert, DropCert, Fill, Expire, Do, vars
<1>4. Kept(q)
      BY <1>1, <1>3 DEF Keeping
<1> DEFINE a == Route(TheMap, q)
<1>5. Route(urlMap, q) = a /\ Route(urlMap', q) = a
      BY <1>4, MapMoves DEF Kept
<1>13. ~Serve(a)
  <2> SUFFICES ASSUME Serve(a) PROVE FALSE
      OBVIOUS
  <2>1. excused' = excused \cup {r \in Hot : Route(urlMap, r) = a}
        BY DEF Serve
  <2> HIDE DEF a
  <2> QED
      BY <1>5, <2>1
<1>6. Changing' => Changing
      BY <1>2 DEF Changing
<1>7. <<"invalidate", None>> \in todo =>
         /\ answer = "none" /\ <<"invalidate", None>> \in todo' /\ changed' = changed
  <2> SUFFICES ASSUME <<"invalidate", None>> \in todo
               PROVE  answer = "none" /\ <<"invalidate", None>> \in todo' /\ changed' = changed
      OBVIOUS
  <2>1. answer = "none" /\ ~End /\ ~Fail
        BY <1>1 DEF Standing, End, Fail
  <2> QED
      BY <2>1 DEF Within, UpdateMap, UpdateProxy, RemoveLoadBalancer, Upload, Push, Run, AddBackend,
             Delete, Clear, Serve, AddCert, DropCert, Fill, Expire, Do, plan, vars
<1>8. ASSUME Stale(q)' PROVE <<"invalidate", None>> \in todo' /\ Invalidated(q)'
  <2>1. <<"invalidate", None>> \in todo /\ Invalidated(q)
    <3>1. CASE Stale(q)
          BY <1>4, <3>1 DEF Kept
    <3>2. CASE ~Stale(q)
      <4>1. /\ a \in Cached /\ live'[a] # live[a]
            /\ edge[q] = <<a, live[a]>> /\ edge[q] # << >>
            BY <1>5, <1>8, <3>2, StaleMoves
      <4>2. a \in TheApps /\ a \in Apps
            BY <4>1, KeptTarget, LoadBalancerAssumption
      <4>3. answer = "none" /\ Changing /\ a \in Due(want, skipped) /\ live'[a] = want[a]
            BY <1>13, <4>1, <4>2, LiveMoves
      <4>4. live[a] # 0 /\ want[a] # 0
        <5>1. edge[q][2] # 0
              BY <1>1, <4>1 DEF Keeping
        <5> HIDE DEF a
        <5>2. edge[q][2] = live[a]
              BY <4>1
        <5> QED
            BY <1>4, <4>3, <5>1, <5>2 DEF Kept, a
      <4>5. a \in changed
            BY <1>4, <4>1, <4>3, <4>4 DEF Kept
      <4>6. <<"invalidate", None>> \in todo
            BY <1>1, <4>3, <4>5 DEF Invalidating
      <4>7. Meant(a, q)
            BY <1>4, <4>2 DEF Kept
      <4> QED
          BY <4>5, <4>6, <4>7 DEF Invalidated
    <3> QED
        BY <3>1, <3>2
  <2> QED
      BY <1>7, <2>1 DEF Invalidated
<1>9. a \in Apps => Meant(a, q)
      BY <1>4 DEF Kept
<1>10. Changing /\ a \in Due(want, skipped) => want[a] # 0
      BY <1>4 DEF Kept
<1>11. Due(want, skipped)' = Due(want, skipped) /\ Route(TheMap', q) = a
      BY <1>2 DEF Due
<1>12. ASSUME Changing', a \in Cached \cap Due(want, skipped)
       PROVE  live'[a] \in {0, want[a]} \/ a \in changed'
  <2>1. live[a] \in {0, want[a]} \/ a \in changed
        BY <1>4, <1>6, <1>12 DEF Kept
  <2>2. live'[a] = live[a] \/ live'[a] = want[a]
    <3>1. a \in Apps /\ a \in TheApps
          BY <1>1, <1>12, Wanted DEF Typed, Due, TheApps
    <3> QED
        BY <1>13, <3>1, LiveMoves
  <2>3. changed' = changed
    <3>1. ~End /\ ~Fail
          BY <1>12 DEF End, Fail, Changing
    <3> QED
        BY <3>1 DEF Within, UpdateMap, UpdateProxy, RemoveLoadBalancer, Upload, Push, Run, AddBackend,
               Delete, Clear, Serve, AddCert, DropCert, Fill, Expire, Do, plan, vars
  <2> QED
      BY <2>1, <2>2, <2>3
<1> HIDE DEF a
<1> QED
    BY <1>2, <1>5, <1>6, <1>8, <1>9, <1>10, <1>11, <1>12 DEF Kept

\* What is asked of the hot requests is kept by every step within a round.
LEMMA WithinKeeping == ASSUME LBInv, Within \/ UNCHANGED vars PROVE Keeping'
<1>1. Typed /\ Keeping
      BY TypeParts DEF LBInv
<1>2. ASSUME NEW q \in Hot, edge'[q] # << >> PROVE edge'[q][2] # 0
  <2>1. CASE Process
        BY <1>1, <1>2, <2>1 DEF Process, Keeping
  <2>2. ASSUME NEW r \in Hot, Fill(r) PROVE edge'[q][2] # 0
    <3> DEFINE a == Route(urlMap, r)
    <3>1. live[a] # 0 /\ edge' = [edge EXCEPT ![r] = <<a, live[a]>>]
          BY <2>2 DEF Fill
    <3> HIDE DEF a
    <3>2. CASE r = q
          BY <1>1, <3>1, <3>2 DEF Typed
    <3>3. CASE r # q
      <4>1. edge'[q] = edge[q]
            BY <1>1, <3>1, <3>3 DEF Typed
      <4> QED
          BY <1>1, <1>2, <4>1 DEF Keeping
    <3> QED
        BY <3>2, <3>3
  <2>3. ASSUME NEW r \in Hot, Expire(r) PROVE edge'[q][2] # 0
    <3>1. edge' = [edge EXCEPT ![r] = << >>]
          BY <2>3 DEF Expire
    <3>2. edge'[q] = edge[q]
          BY <1>1, <1>2, <3>1 DEF Typed
    <3> QED
        BY <1>1, <1>2, <3>2 DEF Keeping
  <2>4. CASE edge' = edge
        BY <1>1, <1>2, <2>4 DEF Keeping
  <2>5. Process \/ (\E r \in Hot : Fill(r) \/ Expire(r)) \/ edge' = edge
        BY DEF Within, UpdateMap, UpdateProxy, RemoveLoadBalancer, End, Fail, Upload, Push, Run, AddBackend,
               Delete, Clear, Serve, AddCert, DropCert, vars
  <2> QED
      BY <2>1, <2>2, <2>3, <2>4, <2>5
<1>3. ASSUME answer' # "failed", NEW q \in Hot, q \notin excused' PROVE Kept(q)'
      BY <1>3, ProcessKeeps, OthersKeep
<1> QED
    BY <1>2, <1>3 DEF Keeping

----------------------------------------------------------------------------
(* A round begins *)

\* The steps that a plan finds.
LEMMA StepsAre ==
    ASSUME NEW w, NEW sk, NEW x
    PROVE  /\ <<"files", x>> \in Steps(w, sk) => x \in Static \cap Due(w, sk)
           /\ <<"push", x>> \in Steps(w, sk) => x \in Due(w, sk)
           /\ <<"run", x>> \in Steps(w, sk) => x \in Due(w, sk)
           /\ x \in Due(w, sk) /\ x \notin running => <<"run", x>> \in Steps(w, sk)
           /\ <<"backend", x>> \in Steps(w, sk) <=> x \in Included(w, sk) \ backends
           /\ <<"cert", x>> \in Steps(w, sk) <=> x \in WantedCerts(w, sk) \ certs
           /\ <<"delete", x>> \in Steps(w, sk) => x \notin Included(w, sk)
           /\ <<"drop", x>> \in Steps(w, sk) => x \notin WantedCerts(w, sk)
           /\ \A v \in {"map", "proxy", "invalidate", "remove"} :
                 <<v, x>> \in Steps(w, sk) <=> <<v, x>> \in Balancing(w, sk)
<1>1. \A s \in FileSteps(w, sk) : s[1] = "files" /\ s[2] \in Static \cap Due(w, sk)
      BY DEF FileSteps
<1>2. /\ \A s \in ServiceSteps(w, sk) : s[1] = "run" /\ s[2] \in Due(w, sk)
      /\ x \in Due(w, sk) /\ x \notin running => <<"run", x>> \in ServiceSteps(w, sk)
      BY DEF ServiceSteps
<1>3. /\ \A s \in BackendSteps(w, sk) : s[1] = "backend"
      /\ <<"backend", x>> \in BackendSteps(w, sk) <=> x \in Included(w, sk) \ backends
      BY DEF BackendSteps
<1>4. /\ \A s \in CertSteps(w, sk) : s[1] = "cert"
      /\ <<"cert", x>> \in CertSteps(w, sk) <=> x \in WantedCerts(w, sk) \ certs
      BY DEF CertSteps
<1>5. \A s \in Deletions(w, sk) : \/ s[1] = "delete" /\ s[2] \notin Included(w, sk)
                                  \/ s[1] = "drop" /\ s[2] \notin WantedCerts(w, sk)
                                  \/ s[1] = "clear"
      BY DEF Deletions
<1>6. \A s \in Balancing(w, sk) : s[1] \in {"map", "proxy", "invalidate", "remove"}
      BY DEF Balancing
<1>10. \A s \in PushSteps(w, sk) : s[1] = "push" /\ s[2] \in Due(w, sk)
      BY DEF PushSteps, Pushable
<1>7. Steps(w, sk) = FileSteps(w, sk) \cup PushSteps(w, sk) \cup ServiceSteps(w, sk)
                     \cup BackendSteps(w, sk)
                     \cup CertSteps(w, sk) \cup Balancing(w, sk) \cup Deletions(w, sk)
      BY DEF Steps
<1>8. /\ <<"files", x>> \in Steps(w, sk) => <<"files", x>> \in FileSteps(w, sk)
      /\ <<"push", x>> \in Steps(w, sk) => <<"push", x>> \in PushSteps(w, sk)
      /\ <<"run", x>> \in Steps(w, sk) <=> <<"run", x>> \in ServiceSteps(w, sk)
      /\ <<"backend", x>> \in Steps(w, sk) <=> <<"backend", x>> \in BackendSteps(w, sk)
      /\ <<"cert", x>> \in Steps(w, sk) <=> <<"cert", x>> \in CertSteps(w, sk)
      BY <1>1, <1>2, <1>3, <1>4, <1>5, <1>6, <1>7, <1>10
<1>9. /\ <<"delete", x>> \in Steps(w, sk) => <<"delete", x>> \in Deletions(w, sk)
      /\ <<"drop", x>> \in Steps(w, sk) => <<"drop", x>> \in Deletions(w, sk)
      /\ \A v \in {"map", "proxy", "invalidate", "remove"} :
            <<v, x>> \in Steps(w, sk) <=> <<v, x>> \in Balancing(w, sk)
      BY <1>1, <1>2, <1>3, <1>4, <1>5, <1>6, <1>7, <1>10
<1> QED
    BY <1>1, <1>2, <1>3, <1>4, <1>5, <1>8, <1>9, <1>10

\* What of it is about the load balancer.
LEMMA BalancingIs ==
    ASSUME NEW w, NEW sk
    PROVE  /\ Included(w, sk) = {} =>
                 /\ <<"map", None>> \notin Balancing(w, sk) /\ <<"proxy", None>> \notin Balancing(w, sk)
                 /\ <<"invalidate", None>> \notin Balancing(w, sk)
                 /\ urlMap # NoMap => <<"remove", None>> \in Balancing(w, sk)
           /\ Included(w, sk) # {} =>
                 /\ <<"remove", None>> \notin Balancing(w, sk)
                 /\ ReadMap(urlMap) # Mapping(Included(w, sk)) => <<"map", None>> \in Balancing(w, sk)
                 /\ proxy # WantedCerts(w, sk) => <<"proxy", None>> \in Balancing(w, sk)
                 /\ AnyChanged(w, sk) # {} => <<"invalidate", None>> \in Balancing(w, sk)
BY DEF Balancing

\* A plan finds a step for all that is missing, and excuses what it cannot promise.
LEMMA BeginKeeps == ASSUME LBInv, Begin PROVE LBInv'
<1>1. PICK w \in Wants, sk \in SUBSET Apps :
         /\ sk \subseteq DOMAIN w /\ want' = w /\ skipped' = sk
         /\ todo' = Steps(w, sk) /\ changed' = AnyChanged(w, sk) /\ excused' = Excuses(w, sk)
      BY DEF Begin
<1>2. /\ answer' = "none"
      /\ UNCHANGED <<art, spec, live, running, backends, certs, urlMap, proxy, edge, faults>>
      BY DEF Begin, served, lb
<1>3. Typed /\ Named /\ Standing /\ Keeping
      BY TypeParts DEF LBInv
<1> DEFINE in == Included(w, sk)
<1>4. TheApps' = in /\ TheCerts' = WantedCerts(w, sk) /\ TheMap' = MakeURLMap(Mapping(in))
  <2>1. TheApps' = in
        BY <1>1, <1>2 DEF TheApps, Included
  <2>2. TheCerts' = WantedCerts(w, sk)
        BY <1>1, <2>1 DEF TheCerts, TheApps, WantedCerts
  <2> QED
      BY <2>1, <2>2 DEF TheMap
<1>5. in \in SUBSET Apps /\ DOMAIN w \ sk \subseteq in /\ in \subseteq DOMAIN w
      BY Wanted
<1>6. Due(want, skipped)' = Due(w, sk) /\ Due(w, sk) = DOMAIN w \ sk
      BY <1>1 DEF Due
<1>7. \A a \in in : a \in running \/ a \in Due(w, sk)
      BY <1>6 DEF Included
<1>8. AnyChanged(w, sk) \subseteq Cached /\ AnyChanged(w, sk) \subseteq DOMAIN w \ sk
      BY DEF AnyChanged, Due
<1> HIDE DEF in
<1>9. Typed'
  <2>1. Excuses(w, sk) \subseteq Hot
        BY DEF Excuses
  <2> QED
      BY <1>1, <1>2, <1>3, <1>8, <2>1 DEF Typed
<1>10. Named'
      BY <1>2, <1>3 DEF Named
<1>11. Standing'
      BY <1>2, <1>3 DEF Standing
<1>12. Fitting'
      BY <1>1, <1>4, <1>6, StepsAre, BalancingIs DEF Fitting, in
<1>13. Ahead'
  <2>1. \A a \in in : a \in running \/ <<"run", a>> \in todo'
        BY <1>1, <1>7, StepsAre
  <2>2. \A a \in in : a \in backends \/ <<"backend", a>> \in todo'
        BY <1>1, StepsAre DEF in
  <2>3. \A c \in WantedCerts(w, sk) : c \in certs \/ <<"cert", c>> \in todo'
        BY <1>1, StepsAre
  <2>4. /\ <<"map", None>> \in todo' <=> <<"map", None>> \in Balancing(w, sk)
        /\ <<"proxy", None>> \in todo' <=> <<"proxy", None>> \in Balancing(w, sk)
        /\ <<"remove", None>> \in todo' <=> <<"remove", None>> \in Balancing(w, sk)
        BY <1>1, StepsAre
  <2>5. CASE in = {}
    <3>1. TheMap' = NoMap /\ TheCerts' = {}
          BY <1>4, <2>5, NoApps DEF in
    <3>2. urlMap = NoMap \/ <<"remove", None>> \in todo'
          BY <2>4, <2>5, BalancingIs DEF in
    <3>3. urlMap = NoMap => proxy = {}
          BY <1>3 DEF Standing
    <3> QED
        BY <1>2, <1>4, <2>1, <2>2, <2>3, <3>1, <3>2, <3>3 DEF Ahead
  <2>6. CASE in # {}
    <3>1. urlMap = MakeURLMap(Mapping(in)) \/ <<"map", None>> \in todo'
      <4> SUFFICES ASSUME <<"map", None>> \notin todo' PROVE urlMap = MakeURLMap(Mapping(in))
          OBVIOUS
      <4>1. ReadMap(urlMap) = Mapping(in)
            BY <2>4, <2>6, BalancingIs DEF in
      <4>2. PICK S \in SUBSET Apps : urlMap = MakeURLMap(Mapping(S))
            BY <1>3 DEF Standing
      <4>3. S = in
            BY <1>5, <4>1, <4>2, ReadsAsMade
      <4> QED
          BY <4>2, <4>3
    <3>2. proxy = WantedCerts(w, sk) \/ <<"proxy", None>> \in todo'
          BY <2>4, <2>6, BalancingIs DEF in
    <3> QED
        BY <1>2, <1>4, <2>1, <2>2, <2>3, <3>1, <3>2 DEF Ahead
  <2> QED
      BY <2>5, <2>6
<1>14. Invalidating'
  <2>2. AnyChanged(w, sk) # {} => <<"invalidate", None>> \in todo'
    <3> SUFFICES ASSUME AnyChanged(w, sk) # {} PROVE <<"invalidate", None>> \in todo'
        OBVIOUS
    <3>1. in # {}
          BY <1>5, <1>8
    <3>2. <<"invalidate", None>> \in Balancing(w, sk)
          BY <3>1, BalancingIs DEF in
    <3> QED
        BY <1>1, <3>2, StepsAre
  <2> QED
      BY <1>1, <1>6, <1>8, <2>2 DEF Invalidating
<1>15. Keeping'
  <2>1. ASSUME NEW q \in Hot, q \notin excused' PROVE Kept(q)'
    <3> DEFINE a == Route(MakeURLMap(Mapping(in)), q)
    <3>1. q \notin Excuses(w, sk)
          BY <1>1, <2>1
    <3>2. /\ ~Stale(q) /\ Route(urlMap, q) = a
          /\ ~(a \in Apps /\ ~Meant(a, q))
          /\ ~(a \in Due(w, sk) /\ w[a] = 0)
          /\ ~(a \in Due(w, sk) \ Static /\ w[a] = art[a] /\ art[a] # live[a])
          BY <3>1 DEF Excuses, in
    <3>3. ~Stale(q)'
          BY <1>2, <3>2 DEF Stale
    <3> HIDE DEF a
    <3>4. Route(TheMap', q) = a /\ Route(urlMap', q) = a
          BY <1>2, <1>4, <3>2 DEF a
    <3>5. a \in Cached \cap Due(w, sk) => live[a] \in {0, w[a]} \/ a \in AnyChanged(w, sk)
          BY <3>2 DEF AnyChanged
    <3> QED
        BY <1>1, <1>2, <1>6, <3>2, <3>3, <3>4, <3>5 DEF Kept
  <2> QED
      BY <1>2, <1>3, <2>1 DEF Keeping
<1> QED
    BY <1>9, <1>10, <1>11, <1>12, <1>13, <1>14, <1>15, TypePartsNext DEF LBInv

----------------------------------------------------------------------------
(* What follows *)

\* Every step keeps the invariant.
LEMMA NextLBInv == LBInv /\ [Next]_vars => LBInv'
<1>1. ASSUME LBInv, Begin PROVE LBInv'
      BY <1>1, BeginKeeps
<1>2. ASSUME LBInv, Within \/ UNCHANGED vars PROVE LBInv'
      BY <1>2, WithinTyped, WithinNamed, WithinStanding, WithinFitting, WithinAhead,
         WithinInvalidating, WithinKeeping, TypePartsNext DEF LBInv
<1> QED
    BY <1>1, <1>2, NextIs

\* The invariant holds.
THEOREM Inductive == Spec => []LBInv
BY InitLBInv, NextLBInv, PTL DEF Spec

\* The types of LoadBalancer hold, and what one resource names is there while it
\* names it: services behind backends, those behind the map, certificates
\* behind the proxy.
THEOREM TypeCorrect == Spec => []TypeOK
<1>1. LBInv => TypeOK
      BY DEF LBInv
<1> QED
    BY <1>1, Inductive, PTL

\* When a round has succeeded, no edge holds an answer that it replaced.
THEOREM Fresh == Spec => []CacheFresh
<1>1. LBInv => CacheFresh
  <2> SUFFICES ASSUME LBInv, answer = "ok", NEW q \in Hot, Stale(q), q \notin excused
               PROVE  FALSE
      BY DEF CacheFresh
  <2>1. Kept(q) /\ todo = {}
        BY DEF LBInv, Keeping, Standing
  <2> QED
      BY <2>1 DEF Kept
<1> QED
    BY <1>1, Inductive, PTL

\* What a round that succeeded has left.
LEMMA Reached ==
    ASSUME LBInv, answer = "ok"
    PROVE  /\ urlMap = TheMap /\ proxy = TheCerts
           /\ TheApps \in SUBSET Apps /\ TheApps \subseteq DOMAIN want
<1>1. urlMap = TheMap /\ proxy = TheCerts
      BY DEF LBInv, Standing, Ahead
<1> QED
    BY <1>1, TypeParts, Wanted DEF LBInv, Typed, TheApps

\* The next round finds the URL map as it wants it, unless a host has no root.
THEOREM MapStays == Spec => []Stable
<1>1. LBInv => Stable
  <2> DEFINE ms == Mapping(Included(want, skipped))
  <2> SUFFICES ASSUME LBInv, answer = "ok",
                      \A m \in ms : \E n \in ms : n.host = m.host /\ n.path = Root
               PROVE  ReadMap(urlMap) = ms
      BY DEF Stable
  <2>1. urlMap = MakeURLMap(Mapping(TheApps)) /\ TheApps \in SUBSET Apps
        BY Reached DEF TheMap
  <2>2. ms = {Entry(a) : a \in TheApps}
        BY DEF Mapping, Entry, TheApps
  <2>3. \A a : Entry(a).host = Url[a].host /\ Entry(a).path = SplitURL(Url[a]) /\ Entry(a).app = a
        BY DEF Entry
  <2>4. ReadMap(urlMap) = {Entry(a) : a \in {b \in TheApps : SplitURL(Url[b]) # Root}}
                          \cup {[host |-> h, path |-> Root, app |-> urlMap.hosts[h].default]
                                  : h \in DOMAIN urlMap.hosts}
        BY <2>1, ReadBack
  <2>5. ASSUME NEW h \in DOMAIN urlMap.hosts
        PROVE  [host |-> h, path |-> Root, app |-> urlMap.hosts[h].default] \in ms
    <3>1. PICK a \in TheApps : Url[a].host = h
          BY <2>1, MapMade
    <3>2. PICK b \in TheApps : Url[b].host = h /\ SplitURL(Url[b]) = Root
      <4>1. Entry(a) \in ms
            BY <2>2
      <4>2. PICK n \in ms : n.host = Entry(a).host /\ n.path = Root
            BY <4>1
      <4> HIDE DEF ms
      <4> QED
          BY <2>2, <2>3, <3>1, <4>2
    <3>3. urlMap.hosts[h].default = b
          BY <2>1, <3>2, RootIsDefault
    <3>4. Entry(b) = [host |-> h, path |-> Root, app |-> urlMap.hosts[h].default]
          BY <3>2, <3>3 DEF Entry
    <3> QED
        BY <2>2, <3>4
  <2>6. ASSUME NEW a \in TheApps PROVE Entry(a) \in ReadMap(urlMap)
    <3>1. CASE SplitURL(Url[a]) # Root
          BY <2>4, <3>1
    <3>2. CASE SplitURL(Url[a]) = Root
      <4>1. Url[a].host \in DOMAIN urlMap.hosts /\ urlMap.hosts[Url[a].host].default = a
            BY <2>1, <3>2, RootIsDefault
      <4>2. Entry(a) = [host |-> Url[a].host, path |-> Root, app |-> urlMap.hosts[Url[a].host].default]
            BY <3>2, <4>1 DEF Entry
      <4> QED
          BY <2>4, <4>1, <4>2
    <3> QED
        BY <3>1, <3>2
  <2> HIDE DEF ms
  <2> QED
      BY <2>2, <2>4, <2>5, <2>6
<1> QED
    BY <1>1, Inductive, PTL

\* A path matches what its URL stands for.
LEMMA MatchesCovers ==
    ASSUME NEW a \in Apps, NEW p \in Seq(Nat \ {0})
    PROVE  Matches(SplitURL(Url[a]), p) <=> Covers(Url[a], p)
<1> DEFINE u == Url[a]
           s == SplitURL(u)
<1>1. u.path \in Seq(Nat \ {0}) /\ Len(u.path) \in Nat /\ Len(p) \in Nat
      BY Split
<1>2. CASE u.path = << >> \/ u.slash
  <2>1. /\ Len(s) = Len(u.path) + 1 /\ s[Len(u.path) + 1] = 0
        /\ \A i \in 1..Len(u.path) : s[i] = u.path[i]
        BY <1>2, Split
  <2>2. Matches(s, p) <=> Len(p) >= Len(u.path) + 1 /\ \A i \in 1..Len(u.path) : p[i] = u.path[i]
    <3>1. Matches(s, p) <=> Len(p) >= Len(s) /\ \A i \in 1..(Len(s) - 1) : p[i] = s[i]
      <4>1. s[Len(s)] = 0
            BY <2>1
      <4> HIDE DEF s, u
      <4> QED
          BY <4>1 DEF Matches
    <3>2. Len(s) - 1 = Len(u.path)
          BY <1>1, <2>1
    <3> HIDE DEF s, u
    <3> QED
        BY <2>1, <3>1, <3>2
  <2>3. Covers(u, p) <=> Len(p) > Len(u.path) /\ SubSeq(p, 1, Len(u.path)) = u.path
        BY <1>2 DEF Covers
  <2>4. Len(p) > Len(u.path) =>
           (SubSeq(p, 1, Len(u.path)) = u.path <=> \A i \in 1..Len(u.path) : p[i] = u.path[i])
    <3> SUFFICES ASSUME Len(p) > Len(u.path)
                 PROVE  SubSeq(p, 1, Len(u.path)) = u.path <=> \A i \in 1..Len(u.path) : p[i] = u.path[i]
        OBVIOUS
    <3> HIDE DEF u
    <3>1. /\ SubSeq(p, 1, Len(u.path)) \in Seq(Nat \ {0})
          /\ Len(SubSeq(p, 1, Len(u.path))) = Len(u.path)
          /\ \A i \in 1..Len(u.path) : SubSeq(p, 1, Len(u.path))[i] = p[i]
          BY <1>1
    <3>2. ASSUME \A i \in 1..Len(u.path) : p[i] = u.path[i]
          PROVE  SubSeq(p, 1, Len(u.path)) = u.path
          BY <1>1, <3>1, <3>2, SeqEqual
    <3> QED
        BY <3>1, <3>2
  <2> HIDE DEF s, u
  <2> QED
      BY <1>1, <2>2, <2>3, <2>4 DEF s, u
<1>3. CASE ~(u.path = << >> \/ u.slash)
  <2>1. s = u.path /\ Len(u.path) > 0
        BY <1>1, <1>3, Split
  <2>2. s[Len(s)] # 0
    <3> HIDE DEF u, s
    <3>1. u.path[Len(u.path)] \in Nat \ {0}
          BY <1>1, <2>1
    <3> QED
        BY <2>1, <3>1
  <2>3. Matches(s, p) <=> p = s
    <3> HIDE DEF u, s
    <3> QED
        BY <2>2 DEF Matches
  <2>4. Covers(u, p) <=> p = u.path
        BY <1>3 DEF Covers
  <2> QED
      BY <2>1, <2>3, <2>4
<1> QED
    BY <1>2, <1>3

\* Of two paths that match a request, the longer comes later.
LEMMA LongerIsLater ==
    ASSUME NEW a \in Apps, NEW b \in Apps, NEW p \in Seq(Nat \ {0}),
           Matches(SplitURL(Url[a]), p), Matches(SplitURL(Url[b]), p),
           Len(Url[a].path) < Len(Url[b].path)
    PROVE  Before(SplitURL(Url[a]), SplitURL(Url[b]))
<1> DEFINE u == Url[a]
           v == Url[b]
           s == SplitURL(u)
           t == SplitURL(v)
           k == Len(u.path) + 1
<1>1. /\ u.path \in Seq(Nat \ {0}) /\ Len(u.path) \in Nat
      /\ v.path \in Seq(Nat \ {0}) /\ Len(v.path) \in Nat /\ Len(p) \in Nat
      BY Split
<1>2. k \in 1..Len(v.path) /\ Len(v.path) <= Len(t)
  <2>1. Len(v.path) <= Len(t)
    <3>1. CASE v.path = << >> \/ v.slash
      <4>1. Len(t) = Len(v.path) + 1
            BY <3>1, Split
      <4> QED
          BY <1>1, <4>1
    <3>2. CASE ~(v.path = << >> \/ v.slash)
      <4>1. t = v.path
            BY <3>2, Split
      <4> QED
          BY <1>1, <4>1
    <3> QED
        BY <3>1, <3>2
  <2> QED
      BY <1>1, <2>1
<1>3. Len(v.path) <= Len(p) /\ \A i \in 1..Len(v.path) : t[i] = p[i]
  <2>1. CASE v.path = << >> \/ v.slash
    <3>1. /\ Len(t) = Len(v.path) + 1 /\ t[Len(v.path) + 1] = 0
          BY <2>1, Split
    <3>2. Len(p) >= Len(t) /\ \A i \in 1..(Len(t) - 1) : p[i] = t[i]
      <4>1. t[Len(t)] = 0
            BY <3>1
      <4> QED
          BY <4>1 DEF Matches
    <3> HIDE DEF t, v
    <3> QED
        BY <1>1, <3>1, <3>2
  <2>2. CASE ~(v.path = << >> \/ v.slash)
    <3>1. t = v.path
          BY <2>2, Split
    <3>2. p = v.path
          BY <2>2, MatchesCovers DEF Covers
    <3> QED
        BY <1>1, <3>1, <3>2
  <2> QED
      BY <2>1, <2>2
<1>4. u.path = << >> \/ u.slash
  <2> SUFFICES ASSUME ~(u.path = << >> \/ u.slash) PROVE FALSE
      OBVIOUS
  <2>1. p = u.path
        BY MatchesCovers DEF Covers
  <2> QED
      BY <1>1, <1>3, <2>1
<1>5. Len(s) = k /\ s[k] = 0
      BY <1>4, Split
<1>6. \A i \in 1..(k - 1) : p[i] = s[i]
  <2>1. s[Len(s)] = 0
        BY <1>5
  <2>2. \A i \in 1..(Len(s) - 1) : p[i] = s[i]
        BY <2>1 DEF Matches
  <2> QED
      BY <1>5, <2>2
<1>7. t[k] > 0
  <2> HIDE DEF t, u, v, k
  <2>1. t[k] = p[k] /\ k \in 1..Len(p)
        BY <1>1, <1>2, <1>3
  <2>2. p[k] \in Nat \ {0}
        BY <2>1, ElementOfSeq
  <2> QED
      BY <2>1, <2>2
<1>8. \A j \in 1..(k - 1) : j <= Len(s) /\ s[j] = t[j]
  <2> TAKE j \in 1..(k - 1)
  <2>1. k \in Nat /\ Len(v.path) \in Nat
        BY <1>1
  <2>2. k <= Len(v.path) /\ Len(s) = k
        BY <1>2, <1>5
  <2> HIDE DEF s, t, u, v, k
  <2>3. j \in 1..Len(v.path) /\ j <= Len(s)
        BY <2>1, <2>2
  <2> QED
      BY <1>3, <1>6, <2>3
<1>9. k \in 1..Len(t)
  <2>1. Len(t) \in Nat
        BY Split
  <2> HIDE DEF s, t, u, v, k
  <2> QED
      BY <1>1, <1>2, <2>1
<1> HIDE DEF s, t, u, v, k
<1> QED
    BY <1>5, <1>7, <1>8, <1>9 DEF Before, s, t, u, v

\* When a round has succeeded, requests go to the app with the longest path, over
\* a certificate of their host.
THEOREM RoutedWell == Spec => []Routed
<1>1. LBInv => Routed
  <2> SUFFICES ASSUME LBInv, answer = "ok", NEW q \in Requests, Own(TheApps, q.host) # {}
               PROVE  LET own == Own(TheApps, q.host)
                          covering == {a \in own : Covers(Url[a], q.path)}
                          target == Route(urlMap, q)
                      IN  /\ target \in own /\ CertOf[q.host] \in proxy
                          /\ covering # {} =>
                               /\ target \in covering
                               /\ \A a \in covering : Len(Url[a].path) <= Len(Url[target].path)
      BY DEF Routed, Own, TheApps
  <2> DEFINE own == Own(TheApps, q.host)
             covering == {a \in own : Covers(Url[a], q.path)}
             target == Route(urlMap, q)
  <2>1. urlMap = MakeURLMap(Mapping(TheApps)) /\ proxy = TheCerts
        /\ TheApps \in SUBSET Apps /\ TheApps \subseteq DOMAIN want
        BY Reached DEF TheMap
  <2>2. q.path \in Seq(Nat \ {0})
        BY LoadBalancerAssumption
  <2>3. target \in own
    <3>1. /\ Hits(TheApps, q) # {} => IsLast(target, Hits(TheApps, q))
          /\ Hits(TheApps, q) = {} => IsFirst(target, own)
          BY <2>1, Routes
    <3> QED
        BY <3>1 DEF IsLast, IsFirst, Hits
  <2>4. CertOf[q.host] \in proxy
    <3>1. PICK a \in TheApps : Url[a].host = q.host
          BY DEF Own
    <3>2. TheCerts = {CertOf[Url[b].host] : b \in DOMAIN want}
          BY <3>1 DEF TheCerts, WantedCerts, TheApps
    <3> QED
        BY <2>1, <3>1, <3>2
  <2>5. \A a \in own : a \in covering <=> Meant(a, q)
    <3> SUFFICES ASSUME NEW a \in own PROVE Covers(Url[a], q.path) <=> Meant(a, q)
        OBVIOUS
    <3>1. a \in Apps /\ Url[a].host = q.host
          BY <2>1 DEF Own
    <3> QED
        BY <2>2, <3>1, MatchesCovers DEF Meant
  <2>6. ASSUME NEW a \in covering
        PROVE  target \in covering /\ Len(Url[a].path) <= Len(Url[target].path)
    <3>1. a \in TheApps /\ a \in Apps /\ Meant(a, q) /\ a \in own
          BY <2>1, <2>5 DEF Own
    <3>2. Meant(target, q) /\ (target # a /\ SplitURL(Url[a]) # Root => Prior(a, target))
          BY <2>1, <3>1, RoutedToMeant
    <3>3. target \in covering
          BY <2>3, <2>5, <3>2
    <3>4. target \in Apps /\ Len(Url[target].path) \in Nat /\ Len(Url[a].path) \in Nat
          /\ Url[target].host = q.host /\ Url[a].host = q.host
      <4>1. target \in Apps /\ Url[target].host = q.host /\ Url[a].host = q.host
            BY <2>1, <2>3, <3>1 DEF Own
      <4>2. Url[target].path \in Seq(Nat \ {0}) /\ Url[a].path \in Seq(Nat \ {0})
            BY <3>1, <4>1, Split
      <4> HIDE DEF target
      <4> QED
          BY <4>1, <4>2
    <3> HIDE DEF target, covering, own
    <3>5. CASE SplitURL(Url[a]) = Root
      <4>1. Len(SplitURL(Url[a])) = 1 /\ SplitURL(Url[a])[1] = 0
            BY <3>5 DEF Root
      <4>2. CASE Url[a].path = << >> \/ Url[a].slash
        <5>1. Len(SplitURL(Url[a])) = Len(Url[a].path) + 1
              BY <3>1, <4>2, Split
        <5>2. Len(Url[a].path) = 0
          <6>1. \A n \in Nat : n + 1 = 1 => n = 0
                OBVIOUS
          <6>2. Len(Url[a].path) + 1 = 1
                BY <4>1, <5>1
          <6>3. Len(Url[a].path) \in Nat
                BY <3>4
          <6> QED
              BY <6>1, <6>2, <6>3
        <5>3. Len(Url[a].path) <= Len(Url[target].path)
          <6>1. \A n \in Nat : 0 <= n
                OBVIOUS
          <6> QED
              BY <3>4, <5>2, <6>1
        <5> QED
            BY <3>3, <5>3
      <4>3. CASE ~(Url[a].path = << >> \/ Url[a].slash)
        <5>1. Url[a].path = SplitURL(Url[a]) /\ Url[a].path \in Seq(Nat \ {0})
              BY <3>1, <4>3, Split
        <5>2. Url[a].path[1] \in Nat \ {0}
              BY <4>1, <5>1
        <5> QED
            BY <4>1, <5>1, <5>2
      <4> QED
          BY <4>2, <4>3
    <3>6. CASE SplitURL(Url[a]) # Root /\ target # a
      <4> SUFFICES ASSUME Len(Url[target].path) < Len(Url[a].path) PROVE FALSE
          BY <3>3, <3>4
      <4>1. Before(SplitURL(Url[target]), SplitURL(Url[a]))
            BY <2>2, <3>1, <3>2, <3>4, LongerIsLater DEF Meant
      <4>2. Prior(target, a) /\ Prior(a, target)
            BY <3>2, <3>4, <3>6, <4>1 DEF Prior
      <4> QED
          BY <3>1, <3>4, <4>2, PriorOrder
    <3>7. CASE target = a
          BY <3>3, <3>4, <3>7
    <3> QED
        BY <3>5, <3>6, <3>7
  <2> QED
      BY <2>3, <2>4, <2>6
<1> QED
    BY <1>1, Inductive, PTL
=================================================================================
