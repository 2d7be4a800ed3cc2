----------------------------- MODULE RpcLogProofs -----------------------------
(***************************************************************************)
(* The safety of the recovery log, for every number of tabs, records and   *)
(* lines: what replaying a log yields, a rotation that loses nothing, a    *)
(* log that says what the daemon's memory says, and no scheduled record    *)
(* that nobody will write.                                                 *)
(***************************************************************************)
EXTENDS RpcLog, TLAPS, FiniteSetTheorems, SequenceTheorems, NaturalsInduction,
        WellFoundedInduction

-----------------------------------------------------------------------------
(***************************************************************************)
(* Induction over the lines of a log.                                      *)
(***************************************************************************)
\* Every non-empty set of naturals has a least element.
LEMMA LeastElement ==
  ASSUME NEW S, S \subseteq Nat, S # {}
  PROVE  \E n \in S : \A m \in S : n <= m
<1>1. \E n \in S : \A m \in S : ~(<<m, n>> \in OpToRel(<, Nat))
  BY NatLessThanWellFounded, WFMin
<1>2. \A n, m \in S : ~(<<m, n>> \in OpToRel(<, Nat)) => n <= m
  BY DEF OpToRel
<1> QED
  BY <1>1, <1>2

\* A set with 0 and the successor of each of its members below L holds all of 0..L.
LEMMA UpToL ==
  ASSUME NEW L \in Nat, NEW S, 0 \in S, \A n \in 0..L : n # L /\ n \in S => n + 1 \in S
  PROVE  \A n \in 0..L : n \in S
<1> DEFINE Bad == {n \in 0..L : n \notin S}
<1>1. SUFFICES ASSUME Bad # {} PROVE FALSE
  OBVIOUS
<1>2. Bad \subseteq Nat
  OBVIOUS
<1>3. PICK n \in Bad : \A m \in Bad : n <= m
  BY <1>1, <1>2, LeastElement
<1>4. n \in Nat /\ n # 0 /\ n <= L
  OBVIOUS
<1>5. n - 1 \in 0..L /\ n - 1 # L /\ n - 1 \in S
  BY <1>3, <1>4
<1>6. (n - 1) + 1 \in S
  BY <1>5
<1> QED
  BY <1>4, <1>6

-----------------------------------------------------------------------------
(***************************************************************************)
(* What a log adds up to.  `Replayed` is the last value of a function that *)
(* is defined by recursion; such a function exists and is the only one.    *)
(***************************************************************************)
ReplayUpTo(g, rs, n) ==
    g = [k \in 0..n |-> IF k = 0 THEN NoTabs ELSE Update(g[k - 1], rs[k])]
IsReplay(g, rs) == ReplayUpTo(g, rs, Len(rs))

LEMMA ReplayExists ==
  ASSUME NEW rs, Len(rs) \in Nat
  PROVE  \E g : IsReplay(g, rs)
<1> DEFINE L == Len(rs)
           S == {n \in 0..L : \E g : ReplayUpTo(g, rs, n)}
<1> HIDE DEF L
<1>0. L \in Nat
  BY DEF L
<1>1. 0 \in S
  <2> DEFINE g == [k \in 0..0 |-> NoTabs]
  <2>1. ReplayUpTo(g, rs, 0)
    BY DEF ReplayUpTo
  <2> HIDE DEF g
  <2>2. 0 \in 0..L
    BY <1>0
  <2> QED
    BY <2>1, <2>2
<1>2. ASSUME NEW n \in 0..L, n # L, n \in S
      PROVE  n + 1 \in S
  <2>1. PICK h : ReplayUpTo(h, rs, n)
    BY <1>2
  <2> DEFINE g == [k \in 0..(n + 1) |-> IF k = n + 1 THEN Update(h[n], rs[n + 1]) ELSE h[k]]
  <2>2. \A k \in 0..n : g[k] = h[k]
    OBVIOUS
  <2>3. g[0] = NoTabs
    BY <2>1, <2>2 DEF ReplayUpTo
  <2>4. \A k \in 0..n : k # 0 => g[k] = Update(g[k - 1], rs[k])
    <3> SUFFICES ASSUME NEW k \in 0..n, k # 0 PROVE g[k] = Update(g[k - 1], rs[k])
      OBVIOUS
    <3>1. h[k] = Update(h[k - 1], rs[k])
      BY <2>1 DEF ReplayUpTo
    <3>2. k - 1 \in 0..n
      OBVIOUS
    <3> QED
      BY <2>2, <3>1, <3>2
  <2>5. g[n + 1] = Update(g[n], rs[n + 1])
    BY <2>2
  <2>6. DOMAIN g = 0..(n + 1) /\ g = [k \in 0..(n + 1) |-> g[k]]
    OBVIOUS
  <2> HIDE DEF g
  <2>7. \A k \in 0..(n + 1) : g[k] = IF k = 0 THEN NoTabs ELSE Update(g[k - 1], rs[k])
    <3> SUFFICES ASSUME NEW k \in 0..(n + 1), k # 0 PROVE g[k] = Update(g[k - 1], rs[k])
      BY <2>3
    <3>1. CASE k = n + 1
      <4>1. k - 1 = n
        BY <3>1
      <4> QED
        BY <2>5, <3>1, <4>1
    <3>2. CASE k # n + 1
      <4>1. k \in 0..n
        BY <3>2
      <4> QED
        BY <2>4, <4>1
    <3> QED
      BY <3>1, <3>2
  <2>8. ReplayUpTo(g, rs, n + 1)
    BY <2>6, <2>7 DEF ReplayUpTo
  <2>9. n + 1 \in 0..L
    BY <1>0, <1>2
  <2> QED
    BY <2>8, <2>9
<1> HIDE DEF S
<1>3. \A n \in 0..L : n \in S
  BY <1>0, <1>1, <1>2, UpToL
<1>4. L \in S
  BY <1>0, <1>3
<1> QED
  BY <1>4 DEF S, IsReplay, L

\* Two logs that agree on their first n records add up to the same map there.
LEMMA ReplaysAgree ==
  ASSUME NEW rs, Len(rs) \in Nat, NEW qs, Len(qs) \in Nat,
         NEW g, IsReplay(g, rs), NEW h, IsReplay(h, qs),
         NEW n \in Nat, n <= Len(rs), n <= Len(qs), \A k \in 1..n : rs[k] = qs[k]
  PROVE  \A k \in 0..n : g[k] = h[k]
<1> DEFINE S == {k \in 0..n : g[k] = h[k]}
<1>1. 0 \in S
  BY DEF IsReplay, ReplayUpTo
<1>2. ASSUME NEW k \in 0..n, k # n, k \in S
      PROVE  k + 1 \in S
  <2>1. k + 1 \in 1..n /\ k + 1 \in 0..Len(rs) /\ k + 1 \in 0..Len(qs) /\ (k + 1) - 1 = k
        /\ k + 1 # 0
    BY <1>2
  <2>2. g[k + 1] = Update(g[k], rs[k + 1])
    BY <2>1 DEF IsReplay, ReplayUpTo
  <2>3. h[k + 1] = Update(h[k], qs[k + 1])
    BY <2>1 DEF IsReplay, ReplayUpTo
  <2> QED
    BY <1>2, <2>1, <2>2, <2>3
<1> HIDE DEF S
<1>3. \A k \in 0..n : k \in S
  BY <1>1, <1>2, UpToL
<1> QED
  BY <1>3 DEF S

LEMMA ReplayedIs ==
  ASSUME NEW rs
  PROVE  Replayed(rs) = (CHOOSE g : IsReplay(g, rs))[Len(rs)]
BY DEF Replayed, IsReplay, ReplayUpTo

LEMMA ReplayedByAny ==
  ASSUME NEW rs, Len(rs) \in Nat, NEW g, IsReplay(g, rs)
  PROVE  Replayed(rs) = g[Len(rs)]
<1> DEFINE h == CHOOSE x : IsReplay(x, rs)
<1>1. IsReplay(h, rs)
  OBVIOUS
<1> HIDE DEF h
<1>2. \A k \in 0..Len(rs) : g[k] = h[k]
  BY <1>1, ReplaysAgree
<1>3. Replayed(rs) = h[Len(rs)]
  BY ReplayedIs DEF h
<1> QED
  BY <1>2, <1>3

LEMMA ReplayedEmpty == Replayed(<<>>) = NoTabs
<1>1. Len(<<>>) = 0
  OBVIOUS
<1>2. PICK g : IsReplay(g, <<>>)
  BY <1>1, ReplayExists
<1>3. g[0] = NoTabs
  BY <1>1, <1>2 DEF IsReplay, ReplayUpTo
<1> QED
  BY <1>1, <1>2, <1>3, ReplayedByAny

LEMMA ReplayedAppend ==
  ASSUME NEW rs \in Seq(Records), NEW r \in Records
  PROVE  Replayed(Append(rs, r)) = Update(Replayed(rs), r)
<1> DEFINE qs == Append(rs, r)
           n == Len(rs)
<1>1. n \in Nat /\ Len(qs) = n + 1 /\ qs[n + 1] = r /\ \A k \in 1..n : rs[k] = qs[k]
  OBVIOUS
<1> HIDE DEF qs, n
<1>2. PICK g : IsReplay(g, rs)
  BY <1>1, ReplayExists DEF n
<1>3. PICK h : IsReplay(h, qs)
  BY <1>1, ReplayExists
<1>4. g[n] = h[n]
  BY <1>1, <1>2, <1>3, ReplaysAgree DEF n
<1>5. h[n + 1] = Update(h[n], r)
  <2>1. n + 1 \in 0..(n + 1) /\ n + 1 # 0 /\ (n + 1) - 1 = n
    BY <1>1
  <2> QED
    BY <1>1, <1>3, <2>1 DEF IsReplay, ReplayUpTo
<1>6. Replayed(rs) = g[n] /\ Replayed(qs) = h[n + 1]
  BY <1>1, <1>2, <1>3, ReplayedByAny DEF n
<1> QED
  BY <1>4, <1>5, <1>6 DEF qs

Maps == [Tabs -> 0..MaxRecords]

LEMMA Bounds == MaxRecords \in Nat /\ 0 \in 0..MaxRecords
<1>1. MaxRecords \in Nat
  BY RpcLogAssumption
<1> QED
  BY <1>1

LEMMA UpdateTyped ==
  ASSUME NEW m \in Maps, NEW r \in Records
  PROVE  Update(m, r) \in Maps
<1>1. /\ r.action \in Actions /\ r.tab \in Tabs /\ r.time \in 0..MaxRecords
      /\ 0 \in 0..MaxRecords
  BY Bounds DEF Records
<1>2. [m EXCEPT ![r.tab] = r.time] \in Maps /\ [m EXCEPT ![r.tab] = 0] \in Maps
  BY <1>1 DEF Maps
<1> QED
  BY <1>1, <1>2 DEF Update, Actions

LEMMA NoTabsTyped == NoTabs \in Maps
BY Bounds DEF NoTabs, Maps

LEMMA ReplayedTyped ==
  ASSUME NEW rs \in Seq(Records)
  PROVE  Replayed(rs) \in Maps
<1>1. Len(rs) \in Nat
  OBVIOUS
<1>2. PICK g : IsReplay(g, rs)
  BY <1>1, ReplayExists
<1> DEFINE S == {k \in 0..Len(rs) : g[k] \in Maps}
<1>3. 0 \in S
  BY <1>1, <1>2, NoTabsTyped DEF IsReplay, ReplayUpTo
<1>4. ASSUME NEW k \in 0..Len(rs), k # Len(rs), k \in S
      PROVE  k + 1 \in S
  <2>1. k + 1 \in 1..Len(rs) /\ k + 1 \in 0..Len(rs) /\ (k + 1) - 1 = k /\ k + 1 # 0
    BY <1>1, <1>4
  <2>2. g[k + 1] = Update(g[k], rs[k + 1])
    BY <1>2, <2>1 DEF IsReplay, ReplayUpTo
  <2>3. rs[k + 1] \in Records
    BY <2>1
  <2> QED
    BY <1>4, <2>1, <2>2, <2>3, UpdateTyped
<1> HIDE DEF S
<1>5. \A k \in 0..Len(rs) : k \in S
  BY <1>1, <1>3, <1>4, UpToL
<1>6. g[Len(rs)] \in Maps
  BY <1>1, <1>5 DEF S
<1> QED
  BY <1>1, <1>2, <1>6, ReplayedByAny

\* A record for each managed tab, in whatever order, adds up to the map: the rotation
\* loses no tab and no time.
LEMMA ReplayedSnapshot ==
  ASSUME NEW m \in Maps, NEW size \in Nat, NEW o \in [1..size -> Tabs],
         \A s \in Tabs : m[s] # 0 => \E n \in 1..size : o[n] = s
  PROVE  Replayed([n \in 1..size |->
                       [action |-> "tab_new", tab |-> o[n], time |-> m[o[n]]]]) = m
<1> DEFINE rs == [n \in 1..size |-> [action |-> "tab_new", tab |-> o[n], time |-> m[o[n]]]]
           Upto(k) == [s \in Tabs |-> IF \E j \in 1..k : o[j] = s THEN m[s] ELSE 0]
<1>1. Len(rs) = size
  OBVIOUS
<1>2. \A n \in 1..size :
          /\ rs[n].action = "tab_new" /\ rs[n].tab = o[n] /\ rs[n].time = m[o[n]]
          /\ o[n] \in Tabs
  OBVIOUS
<1> HIDE DEF rs
<1>3. PICK g : IsReplay(g, rs)
  BY <1>1, ReplayExists
<1> DEFINE S == {k \in 0..size : g[k] = Upto(k)}
<1>4. 0 \in S
  <2>1. Upto(0) = NoTabs
    BY DEF NoTabs
  <2>2. g[0] = NoTabs
    BY <1>1, <1>3 DEF IsReplay, ReplayUpTo
  <2> QED
    BY <2>1, <2>2
<1>5. ASSUME NEW k \in 0..size, k # size, k \in S
      PROVE  k + 1 \in S
  <2>1. k + 1 \in 1..size /\ k + 1 \in 0..size /\ (k + 1) - 1 = k /\ k + 1 # 0
    BY <1>5
  <2>2. g[k + 1] = Update(Upto(k), rs[k + 1])
    BY <1>1, <1>3, <1>5, <2>1 DEF IsReplay, ReplayUpTo
  <2>3. Update(Upto(k), rs[k + 1]) = [Upto(k) EXCEPT ![o[k + 1]] = m[o[k + 1]]]
    BY <1>2, <2>1 DEF Update
  <2>4. \A s \in Tabs : (\E j \in 1..(k + 1) : o[j] = s) <=>
                          o[k + 1] = s \/ \E j \in 1..k : o[j] = s
    <3>1. \A j : j \in 1..(k + 1) <=> j = k + 1 \/ j \in 1..k
      BY <2>1
    <3> QED
      BY <3>1, Zenon
  <2>5. [Upto(k) EXCEPT ![o[k + 1]] = m[o[k + 1]]] = Upto(k + 1)
    BY <1>2, <2>1, <2>4
  <2> QED
    BY <2>1, <2>2, <2>3, <2>5
<1>6. \A k \in 0..size : k \in S
  <2> HIDE DEF S
  <2> QED
    BY <1>4, <1>5, UpToL
<1>7. g[size] = Upto(size)
  <2>1. size \in 0..size
    OBVIOUS
  <2>2. size \in S
    BY <1>6, <2>1
  <2> QED
    BY <2>2
<1>8. Upto(size) = m
  BY DEF Maps
<1> QED
  BY <1>1, <1>3, <1>7, <1>8, ReplayedByAny DEF rs

-----------------------------------------------------------------------------
(***************************************************************************)
(* The file: what an append, a rotation and a restart make of it.          *)
(***************************************************************************)
Recs(f) == [n \in 1..Len(f) |-> f[n].rec]
AllWhole(f) == \A n \in 1..Len(f) : f[n].valid /\ f[n].ended

\* The most lines a file with an ended last line has: one less than rotation allows, or
\* those of the longest snapshot.
Longest == IF Cardinality(Tabs) < MaxLines THEN MaxLines - 1 ELSE Cardinality(Tabs)
Bounded(f) == Len(f) <= Longest \/ (Len(f) = Longest + 1 /\ ~f[Len(f)].ended)

LEMMA LongestFacts ==
  /\ Longest \in Nat /\ Cardinality(Tabs) \in Nat
  /\ MaxLines \in Nat \ {0}
  /\ MaxLines - 1 <= Longest /\ Cardinality(Tabs) <= Longest
  /\ Longest + 1 <= MaxLines + Cardinality(Tabs)
<1>1. MaxLines \in Nat \ {0} /\ IsFiniteSet(Tabs)
  BY RpcLogAssumption
<1>2. Cardinality(Tabs) \in Nat
  BY <1>1, FS_CardinalityType
<1> QED
  BY <1>1, <1>2 DEF Longest

LEMMA LineTyped ==
  ASSUME NEW r \in Records
  PROVE  /\ Line(r) \in Lines /\ Line(r).rec = r /\ Line(r).valid /\ Line(r).ended
         /\ \A tear \in Tears : /\ Torn(r, tear) \in Lines /\ Torn(r, tear).rec = r
                                /\ ~Torn(r, tear).ended
                                /\ tear = "partial" => ~Torn(r, tear).valid
BY DEF Line, Torn, Lines

\* The line goes after the last, or spoils it.
LEMMA WrittenTyped ==
  ASSUME NEW f \in Seq(Lines), NEW line \in Lines, Bounded(f)
  PROVE  /\ Written(f, line) \in Seq(Lines)
         /\ Written(f, line) # <<>>
         /\ Written(f, line)[Len(Written(f, line))].ended = line.ended
         /\ Len(Written(f, line)) <= Longest + 1
<1>1. CASE f = <<>> \/ f[Len(f)].ended
  <2>1. Written(f, line) = Append(f, line)
    BY <1>1 DEF Written
  <2>2. Len(f) <= Longest
    BY <1>1, LongestFacts DEF Bounded
  <2> HIDE <1>1
  <2>3. /\ Append(f, line) \in Seq(Lines) /\ Append(f, line) # <<>>
        /\ Len(Append(f, line)) = Len(f) + 1
        /\ Append(f, line)[Len(f) + 1] = line
    BY AppendProperties
  <2>4. Len(f) \in Nat
    OBVIOUS
  <2> QED
    BY <2>1, <2>2, <2>3, <2>4, LongestFacts
<1>2. CASE ~(f = <<>> \/ f[Len(f)].ended)
  <2> DEFINE L == Len(f)
             x == [f[L] EXCEPT !.valid = FALSE, !.ended = line.ended]
  <2>1. Written(f, line) = [f EXCEPT ![L] = x]
    BY <1>2 DEF Written
  <2>2. L \in Nat /\ L # 0 /\ L \in 1..L /\ f \in [1..L -> Lines] /\ f[L] \in Lines
    BY <1>2
  <2>3. x \in Lines /\ x.ended = line.ended
    BY <2>2 DEF Lines
  <2> HIDE DEF x
  <2>4. [f EXCEPT ![L] = x] \in Seq(Lines) /\ Len([f EXCEPT ![L] = x]) = L
    BY <2>2, <2>3
  <2>5. [f EXCEPT ![L] = x][L] = x
    BY <2>2
  <2>6. L <= Longest + 1
    <3>1. L <= Longest \/ L = Longest + 1
      BY DEF Bounded
    <3>2. Longest \in Nat
      BY LongestFacts
    <3> HIDE DEF L
    <3> QED
      BY <2>2, <3>1, <3>2
  <2> HIDE DEF L
  <2>7. [f EXCEPT ![L] = x] # <<>>
    BY <2>2, <2>4
  <2> QED
    BY <2>1, <2>2, <2>3, <2>4, <2>5, <2>6, <2>7
<1> QED
  BY <1>1, <1>2

\* A file of whole lines gets one more line.
LEMMA WrittenToWhole ==
  ASSUME NEW f \in Seq(Lines), NEW line \in Lines, AllWhole(f)
  PROVE  Written(f, line) = Append(f, line)
<1>1. f # <<>> => Len(f) \in 1..Len(f)
  OBVIOUS
<1> QED
  BY <1>1 DEF Written, AllWhole

LEMMA AppendFacts ==
  ASSUME NEW S, NEW f \in Seq(S), NEW x \in S
  PROVE  /\ Len(Append(f, x)) = Len(f) + 1
         /\ Append(f, x)[Len(f) + 1] = x
         /\ \A n \in 1..Len(f) : Append(f, x)[n] = f[n]
         /\ Len(f) \in Nat
OBVIOUS

LEMMA RecsTyped ==
  ASSUME NEW f \in Seq(Lines)
  PROVE  Recs(f) \in Seq(Records)
<1>1. Len(f) \in Nat /\ \A n \in 1..Len(f) : f[n] \in Lines
  OBVIOUS
<1>2. \A x \in Lines : x.rec \in Records
  BY DEF Lines
<1> QED
  BY <1>1, <1>2 DEF Recs

LEMMA RecsAppend ==
  ASSUME NEW f \in Seq(Lines), NEW line \in Lines
  PROVE  Recs(Append(f, line)) = Append(Recs(f), line.rec)
<1> DEFINE e == Append(f, line)
<1>1. /\ Len(e) = Len(f) + 1 /\ e[Len(f) + 1] = line
      /\ \A n \in 1..Len(f) : e[n] = f[n]
      /\ Len(f) \in Nat
  BY AppendFacts
<1> HIDE DEF e
<1>2. Recs(e) = [n \in 1..(Len(f) + 1) |-> IF n = Len(f) + 1 THEN line.rec ELSE f[n].rec]
  BY <1>1 DEF Recs
<1>3. Append(Recs(f), line.rec)
          = [n \in 1..(Len(f) + 1) |-> IF n = Len(f) + 1 THEN line.rec ELSE f[n].rec]
  <2>1. Recs(f) \in Seq(Records) /\ line.rec \in Records
    BY RecsTyped DEF Lines
  <2>2. Len(Recs(f)) = Len(f) /\ \A n \in 1..Len(f) : Recs(f)[n] = f[n].rec
    BY <1>1 DEF Recs
  <2> DEFINE R == Recs(f)
             v == line.rec
             a == Append(R, v)
  <2> HIDE DEF R, v
  <2>3. a \in Seq(Records)
    BY <2>1 DEF R, v
  <2>4. a = [n \in 1..Len(a) |-> a[n]]
    <3> HIDE DEF a
    <3>1. a \in [1..Len(a) -> Records]
      BY <2>3, LenProperties
    <3> QED
      BY <3>1
  <2>5. Len(a) = Len(R) + 1 /\ a[Len(R) + 1] = v /\ \A n \in 1..Len(R) : a[n] = R[n]
    BY <2>1, AppendFacts DEF R, v
  <2> HIDE DEF a
  <2>6. \A n \in 1..(Len(f) + 1) : a[n] = IF n = Len(f) + 1 THEN v ELSE f[n].rec
    BY <1>1, <2>2, <2>5 DEF R
  <2>7. a = [n \in 1..(Len(f) + 1) |-> IF n = Len(f) + 1 THEN v ELSE f[n].rec]
    BY <2>2, <2>4, <2>5, <2>6 DEF R
  <2> QED
    BY <2>7 DEF a, R, v
<1> QED
  BY <1>2, <1>3 DEF e

LEMMA KeptOfWhole ==
  ASSUME NEW f, AllWhole(f)
  PROVE  Kept(f) = f
BY DEF Kept, AllWhole

\* A restart keeps the lines before the first bad one.
LEMMA KeptIsPrefix ==
  ASSUME NEW f \in Seq(Lines), NEW k \in 1..Len(f), ~f[k].valid,
         \A n \in 1..(k - 1) : f[n].valid
  PROVE  Kept(f) = SubSeq(f, 1, k - 1)
<1> DEFINE bad == {n \in 1..Len(f) : ~f[n].valid}
           Least(n) == n \in bad /\ \A j \in bad : n <= j
<1>1. Len(f) \in Nat
  OBVIOUS
<1>2. Least(k)
  BY <1>1
<1>3. \A n : Least(n) => n = k
  BY <1>1, <1>2
<1>4. (CHOOSE n \in bad : \A j \in bad : n <= j) = k
  BY <1>2, <1>3
<1>5. bad # {}
  BY <1>2
<1>6. Kept(f) = SubSeq(f, 1, (CHOOSE n \in bad : \A j \in bad : n <= j) - 1)
  BY <1>5 DEF Kept
<1> QED
  BY <1>4, <1>6

LEMMA KeptTyped ==
  ASSUME NEW f \in Seq(Lines), Bounded(f)
  PROVE  Kept(f) \in Seq(Lines) /\ Bounded(Kept(f))
<1> DEFINE bad == {n \in 1..Len(f) : ~f[n].valid}
<1>1. CASE bad = {}
  BY <1>1 DEF Kept
<1>2. CASE bad # {}
  <2>1. bad \subseteq Nat /\ Len(f) \in Nat
    OBVIOUS
  <2>2. PICK k \in bad : \A n \in bad : k <= n
    BY <1>2, <2>1, LeastElement
  <2>3. \A n \in 1..(k - 1) : f[n].valid
    BY <2>1, <2>2
  <2>4. Kept(f) = SubSeq(f, 1, k - 1)
    BY <2>2, <2>3, KeptIsPrefix
  <2>5. SubSeq(f, 1, k - 1) \in Seq(Lines) /\ Len(SubSeq(f, 1, k - 1)) = k - 1
    <3>1. k \in 1..Len(f) /\ k - 1 \in Int /\ 1 \in Int
      BY <2>1, <2>2
    <3>2. \A n \in 1..(k - 1) : f[n] \in Lines
      BY <3>1
    <3> QED
      BY <3>1, <3>2, SubSeqProperties
  <2>6. k - 1 <= Longest
    BY <2>1, <2>2, LongestFacts DEF Bounded
  <2> QED
    BY <2>4, <2>5, <2>6 DEF Bounded
<1> QED
  BY <1>1, <1>2

\* A restart drops a line that a crash has torn, and nothing else.
LEMMA KeptOfTorn ==
  ASSUME NEW f \in Seq(Lines), AllWhole(f), NEW line \in Lines, ~line.valid
  PROVE  Kept(Append(f, line)) = f
<1> DEFINE e == Append(f, line)
           k == Len(f) + 1
<1>1. e \in Seq(Lines) /\ Len(e) = k /\ e[k] = line /\ k \in Nat /\ k # 0
      /\ \A n \in 1..(k - 1) : e[n] = f[n]
  BY AppendFacts, AppendProperties
<1>2. \A n \in 1..(k - 1) : f[n].valid
  BY DEF AllWhole
<1>3. SubSeq(e, 1, k - 1) = f
  BY AppendProperties
<1> HIDE DEF e
<1>4. k \in 1..Len(e) /\ ~e[k].valid /\ \A n \in 1..(k - 1) : e[n].valid
  BY <1>1, <1>2
<1>5. Kept(e) = SubSeq(e, 1, k - 1)
  <2> HIDE DEF k
  <2> QED
    BY <1>1, <1>4, KeptIsPrefix
<1> QED
  BY <1>3, <1>5 DEF e

\* A rotation writes whole lines that add up to the map.
LEMMA SnapshotFacts ==
  ASSUME NEW m \in Maps, NEW f \in Snapshot(m)
  PROVE  /\ f \in Seq(Lines) /\ Len(f) <= Longest
         /\ AllWhole(f)
         /\ Replayed(Recs(f)) = m
<1> DEFINE tabs == {s \in Tabs : m[s] # 0}
           size == Cardinality(tabs)
           rec(o, n) == [action |-> "tab_new", tab |-> o[n], time |-> m[o[n]]]
<1>1. PICK o \in [1..size -> tabs] :
          /\ \A s \in tabs : \E n \in 1..size : o[n] = s
          /\ f = [n \in 1..size |-> Line(rec(o, n))]
  BY DEF Snapshot
<1>2. IsFiniteSet(tabs) /\ size <= Cardinality(Tabs) /\ size \in Nat
  <2>1. IsFiniteSet(Tabs) /\ tabs \subseteq Tabs
    BY RpcLogAssumption
  <2> HIDE DEF tabs
  <2>2. IsFiniteSet(tabs) /\ Cardinality(tabs) <= Cardinality(Tabs)
    BY <2>1, FS_Subset
  <2> QED
    BY <2>2, FS_CardinalityType
<1>3. o \in [1..size -> Tabs] /\ \A n \in 1..size : o[n] \in Tabs /\ m[o[n]] \in 1..MaxRecords
  <2>1. ASSUME NEW s \in tabs
        PROVE  s \in Tabs /\ m[s] \in 1..MaxRecords
    <3>1. s \in Tabs /\ m[s] # 0
      OBVIOUS
    <3>2. m[s] \in 0..MaxRecords
      BY <3>1 DEF Maps
    <3> HIDE DEF tabs
    <3>3. m[s] \in 1..MaxRecords
      <4>1. \A n \in 0..MaxRecords : n # 0 => n \in 1..MaxRecords
        BY Bounds
      <4> QED
        BY <3>1, <3>2, <4>1
    <3> QED
      BY <3>1, <3>3
  <2> QED
    BY <1>1, <2>1
<1> HIDE DEF size
<1>4. \A n \in 1..size : rec(o, n) \in Records
  BY <1>3 DEF Records, Actions
<1>5. Len(f) = size /\ \A n \in 1..size : f[n] = Line(rec(o, n))
  BY <1>1, <1>2
<1>6. \A n \in 1..size : f[n] \in Lines /\ f[n].rec = rec(o, n) /\ f[n].valid /\ f[n].ended
  <2> HIDE DEF rec
  <2> QED
    BY <1>4, <1>5, LineTyped
<1>7. f \in Seq(Lines)
  BY <1>1, <1>2, <1>5, <1>6
<1>8. Recs(f) = [n \in 1..size |-> rec(o, n)]
  BY <1>5, <1>6 DEF Recs
<1>9. \A s \in Tabs : m[s] # 0 => \E n \in 1..size : o[n] = s
  BY <1>1
<1>10. Replayed([n \in 1..size |-> rec(o, n)]) = m
  BY <1>2, <1>3, <1>9, ReplayedSnapshot
<1>11. Len(f) <= Longest
  BY <1>2, <1>5, LongestFacts
<1> QED
  BY <1>5, <1>6, <1>7, <1>8, <1>10, <1>11 DEF AllWhole

-----------------------------------------------------------------------------
(***************************************************************************)
(* The records somebody still has to append.                               *)
(***************************************************************************)
Times(q) == {q[n].time : n \in 1..Len(q)}

LEMMA PendingIs == Pending = Times(auditCh) \cup Times(writing) \cup Times(handing)
BY DEF Pending, InFlight, Elements, Times

LEMMA NoTimes == Times(<<>>) = {}
BY DEF Times

LEMMA OneTime ==
  ASSUME NEW r
  PROVE  Times(<<r>>) = {r.time}
BY DEF Times

LEMMA TimesAppend ==
  ASSUME NEW q \in Seq(Records), NEW r \in Records
  PROVE  Times(Append(q, r)) = Times(q) \cup {r.time}
<1> DEFINE e == Append(q, r)
<1>1. /\ Len(e) = Len(q) + 1 /\ e[Len(q) + 1] = r
      /\ \A n \in 1..Len(q) : e[n] = q[n]
      /\ Len(q) \in Nat
  BY AppendFacts
<1> HIDE DEF e
<1>2. Times(e) = Times(q) \cup {r.time}
  BY <1>1 DEF Times
<1> QED
  BY <1>2 DEF e

LEMMA TimesTail ==
  ASSUME NEW q \in Seq(Records), q # <<>>
  PROVE  Times(q) = {Head(q).time} \cup Times(Tail(q))
<1> DEFINE t == Tail(q)
           h == Head(q)
<1>1. Len(q) \in Nat /\ Len(q) # 0 /\ Len(t) = Len(q) - 1 /\ h = q[1]
  OBVIOUS
<1>2. \A n \in 1..(Len(q) - 1) : t[n] = q[n + 1]
  OBVIOUS
<1> HIDE DEF t, h
<1>3. Times(q) \subseteq {h.time} \cup Times(t)
  <2> SUFFICES ASSUME NEW n \in 1..Len(q), n # 1
               PROVE  q[n].time \in Times(t)
    BY <1>1 DEF Times
  <2>1. n - 1 \in 1..Len(t) /\ t[n - 1] = q[n]
    BY <1>1, <1>2
  <2> QED
    BY <2>1 DEF Times
<1>4. \A n \in 1..Len(t) : n + 1 \in 1..Len(q) /\ t[n] = q[n + 1]
  BY <1>1, <1>2
<1>5. 1 \in 1..Len(q)
  BY <1>1
<1>6. {h.time} \cup Times(t) \subseteq Times(q)
  BY <1>1, <1>4, <1>5 DEF Times
<1> QED
  BY <1>3, <1>6 DEF t, h

-----------------------------------------------------------------------------
(***************************************************************************)
(* The invariant that needs no assumption on torn lines.                   *)
(***************************************************************************)
LEMMA AppendRPCTyped ==
  ASSUME RpcLogTypeOK, Bounded(file), NEW r \in Records, AppendRPC(r)
  PROVE  /\ managed' \in Maps /\ durable' \in Maps
         /\ file' \in Seq(Lines) /\ Bounded(file')
         /\ unwritten' \subseteq unwritten
         /\ storeOpen => unwritten' = unwritten \ {r.time}
         /\ ~storeOpen => unwritten' = unwritten
<1>1. managed \in Maps /\ durable \in Maps /\ file \in Seq(Lines)
  BY DEF RpcLogTypeOK, Maps
<1>2. managed' \in Maps /\ durable' \in Maps
  BY <1>1, UpdateTyped DEF AppendRPC
<1>3. /\ unwritten' \subseteq unwritten
      /\ storeOpen => unwritten' = unwritten \ {r.time}
      /\ ~storeOpen => unwritten' = unwritten
  BY DEF AppendRPC
<1>4. CASE ~storeOpen
  BY <1>1, <1>2, <1>3, <1>4 DEF AppendRPC
<1>5. CASE storeOpen
  <2> DEFINE f == Written(file, Line(r))
  <2>1. /\ f \in Seq(Lines) /\ f # <<>> /\ f[Len(f)].ended = Line(r).ended
        /\ Len(f) <= Longest + 1
    BY <1>1, LineTyped, WrittenTyped
  <2>2. IF Len(f) >= MaxLines THEN file' \in Snapshot(managed') ELSE file' = f
    BY <1>5 DEF AppendRPC
  <2> HIDE DEF f
  <2>3. CASE Len(f) >= MaxLines
    <3>1. PICK m \in Maps : m = managed'
      BY <1>2
    <3>2. PICK g \in Snapshot(m) : g = file'
      BY <2>2, <2>3, <3>1
    <3>3. g \in Seq(Lines) /\ Len(g) <= Longest
      BY SnapshotFacts
    <3> QED
      BY <1>2, <1>3, <3>2, <3>3 DEF Bounded
  <2>4. CASE ~(Len(f) >= MaxLines)
    <3>1. Len(f) \in Nat
      BY <2>1
    <3>2. Len(f) <= Longest
      BY <2>4, <3>1, LongestFacts
    <3> QED
      BY <1>2, <1>3, <2>1, <2>2, <2>4, <3>2 DEF Bounded
  <2> QED
    BY <2>3, <2>4
<1> QED
  BY <1>4, <1>5

\* The type invariant without the lines of the file, and how to come back to it.
Typed ==
    /\ auditCh \in Seq(Records) /\ Len(auditCh) <= AuditCap
    /\ writing \in AtMostOne /\ handing \in AtMostOne
    /\ auditClosed \in BOOLEAN /\ storeOpen \in BOOLEAN /\ up \in BOOLEAN
    /\ next \in 1..(MaxRecords + 1)
    /\ unwritten \subseteq 1..MaxRecords
FileTyped ==
    /\ managed \in Maps /\ durable \in Maps
    /\ file \in Seq(Lines) /\ Bounded(file)

LEMMA TypedIs == RpcLogTypeOK /\ Bounded(file) <=> Typed /\ FileTyped
<1>1. Bounded(file) /\ file \in Seq(Lines) => Len(file) <= MaxLines + Cardinality(Tabs)
  <2> SUFFICES ASSUME Bounded(file), file \in Seq(Lines)
               PROVE  Len(file) <= MaxLines + Cardinality(Tabs)
    OBVIOUS
  <2>1. Len(file) \in Nat
    OBVIOUS
  <2>2. Len(file) <= Longest \/ Len(file) = Longest + 1
    BY DEF Bounded
  <2> QED
    BY <2>1, <2>2, LongestFacts
<1> QED
  BY <1>1 DEF RpcLogTypeOK, Typed, FileTyped, Maps

LEMMA TakenTyped ==
  ASSUME NEW q \in AtMostOne, q # <<>>
  PROVE  q[1] \in Records /\ q = <<q[1]>>
BY DEF AtMostOne

LEMMA NoneOrOne == <<>> \in AtMostOne /\ \A r \in Records : <<r>> \in AtMostOne
BY DEF AtMostOne

LEMMA LogTypedStep ==
  ASSUME Typed, FileTyped, [RpcLogNext]_rpcVars
  PROVE  Typed' /\ FileTyped'
<1>0. RpcLogTypeOK /\ Bounded(file)
  BY TypedIs
<1>1. ASSUME NEW r \in Records, Schedule(r)
      PROVE  Typed' /\ FileTyped'
  <2>1. FileTyped'
    BY <1>1 DEF Schedule, FileTyped
  <2>2. next' \in 1..(MaxRecords + 1) /\ unwritten' \subseteq 1..MaxRecords
    BY <1>1, Bounds DEF Schedule, Typed
  <2>3. CASE ~auditClosed /\ Len(auditCh) < AuditCap
    <3>1. auditCh' = Append(auditCh, r) /\ handing' = handing
      BY <1>1, <2>3 DEF Schedule
    <3>2. /\ auditCh \in Seq(Records) /\ Append(auditCh, r) \in Seq(Records)
          /\ Len(Append(auditCh, r)) = Len(auditCh) + 1 /\ Len(auditCh) \in Nat
      BY <1>1, AppendFacts, AppendProperties DEF Typed
    <3>3. AuditCap \in Nat
      BY RpcLogAssumption
    <3>4. auditCh' \in Seq(Records) /\ Len(auditCh') <= AuditCap
      BY <2>3, <3>1, <3>2, <3>3
    <3> QED
      BY <1>1, <2>1, <2>2, <3>1, <3>4 DEF Schedule, Typed
  <2>4. CASE ~(~auditClosed /\ Len(auditCh) < AuditCap)
    <3>1. handing' = <<r>> /\ auditCh' = auditCh
      BY <1>1, <2>4 DEF Schedule
    <3> QED
      BY <1>1, <2>1, <2>2, <3>1, NoneOrOne DEF Schedule, Typed
  <2> QED
    BY <2>3, <2>4
<1>2. ASSUME HandlerAppends
      PROVE  Typed' /\ FileTyped'
  <2>1. handing[1] \in Records /\ AppendRPC(handing[1])
    BY <1>2, TakenTyped DEF HandlerAppends, Typed
  <2>2. FileTyped' /\ unwritten' \subseteq unwritten
    BY <1>0, <2>1, AppendRPCTyped DEF FileTyped
  <2> QED
    BY <1>2, <2>2, NoneOrOne DEF HandlerAppends, Typed
<1>3. ASSUME WriterTakes
      PROVE  Typed' /\ FileTyped'
  <2>1. FileTyped'
    BY <1>3 DEF WriterTakes, FileTyped
  <2>2. auditCh \in Seq(Records) /\ auditCh # <<>> /\ Len(auditCh) <= AuditCap
    BY <1>3 DEF WriterTakes, Typed
  <2>3. /\ Head(auditCh) \in Records /\ Tail(auditCh) \in Seq(Records)
        /\ Len(Tail(auditCh)) = Len(auditCh) - 1 /\ Len(auditCh) \in Nat
    BY <2>2
  <2>4. AuditCap \in Nat
    BY RpcLogAssumption
  <2>5. Len(Tail(auditCh)) <= AuditCap
    BY <2>2, <2>3, <2>4
  <2> QED
    BY <1>3, <2>1, <2>3, <2>5, NoneOrOne DEF WriterTakes, Typed
<1>4. ASSUME WriterAppends
      PROVE  Typed' /\ FileTyped'
  <2>1. writing[1] \in Records /\ AppendRPC(writing[1])
    BY <1>4, TakenTyped DEF WriterAppends, Typed
  <2>2. FileTyped' /\ unwritten' \subseteq unwritten
    BY <1>0, <2>1, AppendRPCTyped DEF FileTyped
  <2> QED
    BY <1>4, <2>2, NoneOrOne DEF WriterAppends, Typed
<1>5. ASSUME CloseChannel \/ CloseStore \/ UNCHANGED rpcVars
      PROVE  Typed' /\ FileTyped'
  BY <1>5 DEF CloseChannel, CloseStore, rpcVars, memoryVars, Typed, FileTyped
<1>6. Stop => Typed' /\ managed' \in Maps
  <2> SUFFICES ASSUME Stop PROVE Typed' /\ managed' \in Maps
    OBVIOUS
  <2>1. <<>> \in Seq(Records) /\ Len(<<>>) <= AuditCap
    <3>1. AuditCap \in Nat
      BY RpcLogAssumption
    <3> QED
      BY <3>1
  <2> QED
    BY <2>1, NoTabsTyped, NoneOrOne DEF Stop, Typed
<1>7. ASSUME Crash
      PROVE  Typed' /\ FileTyped'
  BY <1>6, <1>7 DEF Crash, FileTyped
<1>8. ASSUME NEW r \in Records, CrashInAppend(r)
      PROVE  Typed' /\ FileTyped'
  <2>1. PICK tear \in Tears :
            /\ file' = IF tear = "in rotation" THEN <<>> ELSE Written(file, Torn(r, tear))
            /\ durable' = IF tear = "partial" THEN durable ELSE Update(durable, r)
    BY <1>8 DEF CrashInAppend
  <2>2. durable' \in Maps
    BY <2>1, UpdateTyped DEF FileTyped
  <2> DEFINE f == Written(file, Torn(r, tear))
  <2>3. f \in Seq(Lines) /\ f # <<>> /\ ~f[Len(f)].ended /\ Len(f) <= Longest + 1
    BY LineTyped, WrittenTyped DEF FileTyped
  <2> HIDE DEF f
  <2>4. Bounded(f)
    BY <2>3, LongestFacts DEF Bounded
  <2>5. <<>> \in Seq(Lines) /\ Bounded(<<>>)
    BY LongestFacts DEF Bounded
  <2>6. file' \in Seq(Lines) /\ Bounded(file')
    BY <2>1, <2>3, <2>4, <2>5 DEF f
  <2> QED
    BY <1>6, <1>8, <2>2, <2>6 DEF CrashInAppend, FileTyped
<1>9. ASSUME Open
      PROVE  Typed' /\ FileTyped'
  <2> DEFINE f == Kept(file)
  <2>1. f \in Seq(Lines) /\ Bounded(f)
    BY KeptTyped DEF FileTyped
  <2>2. Recovered \in Maps
    <3>1. Recovered = Replayed(Recs(f))
      BY DEF Recovered, Recs
    <3> QED
      BY <2>1, <3>1, RecsTyped, ReplayedTyped
  <2>3. file' = f /\ managed' = Recovered /\ durable' = durable
    BY <1>9 DEF Open
  <2> HIDE DEF f
  <2>4. FileTyped'
    BY <2>1, <2>2, <2>3 DEF FileTyped
  <2> QED
    BY <1>9, <2>4 DEF Open, Typed
<1>10. ASSUME NEW q \in AtMostOne, NEW n \in DOMAIN q
       PROVE  q[n] \in Records
  BY <1>10 DEF AtMostOne
<1> QED
  BY <1>1, <1>2, <1>3, <1>4, <1>5, <1>7, <1>8, <1>9, <1>10
  DEF RpcLogNext, WriterStep, Typed

\* A closed store, and a daemon that is down, owe the log nothing.
Owed ==
    /\ storeOpen => up
    /\ ~storeOpen => unwritten = {}
    /\ unwritten \subseteq Pending

LEMMA OwedStep ==
  ASSUME Typed, FileTyped, Owed, [RpcLogNext]_rpcVars
  PROVE  Owed'
<1> DEFINE P == Times(auditCh) \cup Times(writing) \cup Times(handing)
<1>0. Pending = P /\ Pending' = P'
  BY PendingIs DEF Pending, InFlight, Elements, Times
<1>1. ASSUME NEW r \in Records, Schedule(r)
      PROVE  Owed'
  <2>1. unwritten' \subseteq unwritten \cup {r.time} /\ (~storeOpen => unwritten' = unwritten)
    BY <1>1 DEF Schedule
  <2>2. storeOpen' = storeOpen /\ up' = up /\ writing' = writing
    BY <1>1 DEF Schedule
  <2>3. handing = <<>>
    BY <1>1 DEF Schedule
  <2>4. CASE auditCh' = Append(auditCh, r) /\ handing' = handing
    <3>1. Times(auditCh') = Times(auditCh) \cup {r.time}
      BY <2>4, TimesAppend DEF Typed
    <3> QED
      BY <1>0, <2>1, <2>2, <2>4, <3>1 DEF Owed
  <2>5. CASE auditCh' = auditCh /\ handing' = <<r>>
    <3>1. Times(handing') = {r.time} /\ Times(handing) = {}
      BY <2>3, <2>5, OneTime, NoTimes
    <3> QED
      BY <1>0, <2>1, <2>2, <2>5, <3>1 DEF Owed
  <2>6. \/ auditCh' = Append(auditCh, r) /\ handing' = handing
        \/ auditCh' = auditCh /\ handing' = <<r>>
    BY <1>1 DEF Schedule
  <2> QED
    BY <2>4, <2>5, <2>6
<1>2. ASSUME HandlerAppends
      PROVE  Owed'
  <2>1. handing[1] \in Records /\ handing = <<handing[1]>> /\ AppendRPC(handing[1])
    BY <1>2, TakenTyped DEF HandlerAppends, Typed
  <2>2. /\ storeOpen => unwritten' = unwritten \ {handing[1].time}
        /\ ~storeOpen => unwritten' = unwritten
    BY <2>1 DEF AppendRPC
  <2>3. Times(handing) = {handing[1].time} /\ Times(handing') = {}
    BY <1>2, <2>1, OneTime, NoTimes DEF HandlerAppends
  <2> QED
    BY <1>0, <1>2, <2>2, <2>3 DEF HandlerAppends, Owed
<1>3. ASSUME WriterTakes
      PROVE  Owed'
  <2>1. auditCh \in Seq(Records) /\ auditCh # <<>> /\ writing = <<>>
    BY <1>3 DEF WriterTakes, Typed
  <2>2. Times(auditCh) = {Head(auditCh).time} \cup Times(Tail(auditCh))
    BY <2>1, TimesTail
  <2>3. auditCh' = Tail(auditCh) /\ writing' = <<Head(auditCh)>>
    BY <1>3 DEF WriterTakes
  <2>4. Times(writing) = {} /\ Times(writing') = {Head(auditCh).time}
    BY <2>1, <2>3, OneTime, NoTimes
  <2>5. P' = P
    BY <1>3, <2>2, <2>3, <2>4 DEF WriterTakes
  <2> QED
    BY <1>0, <1>3, <2>5 DEF WriterTakes, Owed
<1>4. ASSUME WriterAppends
      PROVE  Owed'
  <2>1. writing[1] \in Records /\ writing = <<writing[1]>> /\ AppendRPC(writing[1])
    BY <1>4, TakenTyped DEF WriterAppends, Typed
  <2>2. /\ storeOpen => unwritten' = unwritten \ {writing[1].time}
        /\ ~storeOpen => unwritten' = unwritten
    BY <2>1 DEF AppendRPC
  <2>3. Times(writing) = {writing[1].time} /\ Times(writing') = {}
    BY <1>4, <2>1, OneTime, NoTimes DEF WriterAppends
  <2> QED
    BY <1>0, <1>4, <2>2, <2>3 DEF WriterAppends, Owed
<1>5. ASSUME CloseStore
      PROVE  Owed'
  <2>1. P = {}
    BY <1>5, NoTimes DEF CloseStore
  <2>2. unwritten' = {} /\ ~storeOpen'
    BY <1>0, <1>5, <2>1 DEF CloseStore, Owed
  <2> QED
    BY <2>2 DEF Owed
<1>6. ASSUME CloseChannel \/ UNCHANGED rpcVars
      PROVE  Owed'
  BY <1>6 DEF CloseChannel, rpcVars, memoryVars, Owed, Pending, InFlight, Elements
<1>7. ASSUME Stop
      PROVE  Owed'
  BY <1>7 DEF Stop, Owed
<1>8. ASSUME Open
      PROVE  Owed'
  BY <1>8 DEF Open, Owed, Pending, InFlight, Elements
<1> QED
  BY <1>1, <1>2, <1>3, <1>4, <1>5, <1>6, <1>7, <1>8
  DEF RpcLogNext, WriterStep, Crash, CrashInAppend

LEMMA LogStart ==
  ASSUME RpcLogInit
  PROVE  Typed /\ FileTyped /\ Owed
<1>1. 0 <= Longest /\ Len(<<>>) = 0 /\ <<>> \in Seq(Lines) /\ <<>> \in Seq(Records)
  BY LongestFacts
<1>2. AuditCap \in Nat
  BY RpcLogAssumption
<1>3. 1 \in 1..(MaxRecords + 1)
  BY Bounds
<1>4. Bounded(<<>>)
  BY <1>1 DEF Bounded
<1>5. Typed
  <2>1. Len(<<>>) <= AuditCap
    BY <1>2
  <2> QED
    BY <1>1, <1>3, <2>1, NoneOrOne DEF RpcLogInit, Typed
<1>6. FileTyped
  BY <1>1, <1>4, NoTabsTyped DEF RpcLogInit, FileTyped
<1> QED
  BY <1>5, <1>6 DEF RpcLogInit, Owed

LEMMA LogInvariant == RpcLogSpec => [](Typed /\ FileTyped /\ Owed)
<1>1. RpcLogInit => Typed /\ FileTyped /\ Owed
  BY LogStart
<1>2. Typed /\ FileTyped /\ Owed /\ [RpcLogNext]_rpcVars => (Typed /\ FileTyped /\ Owed)'
  BY LogTypedStep, OwedStep
<1> QED
  BY <1>1, <1>2, PTL DEF RpcLogSpec

\* The state of the audit pipeline and of the store has its type; in particular the
\* channel never holds more than its capacity, and rpc.jsonl never has more lines than
\* the rotation threshold and the longest snapshot allow, however crashes tear it.
THEOREM RpcLogTyped == RpcLogSpec => []RpcLogTypeOK
<1>1. Typed /\ FileTyped /\ Owed => RpcLogTypeOK
  BY TypedIs
<1> QED
  BY <1>1, LogInvariant, PTL

\* enqueueAudit and closeAudit lose no record: what was scheduled before the store closed
\* is in the log, or somebody still holds it while the file is open.
THEOREM NothingLost == RpcLogSpec => []NothingDropped
<1>1. Typed /\ FileTyped /\ Owed => NothingDropped
  BY DEF Owed, NothingDropped
<1> QED
  BY <1>1, LogInvariant, PTL

-----------------------------------------------------------------------------
(***************************************************************************)
(* The log says what the memory says, when a crash tears an append in the  *)
(* middle of its line.                                                     *)
(***************************************************************************)
\* The lines a restart would keep are whole, and a running daemon's file has no others.
FileWhole ==
    /\ AllWhole(Kept(file))
    /\ up => AllWhole(file)
Faithful == FileWhole /\ RecoveryComplete /\ MemoryMatchesLog

LEMMA RecoveredIs == Recovered = Replayed(Recs(Kept(file)))
BY DEF Recovered, Recs

LEMMA AppendRPCFaithful ==
  ASSUME Typed, FileTyped, Owed, Faithful, NEW r \in Records, AppendRPC(r), up' = up,
         storeOpen' = storeOpen
  PROVE  Faithful'
<1>1. CASE ~storeOpen
  BY <1>1 DEF AppendRPC, Faithful, FileWhole, RecoveryComplete, MemoryMatchesLog, Recovered
<1>2. CASE storeOpen
  <2> DEFINE f == Written(file, Line(r))
  <2>1. up /\ AllWhole(file) /\ file \in Seq(Lines) /\ Kept(file) = file
    BY <1>2, KeptOfWhole DEF Owed, Faithful, FileWhole, FileTyped
  <2>2. Line(r) \in Lines /\ Line(r).rec = r /\ Line(r).valid /\ Line(r).ended
    BY LineTyped
  <2>3. managed = durable /\ durable = Replayed(Recs(file)) /\ managed \in Maps
    BY <1>2, <2>1, RecoveredIs
    DEF Faithful, RecoveryComplete, MemoryMatchesLog, FileTyped
  <2>4. managed' = Update(managed, r) /\ durable' = Update(durable, r) /\ managed' \in Maps
    BY <1>2, <2>3, UpdateTyped DEF AppendRPC
  <2>5. f = Append(file, Line(r))
    BY <2>1, <2>2, WrittenToWhole
  <2>6. IF Len(f) >= MaxLines THEN file' \in Snapshot(managed') ELSE file' = f
    BY <1>2 DEF AppendRPC
  <2>7. AllWhole(f) /\ Replayed(Recs(f)) = Update(managed, r)
    <3>1. Recs(f) = Append(Recs(file), r)
      BY <2>1, <2>2, <2>5, RecsAppend
    <3>2. Replayed(Recs(f)) = Update(Replayed(Recs(file)), r)
      BY <2>1, <3>1, RecsTyped, ReplayedAppend
    <3>3. /\ Len(f) = Len(file) + 1 /\ f[Len(file) + 1] = Line(r)
          /\ \A n \in 1..Len(file) : f[n] = file[n]
          /\ Len(file) \in Nat
      BY <2>1, <2>2, <2>5, AppendFacts
    <3> HIDE DEF f
    <3>4. AllWhole(f)
      BY <2>1, <2>2, <3>3 DEF AllWhole
    <3> QED
      BY <2>3, <3>2, <3>4
  <2> HIDE DEF f
  <2>8. AllWhole(file') /\ Replayed(Recs(file')) = managed'
    <3>1. CASE Len(f) >= MaxLines
      <4>1. PICK m \in Maps : m = managed'
        BY <2>4
      <4>2. PICK g \in Snapshot(m) : g = file'
        BY <2>6, <3>1, <4>1
      <4>3. AllWhole(g) /\ Replayed(Recs(g)) = m
        BY SnapshotFacts
      <4> QED
        BY <4>1, <4>2, <4>3
    <3>2. CASE ~(Len(f) >= MaxLines)
      BY <2>4, <2>6, <2>7, <3>2
    <3> QED
      BY <3>1, <3>2
  <2>9. Kept(file') = file' /\ Recovered' = Replayed(Recs(file'))
    <3>1. PICK g : g = file'
      OBVIOUS
    <3>2. Kept(g) = g
      BY <2>8, <3>1, KeptOfWhole
    <3>3. Recovered' = Replayed(Recs(Kept(file')))
      BY DEF Recovered, Recs
    <3> QED
      BY <3>1, <3>2, <3>3
  <2> QED
    BY <2>3, <2>4, <2>8, <2>9
    DEF Faithful, FileWhole, RecoveryComplete, MemoryMatchesLog
<1> QED
  BY <1>1, <1>2

LEMMA FaithfulStep ==
  ASSUME Tears \subseteq {"partial"}, Typed, FileTyped, Owed, Faithful,
         [RpcLogNext]_rpcVars
  PROVE  Faithful'
<1>1. ASSUME HandlerAppends \/ WriterAppends
      PROVE  Faithful'
  <2>1. PICK r \in Records : AppendRPC(r)
    BY <1>1, TakenTyped DEF HandlerAppends, WriterAppends, Typed
  <2> QED
    BY <1>1, <2>1, AppendRPCFaithful DEF HandlerAppends, WriterAppends
<1>2. ASSUME NEW r \in Records, Schedule(r)
      PROVE  Faithful'
  BY <1>2
  DEF Schedule, Faithful, FileWhole, RecoveryComplete, MemoryMatchesLog, Recovered
<1>3. ASSUME WriterTakes \/ CloseChannel \/ CloseStore \/ UNCHANGED rpcVars
      PROVE  Faithful'
  BY <1>3
  DEF WriterTakes, CloseChannel, CloseStore, rpcVars, memoryVars, Faithful, FileWhole,
      RecoveryComplete, MemoryMatchesLog, Recovered
<1>4. ASSUME Crash
      PROVE  Faithful'
  BY <1>4
  DEF Crash, Stop, Faithful, FileWhole, RecoveryComplete, MemoryMatchesLog, Recovered
<1>5. ASSUME NEW r \in Records, CrashInAppend(r)
      PROVE  Faithful'
  <2>1. PICK tear \in Tears :
            /\ file' = IF tear = "in rotation" THEN <<>> ELSE Written(file, Torn(r, tear))
            /\ durable' = IF tear = "partial" THEN durable ELSE Update(durable, r)
    BY <1>5 DEF CrashInAppend
  <2>2. tear = "partial" /\ file' = Written(file, Torn(r, tear)) /\ durable' = durable
    BY <2>1
  <2>3. AllWhole(file) /\ file \in Seq(Lines) /\ Kept(file) = file
    BY <1>5, KeptOfWhole DEF CrashInAppend, Owed, Faithful, FileWhole, FileTyped
  <2>4. Torn(r, tear) \in Lines /\ ~Torn(r, tear).valid
    BY <2>2, LineTyped
  <2>5. file' = Append(file, Torn(r, tear))
    BY <2>2, <2>3, <2>4, WrittenToWhole
  <2>6. Kept(file') = file
    BY <2>3, <2>4, <2>5, KeptOfTorn
  <2>7. Recovered' = Recovered
    BY <2>3, <2>6 DEF Recovered
  <2> QED
    BY <1>5, <2>2, <2>3, <2>6, <2>7
    DEF CrashInAppend, Stop, Faithful, FileWhole, RecoveryComplete, MemoryMatchesLog
<1>6. ASSUME Open
      PROVE  Faithful'
  <2>1. file' = Kept(file) /\ managed' = Recovered /\ durable' = durable /\ AllWhole(file')
    BY <1>6 DEF Open, Faithful, FileWhole
  <2>2. Kept(file') = file'
    <3>1. PICK g : g = file'
      OBVIOUS
    <3>2. Kept(g) = g
      BY <2>1, <3>1, KeptOfWhole
    <3> QED
      BY <3>1, <3>2
  <2>3. Recovered' = Recovered
    BY <2>1, <2>2 DEF Recovered
  <2> QED
    BY <2>1, <2>2, <2>3 DEF Faithful, FileWhole, RecoveryComplete, MemoryMatchesLog
<1>7. ASSUME NEW q \in AtMostOne, NEW n \in DOMAIN q
      PROVE  q[n] \in Records
  BY <1>7 DEF AtMostOne
<1> QED
  BY <1>1, <1>2, <1>3, <1>4, <1>5, <1>6, <1>7 DEF RpcLogNext, WriterStep, Typed

LEMMA FaithfulInvariant ==
  ASSUME Tears \subseteq {"partial"}
  PROVE  RpcLogSpec => []Faithful
<1>1. RpcLogInit => Faithful
  <2> SUFFICES ASSUME RpcLogInit PROVE Faithful
    OBVIOUS
  <2>1. AllWhole(<<>>)
    BY DEF AllWhole
  <2>2. Kept(<<>>) = <<>> /\ Recs(<<>>) = <<>>
    BY <2>1, KeptOfWhole DEF Recs
  <2>3. Recovered = NoTabs
    BY <2>2, RecoveredIs, ReplayedEmpty DEF RpcLogInit
  <2> QED
    BY <2>1, <2>2, <2>3
    DEF RpcLogInit, Faithful, FileWhole, RecoveryComplete, MemoryMatchesLog
<1>2. Typed /\ FileTyped /\ Owed /\ Faithful /\ [RpcLogNext]_rpcVars => Faithful'
  BY FaithfulStep
<1> QED
  BY <1>1, <1>2, LogInvariant, PTL DEF RpcLogSpec

\* Whatever appends, rotations, crashes in the middle of a line and restarts follow on
\* each other, replayLog finds in rpc.jsonl the map that all records ever written add up
\* to.
THEOREM LogIsComplete ==
  ASSUME Tears \subseteq {"partial"}
  PROVE  RpcLogSpec => []RecoveryComplete
<1>1. Faithful => RecoveryComplete
  BY DEF Faithful
<1> QED
  BY <1>1, FaithfulInvariant, PTL

\* While the store is open, Store.managed is the map a restart would rebuild.
THEOREM MemoryIsLogged ==
  ASSUME Tears \subseteq {"partial"}
  PROVE  RpcLogSpec => []MemoryMatchesLog
<1>1. Faithful => MemoryMatchesLog
  BY DEF Faithful
<1> QED
  BY <1>1, FaithfulInvariant, PTL

-----------------------------------------------------------------------------
(***************************************************************************)
(* RpcLog implements DurableLog.                                           *)
(***************************************************************************)
\* Records are numbered in the order they were scheduled, and each is in one hand: the
\* writer's, before those in the channel, before a handler's.
Increasing(q) == \A m, n \in 1..Len(q) : m < n => q[m].time < q[n].time
OneHand ==
    /\ Increasing(auditCh)
    /\ \A a \in Elements(writing), b \in Elements(auditCh) : a.time < b.time
    /\ \A a \in Elements(writing) \cup Elements(auditCh), b \in Elements(handing) :
          a.time < b.time
    /\ \A a \in InFlight : a.time < next
    /\ storeOpen => \A a \in InFlight : a.time \in unwritten
    /\ ~up => InFlight = {}

LEMMA NoElements == Elements(<<>>) = {}
BY DEF Elements

LEMMA OneElement ==
  ASSUME NEW r
  PROVE  Elements(<<r>>) = {r}
BY DEF Elements

LEMMA ElementsAppend ==
  ASSUME NEW q \in Seq(Records), NEW r \in Records
  PROVE  /\ Elements(Append(q, r)) = Elements(q) \cup {r}
         /\ Increasing(q) /\ (\A a \in Elements(q) : a.time < r.time) =>
               Increasing(Append(q, r))
<1> DEFINE e == Append(q, r)
<1>1. /\ Len(e) = Len(q) + 1 /\ e[Len(q) + 1] = r
      /\ \A n \in 1..Len(q) : e[n] = q[n]
      /\ Len(q) \in Nat
  BY AppendFacts
<1> HIDE DEF e
<1>2. Elements(e) = Elements(q) \cup {r}
  BY <1>1 DEF Elements
<1>3. ASSUME Increasing(q), \A a \in Elements(q) : a.time < r.time,
             NEW m \in 1..Len(e), NEW n \in 1..Len(e), m < n
      PROVE  e[m].time < e[n].time
  <2>1. m \in 1..Len(q) /\ e[m] = q[m] /\ q[m] \in Elements(q)
    BY <1>1, <1>3 DEF Elements
  <2>2. CASE n = Len(q) + 1
    BY <1>1, <1>3, <2>1, <2>2
  <2>3. CASE n # Len(q) + 1
    BY <1>1, <1>3, <2>1, <2>3 DEF Increasing
  <2> QED
    BY <2>2, <2>3
<1> QED
  BY <1>2, <1>3 DEF e, Increasing

LEMMA ElementsTail ==
  ASSUME NEW q \in Seq(Records), q # <<>>
  PROVE  /\ Elements(q) = {Head(q)} \cup Elements(Tail(q))
         /\ Increasing(q) => /\ Increasing(Tail(q))
                             /\ \A b \in Elements(Tail(q)) : Head(q).time < b.time
<1> DEFINE t == Tail(q)
           h == Head(q)
<1>1. Len(q) \in Nat /\ Len(q) # 0 /\ Len(t) = Len(q) - 1 /\ h = q[1]
  OBVIOUS
<1>2. \A n \in 1..(Len(q) - 1) : t[n] = q[n + 1]
  OBVIOUS
<1> HIDE DEF t, h
<1>3. Elements(q) \subseteq {h} \cup Elements(t)
  <2> SUFFICES ASSUME NEW n \in 1..Len(q), n # 1
               PROVE  q[n] \in Elements(t)
    BY <1>1 DEF Elements
  <2>1. n - 1 \in 1..Len(t) /\ t[n - 1] = q[n]
    BY <1>1, <1>2
  <2> QED
    BY <2>1 DEF Elements
<1>4. \A n \in 1..Len(t) : n + 1 \in 1..Len(q) /\ t[n] = q[n + 1]
  BY <1>1, <1>2
<1>5. 1 \in 1..Len(q)
  BY <1>1
<1>6. {h} \cup Elements(t) \subseteq Elements(q)
  BY <1>1, <1>4, <1>5 DEF Elements
<1>7. ASSUME Increasing(q)
      PROVE  Increasing(t) /\ \A b \in Elements(t) : h.time < b.time
  <2>1. \A m, n \in 1..Len(t) : m < n => t[m].time < t[n].time
    BY <1>1, <1>4, <1>7 DEF Increasing
  <2>2. \A n \in 1..Len(t) : h.time < t[n].time
    <3> SUFFICES ASSUME NEW n \in 1..Len(t) PROVE h.time < t[n].time
      OBVIOUS
    <3>1. n + 1 \in 1..Len(q) /\ 1 < n + 1 /\ t[n] = q[n + 1]
      BY <1>1, <1>4
    <3> QED
      BY <1>1, <1>5, <1>7, <3>1 DEF Increasing
  <2> QED
    BY <2>1, <2>2 DEF Increasing, Elements
<1> QED
  BY <1>3, <1>6, <1>7 DEF t, h

\* What is in flight is records.
LEMMA InFlightTyped ==
  ASSUME Typed
  PROVE  /\ InFlight \subseteq Records
         /\ \A r \in Records : r.time \in Nat
<1>1. \A n \in 1..Len(auditCh) : auditCh[n] \in Records
  BY DEF Typed
<1>2. ASSUME NEW q \in AtMostOne
      PROVE  Elements(q) \subseteq Records
  BY NoElements, OneElement DEF AtMostOne
<1>3. \A r \in Records : r.time \in Nat
  BY DEF Records
<1> QED
  BY <1>1, <1>2, <1>3 DEF InFlight, Elements, Typed

\* No two records in flight have the same number.
LEMMA NumbersDiffer ==
  ASSUME Typed, OneHand, NEW a \in InFlight, NEW b \in InFlight, a.time = b.time
  PROVE  a = b
<1>1. a.time \in Nat /\ b.time \in Nat /\ ~(a.time < b.time) /\ ~(b.time < a.time)
  BY InFlightTyped
<1>2. CASE a \in Elements(auditCh) /\ b \in Elements(auditCh)
  <2>1. PICK m \in 1..Len(auditCh) : a = auditCh[m]
    BY <1>2 DEF Elements
  <2>2. PICK n \in 1..Len(auditCh) : b = auditCh[n]
    BY <1>2 DEF Elements
  <2>3. m = n \/ m < n \/ n < m
    OBVIOUS
  <2> QED
    BY <1>1, <2>1, <2>2, <2>3 DEF OneHand, Increasing
<1>3. \A q \in AtMostOne : \A c, d \in Elements(q) : c = d
  BY NoElements, OneElement DEF AtMostOne
<1> QED
  BY <1>1, <1>2, <1>3 DEF OneHand, InFlight, Typed

LEMMA OneHandStep ==
  ASSUME Typed, Owed, OneHand, [RpcLogNext]_rpcVars
  PROVE  OneHand'
<1>0. next \in Nat /\ \A r \in Records : r.time \in Nat
  BY InFlightTyped DEF Typed
<1>1. ASSUME NEW r \in Records, Schedule(r)
      PROVE  OneHand'
  <2>1. /\ r.time = next /\ next' = next + 1 /\ handing = <<>>
        /\ writing' = writing /\ storeOpen' = storeOpen /\ up /\ up' = up
        /\ storeOpen => unwritten' = unwritten \cup {r.time}
    BY <1>1 DEF Schedule
  <2>2. \A a \in InFlight : a.time < r.time
    BY <2>1 DEF OneHand
  <2>3. CASE auditCh' = Append(auditCh, r) /\ handing' = handing
    <3>1. Elements(auditCh') = Elements(auditCh) \cup {r} /\ Increasing(auditCh')
      BY <2>2, <2>3, ElementsAppend DEF Typed, OneHand, InFlight
    <3>2. Elements(handing') = {}
      BY <2>1, <2>3, NoElements
    <3> QED
      BY <1>0, <2>1, <2>2, <3>1, <3>2, InFlightTyped DEF OneHand, InFlight
  <2>4. CASE auditCh' = auditCh /\ handing' = <<r>>
    <3>1. Elements(handing') = {r}
      BY <2>4, OneElement
    <3> QED
      BY <1>0, <2>1, <2>2, <2>4, <3>1, InFlightTyped DEF OneHand, InFlight
  <2>5. \/ auditCh' = Append(auditCh, r) /\ handing' = handing
        \/ auditCh' = auditCh /\ handing' = <<r>>
    BY <1>1 DEF Schedule
  <2> QED
    BY <2>3, <2>4, <2>5
<1>2. ASSUME HandlerAppends
      PROVE  OneHand'
  <2>1. handing[1] \in Records /\ handing = <<handing[1]>> /\ AppendRPC(handing[1])
    BY <1>2, TakenTyped DEF HandlerAppends, Typed
  <2>2. Elements(handing) = {handing[1]} /\ Elements(handing') = {}
    BY <1>2, <2>1, OneElement, NoElements DEF HandlerAppends
  <2>3. storeOpen => unwritten' = unwritten \ {handing[1].time}
    BY <2>1 DEF AppendRPC
  <2>4. \A a \in Elements(writing) \cup Elements(auditCh) : a.time # handing[1].time
    BY <1>0, <2>1, <2>2, InFlightTyped DEF OneHand, InFlight
  <2> QED
    BY <1>2, <2>2, <2>3, <2>4 DEF HandlerAppends, OneHand, InFlight
<1>3. ASSUME WriterTakes
      PROVE  OneHand'
  <2>1. auditCh \in Seq(Records) /\ auditCh # <<>> /\ writing = <<>>
        /\ auditCh' = Tail(auditCh) /\ writing' = <<Head(auditCh)>>
    BY <1>3 DEF WriterTakes, Typed
  <2>2. /\ Elements(auditCh) = {Head(auditCh)} \cup Elements(auditCh')
        /\ Increasing(auditCh')
        /\ \A b \in Elements(auditCh') : Head(auditCh).time < b.time
    BY <2>1, ElementsTail DEF OneHand
  <2>3. Elements(writing) = {} /\ Elements(writing') = {Head(auditCh)}
    BY <2>1, OneElement, NoElements
  <2> QED
    BY <1>3, <2>2, <2>3 DEF WriterTakes, OneHand, InFlight
<1>4. ASSUME WriterAppends
      PROVE  OneHand'
  <2>1. writing[1] \in Records /\ writing = <<writing[1]>> /\ AppendRPC(writing[1])
    BY <1>4, TakenTyped DEF WriterAppends, Typed
  <2>2. Elements(writing) = {writing[1]} /\ Elements(writing') = {}
    BY <1>4, <2>1, OneElement, NoElements DEF WriterAppends
  <2>3. storeOpen => unwritten' = unwritten \ {writing[1].time}
    BY <2>1 DEF AppendRPC
  <2>4. \A a \in Elements(handing) \cup Elements(auditCh) : a.time # writing[1].time
    BY <1>0, <2>1, <2>2, InFlightTyped DEF OneHand, InFlight
  <2> QED
    BY <1>4, <2>2, <2>3, <2>4 DEF WriterAppends, OneHand, InFlight
<1>5. ASSUME Stop
      PROVE  OneHand'
  BY <1>5, NoElements DEF Stop, OneHand, InFlight, Increasing
<1>6. ASSUME UNCHANGED <<auditCh, writing, handing, next, unwritten>>,
             up' = up \/ InFlight = {}, storeOpen' => storeOpen \/ InFlight = {}
      PROVE  OneHand'
  <2>1. InFlight' = InFlight /\ Increasing(auditCh')
    BY <1>6 DEF OneHand, InFlight, Elements
  <2> QED
    BY <1>6, <2>1 DEF OneHand
<1>7. ASSUME CloseChannel \/ CloseStore \/ Open \/ UNCHANGED rpcVars
      PROVE  OneHand'
  BY <1>6, <1>7 DEF CloseChannel, CloseStore, Open, rpcVars, memoryVars, OneHand
<1> QED
  BY <1>1, <1>2, <1>3, <1>4, <1>5, <1>6, <1>7
  DEF RpcLogNext, WriterStep, Crash, CrashInAppend

\* The steps of RpcLog, as steps of DurableLog.
LEMMA SameRecords ==
    /\ Durable!Records = Records /\ Durable!NoTabs = NoTabs
    /\ \A m, r : Durable!Update(m, r) = Update(m, r)
BY DEF Durable!Records, Durable!Actions, Durable!NoTabs, Durable!Update, Records, Actions,
       NoTabs, Update

Accepted == {r \in InFlight : r.time \in unwritten}
StoreIs == IF storeOpen THEN "open" ELSE IF up THEN "closed" ELSE "down"

LEMMA ScheduleIsAccept ==
  ASSUME Typed, Owed, OneHand, NEW r \in Records, Schedule(r)
  PROVE  Durable!Accept(r) \/ Durable!Refuse
<1>1. /\ r.time = next /\ next' = next + 1 /\ up /\ up' = up /\ handing = <<>>
      /\ storeOpen' = storeOpen /\ Recovered' = Recovered /\ writing' = writing
      /\ unwritten' = IF storeOpen THEN unwritten \cup {r.time} ELSE unwritten
  BY DEF Schedule, Recovered
<1>2. InFlight' = InFlight \cup {r}
  <2>1. CASE auditCh' = Append(auditCh, r) /\ handing' = handing
    BY <1>1, <2>1, ElementsAppend DEF Typed, InFlight, Elements
  <2>2. CASE auditCh' = auditCh /\ handing' = <<r>>
    <3>1. Elements(handing') = {r} /\ Elements(handing) = {}
      BY <1>1, <2>2, OneElement, NoElements
    <3> QED
      BY <1>1, <2>2, <3>1 DEF InFlight, Elements
  <2>3. \/ auditCh' = Append(auditCh, r) /\ handing' = handing
        \/ auditCh' = auditCh /\ handing' = <<r>>
    BY DEF Schedule
  <2> QED
    BY <2>1, <2>2, <2>3
<1>3. \A a \in InFlight : a.time # r.time
  BY <1>1, InFlightTyped DEF OneHand, Typed
<1>4. CASE storeOpen
  <2>1. Accepted' = Accepted \cup {r}
    BY <1>1, <1>2, <1>3, <1>4 DEF Accepted
  <2> QED
    BY <1>1, <1>4, <2>1 DEF Durable!Accept, Accepted
<1>5. CASE ~storeOpen
  <2>1. Accepted = {} /\ Accepted' = {}
    BY <1>1, <1>5 DEF Accepted, Owed
  <2> QED
    BY <1>1, <1>5, <2>1 DEF Durable!Refuse, Accepted
<1> QED
  BY <1>4, <1>5

LEMMA AppendIsWrite ==
  ASSUME Typed, Owed, OneHand, Faithful, Faithful', NEW r \in InFlight, r \in Records,
         AppendRPC(r), InFlight' = InFlight \ {r}, UNCHANGED <<storeOpen, up, next>>
  PROVE  Durable!Write(r) \/ UNCHANGED <<Recovered, Accepted, next, StoreIs>>
<1>1. CASE storeOpen
  <2>1. Recovered' = Update(Recovered, r)
    BY <1>1 DEF AppendRPC, Faithful, RecoveryComplete
  <2>2. r \in Accepted
    BY <1>1 DEF OneHand, Accepted
  <2>3. unwritten' = unwritten \ {r.time}
    BY <1>1 DEF AppendRPC
  <2>4. Accepted' = Accepted \ {r}
    BY <2>3, NumbersDiffer DEF Accepted
  <2> QED
    BY <1>1, <2>1, <2>2, <2>4, SameRecords DEF Durable!Write, Accepted
<1>2. CASE ~storeOpen
  <2>1. file' = file /\ unwritten' = {} /\ unwritten = {}
    BY <1>2 DEF AppendRPC, Owed
  <2> QED
    BY <2>1 DEF Recovered, Accepted, StoreIs
<1> QED
  BY <1>1, <1>2

LEMMA DurableStep ==
  ASSUME Tears \subseteq {"partial"}, Typed, Owed, OneHand, Faithful, Faithful',
         [RpcLogNext]_rpcVars
  PROVE  Durable!DurableNext \/ UNCHANGED <<Recovered, Accepted, next, StoreIs>>
<1>1. ASSUME NEW r \in Records, Schedule(r)
      PROVE  Durable!DurableNext
  BY <1>1, ScheduleIsAccept, SameRecords DEF Durable!DurableNext
<1>2. ASSUME NEW r \in InFlight, r \in Records, AppendRPC(r), InFlight' = InFlight \ {r},
             UNCHANGED <<storeOpen, up, next>>
      PROVE  Durable!DurableNext \/ UNCHANGED <<Recovered, Accepted, next, StoreIs>>
  BY <1>2, AppendIsWrite, SameRecords DEF Durable!DurableNext
<1>3. ASSUME HandlerAppends
      PROVE  Durable!DurableNext \/ UNCHANGED <<Recovered, Accepted, next, StoreIs>>
  <2>1. handing[1] \in Records /\ handing = <<handing[1]>> /\ AppendRPC(handing[1])
    BY <1>3, TakenTyped DEF HandlerAppends, Typed
  <2>2. Elements(handing) = {handing[1]} /\ Elements(handing') = {}
    BY <1>3, <2>1, OneElement, NoElements DEF HandlerAppends
  <2>3. handing[1] \notin Elements(writing) \cup Elements(auditCh)
    BY <2>1, <2>2, InFlightTyped DEF OneHand
  <2>4. handing[1] \in InFlight /\ InFlight' = InFlight \ {handing[1]}
    BY <1>3, <2>2, <2>3 DEF HandlerAppends, InFlight
  <2> QED
    BY <1>2, <1>3, <2>1, <2>4 DEF HandlerAppends
<1>4. ASSUME WriterAppends
      PROVE  Durable!DurableNext \/ UNCHANGED <<Recovered, Accepted, next, StoreIs>>
  <2>1. writing[1] \in Records /\ writing = <<writing[1]>> /\ AppendRPC(writing[1])
    BY <1>4, TakenTyped DEF WriterAppends, Typed
  <2>2. Elements(writing) = {writing[1]} /\ Elements(writing') = {}
    BY <1>4, <2>1, OneElement, NoElements DEF WriterAppends
  <2>3. writing[1] \notin Elements(handing) \cup Elements(auditCh)
    BY <2>1, <2>2, InFlightTyped DEF OneHand
  <2>4. writing[1] \in InFlight /\ InFlight' = InFlight \ {writing[1]}
    BY <1>4, <2>2, <2>3 DEF WriterAppends, InFlight
  <2> QED
    BY <1>2, <1>4, <2>1, <2>4 DEF WriterAppends
<1>5. ASSUME WriterTakes
      PROVE  UNCHANGED <<Recovered, Accepted, next, StoreIs>>
  <2>1. auditCh \in Seq(Records) /\ auditCh # <<>> /\ writing = <<>>
        /\ auditCh' = Tail(auditCh) /\ writing' = <<Head(auditCh)>>
    BY <1>5 DEF WriterTakes, Typed
  <2>2. Elements(auditCh) = {Head(auditCh)} \cup Elements(auditCh')
    BY <2>1, ElementsTail
  <2>3. Elements(writing) = {} /\ Elements(writing') = {Head(auditCh)}
    BY <2>1, OneElement, NoElements
  <2>4. InFlight' = InFlight
    BY <1>5, <2>2, <2>3 DEF WriterTakes, InFlight
  <2> QED
    BY <1>5, <2>4 DEF WriterTakes, Recovered, Accepted, StoreIs
<1>6. ASSUME CloseChannel \/ UNCHANGED rpcVars
      PROVE  UNCHANGED <<Recovered, Accepted, next, StoreIs>>
  BY <1>6
  DEF CloseChannel, rpcVars, memoryVars, Recovered, Accepted, StoreIs, InFlight, Elements
<1>7. ASSUME CloseStore
      PROVE  Durable!DurableNext
  <2>1. InFlight = {} /\ InFlight' = {}
    BY <1>7, NoElements DEF CloseStore, InFlight
  <2>2. Durable!CloseWhole
    BY <1>7, <2>1 DEF CloseStore, Durable!CloseWhole, Owed, Recovered
  <2> QED
    BY <2>2 DEF Durable!DurableNext
<1>8. ASSUME Stop, up, Recovered' = Recovered
      PROVE  Durable!DurableNext
  <2>1. Durable!Die
    BY <1>8 DEF Stop, Durable!Die
  <2> QED
    BY <2>1 DEF Durable!DurableNext
<1>9. ASSUME NEW r, CrashInAppend(r)
      PROVE  Durable!DurableNext
  <2>1. Stop /\ storeOpen /\ durable' = durable
    BY <1>9 DEF CrashInAppend
  <2>2. up /\ Recovered' = Recovered
    BY <2>1 DEF Owed, Faithful, RecoveryComplete
  <2> QED
    BY <1>8, <2>1, <2>2
<1>10. ASSUME Crash
       PROVE  Durable!DurableNext
  BY <1>8, <1>10 DEF Crash, Recovered
<1>11. ASSUME Open
       PROVE  Durable!DurableNext
  <2>1. Recovered' = Recovered
    BY <1>11 DEF Open, Faithful, RecoveryComplete
  <2>2. ~storeOpen /\ unwritten = {} /\ unwritten' = {}
    BY <1>11 DEF Open, Owed
  <2>3. Durable!Start
    BY <1>11, <2>1, <2>2 DEF Open, Durable!Start
  <2> QED
    BY <2>3 DEF Durable!DurableNext
<1> QED
  BY <1>1, <1>3, <1>4, <1>5, <1>6, <1>7, <1>9, <1>10, <1>11 DEF RpcLogNext, WriterStep

\* Store and audit pipeline together are a durable map: AppendRPC, rotateLocked, replayLog
\* and Open, with the channel, late handlers and the shutdown, do what a store would that
\* applies each record once and at a stroke, if crashes tear no more than part of a line.
THEOREM LogIsDurable ==
  ASSUME Tears \subseteq {"partial"}
  PROVE  RpcLogSpec => ImplementsDurable
<1>1. RpcLogInit => OneHand
  BY NoElements DEF RpcLogInit, OneHand, InFlight, Increasing
<1>2. Typed /\ Owed /\ OneHand /\ [RpcLogNext]_rpcVars => OneHand'
  BY OneHandStep
<1>3. RpcLogInit /\ Faithful => Durable!DurableInit
  BY SameRecords, NoElements
  DEF RpcLogInit, Durable!DurableInit, Faithful, RecoveryComplete, InFlight
<1>4. Typed /\ Owed /\ OneHand /\ Faithful /\ Faithful' /\ [RpcLogNext]_rpcVars
         => [Durable!DurableNext]_Durable!durableVars
  BY DurableStep DEF Durable!durableVars, Accepted, StoreIs
<1> QED
  BY <1>1, <1>2, <1>3, <1>4, LogInvariant, FaithfulInvariant, PTL
  DEF RpcLogSpec, ImplementsDurable, Durable!DurableSpec
=============================================================================
