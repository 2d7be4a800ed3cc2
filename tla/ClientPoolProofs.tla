--------------------------- MODULE ClientPoolProofs ---------------------------
(***************************************************************************)
(* The safety of the pool, for every number of daemons, goroutines, tabs   *)
(* and calls: the loads are exact, the map binds a tab to the daemon that  *)
(* opened it and to no other, and a call that fails on all backends has    *)
(* tried them all.                                                         *)
(***************************************************************************)
EXTENDS ClientPool, TLAPS, FiniteSetTheorems, SequenceTheorems, NaturalsInduction,
        WellFoundedInduction

Bound == {"close", "use"}
CallRecords == [op : Walking \cup Bound \cup {"none"},
                at : Positions,
                tab : TabIDs \cup {<<>>}, todo : Seq(Backends), reply : SUBSET Shorts,
                failed : SUBSET Backends, listed : BOOLEAN]

Elements(s) == {s[i] : i \in 1..Len(s)}
Busy(r) == r.at \in {"sent", "served", "abandon"}
Underway == Positions \ {"rest", "walk"}
Answered == Underway \ {"sent"}

\* What holds of each call: a bound call has one backend, the one its tab names; a walk
\* has still to try every backend that has not failed, until a list is obtained.
CallOK(r) ==
    /\ r \in CallRecords
    /\ Len(r.todo) <= N
    /\ r.op = "none" <=> r.at = "rest"
    /\ r.at \in {"bound", "undone", "abandon"} => r.op = "create"
    /\ r.at \in Underway => r.todo # <<>>
    /\ r.op \in Bound => r.tab \in TabIDs /\ r.todo = <<r.tab[1]>>
    /\ r.op \in Walking => r.listed \/ r.failed \cup Elements(r.todo) = Backends
CallsOK == call \in [Callers -> CallRecords] /\ \A c \in Callers : CallOK(call[c])

DaemonsOK ==
    /\ open \in [Backends -> SUBSET Shorts] /\ born \in [Backends -> SUBSET Shorts]
    /\ \A b \in Backends : open[b] \subseteq born[b]

\* A reply names tabs its daemon has opened.
ReplyReal(r) ==
    /\ r.at \in Answered => r.reply \subseteq born[Head(r.todo)]
    /\ r.op \in Bound => r.tab[2] \in born[r.tab[1]]
RepliesReal == \A c \in Callers : ReplyReal(call[c])

PoolInv ==
    /\ PoolTypeOK /\ CallsOK /\ DaemonsOK
    /\ BoundTabsAreReal /\ RepliesReal
    /\ LoadIsExact

-----------------------------------------------------------------------------
(***************************************************************************)
(* The ring and the order of a walk.                                       *)
(***************************************************************************)
\* Every non-empty set of naturals has a least element.
LEMMA LeastElement ==
  ASSUME NEW S, S \subseteq Nat, S # {}
  PROVE  \E n \in S : \A m \in S : n <= m
<1>1. \E n \in S : \A m \in S : ~(<<m, n>> \in OpToRel(<, Nat))
  BY NatLessThanWellFounded, WFMin
<1>2. \A n, m \in S : ~(<<m, n>> \in OpToRel(<, Nat)) => n <= m
  BY DEF OpToRel
<1>3. QED  BY <1>1, <1>2

\* The remainder of what is less than n, and of that plus n.
LEMMA Remainder ==
  ASSUME NEW n \in Nat \ {0}, NEW x \in 0..(n - 1)
  PROVE  x % n = x /\ (x + n) % n = x
OBVIOUS

\* A ring is a sequence of all backends.
LEMMA RingFacts ==
  ASSUME NEW first \in Backends
  PROVE  /\ Ring(first) \in [1..N -> Backends]
         /\ Ring(first) \in Seq(Backends)
         /\ Len(Ring(first)) = N
         /\ Elements(Ring(first)) = Backends
<1>1. Ring(first) \in [1..N -> Backends]
  BY PoolAssumption DEF Ring, Backends
<1>2. Ring(first) \in Seq(Backends)
  BY <1>1, PoolAssumption, SeqDef
<1>3. Len(Ring(first)) = N
  BY <1>1, <1>2, PoolAssumption, LenProperties
<1>4. ASSUME NEW b \in Backends
      PROVE  \E i \in 1..N : Ring(first)[i] = b
  <2>1. CASE first <= b
    <3>1. b - first + 1 \in Backends /\ first + (b - first + 1) - 2 = b - 1
      BY <2>1, PoolAssumption DEF Backends
    <3>2. (b - 1) % N = b - 1
      BY PoolAssumption, Remainder DEF Backends
    <3>3. Ring(first)[b - first + 1] = b
      BY <3>1, <3>2, PoolAssumption DEF Ring, Backends
    <3>4. QED  BY <3>1, <3>3 DEF Backends
  <2>2. CASE first > b
    <3>1. b - first + 1 + N \in Backends /\ first + (b - first + 1 + N) - 2 = (b - 1) + N
      BY <2>2, PoolAssumption DEF Backends
    <3>2. ((b - 1) + N) % N = b - 1
      BY PoolAssumption, Remainder DEF Backends
    <3>3. Ring(first)[b - first + 1 + N] = b
      BY <3>1, <3>2, PoolAssumption DEF Ring, Backends
    <3>4. QED  BY <3>1, <3>3 DEF Backends
  <2>3. QED  BY <2>1, <2>2, PoolAssumption DEF Backends
<1>5. QED  BY <1>1, <1>2, <1>3, <1>4 DEF Elements

\* There is a least loaded backend, and the walk of a call starts at one.
LEMMA BestIsBackend ==
  ASSUME inFlight \in [Backends -> Nat], NEW start \in Backends
  PROVE  Best(start) \in Backends
<1> DEFINE least == {b \in Backends : \A d \in Backends : inFlight[b] <= inFlight[d]}
           S == {i \in Backends : Ring(start)[i] \in least}
<1>1. \E b \in Backends : b \in least
  <2> DEFINE loads == {inFlight[b] : b \in Backends}
  <2>1. loads \subseteq Nat /\ loads # {}
    BY PoolAssumption DEF Backends
  <2>2. \E n \in loads : \A m \in loads : n <= m
    BY <2>1, LeastElement
  <2>3. QED  BY <2>2
<1>2. S # {}
  BY <1>1, RingFacts DEF Elements, Backends
<1>3. \E n \in S : \A m \in S : n <= m
  <2>1. S \subseteq Nat
    BY PoolAssumption DEF Backends
  <2>2. QED  BY <1>2, <2>1, LeastElement
<1>4. PICK n \in S : \A m \in S : n <= m
  BY <1>3
<1>5. Ring(start)[n] \in least /\ \A j \in 1..(n - 1) : Ring(start)[j] \notin least
  BY <1>4, PoolAssumption DEF Backends
<1> DEFINE first == CHOOSE i \in Backends :
                        /\ Ring(start)[i] \in least
                        /\ \A j \in 1..(i - 1) : Ring(start)[j] \notin least
<1>6. first \in Backends /\ Ring(start)[first] \in least
  BY <1>4, <1>5
<1>7. QED  BY <1>6 DEF Best

\* So a walk of any kind begins with all backends to try, N of them.
LEMMA WalkBegins ==
  ASSUME PoolTypeOK
  PROVE  \A s \in {Order(rr + 1), Ring(1)} :
             s \in Seq(Backends) /\ Len(s) = N /\ Elements(s) = Backends
<1>1. rr + 1 \in Backends /\ 1 \in Backends
  BY PoolAssumption DEF PoolTypeOK, Backends
<1>2. Best(rr + 1) \in Backends
  BY <1>1, BestIsBackend DEF PoolTypeOK
<1>3. QED  BY <1>1, <1>2, RingFacts DEF Order

\* The head of a sequence is one of its elements, the others are in the tail.
LEMMA TailFacts ==
  ASSUME NEW S, NEW s \in Seq(S), s # <<>>
  PROVE  /\ Head(s) \in S /\ Tail(s) \in Seq(S) /\ Len(Tail(s)) = Len(s) - 1
         /\ Elements(s) = {Head(s)} \cup Elements(Tail(s))
<1>1. /\ Head(s) \in S /\ Tail(s) \in Seq(S) /\ Len(Tail(s)) = Len(s) - 1
      /\ \A i \in 1..Len(Tail(s)) : Tail(s)[i] = s[i + 1]
  BY HeadTailProperties
<1>2. Len(s) \in Nat \ {0} /\ Head(s) = s[1]
  BY EmptySeq
<1>3. Elements(s) \subseteq {Head(s)} \cup Elements(Tail(s))
  <2> SUFFICES ASSUME NEW i \in 1..Len(s), i # 1
               PROVE  s[i] \in Elements(Tail(s))
    BY <1>2 DEF Elements
  <2>1. i - 1 \in 1..Len(Tail(s)) /\ Tail(s)[i - 1] = s[i]
    BY <1>1, <1>2
  <2>2. QED  BY <2>1 DEF Elements
<1>4. Elements(Tail(s)) \subseteq Elements(s)
  <2> SUFFICES ASSUME NEW i \in 1..Len(Tail(s))
               PROVE  Tail(s)[i] \in Elements(s)
    BY DEF Elements
  <2>1. i + 1 \in 1..Len(s) /\ Tail(s)[i] = s[i + 1]
    BY <1>1, <1>2
  <2>2. QED  BY <2>1 DEF Elements
<1>5. Head(s) \in Elements(s)
  BY <1>2 DEF Elements
<1>6. QED  BY <1>1, <1>3, <1>4, <1>5

-----------------------------------------------------------------------------
(***************************************************************************)
(* The calls.                                                              *)
(***************************************************************************)
\* A step gives one call a new record.
LEMMA CallChanges ==
  ASSUME CallsOK, NEW c \in Callers, NEW r, CallOK(r), call' = [call EXCEPT ![c] = r]
  PROVE  CallsOK'
<1>1. r \in CallRecords
  BY DEF CallOK
<1>2. call' \in [Callers -> CallRecords]
  BY <1>1 DEF CallsOK
<1>3. \A d \in Callers : call'[d] = IF d = c THEN r ELSE call[d]
  BY DEF CallsOK
<1>4. \A d \in Callers : CallOK(call'[d])
  BY <1>3 DEF CallsOK
<1>5. QED  BY <1>2, <1>4 DEF CallsOK

\* A goroutine at rest.
LEMMA NoCallOK == CallOK(NoCall)
BY PoolAssumption, EmptySeq
   DEF CallOK, NoCall, CallRecords, Walking, Bound, Underway, Positions

\* The record of a goroutine.
LEMMA ThisCall ==
  ASSUME CallsOK, NEW c \in Callers
  PROVE  CallOK(call[c]) /\ call[c] \in CallRecords
BY DEF CallsOK

\* A call begins with all backends to try, or with its own.
LEMMA BeginCallOK ==
  ASSUME PoolTypeOK, CallsOK, NEW c \in Callers, NEW op, NEW tab, Begin(c, op, tab),
         op \in Walking \cup Bound, tab \in TabIDs \cup {<<>>}
  PROVE  CallsOK'
<1>1. PICK todo : /\ call' = [call EXCEPT ![c] = [NoCall EXCEPT !.op = op, !.at = "walk",
                                                                !.tab = tab, !.todo = todo]]
                  /\ op \in Walking => todo \in {Order(rr + 1), Ring(1)}
                  /\ op \in Bound => todo = <<tab[1]>>
  <2> DEFINE todo == CASE op \in {"create", "unbound"} -> Order(rr + 1)
                       [] op \in {"list", "focus"} -> Ring(1)
                       [] OTHER -> <<tab[1]>>
  <2>1. call' = [call EXCEPT ![c] = [NoCall EXCEPT !.op = op, !.at = "walk",
                                                   !.tab = tab, !.todo = todo]]
    BY DEF Begin
  <2>2. op \in Walking => todo \in {Order(rr + 1), Ring(1)}
    BY DEF Walking
  <2>3. op \in Bound => todo = <<tab[1]>>
    BY DEF Bound
  <2> HIDE DEF todo
  <2>4. QED  BY <2>1, <2>2, <2>3
<1> DEFINE r == [NoCall EXCEPT !.op = op, !.at = "walk", !.tab = tab, !.todo = todo]
<1>2. /\ todo \in Seq(Backends) /\ Len(todo) <= N
      /\ op \in Walking => Elements(todo) = Backends
      /\ op \in Bound => tab \in TabIDs
  <2>1. CASE op \in Walking
    <3>1. op \notin Bound
      BY <2>1 DEF Walking, Bound
    <3>2. QED  BY <1>1, <2>1, <3>1, WalkBegins, PoolAssumption
  <2>2. CASE op \in Bound
    <3>1. tab \in TabIDs /\ op \notin Walking
      BY <2>2 DEF Begin, Bound, Walking, Resolves
    <3>2. todo = <<tab[1]>> /\ tab[1] \in Backends
      BY <1>1, <2>2, <3>1 DEF TabIDs
    <3>3. todo \in Seq(Backends) /\ Len(todo) = 1
      BY <3>2
    <3>4. QED  BY <3>1, <3>3, PoolAssumption
  <2>3. QED  BY <2>1, <2>2
<1>3. r \in CallRecords
  BY <1>2 DEF CallRecords, NoCall, Positions
<1>4. r.op = op /\ r.at = "walk" /\ r.tab = tab /\ r.todo = todo /\ r.failed = {}
  BY DEF NoCall
<1>5. op # "none"
  BY DEF Walking, Bound
<1> HIDE DEF r
<1>6. CallOK(r)
  BY <1>1, <1>2, <1>3, <1>4, <1>5 DEF CallOK, Underway
<1>7. QED  BY <1>1, <1>6, CallChanges DEF r

\* A call that goes on with the backend it has is what it was.
LEMMA GoesCallOK ==
  ASSUME CallsOK, NEW c \in Callers, call[c].at # "rest", NEW reply \in SUBSET Shorts,
         NEW at \in Positions \ {"rest"},
         at \in {"bound", "undone", "abandon"} => call[c].op = "create",
         at # "walk" => call[c].todo # <<>>,
         call' = [call EXCEPT ![c] = [call[c] EXCEPT !.at = at, !.reply = reply]]
  PROVE  CallsOK'
<1> DEFINE s == [call[c] EXCEPT !.at = at, !.reply = reply]
<1>1. CallOK(call[c]) /\ call[c] \in CallRecords
  BY ThisCall
<1>2. s \in CallRecords
  BY <1>1 DEF CallRecords
<1>3. /\ s.op = call[c].op /\ s.at = at /\ s.tab = call[c].tab /\ s.todo = call[c].todo
      /\ s.failed = call[c].failed /\ s.listed = call[c].listed
  BY <1>1 DEF CallRecords
<1> HIDE DEF s
<1>4. CallOK(s)
  BY <1>1, <1>2, <1>3 DEF CallOK, Underway
<1>5. QED  BY <1>4, CallChanges DEF s

\* A walk that goes on has tried the backend it leaves.
LEMMA AfterCallOK ==
  ASSUME CallsOK, NEW c \in Callers, call[c].op \in Walking, call[c].todo # <<>>,
         NEW failed \in SUBSET Backends, NEW listed \in BOOLEAN,
         listed \/ (failed = {Backend(c)} /\ listed = call[c].listed),
         call' = [call EXCEPT ![c] =
                     [call[c] EXCEPT !.at = "walk", !.todo = Tail(call[c].todo), !.reply = {},
                                     !.failed = call[c].failed \cup failed, !.listed = listed]]
  PROVE  CallsOK'
<1> DEFINE s == [call[c] EXCEPT !.at = "walk", !.todo = Tail(call[c].todo), !.reply = {},
                                !.failed = call[c].failed \cup failed, !.listed = listed]
<1>1. CallOK(call[c]) /\ call[c] \in CallRecords
  BY ThisCall
<1>2. /\ Tail(call[c].todo) \in Seq(Backends)
      /\ Len(Tail(call[c].todo)) = Len(call[c].todo) - 1
      /\ Elements(call[c].todo) = {Backend(c)} \cup Elements(Tail(call[c].todo))
      /\ Len(call[c].todo) \in Nat /\ Len(call[c].todo) <= N
  BY <1>1, TailFacts, LenProperties DEF CallRecords, CallOK, Backend
<1>3. s \in CallRecords
  BY <1>1, <1>2 DEF CallRecords, Positions
<1>4. /\ s.op = call[c].op /\ s.at = "walk" /\ s.todo = Tail(call[c].todo)
      /\ s.failed = call[c].failed \cup failed /\ s.listed = listed
  BY <1>1 DEF CallRecords
<1>5. listed \/ call[c].failed \cup failed \cup Elements(Tail(call[c].todo)) = Backends
  BY <1>1, <1>2 DEF CallOK
<1>6. Len(Tail(call[c].todo)) <= N
  BY <1>2, PoolAssumption
<1>7. call[c].op \notin Bound /\ call[c].op # "none"
  BY DEF Walking, Bound
<1> HIDE DEF s
<1>8. CallOK(s)
  BY <1>3, <1>4, <1>5, <1>6, <1>7 DEF CallOK, Underway
<1>9. QED  BY <1>8, CallChanges DEF s

\* A call whose position alone changes.
LEMMA MovesCallOK ==
  ASSUME CallsOK, NEW c \in Callers, call[c].at # "rest",
         NEW at \in Positions \ {"rest"},
         at \in {"bound", "undone", "abandon"} => call[c].op = "create",
         at # "walk" => call[c].todo # <<>>,
         Goes(c, at)
  PROVE  CallsOK'
<1>1. call[c] \in CallRecords /\ call[c].reply \in SUBSET Shorts
  BY ThisCall DEF CallRecords
<1>2. [call[c] EXCEPT !.at = at] = [call[c] EXCEPT !.at = at, !.reply = call[c].reply]
  BY <1>1 DEF CallRecords
<1>3. call' = [call EXCEPT ![c] = [call[c] EXCEPT !.at = at, !.reply = call[c].reply]]
  BY <1>2 DEF Goes
<1>4. QED  BY <1>1, <1>3, GoesCallOK

\* A call that returns.
LEMMA ReturnsCallOK ==
  ASSUME CallsOK, NEW c \in Callers, Returns(c)
  PROVE  CallsOK'
BY NoCallOK, CallChanges DEF Returns

\* Every step keeps the calls well formed.
LEMMA CallsKept ==
  ASSUME PoolInv, [Next]_vars
  PROVE  CallsOK'
<1>1. PoolTypeOK /\ CallsOK /\ DaemonsOK
  BY DEF PoolInv
<1>2. ASSUME NEW c \in Callers, call[c].at # "rest"
      PROVE  /\ CallOK(call[c]) /\ call[c] \in CallRecords
             /\ call[c].at \in Underway =>
                    call[c].todo # <<>> /\ Backend(c) \in Backends
  <2>1. CallOK(call[c]) /\ call[c] \in CallRecords
    BY <1>1, ThisCall
  <2>2. QED  BY <2>1, TailFacts DEF CallOK, CallRecords, Backend
<1>3. ASSUME NEW c \in Callers, NEW op \in Walking, Begin(c, op, <<>>)
      PROVE  CallsOK'
  BY <1>1, <1>3, BeginCallOK
<1>4. ASSUME NEW c \in Callers, NEW op \in Bound, NEW t \in TabIDs, Begin(c, op, t)
      PROVE  CallsOK'
  BY <1>1, <1>4, BeginCallOK
<1>5. ASSUME NEW c \in Callers, Send(c)
      PROVE  CallsOK'
  BY <1>1, <1>5, MovesCallOK DEF Send, Positions
<1>6. ASSUME NEW c \in Callers, \/ CallerCancels(c) \/ WalkEnds(c)
                                \/ Decodes(c) \/ Abandoned(c) \/ Unbinds(c)
      PROVE  CallsOK'
  BY <1>1, <1>6, ReturnsCallOK DEF CallerCancels, WalkEnds, Decodes, Abandoned, Unbinds
<1>7. ASSUME NEW c \in Callers, Serve(c)
      PROVE  CallsOK'
  <2>1. PICK reply \in SUBSET Shorts : Answers(c, reply)
    BY <1>1, <1>2, <1>7 DEF Serve, DaemonsOK, Underway, Positions
  <2>2. call[c].at = "sent" /\ call[c].todo # <<>>
    BY <1>2, <1>7 DEF Serve, Underway, Positions
  <2>3. call' = [call EXCEPT ![c] = [call[c] EXCEPT !.at = "served", !.reply = reply]]
    BY <2>1 DEF Answers
  <2>4. QED  BY <1>1, <2>2, <2>3, GoesCallOK DEF Positions
<1>8. ASSUME NEW c \in Callers, Fails(c)
      PROVE  CallsOK'
  <2>1. CASE call[c].op \in Walking
    <3>1. call[c] \in CallRecords /\ call[c].todo # <<>> /\ Backend(c) \in Backends
      BY <1>2, <1>8 DEF Fails, Underway, Positions
    <3>2. After(c, {Backend(c)})
      BY <1>8, <2>1 DEF Fails
    <3>3. call' = [call EXCEPT ![c] =
                     [call[c] EXCEPT !.at = "walk", !.todo = Tail(call[c].todo), !.reply = {},
                                     !.failed = call[c].failed \cup {Backend(c)},
                                     !.listed = call[c].listed]]
      BY <3>1, <3>2 DEF After, CallRecords
    <3>4. call[c].listed \in BOOLEAN /\ {Backend(c)} \in SUBSET Backends
      BY <3>1 DEF CallRecords
    <3>5. QED  BY <1>1, <2>1, <3>1, <3>3, <3>4, AfterCallOK
  <2>2. CASE call[c].op \notin Walking
    BY <1>1, <1>8, <2>2, ReturnsCallOK DEF Fails
  <2>3. QED  BY <2>1, <2>2
<1>9. ASSUME NEW c \in Callers,
             Succeeds(c) \/ Created(c) \/ DecodeFails(c) \/ Abandons(c)
      PROVE  CallsOK'
  <2>1. Returns(c) \/ Goes(c, "released") \/ Goes(c, "bound") \/ Goes(c, "undone")
        \/ Goes(c, "abandon")
    BY <1>9 DEF Succeeds, Created, DecodeFails, Abandons
  <2>2. call[c].at \in Underway /\ call[c].todo # <<>>
    BY <1>2, <1>9 DEF Succeeds, Created, DecodeFails, Abandons, Underway, Positions
  <2>3. Succeeds(c) \/ call[c].op = "create"
    BY <1>2, <1>9, <2>2 DEF Created, DecodeFails, Abandons, CallOK, Underway
  <2>4. CASE Succeeds(c)
    BY <1>1, <2>2, <2>4, ReturnsCallOK, MovesCallOK DEF Succeeds, Positions, Underway
  <2>5. CASE call[c].op = "create"
    BY <1>1, <2>1, <2>2, <2>5, ReturnsCallOK, MovesCallOK DEF Positions, Underway
  <2>6. QED  BY <2>3, <2>4, <2>5
<1>10. ASSUME NEW c \in Callers, Listed(c)
       PROVE  CallsOK'
  <2>1. CASE call[c].op = "focus"
    BY <1>1, <1>10, <2>1, ReturnsCallOK DEF Listed
  <2>2. CASE call[c].op = "list"
    <3>1. call[c] \in CallRecords /\ call[c].todo # <<>> /\ call[c].reply = {}
      BY <1>2, <1>10 DEF Listed, Underway, Positions
    <3>2. call' = [call EXCEPT ![c].at = "walk", ![c].todo = Tail(@), ![c].listed = TRUE]
      BY <1>10, <2>2 DEF Listed
    <3>3. call[c].failed \cup {} = call[c].failed
      OBVIOUS
    <3>4. [call[c] EXCEPT !.at = "walk", !.todo = Tail(call[c].todo), !.listed = TRUE]
            = [call[c] EXCEPT !.at = "walk", !.todo = Tail(call[c].todo), !.reply = {},
                              !.failed = call[c].failed \cup {}, !.listed = TRUE]
      BY <3>1, <3>3 DEF CallRecords
    <3>5. call' = [call EXCEPT ![c] = [call[c] EXCEPT !.at = "walk", !.todo = Tail(call[c].todo),
                                                      !.listed = TRUE]]
      BY <3>1, <3>2 DEF CallRecords
    <3>6. call' = [call EXCEPT ![c] =
                     [call[c] EXCEPT !.at = "walk", !.todo = Tail(call[c].todo), !.reply = {},
                                     !.failed = call[c].failed \cup {}, !.listed = TRUE]]
      BY <3>4, <3>5
    <3>7. QED  BY <1>1, <2>2, <3>1, <3>6, AfterCallOK DEF Walking
  <2>3. QED  BY <1>10, <2>1, <2>2 DEF Listed
<1>11. ASSUME NEW c \in Callers, Observes(c)
       PROVE  CallsOK'
  <2>1. PICK s \in call[c].reply : call' = [call EXCEPT ![c].reply = @ \ {s}]
    BY <1>11 DEF Observes
  <2>2. call[c] \in CallRecords /\ call[c].at = "released" /\ call[c].todo # <<>>
    BY <1>2, <1>11 DEF Observes, Underway, Positions
  <2>3. call[c].reply \ {s} \in SUBSET Shorts
    BY <2>2 DEF CallRecords
  <2>4. call' = [call EXCEPT ![c] = [call[c] EXCEPT !.at = "released",
                                                    !.reply = call[c].reply \ {s}]]
    BY <2>1, <2>2 DEF CallRecords
  <2>5. QED  BY <1>1, <2>2, <2>3, <2>4, GoesCallOK DEF Positions
<1>12. CASE UNCHANGED call
  BY <1>1, <1>12 DEF CallsOK
<1>13. QED
  BY <1>3, <1>4, <1>5, <1>6, <1>7, <1>8, <1>9, <1>10, <1>11, <1>12
     DEF Next, vars, poolVars, ForgetTab, OthersOpen, OthersClose, Bound

-----------------------------------------------------------------------------
(***************************************************************************)
(* The loads.                                                              *)
(***************************************************************************)
\* The goroutines whose call backend b has.
Users(b) == {c \in Callers : Busy(call[c]) /\ Backend(c) = b}
LoadOK == inFlight \in [Backends -> Nat] /\ LoadIsExact

\* The invariant gives the loads, counts of finite sets.
LEMMA LoadCounts ==
  ASSUME PoolInv
  PROVE  /\ inFlight \in [Backends -> Nat]
         /\ \A b \in Backends : /\ IsFiniteSet(Users(b))
                                /\ inFlight[b] = Cardinality(Users(b))
<1>1. inFlight \in [Backends -> Nat]
  BY DEF PoolInv, PoolTypeOK
<1>2. \A b \in Backends : inFlight[b] = Cardinality(Users(b))
  BY DEF PoolInv, LoadIsExact, Users, Busy
<1>3. \A b \in Backends : Users(b) \in SUBSET Callers
  BY DEF Users
<1>4. \A b \in Backends : IsFiniteSet(Users(b))
  BY <1>3, FS_Subset, PoolAssumption
<1>5. QED  BY <1>1, <1>2, <1>4

\* A call that is not sent, or stays where it was sent, loads nobody more.
LEMMA LoadStays ==
  ASSUME PoolInv, UNCHANGED inFlight,
         \A c \in Callers : /\ Busy(call'[c]) <=> Busy(call[c])
                            /\ Busy(call[c]) => call'[c].todo = call[c].todo
  PROVE  LoadOK'
<1>1. \A b \in Backends : Users(b)' = Users(b)
  BY DEF Users, Backend
<1>2. \A b \in Backends : inFlight'[b] = Cardinality(Users(b)')
  BY <1>1, LoadCounts
<1>3. LoadIsExact'
  BY <1>2 DEF LoadIsExact, Users, Busy
<1>4. QED  BY <1>3, LoadCounts DEF LoadOK

\* track: a call that is sent counts once, on the backend it is sent to.
LEMMA LoadRises ==
  ASSUME PoolInv, NEW c \in Callers, NEW b \in Backends, Hold(b),
         ~Busy(call[c]), Busy(call'[c]), Backend(c)' = b,
         \A d \in Callers : d # c => call'[d] = call[d]
  PROVE  LoadOK'
<1>1. inFlight' = [inFlight EXCEPT ![b] = inFlight[b] + 1]
  BY DEF Hold
<1>2. inFlight' \in [Backends -> Nat]
  BY <1>1, LoadCounts
<1>3. Users(b)' = Users(b) \cup {c} /\ c \notin Users(b)
  BY DEF Users, Backend
<1>4. \A d \in Backends : d # b => Users(d)' = Users(d)
  BY DEF Users, Backend
<1>5. Cardinality(Users(b)') = Cardinality(Users(b)) + 1
  BY <1>3, LoadCounts, FS_AddElement
<1>6. \A d \in Backends : inFlight'[d] = Cardinality(Users(d)')
  BY <1>1, <1>4, <1>5, LoadCounts
<1>7. LoadIsExact'
  BY <1>6 DEF LoadIsExact, Users, Busy
<1>8. QED  BY <1>2, <1>7 DEF LoadOK

\* The function track returns: a call that ends there counts no more.
LEMMA LoadFalls ==
  ASSUME PoolInv, NEW c \in Callers, Release(Backend(c)), Busy(call[c]), ~Busy(call'[c]),
         \A d \in Callers : d # c => call'[d] = call[d]
  PROVE  LoadOK'
<1>1. PICK b \in Backends : b = Backend(c)
  BY ThisCall, TailFacts DEF PoolInv, CallOK, CallRecords, Backend, Busy, Underway, Positions
<1>2. Users(b)' = Users(b) \ {c} /\ c \in Users(b)
  BY <1>1 DEF Users, Backend
<1>3. \A d \in Backends : d # b => Users(d)' = Users(d)
  BY <1>1 DEF Users, Backend
<1>4. Cardinality(Users(b)') = Cardinality(Users(b)) - 1 /\ Cardinality(Users(b)') \in Nat
  BY <1>1, <1>2, LoadCounts, FS_RemoveElement, FS_CardinalityType
<1>5. inFlight' = [inFlight EXCEPT ![b] = inFlight[b] - 1]
  BY <1>1 DEF Release
<1>6. \A d \in Backends : inFlight'[d] = Cardinality(Users(d)')
  BY <1>1, <1>3, <1>4, <1>5, LoadCounts
<1>7. inFlight' \in [Backends -> Nat]
  <2>1. inFlight[b] - 1 \in Nat
    BY <1>1, <1>4, LoadCounts
  <2>2. QED  BY <1>1, <1>5, <2>1, LoadCounts
<1>8. LoadIsExact'
  BY <1>6 DEF LoadIsExact, Users, Busy
<1>9. QED  BY <1>7, <1>8 DEF LoadOK

\* Every step keeps the loads exact.
LEMMA LoadKept ==
  ASSUME PoolInv, [Next]_vars
  PROVE  LoadOK'
<1>1. call \in [Callers -> CallRecords] /\ NoCall.at = "rest"
  BY DEF PoolInv, CallsOK, NoCall
<1>2. ASSUME NEW c \in Callers, Returns(c)
      PROVE  ~Busy(call'[c]) /\ \A d \in Callers : d # c => call'[d] = call[d]
  BY <1>1, <1>2 DEF Returns, Busy
<1>3. ASSUME NEW c \in Callers, NEW op, NEW tab, Begin(c, op, tab)
      PROVE  LoadOK'
  <2>1. /\ call[c].at = "rest" /\ call'[c].at = "walk" /\ UNCHANGED inFlight
        /\ \A d \in Callers : d # c => call'[d] = call[d]
    BY <1>1, <1>3 DEF Begin, NoCall
  <2>2. QED  BY <2>1, LoadStays DEF Busy
<1>4. ASSUME NEW c \in Callers, Send(c)
      PROVE  LoadOK'
  <2>1. /\ call[c].at = "walk" /\ call'[c].at = "sent" /\ call'[c].todo = call[c].todo
        /\ Hold(Backend(c)) /\ call[c].todo # <<>>
        /\ \A d \in Callers : d # c => call'[d] = call[d]
    BY <1>1, <1>4 DEF Send, Goes, CallRecords
  <2>2. Backend(c) \in Backends /\ Backend(c)' = Backend(c)
    BY <1>1, <2>1, TailFacts DEF Backend, CallRecords
  <2>3. QED  BY <2>1, <2>2, LoadRises DEF Busy
<1>5. ASSUME NEW c \in Callers, CallerCancels(c) \/ WalkEnds(c)
      PROVE  LoadOK'
  BY <1>2, <1>5, LoadStays DEF CallerCancels, WalkEnds, Busy
<1>6. ASSUME NEW c \in Callers, Serve(c)
      PROVE  LoadOK'
  <2>1. PICK reply : Answers(c, reply)
    BY <1>6 DEF Serve
  <2>2. /\ call[c].at = "sent" /\ call'[c].at = "served" /\ call'[c].todo = call[c].todo
        /\ \A d \in Callers : d # c => call'[d] = call[d]
    BY <1>1, <1>6, <2>1 DEF Serve, Answers, CallRecords
  <2>3. QED  BY <1>6, <2>2, LoadStays DEF Serve, Busy
<1>7. ASSUME NEW c \in Callers, Fails(c)
      PROVE  LoadOK'
  <2>1. Busy(call[c]) /\ Release(Backend(c))
    BY <1>7 DEF Fails, Busy
  <2>2. ~Busy(call'[c]) /\ \A d \in Callers : d # c => call'[d] = call[d]
    BY <1>1, <1>2, <1>7 DEF Fails, After, Busy, CallRecords
  <2>3. QED  BY <2>1, <2>2, LoadFalls
<1>8. ASSUME NEW c \in Callers, NEW at, Goes(c, at)
      PROVE  /\ call'[c].at = at /\ call'[c].todo = call[c].todo
             /\ \A d \in Callers : d # c => call'[d] = call[d]
  BY <1>1, <1>8 DEF Goes, CallRecords
<1>9. ASSUME NEW c \in Callers, Created(c) \/ DecodeFails(c)
      PROVE  LoadOK'
  BY <1>8, <1>9, LoadStays DEF Created, DecodeFails, Busy
<1>10. ASSUME NEW c \in Callers, Decodes(c) \/ Unbinds(c)
      PROVE  LoadOK'
  BY <1>2, <1>10, LoadStays DEF Decodes, Unbinds, Busy
<1>11. ASSUME NEW c \in Callers, Succeeds(c)
      PROVE  LoadOK'
  <2>1. Returns(c) \/ Goes(c, "released")
    BY <1>11 DEF Succeeds
  <2>2. ~Busy(call'[c]) /\ \A d \in Callers : d # c => call'[d] = call[d]
    BY <1>2, <1>8, <2>1 DEF Busy
  <2>3. QED  BY <1>11, <2>2, LoadFalls DEF Succeeds, Busy
<1>12. ASSUME NEW c \in Callers, Abandons(c)
      PROVE  LoadOK'
  <2>1. /\ call[c].at = "undone" /\ call'[c].at = "abandon" /\ Hold(Backend(c))
        /\ call'[c].todo = call[c].todo
        /\ \A d \in Callers : d # c => call'[d] = call[d]
    BY <1>8, <1>12 DEF Abandons
  <2>2. call[c].todo # <<>>
    BY <2>1, ThisCall DEF PoolInv, CallOK, Underway, Positions
  <2>3. Backend(c) \in Backends /\ Backend(c)' = Backend(c)
    BY <1>1, <2>1, <2>2, TailFacts DEF Backend, CallRecords
  <2>4. QED  BY <2>1, <2>3, LoadRises DEF Busy
<1>13. ASSUME NEW c \in Callers, Abandoned(c)
      PROVE  LoadOK'
  BY <1>2, <1>13, LoadFalls DEF Abandoned, Busy
<1>14. ASSUME NEW c \in Callers, Observes(c)
       PROVE  LoadOK'
  <2>1. /\ call'[c].at = call[c].at /\ call'[c].todo = call[c].todo
        /\ \A d \in Callers : d # c => call'[d] = call[d]
    BY <1>1, <1>14 DEF Observes, CallRecords
  <2>2. QED  BY <1>14, <2>1, LoadStays DEF Observes, Busy
<1>15. ASSUME NEW c \in Callers, Listed(c)
       PROVE  LoadOK'
  <2>1. /\ call[c].at = "released" /\ call'[c].at \in {"walk", "rest"}
        /\ \A d \in Callers : d # c => call'[d] = call[d]
    BY <1>1, <1>15 DEF Listed, Returns, CallRecords
  <2>2. QED  BY <1>15, <2>1, LoadStays DEF Listed, Busy
<1>16. CASE UNCHANGED <<call, inFlight>>
  BY <1>16, LoadStays
<1>17. QED
  BY <1>3, <1>4, <1>5, <1>6, <1>7, <1>9, <1>10, <1>11, <1>12, <1>13, <1>14, <1>15, <1>16
     DEF Next, vars, poolVars, ForgetTab, OthersOpen, OthersClose

-----------------------------------------------------------------------------
(***************************************************************************)
(* The daemons and their replies.                                          *)
(***************************************************************************)
\* The backend of a call that was sent, and a bound call's tab.
LEMMA SentTo ==
  ASSUME PoolInv, NEW c \in Callers
  PROVE  /\ call[c] \in CallRecords
         /\ call[c].at \in Underway => call[c].todo # <<>> /\ Backend(c) \in Backends
         /\ call[c].op \in Bound => /\ call[c].tab \in TabIDs
                                    /\ call[c].tab[1] \in Backends /\ call[c].tab[2] \in Shorts
                                    /\ Backend(c) = call[c].tab[1]
<1>1. CallOK(call[c]) /\ call[c] \in CallRecords
  BY ThisCall DEF PoolInv
<1>2. call[c].at \in Underway => call[c].todo # <<>> /\ Backend(c) \in Backends
  BY <1>1, TailFacts DEF CallOK, CallRecords, Backend
<1>3. ASSUME call[c].op \in Bound
      PROVE  /\ call[c].tab \in TabIDs
             /\ call[c].tab[1] \in Backends /\ call[c].tab[2] \in Shorts
             /\ Backend(c) = call[c].tab[1]
  BY <1>1, <1>3 DEF CallOK, TabIDs, Backend
<1>4. QED  BY <1>1, <1>2, <1>3

\* What a daemon has opened it has opened, and what is open it has opened.
DaemonsMove ==
    /\ DaemonsOK'
    /\ \A b \in Backends : born[b] \subseteq born'[b]

LEMMA DaemonsMoveOn ==
  ASSUME PoolInv, [Next]_vars
  PROVE  DaemonsMove
<1>1. DaemonsOK
  BY DEF PoolInv
<1>2. ASSUME NEW b \in Backends, NEW s \in Shorts, Opened(b, s)
      PROVE  DaemonsMove
  <2>1. /\ open' = [open EXCEPT ![b] = open[b] \cup {s}]
        /\ born' = [born EXCEPT ![b] = born[b] \cup {s}]
    BY <1>2 DEF Opened
  <2>2. open' \in [Backends -> SUBSET Shorts] /\ born' \in [Backends -> SUBSET Shorts]
    BY <1>1, <2>1 DEF DaemonsOK
  <2>3. \A d \in Backends : open'[d] \subseteq born'[d] /\ born[d] \subseteq born'[d]
    BY <1>1, <2>1 DEF DaemonsOK
  <2>4. QED  BY <2>2, <2>3 DEF DaemonsMove, DaemonsOK
<1>3. ASSUME NEW b \in Backends, NEW shorts, Closed(b, shorts)
      PROVE  DaemonsMove
  BY <1>1, <1>3 DEF Closed, DaemonsMove, DaemonsOK
<1>4. CASE UNCHANGED <<open, born>>
  BY <1>1, <1>4 DEF DaemonsMove, DaemonsOK
<1>5. ASSUME NEW c \in Callers, Serve(c)
      PROVE  DaemonsMove
  <2>1. Backend(c) \in Backends
    BY <1>5, SentTo DEF Serve, Underway, Positions
  <2>2. \/ \E s \in Shorts : Opened(Backend(c), s)
        \/ \E shorts : Closed(Backend(c), shorts)
        \/ UNCHANGED <<open, born>>
    BY <1>5 DEF Serve, daemonVars
  <2>3. QED  BY <1>2, <1>3, <1>4, <2>1, <2>2
<1>6. ASSUME NEW c \in Callers, Abandoned(c)
      PROVE  DaemonsMove
  <2>1. Backend(c) \in Backends
    BY <1>6, SentTo DEF Abandoned, Underway, Positions
  <2>2. (\E shorts : Closed(Backend(c), shorts)) \/ UNCHANGED <<open, born>>
    BY <1>6 DEF Abandoned, daemonVars
  <2>3. QED  BY <1>3, <1>4, <2>1, <2>2
<1>7. ASSUME NEW b \in Backends, OthersOpen(b) \/ OthersClose(b)
      PROVE  DaemonsMove
  BY <1>2, <1>3, <1>7 DEF OthersOpen, OthersClose
<1>8. QED
  BY <1>4, <1>5, <1>6, <1>7
     DEF Next, vars, daemonVars, Begin, Send, CallerCancels, WalkEnds, Fails, Succeeds,
         Created, Decodes, DecodeFails, Abandons, Observes, Listed, Unbinds, ForgetTab

\* A call that does not change stays true to the daemons.
LEMMA ReplyStaysReal ==
  ASSUME PoolInv, DaemonsMove, NEW c \in Callers, UNCHANGED call[c]
  PROVE  ReplyReal(call[c])'
<1>1. ReplyReal(call[c])
  BY DEF PoolInv, RepliesReal, ReplyReal
<1>2. /\ call[c].op \in Bound => call[c].tab[1] \in Backends
      /\ call[c].at \in Answered => Head(call[c].todo) \in Backends
  BY SentTo DEF Answered, Backend
<1>3. QED  BY <1>1, <1>2 DEF ReplyReal, DaemonsMove, Bound

\* So does one that goes on without a new reply.
LEMMA ReplyGoesOnReal ==
  ASSUME PoolInv, DaemonsMove, NEW c \in Callers,
         call'[c].op = call[c].op, call'[c].tab = call[c].tab,
         \/ call'[c].at \notin Answered
         \/ /\ call[c].at \in Answered
            /\ call'[c].reply \subseteq call[c].reply /\ call'[c].todo = call[c].todo
  PROVE  ReplyReal(call[c])'
<1>1. ReplyReal(call[c])
  BY DEF PoolInv, RepliesReal
<1>2. /\ call[c].op \in Bound => call[c].tab[1] \in Backends
      /\ call[c].at \in Answered => Head(call[c].todo) \in Backends
  BY SentTo DEF Answered, Backend
<1>3. QED  BY <1>1, <1>2 DEF ReplyReal, DaemonsMove

\* Every reply is true when it is given, and stays so.
LEMMA RepliesKept ==
  ASSUME PoolInv, [Next]_vars
  PROVE  RepliesReal'
<1>1. DaemonsMove
  BY DaemonsMoveOn
<1>2. call \in [Callers -> CallRecords]
  BY DEF PoolInv, CallsOK
<1>3. ASSUME NEW c \in Callers, ReplyReal(call[c])',
             \A d \in Callers : d # c => call'[d] = call[d]
      PROVE  RepliesReal'
  BY <1>1, <1>3, ReplyStaysReal DEF RepliesReal
<1>4. ReplyReal(NoCall)'
  BY DEF ReplyReal, NoCall, Bound, Answered, Underway
<1>5. ASSUME NEW c \in Callers, Returns(c)
      PROVE  RepliesReal'
  <2>1. call'[c] = NoCall /\ \A d \in Callers : d # c => call'[d] = call[d]
    BY <1>2, <1>5 DEF Returns
  <2>2. QED  BY <1>3, <1>4, <2>1
<1>6. ASSUME NEW c \in Callers, NEW at, Goes(c, at), at \in Answered => call[c].at \in Answered
      PROVE  RepliesReal'
  <2>1. /\ call'[c].op = call[c].op /\ call'[c].tab = call[c].tab /\ call'[c].at = at
        /\ call'[c].reply = call[c].reply /\ call'[c].todo = call[c].todo
        /\ \A d \in Callers : d # c => call'[d] = call[d]
    BY <1>2, <1>6 DEF Goes, CallRecords
  <2>2. QED  BY <1>1, <1>3, <1>6, <2>1, ReplyGoesOnReal
<1>7. ASSUME NEW c \in Callers, NEW op \in Walking \cup Bound, NEW tab \in TabIDs \cup {<<>>},
             Begin(c, op, tab)
      PROVE  RepliesReal'
  <2>1. /\ call'[c].op = op /\ call'[c].tab = tab /\ call'[c].at = "walk"
        /\ \A d \in Callers : d # c => call'[d] = call[d]
    BY <1>2, <1>7 DEF Begin, NoCall
  <2>2. ASSUME op \in Bound
        PROVE  tab[2] \in born'[tab[1]]
    <3>1. tab \in TabIDs /\ tabs[tab] # 0 /\ UNCHANGED born
      BY <1>7, <2>2 DEF Begin, Bound, Resolves, daemonVars
    <3>2. QED  BY <3>1 DEF PoolInv, BoundTabsAreReal
  <2>3. ReplyReal(call[c])'
    BY <2>1, <2>2 DEF ReplyReal, Answered, Underway
  <2>4. QED  BY <1>3, <2>1, <2>3
<1>8. ASSUME NEW c \in Callers, Serve(c)
      PROVE  RepliesReal'
  <2>1. PICK b \in Backends : b = Backend(c)
    BY <1>8, SentTo DEF Serve, Underway, Positions
  <2>2. DaemonsOK /\ ReplyReal(call[c]) /\ call[c] \in CallRecords
    BY SentTo DEF PoolInv, RepliesReal
  <2>3. PICK reply \in SUBSET Shorts :
            /\ Answers(c, reply)
            /\ reply \subseteq born'[b]
    <3>1. CASE call[c].op = "create"
      <4>1. PICK s \in Shorts : Opened(b, s) /\ Answers(c, {s})
        BY <1>8, <2>1, <3>1 DEF Serve
      <4>2. {s} \subseteq born'[b]
        BY <2>2, <4>1 DEF Opened, DaemonsOK
      <4>3. QED  BY <3>1, <4>1, <4>2
    <3>2. CASE call[c].op \in {"list", "focus"}
      <4>1. PICK shorts \in SUBSET open[b] : Answers(c, shorts) /\ UNCHANGED daemonVars
        BY <1>8, <2>1, <3>2 DEF Serve
      <4>2. shorts \subseteq born'[b] /\ shorts \in SUBSET Shorts
        BY <2>1, <2>2, <4>1 DEF DaemonsOK, daemonVars
      <4>3. QED  BY <3>2, <4>1, <4>2
    <3>3. CASE call[c].op \in {"close", "unbound", "use"}
      BY <1>8, <2>1, <3>3 DEF Serve
    <3>4. QED  BY <1>8, <3>1, <3>2, <3>3 DEF Serve
  <2>4. /\ call'[c].op = call[c].op /\ call'[c].tab = call[c].tab
        /\ call'[c].at = "served" /\ call'[c].reply = reply /\ call'[c].todo = call[c].todo
        /\ \A d \in Callers : d # c => call'[d] = call[d]
    BY <1>2, <2>3 DEF Answers, CallRecords
  <2>5. call[c].op \in Bound => call[c].tab[2] \in born'[call[c].tab[1]]
    BY <1>1, <2>2, SentTo DEF ReplyReal, DaemonsMove
  <2>6. call'[c].reply \subseteq born'[Head(call'[c].todo)]
    BY <2>1, <2>3, <2>4 DEF Backend
  <2>7. ReplyReal(call[c])'
    BY <2>4, <2>5, <2>6 DEF ReplyReal
  <2>8. QED  BY <1>3, <2>4, <2>7
<1>9. ASSUME NEW c \in Callers, Fails(c) \/ Listed(c), ~Returns(c)
      PROVE  RepliesReal'
  <2>1. /\ call'[c].op = call[c].op /\ call'[c].tab = call[c].tab /\ call'[c].at = "walk"
        /\ \A d \in Callers : d # c => call'[d] = call[d]
    BY <1>2, <1>9 DEF Fails, After, Listed, CallRecords
  <2>2. QED  BY <1>1, <1>3, <2>1, ReplyGoesOnReal DEF Answered, Underway
<1>10. CASE UNCHANGED call
  BY <1>1, <1>10, ReplyStaysReal DEF RepliesReal
<1>11. ASSUME NEW c \in Callers, Observes(c)
       PROVE  RepliesReal'
  <2>1. /\ call'[c].op = call[c].op /\ call'[c].tab = call[c].tab /\ call[c].at = "released"
        /\ call'[c].reply \subseteq call[c].reply /\ call'[c].todo = call[c].todo
        /\ \A d \in Callers : d # c => call'[d] = call[d]
    BY <1>2, <1>11 DEF Observes, CallRecords
  <2>2. QED  BY <1>1, <1>3, <2>1, ReplyGoesOnReal DEF Answered, Underway, Positions
<1>12. ASSUME NEW c \in Callers,
              \/ Send(c) \/ CallerCancels(c) \/ WalkEnds(c) \/ Fails(c) \/ Succeeds(c)
              \/ Created(c) \/ Decodes(c) \/ DecodeFails(c) \/ Abandons(c) \/ Abandoned(c)
              \/ Listed(c) \/ Unbinds(c)
       PROVE  RepliesReal'
  BY <1>5, <1>6, <1>9, <1>12
     DEF Send, CallerCancels, WalkEnds, Succeeds, Created, Decodes, DecodeFails, Abandons,
         Abandoned, Unbinds, Answered, Underway, Positions
<1>13. QED
  BY <1>7, <1>8, <1>10, <1>11, <1>12
     DEF Next, vars, poolVars, ForgetTab, OthersOpen, OthersClose, Bound

-----------------------------------------------------------------------------
(***************************************************************************)
(* The map of bound tabs.                                                  *)
(***************************************************************************)
TabsOK == tabs \in [TabIDs -> 0..N] /\ BoundTabsAreReal

\* Binding what a backend replied binds tabs it opened, to it.
LEMMA BindKeepsReal ==
  ASSUME PoolInv, DaemonsMove, NEW c \in Callers, call[c].at = "released",
         NEW shorts \in SUBSET call[c].reply, Bind(Prefixed(Backend(c), shorts), Backend(c))
  PROVE  TabsOK'
<1>1. PICK b \in Backends : b = Backend(c)
  BY SentTo DEF Underway, Positions
<1>2. call[c].reply \subseteq born'[b]
  BY <1>1 DEF PoolInv, RepliesReal, ReplyReal, Backend, DaemonsMove, Answered, Underway,
              Positions
<1>3. \A t \in Prefixed(b, shorts) : t[1] = b /\ t[2] \in born'[b]
  BY <1>2 DEF Prefixed
<1>4. tabs' = [t \in TabIDs |-> IF t \in Prefixed(b, shorts) /\ tabs[t] = 0 THEN b
                               ELSE tabs[t]]
  BY <1>1 DEF Bind
<1>5. tabs \in [TabIDs -> 0..N] /\ \A t \in TabIDs : t[1] \in Backends
  BY DEF PoolInv, PoolTypeOK, TabIDs
<1>6. tabs' \in [TabIDs -> 0..N]
  BY <1>1, <1>4, <1>5, PoolAssumption DEF Backends
<1>7. BoundTabsAreReal'
  BY <1>1, <1>3, <1>4, <1>5 DEF BoundTabsAreReal, PoolInv, DaemonsMove
<1>8. QED  BY <1>6, <1>7 DEF TabsOK

\* Unbinding leaves the others as they were.
LEMMA UnbindKeepsReal ==
  ASSUME PoolInv, DaemonsMove, NEW ids, Unbind(ids) \/ UNCHANGED tabs
  PROVE  TabsOK'
<1>1. tabs \in [TabIDs -> 0..N] /\ BoundTabsAreReal /\ \A t \in TabIDs : t[1] \in Backends
  BY DEF PoolInv, PoolTypeOK, TabIDs
<1>2. tabs' \in [TabIDs -> 0..N] /\ \A t \in TabIDs : tabs'[t] \in {0, tabs[t]}
  BY <1>1, PoolAssumption DEF Unbind
<1>3. BoundTabsAreReal'
  BY <1>1, <1>2 DEF BoundTabsAreReal, DaemonsMove
<1>4. QED  BY <1>2, <1>3 DEF TabsOK

\* Every step keeps the map true.
LEMMA TabsKept ==
  ASSUME PoolInv, [Next]_vars
  PROVE  TabsOK'
<1>1. DaemonsMove
  BY DaemonsMoveOn
<1>2. ASSUME NEW c \in Callers, Created(c)
      PROVE  TabsOK'
  BY <1>1, <1>2, BindKeepsReal DEF Created, Replied
<1>3. ASSUME NEW c \in Callers, Observes(c)
      PROVE  TabsOK'
  <2>1. PICK s \in call[c].reply : Bind(Prefixed(Backend(c), {s}), Backend(c))
    BY <1>3 DEF Observes
  <2>2. QED  BY <1>1, <1>3, <2>1, BindKeepsReal DEF Observes
<1>4. ASSUME NEW c \in Callers, DecodeFails(c) \/ Unbinds(c)
      PROVE  TabsOK'
  BY <1>1, <1>4, UnbindKeepsReal DEF DecodeFails, Unbinds
<1>5. ASSUME NEW t \in TabIDs, ForgetTab(t)
      PROVE  TabsOK'
  BY <1>1, <1>5, UnbindKeepsReal DEF ForgetTab
<1>6. CASE UNCHANGED tabs
  BY <1>1, <1>6, UnbindKeepsReal
<1>7. QED
  BY <1>2, <1>3, <1>4, <1>5, <1>6
     DEF Next, vars, poolVars, Begin, Send, CallerCancels, WalkEnds, Serve, Fails, Succeeds,
         Decodes, Abandons, Abandoned, Listed, OthersOpen, OthersClose

-----------------------------------------------------------------------------
(***************************************************************************)
(* The theorems.                                                           *)
(***************************************************************************)
\* The rest of the type invariant: the round-robin counter and the number of calls.
LEMMA CountersKept ==
  ASSUME PoolInv, [Next]_vars
  PROVE  rr' \in 0..(N - 1) /\ calls' \in 0..MaxCalls
<1>1. rr \in 0..(N - 1) /\ calls \in 0..MaxCalls /\ (rr + 1) % N \in 0..(N - 1)
  BY PoolAssumption DEF PoolInv, PoolTypeOK
<1>2. ASSUME NEW c \in Callers, NEW op, NEW tab, Begin(c, op, tab)
      PROVE  rr' \in 0..(N - 1) /\ calls' \in 0..MaxCalls
  BY <1>1, <1>2, PoolAssumption DEF Begin
<1>3. QED
  BY <1>1, <1>2
     DEF Next, vars, poolVars, Send, CallerCancels, WalkEnds, Serve, Fails, Succeeds, Created,
         Decodes, DecodeFails, Abandons, Abandoned, Observes, Listed, Unbinds, ForgetTab,
         OthersOpen, OthersClose

\* A pool that nobody has called satisfies the invariant.
LEMMA InitInv == Init => PoolInv
<1> SUFFICES ASSUME Init PROVE PoolInv
  OBVIOUS
<1>1. CallsOK
  BY NoCallOK DEF Init, CallsOK, CallOK
<1>2. TabsOK /\ DaemonsOK
  BY PoolAssumption DEF Init, TabsOK, DaemonsOK, BoundTabsAreReal
<1>3. RepliesReal
  BY DEF Init, RepliesReal, ReplyReal, NoCall, Bound, Answered, Underway
<1>4. LoadOK
  <2>1. \A b \in Backends : {c \in Callers : /\ call[c].at \in {"sent", "served", "abandon"}
                                             /\ Backend(c) = b} = {}
    BY DEF Init, NoCall
  <2>2. QED  BY <2>1, FS_EmptySet DEF Init, LoadOK, LoadIsExact
<1>5. PoolTypeOK
  BY <1>1, <1>2, <1>4, PoolAssumption
     DEF Init, PoolTypeOK, CallsOK, CallOK, CallRecords, Underway, TabsOK, LoadOK, Bound
<1>6. QED  BY <1>1, <1>2, <1>3, <1>4, <1>5 DEF PoolInv, TabsOK, LoadOK

\* Every step preserves it.
LEMMA NextInv == PoolInv /\ [Next]_vars => PoolInv'
<1> SUFFICES ASSUME PoolInv, [Next]_vars PROVE PoolInv'
  OBVIOUS
<1>1. CallsOK' /\ LoadOK' /\ RepliesReal' /\ TabsOK'
  BY CallsKept, LoadKept, RepliesKept, TabsKept
<1>2. DaemonsOK'
  BY DaemonsMoveOn DEF DaemonsMove
<1>3. PoolTypeOK'
  BY <1>1, CountersKept
     DEF PoolTypeOK, CallsOK, CallOK, CallRecords, Underway, TabsOK, LoadOK, Bound
<1>4. QED  BY <1>1, <1>2, <1>3 DEF PoolInv, TabsOK, LoadOK

LEMMA InvAlways == Spec => []PoolInv
<1>1. QED  BY InitInv, NextInv, PTL DEF Spec

\* The state of the pool, its loads included, keeps its type.
THEOREM PoolTyped == Spec => []PoolTypeOK
<1>1. PoolInv => PoolTypeOK
  BY DEF PoolInv
<1>2. QED  BY <1>1, InvAlways, PTL

\* Affinity: the map sends a tab only to the daemon that opened it.
THEOREM PoolAffinity == Spec => []BoundTabsAreReal
<1>1. PoolInv => BoundTabsAreReal
  BY DEF PoolInv
<1>2. QED  BY <1>1, InvAlways, PTL

\* The loads that order compares are the numbers of calls in flight.
THEOREM PoolLoadsExact == Spec => []LoadIsExact
<1>1. PoolInv => LoadIsExact
  BY DEF PoolInv
<1>2. QED  BY <1>1, InvAlways, PTL

\* AllFailedError means that every backend has been tried.
THEOREM PoolTriesAll == Spec => AllFailedMeansAll
<1>1. PoolInv /\ [Next]_vars =>
        [\A c \in Callers : (WalkEnds(c) /\ ~call[c].listed) => call[c].failed = Backends]_vars
  <2> SUFFICES ASSUME PoolInv, NEW c \in Callers, WalkEnds(c), ~call[c].listed
               PROVE  call[c].failed = Backends
    OBVIOUS
  <2>1. CallOK(call[c]) /\ call[c].at = "walk" /\ call[c].todo = <<>>
    BY ThisCall DEF PoolInv, WalkEnds
  <2>2. call[c].op \in Walking
    BY <2>1 DEF CallOK, CallRecords
  <2>3. Elements(call[c].todo) = {}
    BY <2>1, EmptySeq DEF Elements
  <2>4. QED  BY <2>1, <2>2, <2>3 DEF CallOK
<1>2. QED  BY <1>1, InvAlways, PTL DEF Spec, AllFailedMeansAll

=============================================================================
