------------------------ MODULE LocalCommunityProofs ------------------------
(***************************************************************************)
(* LocalCommunity: copies hang below their context, the messages that the  *)
(* bridge lost track of are accounted for, a failed forum costs its own    *)
(* copy only, and mutations follow their creates, for any number of        *)
(* forums, followers, replies, deliveries, subscriptions, faults and       *)
(* crashes.                                                                *)
(*                                                                         *)
(* JobInv says what each stage of a handler relies on: all of it can only  *)
(* be added to by another handler.  That its copy does not exist yet is    *)
(* not among it: another delivery of the object may make it meanwhile.     *)
(* AccountInv says what that costs.                                        *)
(***************************************************************************)
EXTENDS LocalCommunity, SequenceTheorems, FiniteSetTheorems, TLAPS

LEMMA EventShape ==
    ASSUME LocalCommunityAssumption, NEW j \in Events
    PROVE  /\ j[1] \in Ops /\ j[2] \in Objects
           /\ j[2] \in Nat /\ 0 \in Objects
           /\ j[2] > 0 => j[2] - 1 \in Objects
  <1>1. j \in Ops \X Objects \X Nat /\ Depth \in Nat
    BY DEF LocalCommunityAssumption
  <1>2. j[1] \in Ops /\ j[2] \in 0..Depth
    BY <1>1 DEF Objects
  <1> QED
    BY <1>1, <1>2 DEF Objects
-----------------------------------------------------------------------------
(* Lists.                                                                  *)
Distinct(list) ==
    \A i, k \in 1..Len(list) : list[i] = list[k] => i = k

LEMMA FunctionIsSeq ==
    ASSUME NEW S, NEW n \in Nat, NEW f \in [1..n -> S]
    PROVE  f \in Seq(S) /\ Len(f) = n
  OBVIOUS

LEMMA RemoveAtShape ==
    ASSUME NEW S, NEW list \in Seq(S), NEW i \in 1..Len(list)
    PROVE  /\ RemoveAt(list, i) \in Seq(S)
           /\ Len(RemoveAt(list, i)) = Len(list) - 1
           /\ \A k \in 1..(Len(list) - 1) :
                 RemoveAt(list, i)[k] = IF k < i THEN list[k] ELSE list[k + 1]
  <1> DEFINE s == SubSeq(list, 1, i - 1)
             t == SubSeq(list, i + 1, Len(list))
  <1>0. Len(list) \in Nat /\ i \in Nat
    OBVIOUS
  <1>1. /\ s \in Seq(S) /\ Len(s) = i - 1
        /\ \A k \in 1..(i - 1) : s[k] = list[k]
    BY <1>0, SubSeqProperties
  <1>2. /\ t \in Seq(S) /\ Len(t) = Len(list) - i
        /\ \A k \in 1..(Len(list) - i) : t[k] = list[i + k]
    BY <1>0, SubSeqProperties
  <1> HIDE DEF s, t
  <1>3. /\ s \o t \in Seq(S) /\ Len(s \o t) = Len(s) + Len(t)
        /\ \A k \in 1..(Len(s) + Len(t)) :
              (s \o t)[k] = IF k <= Len(s) THEN s[k] ELSE t[k - Len(s)]
    BY <1>1, <1>2, ConcatProperties
  <1>4. RemoveAt(list, i) = s \o t
    BY DEF RemoveAt, s, t
  <1>5. ASSUME NEW k \in 1..(Len(list) - 1)
        PROVE  (s \o t)[k] = IF k < i THEN list[k] ELSE list[k + 1]
    <2>1. CASE k < i
      BY <1>0, <1>1, <1>2, <1>3, <2>1
    <2>2. CASE ~(k < i)
      <3>1. k - Len(s) \in 1..(Len(list) - i) /\ i + (k - Len(s)) = k + 1
            /\ ~(k <= Len(s)) /\ k \in 1..(Len(s) + Len(t))
        BY <1>0, <1>1, <1>2, <2>2
      <3> QED
        BY <1>2, <1>3, <2>2, <3>1
    <2> QED
      BY <2>1, <2>2
  <1>6. Len(s \o t) = Len(list) - 1
    BY <1>0, <1>1, <1>2, <1>3
  <1> HIDE DEF s, t
  <1> QED
    BY <1>3, <1>4, <1>5, <1>6

LEMMA WithoutShape ==
    ASSUME NEW S, NEW list \in Seq(S), NEW f
    PROVE  /\ Without(list, f) \in Seq(S)
           /\ \A g : g # f => (Contains(Without(list, f), g) <=> Contains(list, g))
  <1>1. CASE ~Contains(list, f)
    BY <1>1 DEF Without
  <1>2. CASE Contains(list, f)
    <2> DEFINE i == CHOOSE k \in DOMAIN list : list[k] = f
               t == RemoveAt(list, i)
    <2>1. DOMAIN list = 1..Len(list) /\ Len(list) \in Nat
      OBVIOUS
    <2>2. i \in 1..Len(list) /\ list[i] = f
      BY <1>2, <2>1 DEF Contains
    <2>3. Without(list, f) = t
      BY <1>2 DEF Without
    <2> HIDE DEF i
    <2>4. /\ t \in Seq(S) /\ Len(t) = Len(list) - 1
          /\ \A k \in 1..(Len(list) - 1) : t[k] = IF k < i THEN list[k] ELSE list[k + 1]
      BY <2>2, RemoveAtShape
    <2> HIDE DEF t
    <2>5. ASSUME NEW g, g # f, Contains(list, g) PROVE Contains(t, g)
      <3>1. PICK k \in 1..Len(list) : list[k] = g
        BY <2>5 DEF Contains
      <3>2. k # i
        BY <2>2, <2>5, <3>1
      <3>3. CASE k < i
        BY <2>1, <2>2, <2>4, <3>1, <3>3 DEF Contains
      <3>4. CASE k > i
        <4>1. k - 1 \in 1..(Len(list) - 1) /\ ~(k - 1 < i) /\ (k - 1) + 1 = k
          BY <2>1, <2>2, <3>1, <3>4
        <4>2. t[k - 1] = g
          BY <2>4, <3>1, <4>1
        <4> QED
          BY <2>4, <4>1, <4>2 DEF Contains
      <3> QED
        BY <2>1, <2>2, <3>1, <3>2, <3>3, <3>4
    <2>6. ASSUME NEW g, Contains(t, g) PROVE Contains(list, g)
      <3>1. PICK k \in 1..Len(t) : t[k] = g
        BY <2>6 DEF Contains
      <3> QED
        BY <2>1, <2>2, <2>4, <3>1 DEF Contains
    <2> QED
      BY <2>3, <2>4, <2>5, <2>6
  <1> QED
    BY <1>1, <1>2

(* In a list that holds nothing twice, Without leaves none behind.         *)
LEMMA WithoutDistinct ==
    ASSUME NEW S, NEW list \in Seq(S), NEW f, Distinct(list)
    PROVE  Distinct(Without(list, f)) /\ ~Contains(Without(list, f), f)
  <1>1. CASE ~Contains(list, f)
    BY <1>1 DEF Without
  <1>2. CASE Contains(list, f)
    <2> DEFINE i == CHOOSE k \in DOMAIN list : list[k] = f
               t == RemoveAt(list, i)
    <2>1. DOMAIN list = 1..Len(list) /\ Len(list) \in Nat
      OBVIOUS
    <2>2. i \in 1..Len(list) /\ list[i] = f
      BY <1>2, <2>1 DEF Contains
    <2>3. Without(list, f) = t
      BY <1>2 DEF Without
    <2> HIDE DEF i
    <2>4. /\ Len(t) = Len(list) - 1
          /\ \A k \in 1..(Len(list) - 1) : t[k] = IF k < i THEN list[k] ELSE list[k + 1]
      BY <2>2, RemoveAtShape
    <2> HIDE DEF t
    <2>5. Distinct(t)
      BY <2>1, <2>2, <2>4 DEF Distinct
    <2>6. ~Contains(t, f)
      BY <2>1, <2>2, <2>4 DEF Distinct, Contains
    <2> QED
      BY <2>3, <2>5, <2>6
  <1> QED
    BY <1>1, <1>2

LEMMA ConcatContains ==
    ASSUME NEW S, NEW s \in Seq(S), NEW t \in Seq(S), NEW f
    PROVE  Contains(s \o t, f) <=> Contains(s, f) \/ Contains(t, f)
  <1>1. /\ Len(s \o t) = Len(s) + Len(t) /\ Len(s) \in Nat /\ Len(t) \in Nat
        /\ \A k \in 1..(Len(s) + Len(t)) :
              (s \o t)[k] = IF k <= Len(s) THEN s[k] ELSE t[k - Len(s)]
    BY ConcatProperties
  <1>2. ASSUME NEW k \in 1..Len(t), t[k] = f PROVE Contains(s \o t, f)
    <2>1. Len(s) + k \in 1..(Len(s) + Len(t)) /\ ~(Len(s) + k <= Len(s))
          /\ (Len(s) + k) - Len(s) = k
      BY <1>1
    <2> QED
      BY <1>1, <1>2, <2>1 DEF Contains
  <1>3. ASSUME NEW k \in 1..Len(s), s[k] = f PROVE Contains(s \o t, f)
    BY <1>1, <1>3 DEF Contains
  <1>4. ASSUME Contains(s \o t, f) PROVE Contains(s, f) \/ Contains(t, f)
    <2>1. PICK k \in 1..(Len(s) + Len(t)) : (s \o t)[k] = f
      BY <1>1, <1>4 DEF Contains
    <2>2. CASE k <= Len(s)
      BY <1>1, <2>1, <2>2 DEF Contains
    <2>3. CASE ~(k <= Len(s))
      <3>1. k - Len(s) \in 1..Len(t) /\ t[k - Len(s)] = f
        BY <1>1, <2>1, <2>3
      <3> QED
        BY <3>1 DEF Contains
    <2> QED
      BY <2>2, <2>3
  <1> QED
    BY <1>2, <1>3, <1>4 DEF Contains

LEMMA TailContains ==
    ASSUME NEW S, NEW s \in Seq(S), s # <<>>
    PROVE  /\ Head(s) \in S /\ Tail(s) \in Seq(S)
           /\ \A g : Contains(s, g) <=> g = Head(s) \/ Contains(Tail(s), g)
  <1>1. /\ Len(s) \in Nat \ {0} /\ Head(s) = s[1] /\ Head(s) \in S
        /\ Tail(s) \in Seq(S) /\ Len(Tail(s)) = Len(s) - 1
        /\ \A k \in 1..(Len(s) - 1) : Tail(s)[k] = s[k + 1]
    BY HeadTailProperties, EmptySeq
  <1>2. ASSUME NEW g, Contains(s, g) PROVE g = Head(s) \/ Contains(Tail(s), g)
    <2>1. PICK k \in 1..Len(s) : s[k] = g
      BY <1>2 DEF Contains
    <2>2. CASE k # 1
      <3>1. k - 1 \in 1..(Len(s) - 1) /\ (k - 1) + 1 = k
        BY <1>1, <2>1, <2>2
      <3> QED
        BY <1>1, <2>1, <3>1 DEF Contains
    <2> QED
      BY <1>1, <2>1, <2>2
  <1>3. ASSUME NEW g, g = Head(s) \/ Contains(Tail(s), g) PROVE Contains(s, g)
    BY <1>1, <1>3 DEF Contains
  <1> QED
    BY <1>1, <1>2, <1>3
-----------------------------------------------------------------------------
(* Surfaces.                                                               *)
Surfaces == surfaces \in [Objects -> Seq(Surface)]

LEMMA HasMeans ==
    ASSUME Surfaces, NEW o \in Objects
    PROVE  /\ Listed(o) \in Seq(Forums)
           /\ Len(Listed(o)) = Len(surfaces[o])
           /\ \A i \in 1..Len(surfaces[o]) : Listed(o)[i] = surfaces[o][i].forum
           /\ \A f : Has(o, f) <=> \E i \in 1..Len(surfaces[o]) : surfaces[o][i].forum = f
  <1>1. surfaces[o] \in Seq(Surface) /\ Len(surfaces[o]) \in Nat
        /\ DOMAIN surfaces[o] = 1..Len(surfaces[o])
    BY DEF Surfaces
  <1>2. \A i \in 1..Len(surfaces[o]) : surfaces[o][i].forum \in Forums
    <2>1. \A i \in 1..Len(surfaces[o]) : surfaces[o][i] \in Surface
      BY <1>1
    <2> QED
      BY <2>1 DEF Surface
  <1>3. Listed(o) = [i \in 1..Len(surfaces[o]) |-> surfaces[o][i].forum]
    BY <1>1 DEF Listed
  <1>4. /\ Listed(o) \in Seq(Forums)
        /\ Len(Listed(o)) = Len(surfaces[o])
        /\ \A i \in 1..Len(surfaces[o]) : Listed(o)[i] = surfaces[o][i].forum
    BY <1>1, <1>2, <1>3
  <1> QED
    BY <1>4 DEF Has, Contains

LEMMA HasMeansNext ==
    ASSUME Surfaces', NEW o \in Objects
    PROVE  /\ Len(Listed(o)') = Len(surfaces'[o])
           /\ \A i \in 1..Len(surfaces'[o]) : Listed(o)'[i] = surfaces'[o][i].forum
           /\ \A f : Has(o, f)' <=>
                        \E i \in 1..Len(surfaces'[o]) : surfaces'[o][i].forum = f
  <1>1. surfaces'[o] \in Seq(Surface) /\ Len(surfaces'[o]) \in Nat
        /\ DOMAIN surfaces'[o] = 1..Len(surfaces'[o])
    BY DEF Surfaces
  <1>3. Listed(o)' = [i \in 1..Len(surfaces'[o]) |-> surfaces'[o][i].forum]
    BY <1>1 DEF Listed
  <1>4. /\ Len(Listed(o)') = Len(surfaces'[o])
        /\ \A i \in 1..Len(surfaces'[o]) : Listed(o)'[i] = surfaces'[o][i].forum
    BY <1>1, <1>3
  <1> QED
    BY <1>4 DEF Has, Contains

(* Which forums have a copy stays as it is.                                *)
SameCopies ==
    /\ Surfaces'
    /\ \A n \in Objects, g \in Forums : Has(n, g)' <=> Has(n, g)
    /\ \A n \in Objects : Distinct(Listed(n)) => Distinct(Listed(n)')

(* Forum f gets the copy of object o it did not have.                      *)
OneCopyMore(o, f) ==
    /\ Surfaces'
    /\ \A n \in Objects, g \in Forums : Has(n, g)' <=> Has(n, g) \/ (n = o /\ g = f)
    /\ \A n \in Objects : Distinct(Listed(n)) => Distinct(Listed(n)')

LEMMA UnchangedCopies ==
    ASSUME Surfaces, UNCHANGED surfaces
    PROVE  SameCopies
  <1>1. Surfaces'
    BY DEF Surfaces
  <1>2. \A n \in Objects : Listed(n)' = Listed(n)
    BY DEF Listed
  <1> QED
    BY <1>1, <1>2 DEF SameCopies, Has

LEMMA ShowShape ==
    ASSUME Surfaces, NEW o \in Objects, NEW f, NEW op \in Ops, Show(o, f, op)
    PROVE  SameCopies
  <1>1. surfaces[o] \in Seq(Surface) /\ Len(surfaces[o]) \in Nat
        /\ DOMAIN surfaces[o] = 1..Len(surfaces[o])
        /\ \A i \in 1..Len(surfaces[o]) : surfaces[o][i] \in Surface
    BY DEF Surfaces
  <1> DEFINE new == [i \in 1..Len(surfaces[o]) |->
                        IF surfaces[o][i].forum = f THEN [surfaces[o][i] EXCEPT !.shows = op]
                                                    ELSE surfaces[o][i]]
  <1>2. surfaces' = [surfaces EXCEPT ![o] = new]
    BY <1>1 DEF Show
  <1>3. \A i \in 1..Len(surfaces[o]) :
           new[i] \in Surface /\ new[i].forum = surfaces[o][i].forum
    BY <1>1 DEF Surface
  <1>4. new \in Seq(Surface) /\ Len(new) = Len(surfaces[o])
    <2>1. new \in [1..Len(surfaces[o]) -> Surface]
      BY <1>3
    <2> HIDE DEF new
    <2> QED
      BY <1>1, <2>1, FunctionIsSeq
  <1> HIDE DEF new
  <1>5. surfaces'[o] = new /\ \A n \in Objects \ {o} : surfaces'[n] = surfaces[n]
    BY <1>2 DEF Surfaces
  <1>6. Surfaces'
    BY <1>2, <1>4 DEF Surfaces
  <1>7. \A n \in Objects : /\ Len(surfaces'[n]) = Len(surfaces[n])
                            /\ \A i \in 1..Len(surfaces[n]) :
                                  surfaces'[n][i].forum = surfaces[n][i].forum
    BY <1>3, <1>4, <1>5
  <1>8. ASSUME NEW n \in Objects, NEW g \in Forums PROVE Has(n, g)' <=> Has(n, g)
    BY <1>6, <1>7, HasMeans, HasMeansNext, SMTT(30)
  <1>9. ASSUME NEW n \in Objects, Distinct(Listed(n)) PROVE Distinct(Listed(n)')
    BY <1>6, <1>7, <1>9, HasMeans, HasMeansNext DEF Distinct
  <1> QED
    BY <1>6, <1>8, <1>9 DEF SameCopies

LEMMA RecordShape ==
    ASSUME Surfaces, NEW o \in Objects, NEW f \in Forums, Record(o, f), ~Has(o, f)
    PROVE  OneCopyMore(o, f)
  <1> DEFINE copy == [forum |-> f, shows |-> "create"]
             k == Len(surfaces[o]) + 1
  <1>1. surfaces[o] \in Seq(Surface) /\ Len(surfaces[o]) \in Nat /\ copy \in Surface
    <2>1. copy \in Surface
      BY DEF Surface, Ops
    <2> HIDE DEF copy
    <2> QED
      BY <2>1 DEF Surfaces
  <1>2. surfaces' = [surfaces EXCEPT ![o] = Append(surfaces[o], copy)]
    BY DEF Record
  <1>3. copy.forum = f
    OBVIOUS
  <1> HIDE DEF copy
  <1>4. /\ Append(surfaces[o], copy) \in Seq(Surface)
        /\ Len(Append(surfaces[o], copy)) = Len(surfaces[o]) + 1
        /\ \A i \in 1..Len(surfaces[o]) : Append(surfaces[o], copy)[i] = surfaces[o][i]
        /\ Append(surfaces[o], copy)[Len(surfaces[o]) + 1] = copy
    BY <1>1, AppendProperties
  <1>5. /\ surfaces'[o] = Append(surfaces[o], copy)
        /\ \A n \in Objects \ {o} : surfaces'[n] = surfaces[n]
    BY <1>2 DEF Surfaces
  <1>6. Surfaces'
    BY <1>2, <1>4 DEF Surfaces
  <1>7. /\ Len(surfaces'[o]) = k
        /\ \A i \in 1..Len(surfaces[o]) : surfaces'[o][i].forum = surfaces[o][i].forum
        /\ surfaces'[o][k].forum = f
        /\ \A i \in 1..k : i \in 1..Len(surfaces[o]) \/ i = k
        /\ k \in 1..k /\ 1..Len(surfaces[o]) \subseteq 1..k
    BY <1>1, <1>3, <1>4, <1>5
  <1> HIDE DEF k
  <1>8. ASSUME NEW n \in Objects, NEW g \in Forums
        PROVE  Has(n, g)' <=> Has(n, g) \/ (n = o /\ g = f)
    <2>1. CASE n = o
      BY <1>6, <1>7, <2>1, HasMeans, HasMeansNext, SMTT(30)
    <2>2. CASE n # o
      BY <1>5, <1>6, <2>2, HasMeans, HasMeansNext, SMTT(30)
    <2> QED
      BY <2>1, <2>2
  <1>9. ASSUME NEW n \in Objects, Distinct(Listed(n)) PROVE Distinct(Listed(n)')
    <2>1. CASE n = o
      <3>1. \A i \in 1..Len(surfaces[o]) : surfaces[o][i].forum # f
        BY HasMeans
      <3>2. \A i, l \in 1..Len(surfaces[o]) :
               surfaces[o][i].forum = surfaces[o][l].forum => i = l
        BY <1>9, <2>1, HasMeans DEF Distinct
      <3>3. \A i, l \in 1..k : surfaces'[o][i].forum = surfaces'[o][l].forum => i = l
        BY <1>7, <3>1, <3>2
      <3> QED
        BY <1>6, <1>7, <2>1, <3>3, HasMeansNext DEF Distinct
    <2>2. CASE n # o
      BY <1>5, <1>9, <2>2 DEF Listed
    <2> QED
      BY <2>1, <2>2
  <1> QED
    BY <1>6, <1>8, <1>9 DEF OneCopyMore
-----------------------------------------------------------------------------
(* Handlers.                                                               *)
Stages == {"idle", "publishing", "hosting", "fanout", "calling", "relaying"}
Passing == {"fanout", "calling", "relaying"}

InContext(o, f) == o > 0 => Has(0, f) /\ Has(o - 1, f)

(* What the handler of delivery j relies on while it awaits a call.        *)
Knows(j) ==
    /\ jobs[j].stage \in {"publishing", "hosting"} => j[1] = "create"
    /\ jobs[j].stage = "publishing" =>
          /\ source[j[2]] \in Forums
          /\ InContext(j[2], source[j[2]])
    /\ jobs[j].stage = "hosting" =>
          /\ Inbound(j[2])
          /\ j[2] > 0 => Has(0, Host)
    /\ jobs[j].stage \in Passing => j[2] \in rows
    /\ jobs[j].stage = "calling" =>
          /\ jobs[j].todo # <<>>
          /\ j[1] = "create" => InContext(j[2], Head(jobs[j].todo))
    /\ jobs[j].stage = "relaying" => jobs[j].todo = <<>>

JobInv == \A j \in Events : Knows(j)

(* A copy belongs to an object that has a canonical row.                   *)
RowsInv == \A o \in Objects, f \in Forums : Has(o, f) => o \in rows

(* The unique constraints of local_subscribers and of the surfaces.        *)
NoneTwice ==
    /\ Distinct(subscribers)
    /\ \A o \in Objects : Distinct(Listed(o))

Inv == /\ TypeOK /\ JobInv /\ RowsInv /\ NoneTwice
       /\ CopiesHaveContext

LEMMA JobShapes ==
    /\ Idle \in Job /\ Idle.stage = "idle"
    /\ \A s \in Stages : /\ At(s) \in Job
                         /\ At(s).stage = s /\ At(s).todo = <<>> /\ At(s).batch = {}
    /\ \A t \in Seq(Forums), e \in {"processed", "skipped"} :
          /\ Pass(t, e) \in Job
          /\ Pass(t, e).stage = "fanout" /\ Pass(t, e).todo = t /\ Pass(t, e).ends = e
          /\ Pass(t, e).batch = {}
  <1>1. /\ <<>> \in Seq(Forums) /\ {} \in SUBSET Remotes
        /\ "idle" \in Stages /\ "fanout" \in Stages
        /\ "processed" \in {"processed", "skipped"}
    BY DEF Stages
  <1>2. \A s \in Stages, t \in Seq(Forums), b \in SUBSET Remotes,
            e \in {"processed", "skipped"} :
           [stage |-> s, todo |-> t, batch |-> b, ends |-> e] \in Job
    BY DEF Job, Stages
  <1>3. Idle \in Job /\ Idle.stage = "idle"
    BY <1>1, <1>2 DEF Idle
  <1>4. Idle.todo = <<>> /\ Idle.batch = {}
    BY DEF Idle
  <1>5. ASSUME NEW r \in Job, NEW s \in Stages
        PROVE  LET k == [r EXCEPT !.stage = s]
               IN  k \in Job /\ k.stage = s /\ k.todo = r.todo /\ k.batch = r.batch
    BY DEF Job, Stages
  <1>6. ASSUME NEW s \in Stages
        PROVE  /\ At(s) \in Job
               /\ At(s).stage = s /\ At(s).todo = <<>> /\ At(s).batch = {}
    BY <1>3, <1>4, <1>5 DEF At
  <1>7. ASSUME NEW t \in Seq(Forums), NEW e \in {"processed", "skipped"}
        PROVE  /\ Pass(t, e) \in Job
               /\ Pass(t, e).stage = "fanout" /\ Pass(t, e).todo = t /\ Pass(t, e).ends = e
               /\ Pass(t, e).batch = {}
    <2> DEFINE k == [Idle EXCEPT !.stage = "fanout", !.todo = t, !.ends = e]
    <2>1. /\ k \in Job /\ k.stage = "fanout" /\ k.todo = t /\ k.ends = e
          /\ k.batch = Idle.batch
      <3>1. Idle \in Job
        BY <1>3
      <3> QED
        BY <3>1 DEF Job
    <2>2. Pass(t, e) = k
      BY DEF Pass
    <2> HIDE DEF k
    <2> QED
      BY <1>4, <2>1, <2>2
  <1> QED
    BY <1>3, <1>6, <1>7

LEMMA SetJob ==
    ASSUME jobs \in [Events -> Job], NEW j \in Events, NEW k \in Job,
           jobs' = [jobs EXCEPT ![j] = k]
    PROVE  /\ jobs' \in [Events -> Job]
           /\ jobs'[j] = k
           /\ \A i \in Events \ {j} : jobs'[i] = jobs[i]
  OBVIOUS

LEMMA JobFields ==
    ASSUME jobs \in [Events -> Job], NEW j \in Events
    PROVE  /\ jobs[j] \in Job /\ jobs[j].stage \in Stages
           /\ jobs[j].todo \in Seq(Forums) /\ jobs[j].batch \subseteq Remotes
           /\ jobs[j].ends \in {"processed", "skipped"}
  <1>1. jobs[j] \in Job
    OBVIOUS
  <1> QED
    BY <1>1 DEF Job, Stages

(* What j does, seen from the other handlers: theirs stay, and what they   *)
(* rely on is only added to.                                               *)
Acts(j) ==
    /\ \A i \in Events \ {j} : jobs'[i] = jobs[i]
    /\ rows \subseteq rows'
    /\ \A n \in Objects, g \in Forums : Has(n, g) => Has(n, g)'
    /\ UNCHANGED source
    /\ Knows(j)'

LEMMA OthersKnow ==
    ASSUME LocalCommunityAssumption, TypeOK, JobInv, NEW j \in Events, Acts(j)
    PROVE  JobInv'
  <1> SUFFICES ASSUME NEW i \in Events \ {j} PROVE Knows(i)'
    BY DEF JobInv, Acts
  <1>1. /\ i[2] \in Objects /\ i[2] \in Nat /\ 0 \in Objects
        /\ i[2] > 0 => i[2] - 1 \in Objects
    BY EventShape
  <1>2. Knows(i) /\ jobs'[i] = jobs[i]
    BY DEF JobInv, Acts
  <1>3. /\ source' = source
        /\ rows \subseteq rows'
        /\ \A n \in Objects, g \in Forums : Has(n, g) => Has(n, g)'
    BY DEF Acts
  <1>4. jobs[i].stage = "calling" => Head(jobs[i].todo) \in Forums
    <2>1. jobs[i].todo \in Seq(Forums)
      BY JobFields DEF TypeOK
    <2> QED
      BY <1>2, <2>1, TailContains DEF Knows
  <1>5. ASSUME NEW f \in Forums, InContext(i[2], f) PROVE InContext(i[2], f)'
    BY <1>1, <1>3, <1>5 DEF InContext
  <1>6. Host \in Forums
    BY DEF Forums
  <1> QED
    BY <1>1, <1>2, <1>3, <1>4, <1>5, <1>6 DEF Knows, Inbound
-----------------------------------------------------------------------------
(* The effect of each action on handlers and copies.                       *)

(* A copy comes with its row and below its context.                        *)
NewCopy(j) ==
    /\ j[1] = "create" /\ j[2] \in rows'
    /\ \E f \in Forums : /\ OneCopyMore(j[2], f)
                         /\ j[2] > 0 => Has(0, f) /\ (f \in Subs => Has(j[2] - 1, f))

Jobs == jobs' \in [Events -> Job]

(* A step of j's handler that changes no copy and no row.                  *)
LEMMA QuietStep ==
    ASSUME LocalCommunityAssumption, TypeOK, NEW j \in Events, NEW k \in Job,
           jobs' = [jobs EXCEPT ![j] = k], SameCopies, UNCHANGED <<source, rows>>,
           Knows(j)'
    PROVE  Acts(j) /\ Jobs
  <1>1. jobs' \in [Events -> Job] /\ \A i \in Events \ {j} : jobs'[i] = jobs[i]
    BY SetJob DEF TypeOK
  <1> QED
    BY <1>1 DEF Acts, SameCopies, Jobs

LEMMA SelectedForums ==
    ASSUME LocalCommunityAssumption, TypeOK, NEW o \in Objects
    PROVE  /\ SelectTargets(o) \in Seq(Forums)
           /\ \A f : Contains(SelectTargets(o), f) <=>
                        \/ source[o] \in Subs /\ f = Host
                        \/ Contains(Without(subscribers, source[o]), f)
  <1>1. subscribers \in Seq(Forums)
    BY DEF TypeOK, Forums
  <1>2. Without(subscribers, source[o]) \in Seq(Forums)
    BY <1>1, WithoutShape
  <1> DEFINE first == IF source[o] \in Subs THEN <<Host>> ELSE <<>>
  <1>3. first \in Seq(Forums)
    <2>1. Host \in Forums
      BY DEF Forums
    <2> QED
      BY <2>1
  <1>4. \A f : Contains(first, f) <=> source[o] \in Subs /\ f = Host
    BY DEF Contains
  <1>5. SelectTargets(o) = first \o Without(subscribers, source[o])
    BY DEF SelectTargets
  <1> HIDE DEF first
  <1> QED
    BY <1>2, <1>3, <1>4, <1>5, ConcatContains, ConcatProperties

(* Handlers that begin.                                                    *)
LEMMA ReceiveActs ==
    ASSUME LocalCommunityAssumption, Inv, NEW j \in Events, Receive(j)
    PROVE  Acts(j) /\ Jobs /\ SameCopies
  <1>1. /\ j[2] \in Objects /\ j[2] \in Nat /\ 0 \in Objects
        /\ j[2] > 0 => j[2] - 1 \in Objects
    BY EventShape
  <1>2. TypeOK /\ JobInv /\ RowsInv /\ Surfaces /\ source[j[2]] \in Forums \cup Remotes
    <2>1. source \in [Objects -> Forums \cup Remotes]
      BY DEF Inv, TypeOK, LocalCommunityAssumption
    <2> QED
      BY <1>1, <2>1 DEF Inv, TypeOK, Surfaces
  <1>3. SameCopies /\ UNCHANGED <<source, rows>>
    <2>1. UNCHANGED <<surfaces, source, rows>>
      BY DEF Receive, Repair, RefuseInbound, CreateInbound, CreateDiscord, Mutate,
             IgnoreMutation, Membership
    <2> QED
      BY <1>2, <2>1, UnchangedCopies
  <1>4. \A n \in Objects, g \in Forums : Has(n, g)' <=> Has(n, g)
    BY <1>3 DEF SameCopies
  <1>5. jobs \in [Events -> Job]
    BY <1>2 DEF TypeOK
  <1>6. CASE Repair(j)
    <2>1. SelectTargets(j[2]) \in Seq(Forums)
      BY <1>1, <1>2, SelectedForums
    <2> DEFINE k == Pass(SelectTargets(j[2]), "skipped")
    <2>2. k \in Job /\ k.stage = "fanout"
      BY <2>1, JobShapes
    <2>3. jobs' = [jobs EXCEPT ![j] = k]
      BY <1>1, <1>6 DEF Repair, Start
    <2> HIDE DEF k
    <2>4. jobs'[j] = k
      BY <1>5, <2>2, <2>3, SetJob
    <2>5. j[2] \in rows
      BY <1>1, <1>2, <1>6 DEF Repair, RowsInv, Inbound
    <2>6. Knows(j)'
      BY <1>3, <2>2, <2>4, <2>5 DEF Knows, Passing
    <2> QED
      BY <1>2, <1>3, <2>2, <2>3, <2>6, QuietStep
  <1>7. CASE RefuseInbound(j)
    <2>1. jobs' = [jobs EXCEPT ![j] = Idle]
      BY <1>1, <1>7 DEF RefuseInbound, Finish
    <2>2. jobs'[j] = Idle /\ Idle \in Job /\ Idle.stage = "idle"
      BY <1>5, <2>1, SetJob, JobShapes
    <2>3. Knows(j)'
      BY <2>2 DEF Knows, Passing
    <2> QED
      BY <1>2, <1>3, <2>1, <2>2, <2>3, QuietStep
  <1>8. CASE CreateInbound(j)
    <2> DEFINE k == At("hosting")
    <2>1. k \in Job /\ k.stage = "hosting"
      BY JobShapes DEF Stages
    <2>2. jobs' = [jobs EXCEPT ![j] = k]
      BY <1>1, <1>8 DEF CreateInbound, Start
    <2> HIDE DEF k
    <2>3. jobs'[j] = k
      BY <1>5, <2>1, <2>2, SetJob
    <2>4. Knows(j)'
      BY <1>1, <1>3, <1>4, <1>8, <2>1, <2>3
      DEF CreateInbound, Arrives, Knows, Passing, Inbound, Forums
    <2> QED
      BY <1>2, <1>3, <2>1, <2>2, <2>4, QuietStep
  <1>9. CASE CreateDiscord(j)
    <2> DEFINE k == At("publishing")
    <2>1. k \in Job /\ k.stage = "publishing"
      BY JobShapes DEF Stages
    <2>2. jobs' = [jobs EXCEPT ![j] = k]
      BY <1>1, <1>9 DEF CreateDiscord, Start
    <2> HIDE DEF k
    <2>3. jobs'[j] = k
      BY <1>5, <2>1, <2>2, SetJob
    <2>4. source[j[2]] \in Forums
      BY <1>2, <1>9 DEF CreateDiscord, Inbound
    <2>5. Knows(j)'
      BY <1>1, <1>3, <1>4, <1>9, <2>1, <2>3, <2>4
      DEF CreateDiscord, Knows, Passing, InContext
    <2> QED
      BY <1>2, <1>3, <2>1, <2>2, <2>5, QuietStep
  <1>10. CASE Mutate(j)
    <2> DEFINE t == Without(Listed(j[2]), source[j[2]])
               k == Pass(t, "processed")
    <2>1. t \in Seq(Forums)
      BY <1>1, <1>2, HasMeans, WithoutShape
    <2>2. k \in Job /\ k.stage = "fanout"
      BY <2>1, JobShapes
    <2>3. jobs' = [jobs EXCEPT ![j] = k]
      BY <1>10 DEF Mutate, Start
    <2> HIDE DEF k
    <2>4. jobs'[j] = k
      BY <1>5, <2>2, <2>3, SetJob
    <2>5. j[2] \in rows
      BY <1>1, <1>2, <1>10 DEF Mutate, MayMutate, RowsInv, Inbound
    <2>6. Knows(j)'
      BY <1>3, <2>2, <2>4, <2>5 DEF Knows, Passing
    <2> QED
      BY <1>2, <1>3, <2>2, <2>3, <2>6, QuietStep
  <1>11. CASE IgnoreMutation(j)
    <2>1. jobs' = [jobs EXCEPT ![j] = Idle]
      BY <1>11 DEF IgnoreMutation, Finish
    <2>2. jobs'[j] = Idle /\ Idle \in Job /\ Idle.stage = "idle"
      BY <1>5, <2>1, SetJob, JobShapes
    <2>3. Knows(j)'
      BY <2>2 DEF Knows, Passing
    <2> QED
      BY <1>2, <1>3, <2>1, <2>2, <2>3, QuietStep
  <1> QED
    BY <1>3, <1>6, <1>7, <1>8, <1>9, <1>10, <1>11 DEF Receive

(* The first surface of an object.                                         *)
LEMMA StoredActs ==
    ASSUME LocalCommunityAssumption, Inv, NEW j \in Events, Stored(j)
    PROVE  /\ Acts(j) /\ Jobs /\ NewCopy(j)
           /\ OneCopyMore(j[2], IF Inbound(j[2]) THEN Host ELSE source[j[2]])
           /\ ~Has(j[2], IF Inbound(j[2]) THEN Host ELSE source[j[2]])
           /\ jobs'[j].stage = "fanout" /\ jobs'[j].todo = SelectTargets(j[2])
           /\ jobs'[j].ends = "processed"
  <1> DEFINE o == j[2]
             f == IF Inbound(o) THEN Host ELSE source[o]
             k == Pass(SelectTargets(o), "processed")
  <1>1. /\ o \in Objects /\ o \in Nat /\ 0 \in Objects
        /\ o > 0 => o - 1 \in Objects
    BY EventShape
  <1>2. TypeOK /\ Knows(j) /\ RowsInv /\ Surfaces /\ jobs \in [Events -> Job]
    BY DEF Inv, TypeOK, Surfaces, JobInv
  <1>3. /\ jobs[j].stage \in {"publishing", "hosting"} /\ o \notin rows
        /\ rows' = rows \cup {o} /\ Record(o, f) /\ UNCHANGED source
        /\ jobs' = [jobs EXCEPT ![j] = k]
    BY DEF Stored, Ready, Moves, Membership
  <1>4. Host \in Forums /\ Host \notin Subs /\ Forums \cap Remotes = {}
    BY DEF LocalCommunityAssumption, Forums
  <1>5. f \in Forums /\ ~Has(o, f)
        /\ (o > 0 => Has(0, f) /\ (f \in Subs => Has(o - 1, f)))
    <2>1. CASE jobs[j].stage = "publishing"
      BY <1>1, <1>2, <1>3, <1>4, <2>1 DEF Knows, InContext, Inbound, RowsInv
    <2>2. CASE jobs[j].stage = "hosting"
      BY <1>1, <1>2, <1>3, <1>4, <2>2 DEF Knows, RowsInv
    <2> QED
      BY <1>3, <2>1, <2>2
  <1> HIDE DEF f
  <1>6. OneCopyMore(o, f)
    BY <1>1, <1>2, <1>3, <1>5, RecordShape
  <1>7. /\ k \in Job /\ k.stage = "fanout" /\ k.todo = SelectTargets(o)
        /\ k.ends = "processed"
    BY <1>1, <1>2, SelectedForums, JobShapes
  <1> HIDE DEF k
  <1>8. Jobs /\ jobs'[j] = k /\ \A i \in Events \ {j} : jobs'[i] = jobs[i]
    BY <1>2, <1>3, <1>7, SetJob DEF Jobs
  <1>9. Knows(j)'
    BY <1>1, <1>3, <1>7, <1>8 DEF Knows, Passing
  <1>10. Acts(j)
    BY <1>1, <1>3, <1>6, <1>8, <1>9 DEF Acts, OneCopyMore
  <1>11. j[1] = "create"
    BY <1>2, <1>3 DEF Knows
  <1>12. NewCopy(j)
    BY <1>3, <1>5, <1>6, <1>11 DEF NewCopy
  <1>13. OneCopyMore(o, f) /\ ~Has(o, f)
    BY <1>5, <1>6
  <1> QED
    BY <1>7, <1>8, <1>10, <1>12, <1>13 DEF f

(* The next target.                                                        *)
LEMMA TargetActs ==
    ASSUME LocalCommunityAssumption, Inv, NEW j \in Events, Target(j)
    PROVE  Acts(j) /\ Jobs /\ SameCopies
  <1> DEFINE f == Head(jobs[j].todo)
             k == IF Wanted(j, f) THEN [jobs[j] EXCEPT !.stage = "calling"]
                                  ELSE [jobs[j] EXCEPT !.todo = Tail(@)]
  <1>1. /\ j[2] \in Objects /\ j[2] \in Nat /\ 0 \in Objects
        /\ j[2] > 0 => j[2] - 1 \in Objects
    BY EventShape
  <1>2. TypeOK /\ Knows(j) /\ Surfaces /\ jobs \in [Events -> Job]
    BY DEF Inv, TypeOK, Surfaces, JobInv
  <1>3. /\ jobs[j].stage = "fanout" /\ jobs[j].todo # <<>>
        /\ jobs' = [jobs EXCEPT ![j] = k]
        /\ UNCHANGED <<surfaces, source, rows>>
    BY DEF Target, Moves, Membership
  <1>4. SameCopies /\ \A n \in Objects, g \in Forums : Has(n, g)' <=> Has(n, g)
    BY <1>2, <1>3, UnchangedCopies DEF SameCopies
  <1>5. jobs[j] \in Job /\ jobs[j].todo \in Seq(Forums)
    BY <1>2, JobFields
  <1>6. f \in Forums /\ Tail(jobs[j].todo) \in Seq(Forums)
    BY <1>3, <1>5, TailContains
  <1>7. k \in Job
    BY <1>5, <1>6 DEF Job
  <1>8. Wanted(j, f) => k.stage = "calling" /\ k.todo = jobs[j].todo
    BY <1>5 DEF Job
  <1>9. ~Wanted(j, f) => k.stage = "fanout"
    BY <1>3, <1>5 DEF Job
  <1>10. Head(k.todo) = f \/ ~Wanted(j, f)
    BY <1>8
  <1> HIDE DEF k, f
  <1>11. jobs'[j] = k
    BY <1>2, <1>3, <1>7, SetJob
  <1>12. ASSUME NEW g \in Forums, g = f, j[1] = "create", Wanted(j, f)
         PROVE  InContext(j[2], g)'
    BY <1>1, <1>4, <1>12 DEF Wanted, InContext
  <1>13. Knows(j)'
    <2>1. CASE Wanted(j, f)
      <3>1. jobs'[j].todo # <<>> /\ Head(jobs'[j].todo) = f /\ jobs'[j].stage = "calling"
        BY <1>3, <1>8, <1>10, <1>11, <2>1
      <3>2. j[2] \in rows'
        BY <1>2, <1>3 DEF Knows, Passing
      <3> QED
        BY <1>6, <1>12, <2>1, <3>1, <3>2 DEF Knows, Passing
    <2>2. CASE ~Wanted(j, f)
      BY <1>2, <1>3, <1>9, <1>11, <2>2 DEF Knows, Passing
    <2> QED
      BY <2>1, <2>2
  <1> QED
    BY <1>2, <1>3, <1>4, <1>7, <1>13, QuietStep

(* A call that ends, one way or another.                                   *)
LEMMA CallingShape ==
    ASSUME LocalCommunityAssumption, Inv, NEW j \in Events, Calling(j)
    PROVE  /\ Head(jobs[j].todo) \in Forums /\ Tail(jobs[j].todo) \in Seq(Forums)
           /\ jobs[j].todo \in Seq(Forums) /\ jobs[j].todo # <<>>
           /\ j[2] \in rows
           /\ j[1] = "create" => InContext(j[2], Head(jobs[j].todo))
  <1>1. Knows(j) /\ jobs \in [Events -> Job]
    BY DEF Inv, TypeOK, JobInv
  <1>2. /\ jobs[j].todo \in Seq(Forums) /\ jobs[j].todo # <<>> /\ j[2] \in rows
        /\ j[1] = "create" => InContext(j[2], Head(jobs[j].todo))
    BY <1>1, JobFields DEF Calling, Knows, Passing
  <1> QED
    BY <1>2, TailContains

LEMMA ContinueShape ==
    ASSUME LocalCommunityAssumption, Inv, NEW j \in Events, Calling(j), Continue(j)
    PROVE  /\ Jobs /\ \A i \in Events \ {j} : jobs'[i] = jobs[i]
           /\ jobs'[j].stage = "fanout" /\ jobs'[j].todo = Tail(jobs[j].todo)
           /\ jobs'[j].ends = jobs[j].ends
  <1> DEFINE k == [jobs[j] EXCEPT !.stage = "fanout", !.todo = Tail(@)]
  <1>1. jobs[j] \in Job /\ Tail(jobs[j].todo) \in Seq(Forums) /\ jobs \in [Events -> Job]
    BY JobFields, CallingShape DEF Inv, TypeOK
  <1>2. /\ k \in Job /\ k.stage = "fanout" /\ k.todo = Tail(jobs[j].todo)
        /\ k.ends = jobs[j].ends
    BY <1>1 DEF Job
  <1>3. jobs' = [jobs EXCEPT ![j] = k]
    BY DEF Continue, Moves
  <1> HIDE DEF k
  <1> QED
    BY <1>1, <1>2, <1>3, SetJob DEF Jobs

LEMMA AnsweredActs ==
    ASSUME LocalCommunityAssumption, Inv, NEW j \in Events, Answered(j)
    PROVE  /\ Acts(j) /\ Jobs
           /\ \/ SameCopies /\ UNCHANGED orphans /\ j[1] # "create"
              \/ SameCopies /\ orphans' = orphans + 1 /\ j[1] = "create"
                 /\ Has(j[2], Head(jobs[j].todo))
              \/ NewCopy(j) /\ OneCopyMore(j[2], Head(jobs[j].todo)) /\ UNCHANGED orphans
                 /\ ~Has(j[2], Head(jobs[j].todo))
  <1> DEFINE f == Head(jobs[j].todo)
  <1>1. /\ j[2] \in Objects /\ j[2] \in Nat /\ 0 \in Objects /\ j[1] \in Ops
        /\ j[2] > 0 => j[2] - 1 \in Objects
    BY EventShape
  <1>2. Surfaces /\ Calling(j) /\ Continue(j) /\ UNCHANGED <<source, rows>>
    BY DEF Inv, TypeOK, Surfaces, Answered, Membership
  <1>3. /\ f \in Forums /\ j[2] \in rows
        /\ j[1] = "create" => InContext(j[2], f)
    BY <1>2, CallingShape
  <1>4. Jobs /\ jobs'[j].stage = "fanout" /\ \A i \in Events \ {j} : jobs'[i] = jobs[i]
    BY <1>2, ContinueShape
  <1>5. Knows(j)'
    BY <1>2, <1>3, <1>4 DEF Knows, Passing
  <1> HIDE DEF f
  <1>6. CASE j[1] # "create"
    <2>1. Show(j[2], f, j[1]) /\ UNCHANGED orphans
      BY <1>6 DEF Answered, f
    <2>2. SameCopies
      BY <1>1, <1>2, <2>1, ShowShape
    <2>3. Acts(j)
      BY <1>2, <1>4, <1>5, <2>2 DEF Acts, SameCopies
    <2> QED
      BY <1>4, <1>6, <2>1, <2>2, <2>3
  <1>7. CASE j[1] = "create" /\ Has(j[2], f)
    <2>1. orphans' = orphans + 1 /\ UNCHANGED surfaces
      BY <1>7 DEF Answered, f
    <2>2. SameCopies
      BY <1>2, <2>1, UnchangedCopies
    <2>3. Acts(j)
      BY <1>2, <1>4, <1>5, <2>2 DEF Acts, SameCopies
    <2> QED
      BY <1>4, <1>7, <2>1, <2>2, <2>3 DEF f
  <1>8. CASE j[1] = "create" /\ ~Has(j[2], f)
    <2>1. Record(j[2], f) /\ UNCHANGED orphans
      BY <1>8 DEF Answered, f
    <2>2. OneCopyMore(j[2], f)
      BY <1>1, <1>2, <1>3, <1>8, <2>1, RecordShape
    <2>3. Acts(j)
      BY <1>1, <1>2, <1>4, <1>5, <2>2 DEF Acts, OneCopyMore
    <2>4. NewCopy(j)
      BY <1>2, <1>3, <1>8, <2>2 DEF NewCopy, InContext
    <2> QED
      BY <1>4, <1>8, <2>1, <2>2, <2>3, <2>4 DEF f
  <1> QED
    BY <1>6, <1>7, <1>8

LEMMA UnseenShape ==
    ASSUME LocalCommunityAssumption, Inv, NEW j \in Events, Calling(j),
           ActedUnseen(j) \/ UNCHANGED <<surfaces, orphans, lost>>
    PROVE  SameCopies /\ \/ UNCHANGED <<orphans, lost>>
                         \/ orphans' = orphans + 1 /\ lost' = lost + 1
  <1>1. j[2] \in Objects /\ j[1] \in Ops
    BY EventShape
  <1>2. Surfaces
    BY DEF Inv, TypeOK, Surfaces
  <1>3. SameCopies
    <2>1. CASE UNCHANGED surfaces
      BY <1>2, <2>1, UnchangedCopies
    <2>2. CASE Show(j[2], Head(jobs[j].todo), j[1])
      BY <1>1, <1>2, <2>2, ShowShape
    <2> QED
      BY <2>1, <2>2 DEF ActedUnseen
  <1> QED
    BY <1>3 DEF ActedUnseen, Duplicates

LEMMA CallFailsActs ==
    ASSUME LocalCommunityAssumption, Inv, NEW j \in Events, CallFails(j)
    PROVE  /\ Acts(j) /\ Jobs /\ SameCopies
           /\ \/ UNCHANGED <<orphans, lost>>
              \/ orphans' = orphans + 1 /\ lost' = lost + 1
  <1>1. Calling(j) /\ Continue(j) /\ UNCHANGED <<source, rows>>
    BY DEF CallFails, Membership
  <1>2. /\ SameCopies
        /\ \/ UNCHANGED <<orphans, lost>>
           \/ orphans' = orphans + 1 /\ lost' = lost + 1
    BY <1>1, UnseenShape DEF CallFails
  <1>3. Jobs /\ jobs'[j].stage = "fanout" /\ \A i \in Events \ {j} : jobs'[i] = jobs[i]
    BY <1>1, ContinueShape
  <1>4. j[2] \in rows
    BY <1>1, CallingShape
  <1>5. Knows(j)'
    BY <1>1, <1>3, <1>4 DEF Knows, Passing
  <1> QED
    BY <1>1, <1>2, <1>3, <1>5 DEF Acts, SameCopies

(* A handler that ends.                                                    *)
LEMMA FinishActs ==
    ASSUME LocalCommunityAssumption, Inv, NEW j \in Events, NEW e, Finish(j, e),
           UNCHANGED <<source, rows, surfaces>>
    PROVE  Acts(j) /\ Jobs /\ SameCopies
  <1>1. TypeOK /\ Surfaces /\ jobs \in [Events -> Job] /\ jobs' = [jobs EXCEPT ![j] = Idle]
    BY DEF Inv, TypeOK, Surfaces, Finish
  <1>2. jobs'[j] = Idle /\ Idle \in Job /\ Idle.stage = "idle"
    BY <1>1, SetJob, JobShapes
  <1>3. Knows(j)'
    BY <1>2 DEF Knows, Passing
  <1> QED
    BY <1>1, <1>2, <1>3, QuietStep, UnchangedCopies

LEMMA RelayActs ==
    ASSUME LocalCommunityAssumption, Inv, NEW j \in Events,
           RelayStarts(j) \/ RelayAnswered(j) \/ RelayRaises(j)
    PROVE  Acts(j) /\ Jobs /\ SameCopies
  <1>1. UNCHANGED <<source, rows, surfaces>>
    BY DEF RelayStarts, RelayAnswered, RelayRaises, Membership
  <1>2. ASSUME NEW e, Finish(j, e) PROVE Acts(j) /\ Jobs /\ SameCopies
    BY <1>1, <1>2, FinishActs
  <1>3. CASE RelayStarts(j) /\ Inbound(j[2]) /\ Open(j) # {}
    <2> DEFINE k == [jobs[j] EXCEPT !.stage = "relaying", !.batch = Open(j)]
    <2>1. TypeOK /\ Knows(j) /\ Surfaces /\ jobs \in [Events -> Job] /\ jobs[j] \in Job
      BY JobFields DEF Inv, TypeOK, Surfaces, JobInv
    <2>2. /\ jobs[j].stage = "fanout" /\ jobs[j].todo = <<>>
          /\ jobs' = [jobs EXCEPT ![j] = k]
      BY <1>3 DEF RelayStarts, PassDone, Moves
    <2>3. Open(j) \in SUBSET Remotes
      BY <2>1 DEF Open, RelayTargets, TypeOK
    <2>4. k \in Job /\ k.stage = "relaying" /\ k.todo = jobs[j].todo
      BY <2>1, <2>3 DEF Job
    <2> HIDE DEF k
    <2>5. jobs'[j] = k
      BY <2>1, <2>2, <2>4, SetJob
    <2>6. Knows(j)'
      BY <1>1, <2>1, <2>2, <2>4, <2>5 DEF Knows, Passing
    <2> QED
      BY <1>1, <2>1, <2>2, <2>4, <2>6, QuietStep, UnchangedCopies
  <1> QED
    BY <1>1, <1>2, <1>3 DEF RelayStarts, RelayAnswered, RelayRaises

(* The beginning ends without a copy.                                      *)
LEMMA BeginningEnds ==
    ASSUME LocalCommunityAssumption, Inv, NEW j \in Events,
           Conflicts(j) \/ PublishFails(j) \/ HostFails(j)
    PROVE  Acts(j) /\ Jobs /\ SameCopies
  <1>1. /\ UNCHANGED <<source, rows, surfaces>>
        /\ Finish(j, "skipped") \/ Finish(j, "failed")
    BY DEF Conflicts, PublishFails, HostFails, Membership
  <1> QED
    BY <1>1, FinishActs

(* Nobody's handler moves.                                                 *)
Rests ==
    /\ UNCHANGED <<source, rows, jobs>>
    /\ SameCopies

(* Every handler dies.                                                     *)
AllDie ==
    /\ UNCHANGED source
    /\ rows \subseteq rows'
    /\ jobs' = [j \in Events |-> Idle]
    /\ SameCopies

LEMMA RestsShape ==
    ASSUME LocalCommunityAssumption, Inv,
           \/ \E f \in Subs : Join(f) \/ Leave(f)
           \/ \E r \in Remotes : Refollow(r)
    PROVE  Rests
  <1>1. UNCHANGED <<source, rows, jobs, surfaces>>
    BY DEF Join, Leave, Refollow
  <1>2. Surfaces
    BY DEF Inv, TypeOK, Surfaces
  <1> QED
    BY <1>1, <1>2, UnchangedCopies DEF Rests

LEMMA CrashShape ==
    ASSUME LocalCommunityAssumption, Inv,
           CrashAll \/ \E j \in Events : CrashBetweenRows(j)
    PROVE  /\ AllDie
           /\ \/ UNCHANGED <<orphans, lost, overlaps>>
              \/ orphans' = orphans + 1 /\ lost' = lost + 1 /\ UNCHANGED overlaps
  <1>1. Surfaces
    BY DEF Inv, TypeOK, Surfaces
  <1>2. CASE \E j \in Events : CrashBetweenRows(j)
    <2>1. /\ UNCHANGED <<source, surfaces, orphans, lost, overlaps>>
          /\ rows \subseteq rows' /\ jobs' = [j \in Events |-> Idle]
      BY <1>2 DEF CrashBetweenRows, Crash, Duplicates
    <2> QED
      BY <1>1, <2>1, UnchangedCopies DEF AllDie
  <1>3. CASE CrashAll
    <2>1. UNCHANGED <<source, rows, overlaps>> /\ jobs' = [j \in Events |-> Idle]
      BY <1>3 DEF CrashAll, Crash
    <2>2. \/ UNCHANGED <<surfaces, orphans, lost>>
          \/ \E j \in Events : Calling(j) /\ ActedUnseen(j)
          \/ UNCHANGED surfaces /\ orphans' = orphans + 1 /\ lost' = lost + 1
      BY <1>3 DEF CrashAll
    <2>3. /\ SameCopies
          /\ \/ UNCHANGED <<orphans, lost>>
             \/ orphans' = orphans + 1 /\ lost' = lost + 1
      BY <1>1, <2>2, UnchangedCopies, UnseenShape
    <2> QED
      BY <2>1, <2>3 DEF AllDie
  <1> QED
    BY <1>2, <1>3

LEMMA HandlerActs ==
    ASSUME LocalCommunityAssumption, Inv, NEW j \in Events,
           Receive(j) \/ Proceed(j) \/ (Fails(j) /\ ~CrashBetweenRows(j))
    PROVE  Acts(j) /\ Jobs /\ (SameCopies \/ NewCopy(j))
  <1>1. CASE Receive(j)
    BY <1>1, ReceiveActs
  <1>2. CASE Stored(j)
    BY <1>2, StoredActs
  <1>3. CASE Conflicts(j) \/ PublishFails(j) \/ HostFails(j)
    BY <1>3, BeginningEnds
  <1>4. CASE Target(j)
    BY <1>4, TargetActs
  <1>5. CASE Answered(j)
    BY <1>5, AnsweredActs
  <1>6. CASE RelayStarts(j) \/ RelayAnswered(j) \/ RelayRaises(j)
    BY <1>6, RelayActs
  <1>7. CASE CallFails(j)
    BY <1>7, CallFailsActs
  <1> QED
    BY <1>1, <1>2, <1>3, <1>4, <1>5, <1>6, <1>7 DEF Proceed, Resume, Fails

(* Every step is one of these.                                             *)
LEMMA StepShape ==
    ASSUME LocalCommunityAssumption, Inv, Next
    PROVE  \/ Rests
           \/ AllDie
           \/ \E j \in Events : Acts(j) /\ Jobs /\ (SameCopies \/ NewCopy(j))
  <1>1. CASE \/ \E f \in Subs : Join(f) \/ Leave(f)
             \/ \E r \in Remotes : Refollow(r)
    BY <1>1, RestsShape
  <1>2. CASE CrashAll \/ \E j \in Events : CrashBetweenRows(j)
    BY <1>2, CrashShape
  <1>3. ASSUME NEW j \in Events,
               Receive(j) \/ Proceed(j) \/ (Fails(j) /\ ~CrashBetweenRows(j))
        PROVE  Acts(j) /\ Jobs /\ (SameCopies \/ NewCopy(j))
    BY <1>3, HandlerActs
  <1> QED
    BY <1>1, <1>2, <1>3 DEF Next, Fails
-----------------------------------------------------------------------------
(* The invariant.                                                          *)
TypeRest ==
    /\ source \in Sources
    /\ subscribers \in Seq(Subs)
    /\ followers \subseteq Remotes
    /\ rows \subseteq Objects
    /\ detached \subseteq Objects \X Subs
    /\ relay \in [Relays -> {"none", "pending", "delivered", "failed"}]
    /\ received \subseteq Relays
    /\ status \in [Events -> {"none", "in_progress", "processed", "skipped", "failed"}]
    /\ orphans \in Nat /\ lost \in Nat /\ overlaps \in Nat

Counts == /\ churn \in Nat /\ faults \in Nat /\ crashes \in Nat
          /\ churn + faults + crashes <= MaxTroubles

LEMMA TypeParts ==
    /\ TypeOK <=> TypeRest /\ Surfaces /\ jobs \in [Events -> Job] /\ Counts
    /\ TypeOK' <=> TypeRest' /\ Surfaces' /\ Jobs /\ Counts'
  BY DEF TypeOK, TypeRest, Surfaces, Jobs, Counts

LEMMA CountsStep ==
    ASSUME LocalCommunityAssumption, Counts, Next
    PROVE  Counts' /\ churn' >= churn /\ faults' >= faults
  <1>0. MaxTroubles \in Nat
    BY DEF LocalCommunityAssumption
  <1>1. CASE UNCHANGED <<churn, faults, crashes>>
    BY <1>1 DEF Counts
  <1>2. CASE Fault /\ UNCHANGED <<churn, crashes>>
    BY <1>0, <1>2 DEF Counts, Fault, Trouble
  <1>3. CASE Churn /\ UNCHANGED <<faults, crashes>>
    BY <1>0, <1>3 DEF Counts, Churn, Trouble
  <1>4. CASE Trouble /\ crashes' = crashes + 1 /\ UNCHANGED <<churn, faults>>
    BY <1>0, <1>4 DEF Counts, Trouble
  <1>5. ASSUME NEW j \in Events, Receive(j) \/ Proceed(j)
        PROVE  \/ UNCHANGED <<churn, faults, crashes>>
               \/ Fault /\ UNCHANGED <<churn, crashes>>
    BY <1>5
    DEF Receive, Repair, RefuseInbound, CreateInbound, CreateDiscord, Mutate, IgnoreMutation,
        Proceed, Resume, Stored, Conflicts, Target, Answered, RelayStarts, RelayAnswered,
        Membership
  <1>6. ASSUME NEW j \in Events,
               PublishFails(j) \/ HostFails(j) \/ CallFails(j) \/ RelayRaises(j)
        PROVE  Fault /\ UNCHANGED <<churn, crashes>>
    BY <1>6 DEF PublishFails, HostFails, Fails, CallFails, RelayRaises, Membership
  <1>7. ASSUME CrashAll \/ \E j \in Events : CrashBetweenRows(j)
        PROVE  Trouble /\ crashes' = crashes + 1 /\ UNCHANGED <<churn, faults>>
    BY <1>7 DEF CrashAll, CrashBetweenRows, Crash
  <1>8. ASSUME \/ \E f \in Subs : Join(f) \/ Leave(f)
               \/ \E r \in Remotes : Refollow(r)
        PROVE  Churn /\ UNCHANGED <<faults, crashes>>
    BY <1>8 DEF Join, Leave, Refollow
  <1> QED
    BY <1>1, <1>2, <1>3, <1>4, <1>5, <1>6, <1>7, <1>8 DEF Next, Fails

LEMMA TypeStep ==
    ASSUME LocalCommunityAssumption, Inv, Next
    PROVE  TypeRest'
  <1>0. TypeRest /\ jobs \in [Events -> Job]
    BY TypeParts DEF Inv
  <1>1. source' = source
    BY StepShape DEF Rests, AllDie, Acts
  <1>2. subscribers' \in Seq(Subs)
    <2>1. ASSUME NEW f \in Subs, Join(f) PROVE subscribers' \in Seq(Subs)
      BY <1>0, <2>1 DEF Join, TypeRest
    <2>2. ASSUME NEW f \in Subs, Leave(f) PROVE subscribers' \in Seq(Subs)
      BY <1>0, <2>2, WithoutShape DEF Leave, TypeRest
    <2>3. (\A f \in Subs : ~Join(f) /\ ~Leave(f)) => UNCHANGED subscribers
      BY DEF Next, Refollow, Receive, Repair, RefuseInbound, CreateInbound, CreateDiscord,
             Mutate, IgnoreMutation, Proceed, Resume, Stored, Conflicts, Target, Answered,
             RelayStarts, RelayAnswered, Fails, CallFails, RelayRaises, PublishFails,
             HostFails, CrashAll, CrashBetweenRows, Crash, Membership
    <2> QED
      BY <1>0, <2>1, <2>2, <2>3 DEF TypeRest
  <1>3. followers' \subseteq Remotes
    BY <1>0
    DEF TypeRest, Next, Join, Leave, Refollow, Receive, Repair, RefuseInbound,
        CreateInbound, CreateDiscord, Mutate, IgnoreMutation, Proceed, Resume, Stored,
        Conflicts, Target, Answered, RelayStarts, RelayAnswered, Fails, CallFails,
        RelayRaises, PublishFails, HostFails, CrashAll, CrashBetweenRows, Crash, Membership
  <1>4. rows' \subseteq Objects
    <2>1. \/ UNCHANGED rows
          \/ \E j \in Events : rows' = rows \cup {j[2]}
      BY DEF Next, Join, Leave, Refollow, Receive, Repair, RefuseInbound, CreateInbound,
             CreateDiscord, Mutate, IgnoreMutation, Proceed, Resume, Stored, Conflicts,
             Target, Answered, RelayStarts, RelayAnswered, Fails, CallFails, RelayRaises,
             PublishFails, HostFails, CrashAll, CrashBetweenRows, Crash
    <2>2. \A j \in Events : j[2] \in Objects
      BY EventShape
    <2> QED
      BY <1>0, <2>1, <2>2 DEF TypeRest
  <1>5. detached' \subseteq Objects \X Subs
    <2>1. ASSUME NEW f \in Subs, Leave(f) PROVE detached' \subseteq Objects \X Subs
      BY <1>0, <2>1 DEF Leave, TypeRest
    <2>2. (\A f \in Subs : ~Leave(f)) => UNCHANGED detached
      BY DEF Next, Join, Refollow, Receive, Repair, RefuseInbound, CreateInbound,
             CreateDiscord, Mutate, IgnoreMutation, Proceed, Resume, Stored, Conflicts,
             Target, Answered, RelayStarts, RelayAnswered, Fails, CallFails, RelayRaises,
             PublishFails, HostFails, CrashAll, CrashBetweenRows, Crash, Membership
    <2> QED
      BY <1>0, <2>1, <2>2 DEF TypeRest
  <1>6. relay' \in [Relays -> {"none", "pending", "delivered", "failed"}]
    <2>1. CASE UNCHANGED relay
      BY <1>0, <2>1 DEF TypeRest
    <2>2. ASSUME NEW j \in Events, RelayStarts(j) \/ RelayAnswered(j)
          PROVE  relay' \in [Relays -> {"none", "pending", "delivered", "failed"}]
      BY <1>0, <2>2 DEF TypeRest, RelayStarts, RelayAnswered
    <2>3. (\A j \in Events : ~RelayStarts(j) /\ ~RelayAnswered(j)) => UNCHANGED relay
      BY DEF Next, Join, Leave, Refollow, Receive, Repair, RefuseInbound, CreateInbound,
             CreateDiscord, Mutate, IgnoreMutation, Proceed, Resume, Stored, Conflicts,
             Target, Answered, Fails, CallFails, RelayRaises, PublishFails, HostFails,
             CrashAll, CrashBetweenRows, Crash, Relaying
    <2> QED
      BY <2>1, <2>2, <2>3
  <1>7. received' \subseteq Relays
    <2>1. ASSUME NEW j \in Events, NEW R \in SUBSET jobs[j].batch, Reached(j, R)
          PROVE  received' \subseteq Relays
      <3>1. j[1] \in Ops /\ j[2] \in Objects /\ jobs[j].batch \subseteq Remotes
        BY <1>0, EventShape, JobFields
      <3>2. \A r \in R : Delivery(j, r) \in Relays
        BY <3>1 DEF Delivery, Relays
      <3> QED
        BY <1>0, <2>1, <3>2 DEF TypeRest, Reached
    <2>2. (\A j \in Events : \A R \in SUBSET jobs[j].batch : ~Reached(j, R))
             => UNCHANGED received
      BY DEF Next, Join, Leave, Refollow, Receive, Repair, RefuseInbound, CreateInbound,
             CreateDiscord, Mutate, IgnoreMutation, Proceed, Resume, Stored, Conflicts,
             Target, Answered, RelayStarts, RelayAnswered, Fails, CallFails, RelayRaises,
             PublishFails, HostFails, CrashAll, CrashBetweenRows, Crash, Relaying
    <2> QED
      BY <1>0, <2>1, <2>2 DEF TypeRest
  <1>8. status' \in [Events -> {"none", "in_progress", "processed", "skipped", "failed"}]
    <2>1. \A j \in Events : jobs[j].ends \in {"processed", "skipped"}
      BY <1>0, JobFields
    <2> QED
      BY <1>0, <2>1, ZenonT(30)
      DEF TypeRest, Next, Join, Leave, Refollow, Receive, Repair, RefuseInbound,
          CreateInbound, CreateDiscord, Mutate, IgnoreMutation, Proceed, Resume, Stored,
          Conflicts, Target, Answered, RelayStarts, RelayAnswered, Fails, CallFails,
          RelayRaises, PublishFails, HostFails, CrashAll, CrashBetweenRows, Crash, Start,
          Finish, Moves, Continue
  <1>9. orphans' \in Nat /\ lost' \in Nat /\ overlaps' \in Nat
    <2>1. /\ orphans' \in {orphans, orphans + 1, orphans + 0}
          /\ lost' \in {lost, lost + 1, lost + 0}
          /\ overlaps' \in {overlaps, overlaps + 1}
      BY <1>0
      DEF TypeRest, Next, Join, Leave, Refollow, Receive, Repair, RefuseInbound,
          CreateInbound, CreateDiscord, Mutate, IgnoreMutation, Proceed, Resume, Stored,
          Conflicts, Target, Answered, RelayStarts, RelayAnswered, Fails, CallFails,
          RelayRaises, PublishFails, HostFails, CrashAll, CrashBetweenRows, Crash,
          ActedUnseen, Duplicates, CountOverlap
    <2> QED
      BY <1>0, <2>1 DEF TypeRest
  <1> QED
    BY <1>0, <1>1, <1>2, <1>3, <1>4, <1>5, <1>6, <1>7, <1>8, <1>9 DEF TypeRest

LEMMA InvInit == ASSUME LocalCommunityAssumption, Init PROVE Inv
  <1>1. Counts /\ IsFiniteSet(Subs) /\ 0 \in Nat
    BY DEF LocalCommunityAssumption, Init, Counts
  <1>2. PICK S \in SUBSET Subs : subscribers \in SetToSeqs(S)
    BY DEF Init
  <1>3. Cardinality(S) \in Nat
    BY <1>1, FS_Subset, FS_CardinalityType
  <1>4. /\ subscribers \in [1..Cardinality(S) -> S]
        /\ \A i, k \in 1..Cardinality(S) : i # k => subscribers[i] # subscribers[k]
    BY <1>2 DEF SetToSeqs
  <1>5. subscribers \in Seq(S) /\ Len(subscribers) = Cardinality(S)
    BY <1>3, <1>4, FunctionIsSeq
  <1>6. subscribers \in Seq(Subs) /\ Distinct(subscribers)
    BY <1>4, <1>5 DEF Distinct
  <1>7. \A j \in Events : jobs[j] = Idle /\ jobs[j].stage = "idle"
    BY JobShapes DEF Init
  <1>8. jobs \in [Events -> Job]
    BY JobShapes DEF Init
  <1>9. Surfaces /\ \A o \in Objects : Len(surfaces[o]) = 0
    BY DEF Init, Surfaces
  <1>10. \A o \in Objects, f \in Forums : ~Has(o, f)
    BY <1>9, HasMeans
  <1>11. \A o \in Objects : Distinct(Listed(o))
    BY <1>9, HasMeans DEF Distinct
  <1>12. TypeRest
    BY <1>6 DEF Init, TypeRest
  <1>13. JobInv
    BY <1>7 DEF JobInv, Knows, Passing
  <1>14. CopiesHaveContext /\ RowsInv
    BY <1>10 DEF CopiesHaveContext, RowsInv
  <1> QED
    BY <1>1, <1>6, <1>8, <1>9, <1>11, <1>12, <1>13, <1>14, TypeParts
    DEF Inv, NoneTwice

LEMMA SubscribersOnce ==
    ASSUME LocalCommunityAssumption, Inv, Next
    PROVE  Distinct(subscribers')
  <1>0. subscribers \in Seq(Subs) /\ Distinct(subscribers)
    BY DEF Inv, TypeOK, NoneTwice
  <1>1. ASSUME NEW f \in Subs, Join(f) PROVE Distinct(subscribers')
    <2>1. /\ Len(subscribers') = Len(subscribers) + 1 /\ Len(subscribers) \in Nat
          /\ \A i \in 1..Len(subscribers) : subscribers'[i] = subscribers[i]
          /\ subscribers'[Len(subscribers) + 1] = f
      BY <1>0, <1>1, AppendProperties DEF Join
    <2>2. \A i \in 1..Len(subscribers) : subscribers[i] # f
      BY <1>1 DEF Join, Contains
    <2> QED
      BY <1>0, <2>1, <2>2 DEF Distinct
  <1>2. ASSUME NEW f \in Subs, Leave(f) PROVE Distinct(subscribers')
    BY <1>0, <1>2, WithoutDistinct DEF Leave
  <1>3. (\A f \in Subs : ~Join(f) /\ ~Leave(f)) => UNCHANGED subscribers
    BY DEF Next, Refollow, Receive, Repair, RefuseInbound, CreateInbound, CreateDiscord,
           Mutate, IgnoreMutation, Proceed, Resume, Stored, Conflicts, Target, Answered,
           RelayStarts, RelayAnswered, Fails, CallFails, RelayRaises, PublishFails,
           HostFails, CrashAll, CrashBetweenRows, Crash, Membership
  <1> QED
    BY <1>0, <1>1, <1>2, <1>3

LEMMA InvNext ==
    ASSUME LocalCommunityAssumption, Inv, Next
    PROVE  Inv'
  <1>0. TypeOK /\ JobInv /\ RowsInv /\ Surfaces /\ jobs \in [Events -> Job]
    BY TypeParts DEF Inv
  <1>1. TypeRest' /\ Counts'
    BY <1>0, TypeStep, CountsStep, TypeParts
  <1>3. Distinct(subscribers)'
    BY SubscribersOnce DEF Distinct
  <1> DEFINE Goal == /\ Surfaces' /\ Jobs /\ JobInv' /\ RowsInv'
                     /\ \A o \in Objects : Distinct(Listed(o)')
                     /\ CopiesHaveContext'
  <1>4. ASSUME SameCopies, rows \subseteq rows'
        PROVE  /\ Surfaces' /\ RowsInv' /\ CopiesHaveContext'
               /\ \A o \in Objects : Distinct(Listed(o)')
    <2>1. \A n \in Objects, g \in Forums : Has(n, g)' <=> Has(n, g)
      BY <1>4 DEF SameCopies
    <2>2. RowsInv'
      BY <1>0, <1>4, <2>1 DEF RowsInv
    <2>3. CopiesHaveContext'
      <3>1. \A o \in Objects \ {0} : o - 1 \in Objects /\ 0 \in Objects
        BY DEF LocalCommunityAssumption, Objects
      <3> QED
        BY <2>1, <3>1 DEF Inv, CopiesHaveContext
    <2> QED
      BY <1>4, <2>2, <2>3 DEF SameCopies, Inv, NoneTwice
  <1>5. ASSUME Rests PROVE Goal
    <2>1. Jobs /\ rows \subseteq rows'
      BY <1>0, <1>5 DEF Rests, Jobs
    <2>2. JobInv'
      <3> SUFFICES ASSUME NEW j \in Events PROVE Knows(j)'
        BY DEF JobInv
      <3>1. /\ Knows(j) /\ UNCHANGED <<jobs, rows, source>> /\ j[2] \in Objects
            /\ 0 \in Objects /\ (j[2] > 0 => j[2] - 1 \in Objects)
            /\ \A n \in Objects, g \in Forums : Has(n, g)' <=> Has(n, g)
        BY <1>0, <1>5, EventShape DEF Rests, SameCopies, JobInv
      <3>2. \A f \in Forums : InContext(j[2], f) => InContext(j[2], f)'
        BY <3>1 DEF InContext
      <3>3. jobs[j].stage = "calling" => Head(jobs[j].todo) \in Forums
        BY <1>0, <3>1, JobFields, TailContains DEF Knows
      <3>4. Host \in Forums
        BY DEF Forums
      <3> QED
        BY <3>1, <3>2, <3>3, <3>4 DEF Knows, Inbound
    <2> QED
      BY <1>4, <1>5, <2>1, <2>2 DEF Rests
  <1>6. ASSUME AllDie PROVE Goal
    <2>1. \A j \in Events : jobs'[j] = Idle
      BY <1>6 DEF AllDie
    <2>2. Idle \in Job /\ Idle.stage = "idle"
      BY JobShapes
    <2>3. Jobs
      BY <1>6, <2>2 DEF AllDie, Jobs
    <2>4. JobInv'
      BY <2>1, <2>2 DEF JobInv, Knows, Passing
    <2> QED
      BY <1>4, <1>6, <2>3, <2>4 DEF AllDie
  <1>7. ASSUME NEW j \in Events, Acts(j), Jobs, SameCopies \/ NewCopy(j) PROVE Goal
    <2>1. JobInv' /\ rows \subseteq rows'
      BY <1>0, <1>7, OthersKnow DEF Acts
    <2>2. CASE SameCopies
      BY <1>4, <1>7, <2>1, <2>2
    <2>3. CASE NewCopy(j)
      <3>1. PICK f \in Forums : /\ OneCopyMore(j[2], f)
                                /\ j[2] > 0 => Has(0, f) /\ (f \in Subs => Has(j[2] - 1, f))
        BY <2>3 DEF NewCopy
      <3>2. /\ j[2] \in Objects /\ j[2] \in rows'
            /\ \A o \in Objects \ {0} : o - 1 \in Objects /\ 0 \in Objects /\ o > 0
        BY <2>3, EventShape DEF NewCopy, LocalCommunityAssumption, Objects
      <3>3. \A n \in Objects, g \in Forums :
               Has(n, g)' <=> Has(n, g) \/ (n = j[2] /\ g = f)
        BY <3>1 DEF OneCopyMore
      <3>4. RowsInv'
        BY <1>0, <2>1, <3>2, <3>3 DEF RowsInv
      <3>5. CopiesHaveContext'
        BY <3>1, <3>2, <3>3 DEF Inv, CopiesHaveContext
      <3>6. Surfaces' /\ \A o \in Objects : Distinct(Listed(o)')
        BY <3>1 DEF OneCopyMore, Inv, NoneTwice
      <3> QED
        BY <1>7, <2>1, <3>4, <3>5, <3>6
    <2> QED
      BY <1>7, <2>2, <2>3
  <1>8. Goal
    BY <1>5, <1>6, <1>7, StepShape
  <1>9. NoneTwice'
    BY <1>3, <1>8 DEF NoneTwice, Distinct
  <1> QED
    BY <1>1, <1>8, <1>9, TypeParts DEF Inv

LEMMA InvHolds == ASSUME LocalCommunityAssumption PROVE Spec => []Inv
  <1>1. Init => Inv
    BY InvInit
  <1>2. Inv /\ [Next]_vars => Inv'
    <2> SUFFICES ASSUME Inv, [Next]_vars PROVE Inv'
      OBVIOUS
    <2>1. CASE UNCHANGED vars
      <3>1. /\ TypeOK' <=> TypeOK
            /\ CopiesHaveContext' <=> CopiesHaveContext
        BY <2>1 DEF vars, TypeOK, CopiesHaveContext, Has, Listed
      <3>2. (JobInv' <=> JobInv) /\ (RowsInv' <=> RowsInv) /\ (NoneTwice' <=> NoneTwice)
        BY <2>1
        DEF vars, JobInv, Knows, InContext, Inbound, RowsInv, NoneTwice, Distinct, Has, Listed
      <3> QED
        BY <3>1, <3>2 DEF Inv
    <2>2. CASE Next
      BY <2>2, InvNext
    <2> QED
      BY <2>1, <2>2
  <1> QED
    BY <1>1, <1>2, PTL DEF Spec
-----------------------------------------------------------------------------
(* The accounts.                                                           *)

(* A remote object with a canonical row has its copy in the host forum.    *)
InboundShown == \A o \in Objects : Inbound(o) /\ o \in rows => Has(o, Host)

(* But for the handlers in S, nobody makes a copy that exists already, or  *)
(* that another one makes too.                                             *)
Settled(S) ==
    /\ \A i, k \in Events \ S, f \in Forums :
          Makes(i, f) /\ Makes(k, f) /\ i[2] = k[2] => i = k
    /\ \A i \in Events \ S, f \in Forums : Makes(i, f) => ~Has(i[2], f)

(* Whoever may leave another orphan behind is paid for by an overlap.      *)
AccountInv ==
    \E S \in SUBSET Events :
        Settled(S) /\ orphans + Cardinality(S) <= lost + overlaps

LEMMA AccountSets ==
    ASSUME LocalCommunityAssumption, NEW S \in SUBSET Events, NEW j \in Events
    PROVE  /\ IsFiniteSet(S) /\ Cardinality(S) \in Nat
           /\ Cardinality(S \cup {j}) \in Nat /\ Cardinality(S \cup {j}) <= Cardinality(S) + 1
           /\ Cardinality(S \ {j}) \in Nat
           /\ j \in S => Cardinality(S \ {j}) = Cardinality(S) - 1
           /\ \A k \in Events : /\ Cardinality((S \ {j}) \cup {k}) \in Nat
                                /\ j \in S => Cardinality((S \ {j}) \cup {k}) <= Cardinality(S)
  <1>1. ASSUME NEW T \in SUBSET Events PROVE IsFiniteSet(T) /\ Cardinality(T) \in Nat
    BY FS_Subset, FS_CardinalityType DEF LocalCommunityAssumption
  <1>2. ASSUME NEW T \in SUBSET Events, NEW k \in Events
        PROVE  /\ Cardinality(T \cup {k}) <= Cardinality(T) + 1
               /\ Cardinality(T \cup {k}) \in Nat
    <2>1. IsFiniteSet(T) /\ Cardinality(T) \in Nat /\ T \cup {k} \in SUBSET Events
      BY <1>1
    <2>2. Cardinality(T \cup {k}) = IF k \in T THEN Cardinality(T) ELSE Cardinality(T) + 1
      BY <2>1, FS_AddElement
    <2> QED
      BY <1>1, <2>1, <2>2
  <1>3. Cardinality(S \ {j}) = IF j \in S THEN Cardinality(S) - 1 ELSE Cardinality(S)
    BY <1>1, FS_RemoveElement
  <1>4. S \ {j} \in SUBSET Events
    OBVIOUS
  <1>5. ASSUME NEW k \in Events
        PROVE  /\ Cardinality((S \ {j}) \cup {k}) \in Nat
               /\ j \in S => Cardinality((S \ {j}) \cup {k}) <= Cardinality(S)
    <2>1. /\ Cardinality((S \ {j}) \cup {k}) <= Cardinality(S \ {j}) + 1
          /\ Cardinality((S \ {j}) \cup {k}) \in Nat
      BY <1>2, <1>4
    <2> QED
      BY <1>1, <1>3, <1>4, <2>1
  <1> QED
    BY <1>1, <1>2, <1>3, <1>4, <1>5

(* What a step of j's handler leaves of the other handlers' calls.         *)
LEMMA OthersMake ==
    ASSUME NEW j \in Events, Acts(j)
    PROVE  \A i \in Events \ {j}, f \in Forums : Makes(i, f)' <=> Makes(i, f)
  BY DEF Acts, Makes, Calling

(* No call begins, and no copy comes.                                      *)
LEMMA SettledQuiet ==
    ASSUME LocalCommunityAssumption, NEW S \in SUBSET Events, Settled(S), SameCopies,
           \A i \in Events, f \in Forums : Makes(i, f)' => Makes(i, f)
    PROVE  Settled(S)'
  <1>1. \A i \in Events : i[2] \in Objects
    BY EventShape
  <1>2. \A n \in Objects, g \in Forums : Has(n, g)' <=> Has(n, g)
    BY DEF SameCopies
  <1> QED
    BY <1>1, <1>2 DEF Settled

(* j's call ends, and finds a copy there.                                  *)
LEMMA SettledOrphan ==
    ASSUME LocalCommunityAssumption, NEW S \in SUBSET Events, Settled(S), SameCopies,
           NEW j \in Events, NEW f \in Forums, Makes(j, f), Has(j[2], f), Acts(j),
           \A g \in Forums : ~Makes(j, g)'
    PROVE  j \in S /\ Settled(S \ {j})'
  <1>1. \A i \in Events : i[2] \in Objects
    BY EventShape
  <1>2. \A n \in Objects, g \in Forums : Has(n, g)' <=> Has(n, g)
    BY DEF SameCopies
  <1>3. j \in S
    BY DEF Settled
  <1>4. \A i \in Events \ {j}, g \in Forums : Makes(i, g)' <=> Makes(i, g)
    BY OthersMake
  <1>5. ASSUME NEW i \in Events \ (S \ {j}), NEW g \in Forums, Makes(i, g)'
        PROVE  i \in Events \ S /\ Makes(i, g)
    BY <1>4, <1>5
  <1> QED
    BY <1>1, <1>2, <1>3, <1>5 DEF Settled

(* A copy comes, by j's call or where nobody outside S makes one.          *)
LEMMA SettledCopy ==
    ASSUME LocalCommunityAssumption, NEW S \in SUBSET Events, Settled(S), NEW j \in Events,
           NEW f \in Forums, OneCopyMore(j[2], f), Acts(j), \A g \in Forums : ~Makes(j, g)'
    PROVE  /\ (\A i \in Events \ S : i # j => ~(Makes(i, f) /\ i[2] = j[2])) => Settled(S)'
           /\ \A k \in Events \ S : k[2] = j[2] /\ Makes(k, f) => Settled((S \ {j}) \cup {k})'
  <1>1. \A i \in Events : i[2] \in Objects
    BY EventShape
  <1>2. \A n \in Objects, g \in Forums : Has(n, g)' <=> Has(n, g) \/ (n = j[2] /\ g = f)
    BY DEF OneCopyMore
  <1>3. \A i \in Events, g \in Forums : Makes(i, g)' => i # j /\ Makes(i, g)
    BY OthersMake
  <1>4. ASSUME \A i \in Events \ S : i # j => ~(Makes(i, f) /\ i[2] = j[2])
        PROVE  Settled(S)'
    BY <1>1, <1>2, <1>3, <1>4 DEF Settled
  <1>5. ASSUME NEW k \in Events \ S, k[2] = j[2], Makes(k, f)
        PROVE  Settled((S \ {j}) \cup {k})'
    <2>1. ASSUME NEW i \in Events \ ((S \ {j}) \cup {k}), NEW g \in Forums, Makes(i, g)'
          PROVE  i \in Events \ S /\ i # k /\ Makes(i, g)
      BY <1>3, <2>1
    <2>2. ASSUME NEW i \in Events \ ((S \ {j}) \cup {k}), NEW g \in Forums, Makes(i, g)'
          PROVE  ~Has(i[2], g)'
      <3>1. i \in Events \ S /\ i # k /\ Makes(i, g)
        BY <2>1, <2>2
      <3>2. ~(i[2] = j[2] /\ g = f)
        BY <1>5, <3>1 DEF Settled
      <3> QED
        BY <1>1, <1>2, <3>1, <3>2 DEF Settled
    <2>3. ASSUME NEW i \in Events \ ((S \ {j}) \cup {k}),
                 NEW l \in Events \ ((S \ {j}) \cup {k}), NEW g \in Forums,
                 Makes(i, g)', Makes(l, g)', i[2] = l[2]
          PROVE  i = l
      BY <2>1, <2>3 DEF Settled
    <2> QED
      BY <2>2, <2>3 DEF Settled
  <1> QED
    BY <1>4, <1>5

(* j's call begins.                                                        *)
LEMMA SettledBegin ==
    ASSUME LocalCommunityAssumption, NEW S \in SUBSET Events, Settled(S), SameCopies,
           NEW j \in Events, NEW f \in Forums, ~Has(j[2], f), Acts(j), Makes(j, f)'
    PROVE  /\ Settled(S \cup {j})'
           /\ (\A k \in Events : ~(k[2] = j[2] /\ Makes(k, f))) => Settled(S)'
  <1>1. \A i \in Events : i[2] \in Objects
    BY EventShape
  <1>2. \A n \in Objects, g \in Forums : Has(n, g)' <=> Has(n, g)
    BY DEF SameCopies
  <1>3. \A i \in Events \ {j}, g \in Forums : Makes(i, g)' <=> Makes(i, g)
    BY OthersMake
  <1>4. \A g \in Forums : Makes(j, g)' => g = f
    BY DEF Makes, Calling
  <1>5. Settled(S \cup {j})'
    BY <1>1, <1>2, <1>3 DEF Settled
  <1>6. ASSUME \A k \in Events : ~(k[2] = j[2] /\ Makes(k, f)) PROVE Settled(S)'
    <2>1. ASSUME NEW i \in Events \ S, NEW g \in Forums, Makes(i, g)'
          PROVE  ~Has(i[2], g)'
      BY <1>1, <1>2, <1>3, <1>4, <2>1 DEF Settled
    <2>2. ASSUME NEW i \in Events \ S, NEW k \in Events \ S, NEW g \in Forums,
                 Makes(i, g)', Makes(k, g)', i[2] = k[2]
          PROVE  i = k
      <3>1. CASE i # j /\ k # j
        BY <1>3, <2>2, <3>1 DEF Settled
      <3>2. CASE i = j \/ k = j
        BY <1>3, <1>4, <1>6, <2>2, <3>2
      <3> QED
        BY <3>1, <3>2
    <2> QED
      BY <2>1, <2>2 DEF Settled
  <1> QED
    BY <1>5, <1>6

LEMMA InboundShownStep ==
    ASSUME LocalCommunityAssumption, Inv, InboundShown, Next
    PROVE  InboundShown'
  <1> SUFFICES ASSUME NEW o \in Objects, Inbound(o)', o \in rows'
               PROVE  Has(o, Host)'
    BY DEF InboundShown
  <1>1. /\ source' = source /\ Host \in Forums
        /\ \A n \in Objects, g \in Forums : Has(n, g) => Has(n, g)'
    <2>1. source' = source
      BY StepShape DEF Rests, AllDie, Acts
    <2>2. \A n \in Objects, g \in Forums : Has(n, g) => Has(n, g)'
      BY StepShape DEF Rests, AllDie, Acts, SameCopies
    <2> QED
      BY <2>1, <2>2 DEF Forums
  <1>2. CASE o \in rows
    BY <1>1, <1>2 DEF InboundShown, Inbound
  <1>3. ASSUME NEW j \in Events, Stored(j), o = j[2] PROVE Has(o, Host)'
    <2>1. OneCopyMore(o, Host)
      BY <1>1, <1>3, StoredActs DEF Inbound
    <2> QED
      BY <1>1, <2>1 DEF OneCopyMore
  <1>4. ASSUME NEW j \in Events, CrashBetweenRows(j), o = j[2] PROVE FALSE
    BY <1>1, <1>4 DEF CrashBetweenRows, Inbound, LocalCommunityAssumption, Forums
  <1>5. CASE o \notin rows
    <2>1. \/ UNCHANGED rows
          \/ \E j \in Events : /\ Stored(j) \/ CrashBetweenRows(j)
                               /\ rows' = rows \cup {j[2]}
      BY DEF Next, Join, Leave, Refollow, Receive, Repair, RefuseInbound, CreateInbound,
             CreateDiscord, Mutate, IgnoreMutation, Proceed, Resume, Stored, Conflicts,
             Target, Answered, RelayStarts, RelayAnswered, Fails, CallFails, RelayRaises,
             PublishFails, HostFails, CrashAll, CrashBetweenRows, Crash
    <2> QED
      BY <1>3, <1>4, <1>5, <2>1
  <1> QED
    BY <1>2, <1>5

(* How the calls that make copies, and the counters, move in one step.     *)
Steady(j) == \A f \in Forums : Makes(j, f)' => Makes(j, f)
Same == UNCHANGED <<orphans, lost, overlaps>>
Unseen == orphans' = orphans + 1 /\ lost' = lost + 1 /\ UNCHANGED overlaps
Begin(j) ==
    \E f \in Forums :
       /\ Makes(j, f)' /\ ~Has(j[2], f) /\ CountOverlap(j, f)
       /\ UNCHANGED <<orphans, lost>>
Leaves(j) == \A f \in Forums : ~Makes(j, f)'
Orphan(j) ==
    /\ \E f \in Forums : Makes(j, f) /\ Has(j[2], f)
    /\ orphans' = orphans + 1 /\ UNCHANGED <<lost, overlaps>>
(* Nobody else makes the first copy of a Discord object.                   *)
Fresh(j, f) == Makes(j, f) \/ \A i \in Events : i[2] = j[2] => ~Makes(i, f)

LEMMA IdleMakes ==
    ASSUME NEW j \in Events,
           \/ jobs'[j].stage \in {"idle", "publishing", "fanout", "relaying"}
           \/ jobs'[j].stage = "calling" /\ j[1] # "create"
    PROVE  Leaves(j) /\ Steady(j)
  BY DEF Leaves, Steady, Makes, Calling

LEMMA FinishMakes ==
    ASSUME LocalCommunityAssumption, Inv, NEW j \in Events, NEW e, Finish(j, e)
    PROVE  Leaves(j) /\ Steady(j)
  <1>1. jobs'[j] = Idle /\ Idle.stage = "idle"
    BY JobShapes, SetJob DEF Inv, TypeOK, Finish
  <1> QED
    BY <1>1, IdleMakes

LEMMA ReceiveMakes ==
    ASSUME LocalCommunityAssumption, Inv, NEW j \in Events, Receive(j)
    PROVE  (Steady(j) /\ Same) \/ Begin(j)
  <1>0. jobs \in [Events -> Job] /\ RowsInv /\ Surfaces /\ j[2] \in Objects /\ Host \in Forums
        /\ TypeOK
    BY EventShape DEF Inv, TypeOK, Surfaces, Forums
  <1>1. ASSUME NEW k, k.stage \in {"publishing", "fanout"}, Start(j, k) PROVE Steady(j)
    <2>1. jobs'[j] = k
      BY <1>0, <1>1 DEF Start
    <2> QED
      BY <1>1, <2>1, IdleMakes
  <1>2. CASE CreateInbound(j)
    <2>1. jobs'[j] = At("hosting") /\ At("hosting").stage = "hosting"
      BY <1>0, <1>2, JobShapes DEF CreateInbound, Start, Stages
    <2>2. ~Has(j[2], Host) /\ j[1] = "create"
      BY <1>0, <1>2 DEF CreateInbound, Arrives, RowsInv
    <2>3. Makes(j, Host)'
      BY <2>1, <2>2 DEF Makes
    <2> QED
      BY <1>0, <1>2, <2>2, <2>3 DEF CreateInbound, Begin
  <1>3. CASE Repair(j) \/ CreateDiscord(j) \/ Mutate(j)
    <2>1. /\ Pass(SelectTargets(j[2]), "skipped").stage = "fanout"
          /\ Pass(Without(Listed(j[2]), source[j[2]]), "processed").stage = "fanout"
          /\ At("publishing").stage = "publishing"
      BY <1>0, SelectedForums, HasMeans, WithoutShape, JobShapes DEF Stages
    <2>2. Steady(j)
      BY <1>1, <1>3, <2>1 DEF Repair, CreateDiscord, Mutate
    <2> QED
      BY <1>3, <2>2 DEF Repair, CreateDiscord, Mutate, Same, Duplicates
  <1>4. CASE RefuseInbound(j) \/ IgnoreMutation(j)
    <2>1. Steady(j)
      BY <1>4, FinishMakes DEF RefuseInbound, IgnoreMutation
    <2> QED
      BY <1>4, <2>1 DEF RefuseInbound, IgnoreMutation, Same, Duplicates
  <1> QED
    BY <1>2, <1>3, <1>4 DEF Receive

LEMMA TargetMakes ==
    ASSUME LocalCommunityAssumption, Inv, NEW j \in Events, Target(j)
    PROVE  (Steady(j) /\ Same) \/ Begin(j)
  <1>0. /\ jobs \in [Events -> Job] /\ jobs[j] \in Job /\ jobs[j].stage = "fanout"
        /\ jobs[j].todo # <<>> /\ jobs[j].todo \in Seq(Forums)
    BY JobFields DEF Inv, TypeOK, Target
  <1>1. Head(jobs[j].todo) \in Forums
    BY <1>0, TailContains
  <1>2. CASE Wanted(j, Head(jobs[j].todo))
    <2>1. jobs'[j] = [jobs[j] EXCEPT !.stage = "calling"]
      BY <1>0, <1>2 DEF Target, Moves
    <2>2. jobs'[j].stage = "calling" /\ jobs'[j].todo = jobs[j].todo
      BY <1>0, <2>1 DEF Job
    <2>3. CASE j[1] = "create"
      <3>2. PICK f \in Forums : f = Head(jobs[j].todo)
        BY <1>1
      <3>3. Makes(j, f)'
        BY <2>2, <2>3, <3>2 DEF Makes, Calling
      <3>4. ~Has(j[2], f) /\ CountOverlap(j, f) /\ UNCHANGED <<orphans, lost>>
        BY <1>2, <2>3, <3>2 DEF Wanted, Target
      <3> QED
        BY <3>3, <3>4 DEF Begin
    <2>4. CASE j[1] # "create"
      BY <2>2, <2>4, IdleMakes DEF Target, Same
    <2> QED
      BY <2>3, <2>4
  <1>3. CASE ~Wanted(j, Head(jobs[j].todo))
    <2>1. jobs'[j] = [jobs[j] EXCEPT !.todo = Tail(@)]
      BY <1>0, <1>3 DEF Target, Moves
    <2>2. jobs'[j].stage = "fanout"
      BY <1>0, <2>1 DEF Job
    <2> QED
      BY <1>3, <2>2, IdleMakes DEF Target, Same
  <1> QED
    BY <1>2, <1>3

LEMMA CallEnds ==
    ASSUME LocalCommunityAssumption, Inv, NEW j \in Events, Calling(j), Continue(j)
    PROVE  /\ Leaves(j) /\ Steady(j) /\ Head(jobs[j].todo) \in Forums
           /\ j[1] = "create" => Makes(j, Head(jobs[j].todo))
  <1>1. jobs'[j].stage = "fanout"
    BY ContinueShape
  <1>2. Head(jobs[j].todo) \in Forums
    BY CallingShape
  <1> QED
    BY <1>1, <1>2, IdleMakes DEF Makes

LEMMA RelayMakes ==
    ASSUME LocalCommunityAssumption, Inv, NEW j \in Events,
           RelayStarts(j) \/ RelayAnswered(j) \/ RelayRaises(j)
    PROVE  Steady(j) /\ Same
  <1>1. Same
    BY DEF RelayStarts, RelayAnswered, RelayRaises, Same, Duplicates
  <1>2. CASE Moves(j, [jobs[j] EXCEPT !.stage = "relaying", !.batch = Open(j)])
    <2>1. jobs \in [Events -> Job] /\ jobs[j] \in Job
      BY JobFields DEF Inv, TypeOK
    <2>2. [jobs[j] EXCEPT !.stage = "relaying", !.batch = Open(j)].stage = "relaying"
      BY <2>1 DEF Job
    <2>3. jobs'[j].stage = "relaying"
      BY <1>2, <2>1, <2>2 DEF Moves
    <2> QED
      BY <1>1, <2>3, IdleMakes
  <1>3. ASSUME NEW e, Finish(j, e) PROVE Steady(j) /\ Same
    BY <1>1, <1>3, FinishMakes
  <1> QED
    BY <1>2, <1>3 DEF RelayStarts, RelayAnswered, RelayRaises

(* Every step of a handler, for the accounts.                              *)
Ledger(j) ==
    \/ SameCopies /\ Steady(j) /\ (Same \/ Unseen)
    \/ SameCopies /\ Begin(j)
    \/ SameCopies /\ Leaves(j) /\ Orphan(j)
    \/ \E f \in Forums : OneCopyMore(j[2], f) /\ Leaves(j) /\ Fresh(j, f) /\ Same

LEMMA StoredLedger ==
    ASSUME LocalCommunityAssumption, Inv, NEW j \in Events, Stored(j)
    PROVE  Ledger(j)
  <1> DEFINE f == IF Inbound(j[2]) THEN Host ELSE source[j[2]]
  <1>1. OneCopyMore(j[2], f) /\ jobs'[j].stage = "fanout"
    BY StoredActs
  <1>2. /\ Same /\ Ready(j) /\ j[2] \notin rows
    BY DEF Stored, Same, Duplicates
  <1>3. /\ j[2] \in Objects /\ Host \in Forums /\ Forums \cap Remotes = {}
        /\ source \in [Objects -> Forums \cup Remotes] /\ JobInv
    BY EventShape DEF Inv, TypeOK, LocalCommunityAssumption, Forums
  <1>4. f \in Forums
    BY <1>3 DEF Inbound
  <1>5. Leaves(j)
    BY <1>1, IdleMakes
  <1>6. CASE jobs[j].stage = "hosting"
    <2>1. f = Host /\ j[1] = "create"
      BY <1>3, <1>6 DEF JobInv, Knows
    <2>2. Makes(j, f)
      BY <1>6, <2>1 DEF Makes
    <2> QED
      BY <1>1, <1>2, <1>4, <1>5, <2>2 DEF Ledger, Fresh
  <1>7. CASE jobs[j].stage = "publishing"
    <2>1. ~Inbound(j[2])
      BY <1>3, <1>7 DEF JobInv, Knows, Inbound
    <2>2. ASSUME NEW i \in Events, i[2] = j[2] PROVE ~Makes(i, f)
      <3>1. Knows(i)
        BY <1>3 DEF JobInv
      <3>2. jobs[i].stage # "hosting"
        BY <2>1, <2>2, <3>1 DEF Knows
      <3>3. jobs[i].stage # "calling"
        BY <1>2, <2>2, <3>1 DEF Knows, Passing
      <3> QED
        BY <3>2, <3>3 DEF Makes, Calling
    <2> HIDE DEF f
    <2> QED
      BY <1>1, <1>2, <1>4, <1>5, <2>2 DEF Ledger, Fresh
  <1> QED
    BY <1>2, <1>6, <1>7 DEF Ready

LEMMA HandlerLedger ==
    ASSUME LocalCommunityAssumption, Inv, InboundShown, NEW j \in Events,
           Receive(j) \/ Proceed(j) \/ (Fails(j) /\ ~CrashBetweenRows(j))
    PROVE  Ledger(j)
  <1>1. CASE Receive(j)
    BY <1>1, ReceiveActs, ReceiveMakes DEF Ledger
  <1>2. CASE Stored(j)
    BY <1>2, StoredLedger
  <1>3. CASE Conflicts(j)
    <2>1. SameCopies /\ Leaves(j) /\ Steady(j)
      BY <1>3, BeginningEnds, FinishMakes DEF Conflicts
    <2>2. Knows(j) /\ Ready(j) /\ j[2] \in rows /\ j[2] \in Objects /\ Host \in Forums
          /\ Forums \cap Remotes = {}
      BY <1>3, EventShape DEF Inv, JobInv, Conflicts, LocalCommunityAssumption, Forums
    <2>3. CASE Inbound(j[2])
      <3>1. jobs[j].stage = "hosting" /\ j[1] = "create"
        BY <2>2, <2>3 DEF Ready, Knows, Inbound
      <3>2. Makes(j, Host) /\ Has(j[2], Host)
        BY <2>2, <2>3, <3>1 DEF Makes, InboundShown
      <3> QED
        BY <1>3, <2>1, <2>2, <2>3, <3>2 DEF Conflicts, Ledger, Orphan
    <2>4. CASE ~Inbound(j[2])
      BY <1>3, <2>1, <2>4 DEF Conflicts, Ledger, Same
    <2> QED
      BY <2>3, <2>4
  <1>4. CASE Target(j)
    BY <1>4, TargetActs, TargetMakes DEF Ledger
  <1>5. CASE Answered(j)
    <2>1. /\ Calling(j) /\ Continue(j) /\ UNCHANGED <<lost, overlaps>>
      BY <1>5 DEF Answered
    <2>2. /\ Leaves(j) /\ Steady(j) /\ Head(jobs[j].todo) \in Forums
          /\ j[1] = "create" => Makes(j, Head(jobs[j].todo))
      BY <2>1, CallEnds
    <2>3. CASE SameCopies /\ UNCHANGED orphans
      BY <2>1, <2>2, <2>3 DEF Ledger, Same
    <2>4. CASE /\ SameCopies /\ orphans' = orphans + 1 /\ j[1] = "create"
               /\ Has(j[2], Head(jobs[j].todo))
      BY <2>1, <2>2, <2>4 DEF Ledger, Orphan
    <2>5. CASE NewCopy(j) /\ OneCopyMore(j[2], Head(jobs[j].todo)) /\ UNCHANGED orphans
      BY <2>1, <2>2, <2>5 DEF Ledger, Same, Fresh, NewCopy
    <2> QED
      BY <1>5, <2>3, <2>4, <2>5, AnsweredActs
  <1>6. CASE RelayStarts(j) \/ RelayAnswered(j) \/ RelayRaises(j)
    BY <1>6, RelayActs, RelayMakes DEF Ledger
  <1>7. CASE PublishFails(j)
    <2>1. SameCopies /\ Steady(j)
      BY <1>7, BeginningEnds, FinishMakes DEF PublishFails
    <2> QED
      BY <1>7, <2>1 DEF PublishFails, Ledger, Same, Duplicates
  <1>8. CASE HostFails(j)
    <2>1. SameCopies /\ Steady(j)
      BY <1>8, BeginningEnds, FinishMakes DEF HostFails
    <2>2. orphans \in Nat /\ lost \in Nat
      BY DEF Inv, TypeOK
    <2>3. Same \/ Unseen
      BY <1>8, <2>2 DEF HostFails, Same, Unseen
    <2> QED
      BY <2>1, <2>3 DEF Ledger
  <1>9. CASE CallFails(j)
    <2>1. Calling(j) /\ Continue(j) /\ UNCHANGED overlaps
      BY <1>9 DEF CallFails
    <2>2. Steady(j)
      BY <2>1, CallEnds
    <2>3. SameCopies /\ (Same \/ Unseen)
      BY <1>9, <2>1, CallFailsActs DEF Same, Unseen
    <2> QED
      BY <2>2, <2>3 DEF Ledger
  <1> QED
    BY <1>1, <1>2, <1>3, <1>4, <1>5, <1>6, <1>7, <1>8, <1>9 DEF Proceed, Resume, Fails

LEMMA AccountStep ==
    ASSUME LocalCommunityAssumption, Inv, InboundShown, Next,
           NEW S \in SUBSET Events, Settled(S), orphans + Cardinality(S) <= lost + overlaps
    PROVE  \E T \in SUBSET Events :
              Settled(T)' /\ orphans' + Cardinality(T) <= lost' + overlaps'
  <1> DEFINE Goal == \E T \in SUBSET Events :
                        Settled(T)' /\ orphans' + Cardinality(T) <= lost' + overlaps'
  <1>0. orphans \in Nat /\ lost \in Nat /\ overlaps \in Nat
    BY DEF Inv, TypeOK
  <1>1. Cardinality(S) \in Nat
    BY FS_Subset, FS_CardinalityType DEF LocalCommunityAssumption
  <1>2. ASSUME Settled(S)', Same \/ Unseen PROVE Goal
    <2>1. orphans' + Cardinality(S) <= lost' + overlaps'
      BY <1>0, <1>1, <1>2 DEF Same, Unseen
    <2> QED
      BY <1>2, <2>1
  <1>3. CASE \/ \E f \in Subs : Join(f) \/ Leave(f)
             \/ \E r \in Remotes : Refollow(r)
    <2>1. Rests /\ Same
      <3>1. Same
        BY <1>3 DEF Join, Leave, Refollow, Same, Duplicates
      <3> QED
        BY <1>3, <3>1, RestsShape
    <2>2. \A i \in Events, f \in Forums : Makes(i, f)' => Makes(i, f)
      BY <2>1 DEF Rests, Makes, Calling
    <2>3. Settled(S)'
      BY <2>1, <2>2, SettledQuiet DEF Rests
    <2> QED
      BY <1>2, <2>1, <2>3
  <1>4. CASE CrashAll \/ \E j \in Events : CrashBetweenRows(j)
    <2>1. AllDie /\ (Same \/ Unseen)
      BY <1>4, CrashShape DEF Same, Unseen
    <2>2. \A i \in Events : jobs'[i] = Idle
      BY <2>1 DEF AllDie
    <2>3. Idle.stage = "idle"
      BY JobShapes
    <2>4. \A i \in Events, f \in Forums : ~Makes(i, f)'
      BY <2>2, <2>3 DEF Makes, Calling
    <2>5. Settled(S)'
      BY <2>4 DEF Settled
    <2> QED
      BY <1>2, <2>1, <2>5
  <1>5. ASSUME NEW j \in Events, Acts(j), Ledger(j) PROVE Goal
    <2>0. /\ \A i \in Events \ {j}, f \in Forums : Makes(i, f)' <=> Makes(i, f)
          /\ S \cup {j} \in SUBSET Events /\ S \ {j} \in SUBSET Events
          /\ \A k \in Events : (S \ {j}) \cup {k} \in SUBSET Events
      BY <1>5, OthersMake
    <2>1. CASE SameCopies /\ Steady(j) /\ (Same \/ Unseen)
      <3>1. \A i \in Events, f \in Forums : Makes(i, f)' => Makes(i, f)
        BY <2>0, <2>1 DEF Steady
      <3>2. Settled(S)'
        BY <2>1, <3>1, SettledQuiet
      <3> QED
        BY <1>2, <2>1, <3>2
    <2>2. CASE SameCopies /\ Begin(j)
      <3>1. PICK f \in Forums : /\ Makes(j, f)' /\ ~Has(j[2], f) /\ CountOverlap(j, f)
                                /\ UNCHANGED <<orphans, lost>>
        BY <2>2 DEF Begin
      <3>2. /\ Settled(S \cup {j})'
            /\ (\A k \in Events : ~(k[2] = j[2] /\ Makes(k, f))) => Settled(S)'
        BY <1>5, <2>2, <3>1, SettledBegin
      <3>3. CASE \E k \in Events : k[2] = j[2] /\ Makes(k, f)
        <4>1. overlaps' = overlaps + 1
          BY <3>1, <3>3 DEF CountOverlap
        <4>2. Cardinality(S \cup {j}) \in Nat /\ Cardinality(S \cup {j}) <= Cardinality(S) + 1
          BY <1>5, AccountSets
        <4>3. orphans' + Cardinality(S \cup {j}) <= lost' + overlaps'
          BY <1>0, <1>1, <3>1, <4>1, <4>2
        <4> QED
          BY <2>0, <3>2, <4>3
      <3>4. CASE ~\E k \in Events : k[2] = j[2] /\ Makes(k, f)
        <4>1. Same
          BY <3>1, <3>4 DEF CountOverlap, Same
        <4> QED
          BY <1>2, <3>2, <3>4, <4>1
      <3> QED
        BY <3>3, <3>4
    <2>3. CASE SameCopies /\ Leaves(j) /\ Orphan(j)
      <3>1. PICK f \in Forums : Makes(j, f) /\ Has(j[2], f)
        BY <2>3 DEF Orphan
      <3>2. j \in S /\ Settled(S \ {j})'
        BY <1>5, <2>3, <3>1, SettledOrphan DEF Leaves
      <3>3. Cardinality(S \ {j}) = Cardinality(S) - 1 /\ Cardinality(S \ {j}) \in Nat
        BY <1>5, <3>2, AccountSets
      <3>4. orphans' + Cardinality(S \ {j}) <= lost' + overlaps'
        BY <1>0, <1>1, <2>3, <3>3 DEF Orphan
      <3> QED
        BY <2>0, <3>2, <3>4
    <2>4. CASE \E f \in Forums : OneCopyMore(j[2], f) /\ Leaves(j) /\ Fresh(j, f) /\ Same
      <3>1. PICK f \in Forums : OneCopyMore(j[2], f) /\ Leaves(j) /\ Fresh(j, f) /\ Same
        BY <2>4
      <3>2. /\ (\A i \in Events \ S : i # j => ~(Makes(i, f) /\ i[2] = j[2])) => Settled(S)'
            /\ \A k \in Events \ S :
                  k[2] = j[2] /\ Makes(k, f) => Settled((S \ {j}) \cup {k})'
        BY <1>5, <3>1, SettledCopy DEF Leaves
      <3>3. CASE \A i \in Events \ S : i # j => ~(Makes(i, f) /\ i[2] = j[2])
        BY <1>2, <3>1, <3>2, <3>3
      <3>4. ASSUME NEW k \in Events \ S, k # j, Makes(k, f), k[2] = j[2] PROVE Goal
        <4>1. j \in S
          BY <1>5, <3>1, <3>4 DEF Fresh, Settled
        <4>2. Settled((S \ {j}) \cup {k})'
          BY <3>2, <3>4
        <4>3. /\ Cardinality((S \ {j}) \cup {k}) \in Nat
              /\ Cardinality((S \ {j}) \cup {k}) <= Cardinality(S)
          BY <1>5, <3>4, <4>1, AccountSets
        <4>4. orphans' + Cardinality((S \ {j}) \cup {k}) <= lost' + overlaps'
          BY <1>0, <1>1, <3>1, <4>3 DEF Same
        <4> QED
          BY <2>0, <3>4, <4>2, <4>4
      <3> QED
        BY <3>3, <3>4
    <2> QED
      BY <1>5, <2>1, <2>2, <2>3, <2>4 DEF Ledger
  <1>6. ASSUME NEW j \in Events,
               Receive(j) \/ Proceed(j) \/ (Fails(j) /\ ~CrashBetweenRows(j))
        PROVE  Goal
    BY <1>5, <1>6, HandlerActs, HandlerLedger
  <1> QED
    BY <1>3, <1>4, <1>6 DEF Next, Fails

LEMMA AccountsHold == ASSUME LocalCommunityAssumption PROVE Spec => []AccountInv
  <1> DEFINE I == InboundShown /\ AccountInv
  <1>1. Init => I
    <2> SUFFICES ASSUME Init PROVE I
      OBVIOUS
    <2>1. InboundShown
      BY DEF Init, InboundShown
    <2>2. \A i \in Events, f \in Forums : ~Makes(i, f)
      BY JobShapes DEF Init, Makes, Calling
    <2>3. Settled({})
      BY <2>2 DEF Settled
    <2>4. orphans + Cardinality({}) <= lost + overlaps
      BY FS_EmptySet DEF Init
    <2> QED
      BY <2>1, <2>3, <2>4 DEF AccountInv
  <1>2. Inv /\ I /\ [Next]_vars => I'
    <2> SUFFICES ASSUME Inv, I, [Next]_vars PROVE I'
      OBVIOUS
    <2>1. CASE UNCHANGED vars
      BY <2>1
      DEF vars, InboundShown, AccountInv, Settled, Makes, Calling, Inbound, Has, Listed
    <2>2. CASE Next
      <3>1. PICK S \in SUBSET Events :
               Settled(S) /\ orphans + Cardinality(S) <= lost + overlaps
        BY DEF AccountInv
      <3>2. \E T \in SUBSET Events :
               Settled(T)' /\ orphans' + Cardinality(T) <= lost' + overlaps'
        BY <2>2, <3>1, AccountStep
      <3>3. InboundShown'
        BY <2>2, InboundShownStep
      <3> QED
        BY <3>2, <3>3 DEF AccountInv
    <2> QED
      BY <2>1, <2>2
  <1> QED
    BY <1>1, <1>2, InvHolds, PTL DEF Spec
-----------------------------------------------------------------------------
(* The relay.                                                              *)
RelayInv ==
    /\ \A x \in Relays : relay[x] = "delivered" => x \in received
    /\ \A j \in Events : jobs[j].stage = "relaying" =>
          \A r \in jobs[j].batch :
             /\ r # source[j[2]]
             /\ j[1] # "create" => <<"create", j[2], r>> \in received
    /\ MutationFollowsCreate

(* No relay begins.                                                        *)
NoneBegins == \A i \in Events : jobs'[i].stage = "relaying" => jobs'[i] = jobs[i]

LEMMA SetsOther ==
    ASSUME jobs \in [Events -> Job], NEW j \in Events, NEW k, k.stage # "relaying",
           jobs' = [jobs EXCEPT ![j] = k]
    PROVE  NoneBegins
  BY DEF NoneBegins

LEMMA RelayShape ==
    ASSUME LocalCommunityAssumption, Inv, Next
    PROVE  /\ UNCHANGED source
           /\ \/ NoneBegins /\ UNCHANGED <<relay, received>>
              \/ \E j \in Events : \/ RelayStarts(j) /\ ~NoneBegins
                                   \/ RelayAnswered(j) /\ NoneBegins
                                   \/ /\ jobs[j].stage = "relaying"
                                      /\ \E R \in SUBSET jobs[j].batch : Reached(j, R)
                                      /\ NoneBegins /\ UNCHANGED relay
  <1>0. TypeOK /\ JobInv /\ jobs \in [Events -> Job]
    BY TypeParts DEF Inv
  <1>1. UNCHANGED source
    BY StepShape DEF Rests, AllDie, Acts
  <1>2. Idle.stage # "relaying" /\ At("hosting").stage # "relaying"
        /\ At("publishing").stage # "relaying"
    BY JobShapes DEF Stages
  <1>3. ASSUME NEW j \in Events, NEW e, Finish(j, e) PROVE NoneBegins
    BY <1>0, <1>2, <1>3, SetsOther DEF Finish
  <1>4. ASSUME UNCHANGED jobs PROVE NoneBegins
    BY <1>4 DEF NoneBegins
  <1>5. ASSUME jobs' = [j \in Events |-> Idle] PROVE NoneBegins
    BY <1>2, <1>5 DEF NoneBegins
  <1>6. ASSUME NEW j \in Events, NEW t \in Seq(Forums), NEW e \in {"processed", "skipped"},
               jobs' = [jobs EXCEPT ![j] = Pass(t, e)]
        PROVE  NoneBegins
    <2>1. Pass(t, e).stage # "relaying"
      BY JobShapes
    <2> QED
      BY <1>0, <1>6, <2>1, SetsOther
  <1>7. ASSUME NEW j \in Events, Receive(j) PROVE NoneBegins
    <2>1. /\ j[2] \in Objects
          /\ SelectTargets(j[2]) \in Seq(Forums)
          /\ Without(Listed(j[2]), source[j[2]]) \in Seq(Forums)
      BY <1>0, EventShape, SelectedForums, HasMeans, WithoutShape, TypeParts
    <2>2. ASSUME NEW k, k.stage # "relaying", Start(j, k) PROVE NoneBegins
      BY <1>0, <2>2, SetsOther DEF Start
    <2>3. Pass(SelectTargets(j[2]), "skipped").stage # "relaying"
          /\ Pass(Without(Listed(j[2]), source[j[2]]), "processed").stage # "relaying"
      BY <2>1, JobShapes
    <2> QED
      BY <1>2, <1>3, <1>7, <2>1, <2>2, <2>3
      DEF Receive, Repair, RefuseInbound, CreateInbound, CreateDiscord, Mutate, IgnoreMutation
  <1>8. ASSUME NEW j \in Events, Stored(j) PROVE NoneBegins
    <2>1. j[2] \in Objects /\ SelectTargets(j[2]) \in Seq(Forums)
      BY <1>0, EventShape, SelectedForums
    <2> QED
      BY <1>6, <1>8, <2>1 DEF Stored, Moves
  <1>9. ASSUME NEW j \in Events, Target(j) PROVE NoneBegins
    <2>1. jobs[j] \in Job /\ jobs[j].stage = "fanout"
      BY <1>0, <1>9, JobFields DEF Target
    <2>2. CASE jobs' = [jobs EXCEPT ![j] = [jobs[j] EXCEPT !.stage = "calling"]]
      <3>1. [jobs[j] EXCEPT !.stage = "calling"].stage # "relaying"
        BY <2>1 DEF Job
      <3> QED
        BY <1>0, <2>2, <3>1, SetsOther
    <2>3. CASE jobs' = [jobs EXCEPT ![j] = [jobs[j] EXCEPT !.todo = Tail(@)]]
      <3>1. [jobs[j] EXCEPT !.todo = Tail(@)].stage # "relaying"
        BY <2>1 DEF Job
      <3> QED
        BY <1>0, <2>3, <3>1, SetsOther
    <2> QED
      BY <1>9, <2>2, <2>3 DEF Target, Moves
  <1>10. ASSUME NEW j \in Events, Answered(j) \/ CallFails(j) PROVE NoneBegins
    BY <1>10, ContinueShape DEF Answered, CallFails, NoneBegins
  <1>11. ASSUME NEW j \in Events, RelayStarts(j)
         PROVE  NoneBegins => UNCHANGED <<relay, received>>
    <2>1. CASE Finish(j, jobs[j].ends) /\ UNCHANGED relay
      BY <1>11, <2>1 DEF RelayStarts
    <2>2. CASE Moves(j, [jobs[j] EXCEPT !.stage = "relaying", !.batch = Open(j)])
      <3>1. jobs[j] \in Job /\ jobs[j].stage = "fanout"
        BY <1>0, <1>11, JobFields DEF RelayStarts, PassDone
      <3>2. [jobs[j] EXCEPT !.stage = "relaying", !.batch = Open(j)].stage = "relaying"
        BY <3>1 DEF Job
      <3>3. jobs'[j].stage = "relaying"
        BY <1>0, <2>2, <3>2 DEF Moves
      <3>4. ~NoneBegins
        BY <3>1, <3>3 DEF NoneBegins
      <3> QED
        BY <3>4
    <2> QED
      BY <1>11, <2>1, <2>2 DEF RelayStarts
  <1>12. ASSUME NEW j \in Events, RelayAnswered(j) \/ RelayRaises(j) PROVE NoneBegins
    BY <1>3, <1>12 DEF RelayAnswered, RelayRaises
  <1>13. ASSUME CrashAll
         PROVE  /\ NoneBegins /\ UNCHANGED relay
                /\ \/ UNCHANGED received
                   \/ \E j \in Events : jobs[j].stage = "relaying" /\ Reached(j, jobs[j].batch)
    BY <1>5, <1>13 DEF CrashAll, Crash
  <1>14. ASSUME \/ \E f \in Subs : Join(f) \/ Leave(f)
                \/ \E r \in Remotes : Refollow(r)
                \/ \E j \in Events : \/ PublishFails(j) \/ HostFails(j)
                                     \/ Conflicts(j) \/ CrashBetweenRows(j)
         PROVE  NoneBegins /\ UNCHANGED <<relay, received>>
    BY <1>3, <1>4, <1>5, <1>14
    DEF Join, Leave, Refollow, PublishFails, HostFails, Conflicts, CrashBetweenRows, Crash,
        Relaying
  <1>15. ASSUME NEW j \in Events,
                \/ Receive(j) \/ Stored(j) \/ Target(j)
                \/ Answered(j) \/ CallFails(j)
         PROVE  NoneBegins /\ UNCHANGED <<relay, received>>
    BY <1>7, <1>8, <1>9, <1>10, <1>15
    DEF Receive, Repair, RefuseInbound, CreateInbound, CreateDiscord, Mutate, IgnoreMutation,
        Stored, Target, Answered, CallFails, Relaying
  <1>16. ASSUME NEW j \in Events, RelayRaises(j)
         PROVE  /\ jobs[j].stage = "relaying" /\ UNCHANGED relay
                /\ \E R \in SUBSET jobs[j].batch : Reached(j, R)
    BY <1>16 DEF RelayRaises
  <1> QED
    BY <1>1, <1>11, <1>12, <1>13, <1>14, <1>15, <1>16
    DEF Next, Proceed, Resume, Fails

LEMMA DeliveryShape ==
    ASSUME LocalCommunityAssumption, NEW j \in Events, NEW r \in Remotes
    PROVE  /\ Delivery(j, r) \in Relays /\ <<"create", j[2], r>> \in Relays
           /\ Delivery(j, r)[2] = j[2] /\ Delivery(j, r)[3] = r
           /\ j[1] = "create" => Delivery(j, r) = <<"create", j[2], r>>
  <1>1. j[1] \in Ops /\ j[2] \in Objects /\ "create" \in Ops
    BY EventShape DEF Ops
  <1>2. Delivery(j, r) = <<j[1], j[2], r>>
    BY DEF Delivery
  <1>3. Delivery(j, r) \in Relays /\ <<"create", j[2], r>> \in Relays
    BY <1>1, <1>2 DEF Relays
  <1> QED
    BY <1>1, <1>2, <1>3

LEMMA RelayNext ==
    ASSUME LocalCommunityAssumption, Inv, RelayInv, Next
    PROVE  RelayInv'
  <1>0. TypeRest /\ jobs \in [Events -> Job] /\ source' = source
        /\ \A j \in Events : jobs[j].batch \subseteq Remotes
    BY TypeParts, JobFields, RelayShape DEF Inv
  <1>1. CASE NoneBegins /\ UNCHANGED <<relay, received>>
    BY <1>0, <1>1 DEF NoneBegins, RelayInv, MutationFollowsCreate
  <1>2. ASSUME NEW j \in Events, RelayStarts(j), ~NoneBegins
        PROVE  RelayInv'
    <2>1. /\ Moves(j, [jobs[j] EXCEPT !.stage = "relaying", !.batch = Open(j)])
          /\ relay' = [x \in Relays |->
                 IF x \in {Delivery(j, r) : r \in Open(j)} /\ relay[x] = "none"
                 THEN "pending" ELSE relay[x]]
          /\ UNCHANGED received
      <3>1. ~Finish(j, jobs[j].ends)
        <4>1. Idle.stage # "relaying"
          BY JobShapes
        <4> QED
          BY <1>0, <1>2, <4>1, SetsOther DEF Finish
      <3> QED
        BY <1>2, <3>1 DEF RelayStarts
    <2>2. /\ \A i \in Events \ {j} : jobs'[i] = jobs[i]
          /\ jobs'[j].batch = Open(j)
      <3>1. jobs[j] \in Job /\ jobs[j].stage = "fanout"
        BY <1>0, <1>2, JobFields DEF RelayStarts, PassDone
      <3>2. [jobs[j] EXCEPT !.stage = "relaying", !.batch = Open(j)].batch = Open(j)
        BY <3>1 DEF Job
      <3> QED
        BY <1>0, <2>1, <3>2 DEF Moves
    <2>3. /\ \A x \in Relays : relay'[x] = "delivered" <=> relay[x] = "delivered"
          /\ Open(j) \subseteq Remotes
      <3>1. Open(j) \subseteq Remotes
        BY <1>0 DEF TypeRest, Open, RelayTargets
      <3>2. \A x \in Relays : relay'[x] = IF x \in {Delivery(j, r) : r \in Open(j)}
                                             /\ relay[x] = "none"
                                          THEN "pending" ELSE relay[x]
        BY <2>1
      <3> QED
        BY <3>1, <3>2
    <2>4. ASSUME NEW r \in Open(j)
          PROVE  /\ r # source[j[2]]
                 /\ j[1] # "create" => <<"create", j[2], r>> \in received
      <3>1. r \in RelayTargets(j)
        BY DEF Open
      <3>2. CASE j[1] = "create"
        BY <3>1, <3>2 DEF RelayTargets
      <3>3. CASE j[1] # "create"
        <4>1. relay[<<"create", j[2], r>>] = "delivered"
          BY <3>1, <3>3 DEF RelayTargets
        <4>2. <<"create", j[2], r>> \in received
          BY <2>3, <4>1, DeliveryShape DEF RelayInv
        <4>3. r # source[j[2]]
          BY <4>2 DEF RelayInv, MutationFollowsCreate
        <4> QED
          BY <4>2, <4>3
      <3> QED
        BY <3>2, <3>3
    <2>5. ASSUME NEW i \in Events, jobs'[i].stage = "relaying", NEW r \in jobs'[i].batch
          PROVE  /\ r # source[i[2]]
                 /\ i[1] # "create" => <<"create", i[2], r>> \in received
      <3>1. CASE i = j
        BY <2>2, <2>4, <2>5, <3>1
      <3>2. CASE i # j
        <4>1. jobs'[i] = jobs[i]
          BY <2>2, <3>2
        <4> QED
          BY <1>0, <2>5, <4>1 DEF RelayInv
      <3> QED
        BY <3>1, <3>2
    <2> QED
      BY <1>0, <2>1, <2>3, <2>5 DEF RelayInv, MutationFollowsCreate
  <1>3. ASSUME NEW j \in Events, jobs[j].stage = "relaying",
               NEW R \in SUBSET jobs[j].batch, Reached(j, R)
        PROVE  /\ received \subseteq received' /\ MutationFollowsCreate'
               /\ \A r \in R : Delivery(j, r) \in received'
    <2>1. received' = received \cup {Delivery(j, r) : r \in R}
      BY <1>3 DEF Reached
    <2>2. ASSUME NEW r \in R
          PROVE  /\ <<"create", j[2], r>> \in received' /\ r # source[j[2]]
                 /\ Delivery(j, r)[2] = j[2] /\ Delivery(j, r)[3] = r
      <3>1. /\ r \in Remotes /\ r # source[j[2]]
            /\ j[1] # "create" => <<"create", j[2], r>> \in received
        BY <1>0, <1>3 DEF RelayInv
      <3>2. CASE j[1] = "create"
        BY <2>1, <3>1, <3>2, DeliveryShape
      <3>3. CASE j[1] # "create"
        <4>1. <<"create", j[2], r>> \in received
          BY <3>1, <3>3
        <4> QED
          BY <2>1, <3>1, <4>1, DeliveryShape
      <3> QED
        BY <3>2, <3>3
    <2>3. MutationFollowsCreate'
      <3> SUFFICES ASSUME NEW x \in received'
                   PROVE  <<"create", x[2], x[3]>> \in received' /\ x[3] # source[x[2]]
        BY <1>0 DEF MutationFollowsCreate
      <3>1. CASE x \in received
        BY <2>1, <3>1 DEF RelayInv, MutationFollowsCreate
      <3>2. ASSUME NEW r \in R, x = Delivery(j, r)
            PROVE  <<"create", x[2], x[3]>> \in received' /\ x[3] # source[x[2]]
        BY <2>2, <3>2
      <3> QED
        BY <2>1, <3>1, <3>2
    <2> QED
      BY <2>1, <2>3
  <1>4. ASSUME NEW j \in Events, RelayAnswered(j), NoneBegins
        PROVE  RelayInv'
    <2>1. PICK R \in SUBSET jobs[j].batch :
             /\ relay' = [x \in Relays |->
                    IF x \in {Delivery(j, r) : r \in R} THEN "delivered"
                    ELSE IF x \in {Delivery(j, r) : r \in jobs[j].batch} THEN "failed"
                    ELSE relay[x]]
             /\ Reached(j, R)
      BY <1>4 DEF RelayAnswered
    <2>2. jobs[j].stage = "relaying"
      BY <1>4 DEF RelayAnswered
    <2>3. /\ received \subseteq received' /\ MutationFollowsCreate'
          /\ \A r \in R : Delivery(j, r) \in received'
      BY <1>3, <2>1, <2>2
    <2>4. \A x \in Relays : relay'[x] = "delivered" =>
             relay[x] = "delivered" \/ \E r \in R : x = Delivery(j, r)
      BY <2>1
    <2> QED
      BY <1>0, <1>4, <2>3, <2>4 DEF NoneBegins, RelayInv
  <1>5. ASSUME NEW j \in Events, jobs[j].stage = "relaying",
               NEW R \in SUBSET jobs[j].batch, Reached(j, R), NoneBegins, UNCHANGED relay
        PROVE  RelayInv'
    BY <1>0, <1>3, <1>5 DEF NoneBegins, RelayInv
  <1> QED
    BY <1>1, <1>2, <1>4, <1>5, RelayShape

LEMMA RelayHolds == ASSUME LocalCommunityAssumption PROVE Spec => []RelayInv
  <1>1. Init => RelayInv
    <2> SUFFICES ASSUME Init PROVE RelayInv
      OBVIOUS
    <2>1. \A j \in Events : jobs[j].stage # "relaying"
      BY JobShapes DEF Init
    <2> QED
      BY <2>1 DEF Init, RelayInv, MutationFollowsCreate
  <1>2. Inv /\ RelayInv /\ [Next]_vars => RelayInv'
    <2> SUFFICES ASSUME Inv, RelayInv, [Next]_vars PROVE RelayInv'
      OBVIOUS
    <2>1. CASE UNCHANGED vars
      BY <2>1 DEF vars, RelayInv, MutationFollowsCreate
    <2>2. CASE Next
      BY <2>2, RelayNext
    <2> QED
      BY <2>1, <2>2
  <1> QED
    BY <1>1, <1>2, InvHolds, PTL DEF Spec
-----------------------------------------------------------------------------
(* Failed forums.                                                          *)
(* The forums that have no copy of the post and are not due for one.       *)
Missing(todo) == {f \in Forums : Active(f) /\ ~Has(0, f) /\ ~Contains(todo, f)}

(* The pass that ends as "processed" is under way.                         *)
Running(j) == jobs[j].stage \in Passing /\ jobs[j].ends = "processed"

IsolationInv ==
    churn = 0 =>
       \A j \in Creates(0) :
          /\ Running(j) => Cardinality(Missing(jobs[j].todo)) <= faults
          /\ status[j] = "processed" => Cardinality(Missing(<<>>)) <= faults

LEMMA OthersKeep ==
    ASSUME LocalCommunityAssumption, Inv, NEW i \in Events, NEW j \in Events, j # i,
           \/ Receive(j) \/ Proceed(j)
           \/ PublishFails(j) \/ HostFails(j) \/ CallFails(j) \/ RelayRaises(j)
    PROVE  jobs'[i] = jobs[i] /\ status'[i] = status[i]
  <1>2. jobs \in [Events -> Job] /\ TypeRest
    BY TypeParts DEF Inv
  <1>3. ASSUME NEW k, jobs' = [jobs EXCEPT ![j] = k] PROVE jobs'[i] = jobs[i]
    BY <1>2, <1>3
  <1>4. ASSUME NEW e, status' = [status EXCEPT ![j] = e] PROVE status'[i] = status[i]
    BY <1>2, <1>4 DEF TypeRest
  <1>5. ASSUME NEW k, Start(j, k) PROVE jobs'[i] = jobs[i] /\ status'[i] = status[i]
    BY <1>3, <1>4, <1>5 DEF Start
  <1>6. ASSUME NEW e, Finish(j, e) PROVE jobs'[i] = jobs[i] /\ status'[i] = status[i]
    BY <1>3, <1>4, <1>6 DEF Finish
  <1>7. ASSUME NEW k, Moves(j, k) PROVE jobs'[i] = jobs[i] /\ status'[i] = status[i]
    BY <1>3, <1>7 DEF Moves
  <1>8. CASE Receive(j)
    BY <1>5, <1>6, <1>8
    DEF Receive, Repair, RefuseInbound, CreateInbound, CreateDiscord, Mutate, IgnoreMutation
  <1>9. CASE Proceed(j)
    BY <1>6, <1>7, <1>9
    DEF Proceed, Resume, Stored, Conflicts, Target, Answered, Continue, RelayStarts,
        RelayAnswered
  <1>10. CASE PublishFails(j) \/ HostFails(j) \/ CallFails(j) \/ RelayRaises(j)
    BY <1>6, <1>7, <1>10 DEF PublishFails, HostFails, CallFails, Continue, RelayRaises
  <1> QED
    BY <1>8, <1>9, <1>10

(* What a step does to a delivery i of the post.                           *)
Kept(i) ==
    /\ Running(i)' => Running(i) /\ jobs'[i].todo = jobs[i].todo
    /\ status'[i] = "processed" => status[i] = "processed"
Begun(i) ==
    /\ jobs'[i].todo = SelectTargets(0)
    /\ Has(0, IF Inbound(0) THEN Host ELSE source[0])'
    /\ status'[i] = status[i]
Turned(i) ==
    /\ jobs[i].todo # <<>> /\ jobs'[i].todo = Tail(jobs[i].todo)
    /\ Running(i)' => Running(i)
    /\ status'[i] = status[i]
Ended(i) ==
    /\ ~Running(i)' /\ jobs[i].todo = <<>>
    /\ jobs[i].stage \in Passing
    /\ status'[i] = jobs[i].ends

LEMMA FirstShape ==
    ASSUME LocalCommunityAssumption, Inv, NEW i \in Creates(0), Next
    PROVE  \/ Kept(i)
           \/ Begun(i) /\ UNCHANGED <<source, subscribers>>
           \/ Turned(i) /\ \E f \in Forums : f = Head(jobs[i].todo) /\ Has(0, f)'
           \/ Turned(i) /\ faults' = faults + 1
           \/ Ended(i)
  <1>0. /\ jobs \in [Events -> Job] /\ TypeRest /\ TypeOK /\ Surfaces /\ Knows(i)
        /\ i \in Events /\ i[1] = "create" /\ i[2] = 0 /\ 0 \in Objects
    <2>1. i \in Events /\ i[1] = "create" /\ i[2] = 0
      BY DEF Creates
    <2> QED
      BY <2>1, TypeParts, EventShape DEF Inv, JobInv
  <1> DEFINE Goal == \/ Kept(i)
                     \/ Begun(i) /\ UNCHANGED <<source, subscribers>>
                     \/ Turned(i) /\ \E f \in Forums : f = Head(jobs[i].todo) /\ Has(0, f)'
                     \/ Turned(i) /\ faults' = faults + 1
                     \/ Ended(i)
  <1>1. ASSUME jobs'[i] = jobs[i], status'[i] = status[i] PROVE Kept(i)
    BY <1>1 DEF Kept, Running
  <1>2. Idle.stage \notin Passing /\ At("hosting").stage \notin Passing
        /\ At("publishing").stage \notin Passing
    BY JobShapes DEF Stages, Passing
  <1>3. ASSUME NEW e, Finish(i, e)
        PROVE  jobs'[i] = Idle /\ ~Running(i)' /\ status'[i] = e
    BY <1>0, <1>2, <1>3 DEF Finish, Running, TypeRest
  <1>4. ASSUME NEW k, Start(i, k)
        PROVE  jobs'[i] = k /\ status'[i] # "processed"
    BY <1>0, <1>4 DEF Start, TypeRest
  <1>5. ASSUME Receive(i) PROVE Kept(i)
    <2>1. SelectTargets(0) \in Seq(Forums)
      BY <1>0, SelectedForums
    <2>2. Pass(SelectTargets(0), "skipped").ends # "processed"
      BY <2>1, JobShapes
    <2>3. ASSUME NEW k, k.stage \notin Passing \/ k.ends # "processed", Start(i, k)
          PROVE  Kept(i)
      BY <1>4, <2>3 DEF Kept, Running
    <2>4. ASSUME Finish(i, "skipped") PROVE Kept(i)
      BY <1>3, <2>4 DEF Kept
    <2> QED
      BY <1>0, <1>2, <1>5, <2>2, <2>3, <2>4
      DEF Receive, Repair, RefuseInbound, CreateInbound, CreateDiscord, Mutate,
          IgnoreMutation, Changes
  <1>6. ASSUME Stored(i) PROVE Begun(i) /\ UNCHANGED <<source, subscribers>>
    <2> DEFINE f == IF Inbound(0) THEN Host ELSE source[0]
    <2>1. /\ jobs'[i].todo = SelectTargets(0) /\ OneCopyMore(0, f)
      BY <1>0, <1>6, StoredActs
    <2>2. status'[i] = status[i] /\ UNCHANGED <<source, subscribers>>
      BY <1>6 DEF Stored, Moves, Membership
    <2>3. f \in Forums
      <3>1. source[0] \in Forums \/ Inbound(0)
        BY <1>0 DEF TypeRest, LocalCommunityAssumption, Inbound
      <3> QED
        BY <3>1 DEF Forums
    <2>4. f' = f
      BY <2>2 DEF Inbound
    <2> HIDE DEF f
    <2>5. Has(0, f)'
      BY <1>0, <2>1, <2>3, <2>4 DEF OneCopyMore
    <2> QED
      BY <2>1, <2>2, <2>5 DEF Begun, f
  <1>7. ASSUME Target(i) PROVE Goal
    <2>1. /\ jobs[i].stage = "fanout" /\ jobs[i].todo # <<>>
          /\ jobs[i] \in Job /\ jobs[i].todo \in Seq(Forums)
          /\ UNCHANGED <<status, surfaces>>
      BY <1>0, <1>7, JobFields DEF Target, Moves
    <2>2. Head(jobs[i].todo) \in Forums
      BY <2>1, TailContains
    <2>3. CASE Wanted(i, Head(jobs[i].todo))
      <3>1. jobs'[i] = [jobs[i] EXCEPT !.stage = "calling"]
        BY <1>0, <1>7, <2>3 DEF Target, Moves
      <3>2. jobs'[i].todo = jobs[i].todo /\ jobs'[i].ends = jobs[i].ends
        BY <2>1, <3>1 DEF Job
      <3> QED
        BY <2>1, <3>2 DEF Kept, Running, Passing
    <2>4. CASE ~Wanted(i, Head(jobs[i].todo))
      <3>1. jobs'[i] = [jobs[i] EXCEPT !.todo = Tail(@)]
        BY <1>0, <1>7, <2>4 DEF Target, Moves
      <3>2. /\ jobs'[i].todo = Tail(jobs[i].todo)
            /\ jobs'[i].ends = jobs[i].ends /\ jobs'[i].stage = "fanout"
        BY <2>1, <3>1 DEF Job
      <3>3. Has(0, Head(jobs[i].todo))
        BY <1>0, <2>4 DEF Wanted
      <3>4. SameCopies
        BY <1>0, <2>1, UnchangedCopies
      <3>5. \A f \in Forums : f = Head(jobs[i].todo) => Has(0, f)'
        BY <1>0, <3>3, <3>4 DEF SameCopies
      <3>6. Turned(i)
        BY <2>1, <3>2 DEF Turned, Running, Passing
      <3> QED
        BY <2>2, <3>5, <3>6
    <2> QED
      BY <2>3, <2>4
  <1>8. ASSUME Calling(i), Continue(i) PROVE Turned(i)
    <2>1. /\ jobs'[i].todo = Tail(jobs[i].todo) /\ jobs'[i].ends = jobs[i].ends
          /\ jobs[i].todo # <<>> /\ jobs[i].stage = "calling"
      BY <1>0, <1>8, ContinueShape, CallingShape DEF Calling
    <2>2. status'[i] = status[i]
      BY <1>8 DEF Continue, Moves
    <2> QED
      BY <2>1, <2>2 DEF Turned, Running, Passing
  <1>9. ASSUME Answered(i) PROVE Goal
    <2>1. Turned(i) /\ Calling(i)
      BY <1>8, <1>9 DEF Answered
    <2>2. Head(jobs[i].todo) \in Forums
      BY <1>0, <2>1, CallingShape
    <2>3. \A f \in Forums : f = Head(jobs[i].todo) => Has(0, f)'
      <3>1. \/ OneCopyMore(0, Head(jobs[i].todo))
            \/ SameCopies /\ Has(0, Head(jobs[i].todo))
        BY <1>0, <1>9, AnsweredActs
      <3> QED
        BY <1>0, <3>1 DEF OneCopyMore, SameCopies
    <2> QED
      BY <2>1, <2>2, <2>3
  <1>10. ASSUME CallFails(i) PROVE Goal
    BY <1>8, <1>10 DEF CallFails, Fault
  <1>11. ASSUME RelayStarts(i) PROVE Goal
    <2>1. jobs[i].stage = "fanout" /\ jobs[i].todo = <<>> /\ jobs[i] \in Job
      BY <1>0, <1>11, JobFields DEF RelayStarts, PassDone
    <2>2. CASE Finish(i, jobs[i].ends)
      BY <1>3, <2>1, <2>2 DEF Ended, Passing
    <2>3. CASE Moves(i, [jobs[i] EXCEPT !.stage = "relaying", !.batch = Open(i)])
      <3>1. /\ jobs'[i] = [jobs[i] EXCEPT !.stage = "relaying", !.batch = Open(i)]
            /\ UNCHANGED status
        BY <1>0, <2>3 DEF Moves
      <3>2. jobs'[i].todo = jobs[i].todo /\ jobs'[i].ends = jobs[i].ends
        BY <2>1, <3>1 DEF Job
      <3> QED
        BY <2>1, <3>1, <3>2 DEF Kept, Running, Passing
    <2> QED
      BY <1>11, <2>2, <2>3 DEF RelayStarts
  <1>12. ASSUME RelayAnswered(i) PROVE Ended(i)
    BY <1>0, <1>3, <1>12 DEF RelayAnswered, Knows, Ended, Passing
  <1>13. ASSUME RelayRaises(i) PROVE Kept(i)
    BY <1>3, <1>13 DEF RelayRaises, Kept
  <1>14. ASSUME PublishFails(i) \/ HostFails(i) \/ Conflicts(i) PROVE Kept(i)
    BY <1>3, <1>14 DEF PublishFails, HostFails, Conflicts, Kept
  <1>16. ASSUME CrashAll \/ \E j \in Events : CrashBetweenRows(j) PROVE Kept(i)
    <2>1. jobs'[i] = Idle /\ UNCHANGED status
      BY <1>0, <1>16 DEF CrashAll, CrashBetweenRows, Crash
    <2> QED
      BY <1>2, <2>1 DEF Kept, Running
  <1>17. ASSUME \/ \E f \in Subs : Join(f) \/ Leave(f)
                \/ \E r \in Remotes : Refollow(r)
         PROVE  Kept(i)
    BY <1>1, <1>17 DEF Join, Leave, Refollow
  <1>18. ASSUME NEW j \in Events,
                \/ Receive(j) \/ Proceed(j)
                \/ PublishFails(j) \/ HostFails(j) \/ CallFails(j) \/ RelayRaises(j)
         PROVE  Goal
    <2>1. CASE j # i
      BY <1>0, <1>1, <1>18, <2>1, OthersKeep
    <2>2. CASE j = i
      BY <1>5, <1>6, <1>7, <1>9, <1>10, <1>11, <1>12, <1>13, <1>14, <1>18, <2>2
      DEF Proceed, Resume
    <2> QED
      BY <2>1, <2>2
  <1> QED
    BY <1>16, <1>17, <1>18 DEF Next, Fails

LEMMA MissingFinite ==
    ASSUME LocalCommunityAssumption
    PROVE  /\ \A t : IsFiniteSet(Missing(t)) /\ Cardinality(Missing(t)) \in Nat
           /\ \A t : IsFiniteSet(Missing(t)')
  <1>1. IsFiniteSet(Subs)
    BY DEF LocalCommunityAssumption
  <1>2. IsFiniteSet(Subs \cup {Host})
    BY <1>1, FS_AddElement
  <1>3. Forums = Subs \cup {Host}
    BY DEF Forums
  <1>4. \A T \in SUBSET Forums : IsFiniteSet(T) /\ Cardinality(T) \in Nat
    BY <1>2, <1>3, FS_Subset, FS_CardinalityType
  <1>5. \A t : Missing(t) \in SUBSET Forums /\ Missing(t)' \in SUBSET Forums
    BY DEF Missing
  <1> QED
    BY <1>4, <1>5

LEMMA IsolationNext ==
    ASSUME LocalCommunityAssumption, Inv, IsolationInv, Next
    PROVE  IsolationInv'
  <1> SUFFICES ASSUME churn' = 0, NEW i \in Creates(0)
               PROVE  /\ Running(i)' => Cardinality(Missing(jobs[i].todo)') <= faults'
                      /\ status'[i] = "processed" => Cardinality(Missing(<<>>)') <= faults'
    BY DEF IsolationInv, Creates
  <1>1. /\ churn = 0 /\ faults \in Nat /\ faults' \in Nat /\ faults' >= faults
        /\ i \in Events /\ 0 \in Objects
        /\ jobs[i].todo \in Seq(Forums)
    <2>1. Counts /\ Counts' /\ churn' >= churn /\ faults' >= faults
      BY TypeParts, CountsStep DEF Inv
    <2>2. churn = 0 /\ faults \in Nat /\ faults' \in Nat
      BY <2>1 DEF Counts
    <2>3. jobs \in [Events -> Job]
      BY DEF Inv, TypeOK
    <2>4. i \in Events
      BY DEF Creates
    <2> QED
      BY <2>1, <2>2, <2>3, <2>4, JobFields, EventShape
  <1>2. /\ Running(i) => Cardinality(Missing(jobs[i].todo)) <= faults
        /\ status[i] = "processed" => Cardinality(Missing(<<>>)) <= faults
    BY <1>1 DEF IsolationInv
  <1>3. subscribers' = subscribers
    <2>1. ASSUME NEW f \in Subs, Join(f) \/ Leave(f) PROVE FALSE
      BY <1>1, <2>1 DEF Join, Leave, Churn
    <2> QED
      BY <2>1
      DEF Next, Refollow, Receive, Repair, RefuseInbound, CreateInbound, CreateDiscord,
          Mutate, IgnoreMutation, Proceed, Resume, Stored, Conflicts, Target, Answered,
          RelayStarts, RelayAnswered, Fails, CallFails, RelayRaises, PublishFails,
          HostFails, CrashAll, CrashBetweenRows, Crash, Membership
  <1>4. \A g \in Forums : /\ Active(g)' <=> Active(g)
                          /\ Has(0, g) => Has(0, g)'
    <2>1. \A g \in Forums : Has(0, g) => Has(0, g)'
      BY <1>1, StepShape DEF Rests, AllDie, Acts, SameCopies
    <2> QED
      BY <1>3, <2>1 DEF Active
  <1>5. ASSUME NEW t, NEW u, Missing(u)' \subseteq Missing(t)
        PROVE  Cardinality(Missing(u)') <= Cardinality(Missing(t))
    BY <1>5, MissingFinite, FS_Subset
  <1>6. \A t : Missing(t)' \subseteq Missing(t)
    BY <1>4 DEF Missing
  <1>7. \A t : Cardinality(Missing(t)) \in Nat
    BY MissingFinite
  <1>8. status[i] = "processed" => Cardinality(Missing(<<>>)') <= faults'
    <2>1. Cardinality(Missing(<<>>)') <= Cardinality(Missing(<<>>))
      BY <1>5, <1>6
    <2> QED
      BY <1>1, <1>2, <1>7, <2>1, MissingFinite, FS_CardinalityType
  <1>9. ASSUME NEW u, Cardinality(Missing(u)') <= faults', jobs'[i].todo = u
        PROVE  Cardinality(Missing(jobs[i].todo)') <= faults'
    <2>1. Missing(jobs[i].todo)' = Missing(u)'
      BY <1>9 DEF Missing
    <2> QED
      BY <1>9, <2>1
  <1>10. \A u : Cardinality(Missing(u)') \in Nat
    BY MissingFinite, FS_CardinalityType
  <1>11. CASE Kept(i)
    <2>1. ASSUME Running(i)' PROVE Cardinality(Missing(jobs[i].todo)') <= faults'
      <3>1. PICK u : u = jobs[i].todo
        OBVIOUS
      <3>2. Running(i) /\ jobs'[i].todo = u
        BY <1>11, <2>1, <3>1 DEF Kept
      <3>3. Cardinality(Missing(u)') <= Cardinality(Missing(u))
            /\ Cardinality(Missing(u)) <= faults
        BY <1>2, <1>5, <1>6, <3>1, <3>2
      <3>4. Cardinality(Missing(u)') <= faults'
        BY <1>1, <1>7, <1>10, <3>3
      <3> QED
        BY <1>9, <3>2, <3>4
    <2> QED
      BY <1>8, <1>11, <2>1 DEF Kept
  <1>12. CASE Begun(i) /\ UNCHANGED <<source, subscribers>>
    <2>1. PICK u : u = SelectTargets(0)
      OBVIOUS
    <2>2. jobs'[i].todo = u
      BY <1>12, <2>1 DEF Begun
    <2>3. PICK h : h = IF Inbound(0) THEN Host ELSE source[0]
      OBVIOUS
    <2>4. Has(0, h)'
      BY <1>12, <2>3 DEF Begun, Inbound
    <2>5. /\ subscribers \in Seq(Subs) /\ source[0] \in Forums \cup Remotes
          /\ Host \notin Subs /\ Forums \cap Remotes = {} /\ TypeOK
      BY <1>1 DEF Inv, TypeOK, LocalCommunityAssumption
    <2>6. /\ \A f : Contains(u, f) <=>
                       \/ source[0] \in Subs /\ f = Host
                       \/ Contains(Without(subscribers, source[0]), f)
          /\ \A f : f # source[0] =>
                (Contains(Without(subscribers, source[0]), f) <=> Contains(subscribers, f))
      BY <1>1, <2>1, <2>5, SelectedForums, WithoutShape
    <2>7. ASSUME NEW f \in Forums, Active(f), f # h PROVE Contains(u, f)
      <3>1. CASE f = Host
        <4>1. source[0] \in Subs
          BY <2>3, <2>5, <2>7, <3>1 DEF Inbound, Forums
        <4> QED
          BY <2>6, <3>1, <4>1
      <3>2. CASE f # Host
        <4>1. Contains(subscribers, f) /\ f # source[0]
          BY <2>3, <2>5, <2>7, <3>2 DEF Active, Inbound
        <4> QED
          BY <2>6, <4>1
      <3> QED
        BY <3>1, <3>2
    <2>8. Missing(u)' = {}
      BY <1>4, <2>4, <2>7 DEF Missing
    <2>9. Cardinality(Missing(u)') <= faults'
      BY <1>1, <2>8, FS_EmptySet
    <2>10. Cardinality(Missing(jobs[i].todo)') <= faults'
      BY <1>9, <2>2, <2>9
    <2> QED
      BY <1>8, <1>12, <2>10 DEF Begun
  <1>13. ASSUME Turned(i), Running(i)',
                \/ \E f \in Forums : f = Head(jobs[i].todo) /\ Has(0, f)'
                \/ faults' = faults + 1
         PROVE  Cardinality(Missing(jobs[i].todo)') <= faults'
    <2>1. PICK t, u, h : t = jobs[i].todo /\ u = Tail(t) /\ h = Head(t)
      OBVIOUS
    <2>2. /\ Running(i) /\ jobs'[i].todo = u
          /\ \A g : Contains(t, g) <=> g = h \/ Contains(u, g)
      BY <1>1, <1>13, <2>1, TailContains DEF Turned
    <2>3. Cardinality(Missing(t)) <= faults
      BY <1>2, <2>1, <2>2
    <2>4. CASE \E f \in Forums : f = h /\ Has(0, f)'
      <3>1. Missing(u)' \subseteq Missing(t)
        BY <1>4, <2>2, <2>4 DEF Missing
      <3>2. Cardinality(Missing(u)') <= faults'
        BY <1>1, <1>5, <1>7, <1>10, <2>3, <3>1
      <3> QED
        BY <1>9, <2>2, <3>2
    <2>5. CASE faults' = faults + 1
      <3>1. Missing(u)' \subseteq Missing(t) \cup {h}
        BY <1>4, <2>2 DEF Missing
      <3>2. /\ IsFiniteSet(Missing(t) \cup {h})
            /\ Cardinality(Missing(t) \cup {h}) <= Cardinality(Missing(t)) + 1
            /\ Cardinality(Missing(t) \cup {h}) \in Nat
        BY <1>7, MissingFinite, FS_AddElement, FS_CardinalityType
      <3>3. Cardinality(Missing(u)') <= Cardinality(Missing(t) \cup {h})
        BY <3>1, <3>2, FS_Subset
      <3>4. Cardinality(Missing(u)') <= faults'
        BY <1>1, <1>7, <1>10, <2>3, <2>5, <3>2, <3>3
      <3> QED
        BY <1>9, <2>2, <3>4
    <2> QED
      BY <1>13, <2>1, <2>4, <2>5
  <1>14. CASE /\ Turned(i)
              /\ \/ \E f \in Forums : f = Head(jobs[i].todo) /\ Has(0, f)'
                 \/ faults' = faults + 1
    <2>1. Running(i)' => Cardinality(Missing(jobs[i].todo)') <= faults'
      BY <1>13, <1>14
    <2>2. status'[i] = status[i]
      BY <1>14 DEF Turned
    <2> QED
      BY <1>8, <2>1, <2>2
  <1>15. CASE Ended(i)
    <2>1. ASSUME status'[i] = "processed"
          PROVE  Cardinality(Missing(<<>>)') <= faults'
      <3>1. Running(i) /\ jobs[i].todo = <<>>
        BY <1>15, <2>1 DEF Ended, Running
      <3>2. Cardinality(Missing(<<>>)) <= faults
        BY <1>2, <3>1
      <3>3. Cardinality(Missing(<<>>)') <= Cardinality(Missing(<<>>))
        BY <1>5, <1>6
      <3> QED
        BY <1>1, <1>7, <1>10, <3>2, <3>3
    <2> QED
      BY <1>15, <2>1 DEF Ended
  <1> QED
    BY <1>11, <1>12, <1>14, <1>15, FirstShape
-----------------------------------------------------------------------------
(* The state stays well typed.                                             *)
THEOREM TypeCorrect == ASSUME LocalCommunityAssumption PROVE Spec => []TypeOK
  <1>1. Inv => TypeOK
    BY DEF Inv
  <1> QED
    BY <1>1, InvHolds, PTL

(* discord_fanout asks for thread and parent before it awaits the call     *)
(* that makes a copy, and stores the surface afterwards: they are still    *)
(* there, for any number of forums and replies, whatever members come and  *)
(* go and however many passes run meanwhile.                               *)
THEOREM CopiesHang == ASSUME LocalCommunityAssumption PROVE Spec => []CopiesHaveContext
  <1>1. Inv => CopiesHaveContext
    BY DEF Inv
  <1> QED
    BY <1>1, InvHolds, PTL

(* Retries and repairs make no copy again, and deliveries that overlap no  *)
(* more than they must: for any number of deliveries of one object whose   *)
(* handlers look, await Discord and store, in any order, each message that *)
(* the bridge has lost track of is a call whose answer was lost or one     *)
(* begun while another for the same copy was under way; and no forum gets  *)
(* a second surface row of one object.                                     *)
THEOREM NoneMadeTwice ==
    ASSUME LocalCommunityAssumption PROVE Spec => [](MessagesAccountedFor /\ NoneTwice)
  <1>1. AccountInv /\ TypeOK => MessagesAccountedFor
    <2> SUFFICES ASSUME AccountInv, TypeOK PROVE MessagesAccountedFor
      OBVIOUS
    <2>1. PICK S \in SUBSET Events : orphans + Cardinality(S) <= lost + overlaps
      BY DEF AccountInv
    <2>2. Cardinality(S) \in Nat
      BY FS_Subset, FS_CardinalityType DEF LocalCommunityAssumption
    <2> QED
      BY <2>1, <2>2 DEF MessagesAccountedFor, TypeOK
  <1>2. Inv => TypeOK /\ NoneTwice
    BY DEF Inv
  <1> QED
    BY <1>1, <1>2, AccountsHold, InvHolds, PTL

(* Whom an edit or a deletion is relayed to was sent the create, and       *)
(* nobody is sent his own activity, for any follows and unfollows, failed  *)
(* or partly answered relays, retries and crashes.                         *)
THEOREM MutationsFollow ==
    ASSUME LocalCommunityAssumption PROVE Spec => []MutationFollowsCreate
  <1>1. RelayInv => MutationFollowsCreate
    BY DEF RelayInv
  <1> QED
    BY <1>1, RelayHolds, PTL

(* A forum whose call fails costs its own copy only: after the pass of a   *)
(* post no more forums lack it than calls failed, however many there are.  *)
THEOREM FailuresStayAlone ==
    ASSUME LocalCommunityAssumption PROVE Spec => []FailuresAreIsolated
  <1>1. Init => IsolationInv
    <2> SUFFICES ASSUME Init, NEW j \in Creates(0)
                 PROVE  ~Running(j) /\ status[j] # "processed"
      BY DEF IsolationInv
    <2> QED
      BY JobShapes DEF Init, Running, Passing, Creates
  <1>2. Inv /\ IsolationInv /\ [Next]_vars => IsolationInv'
    <2> SUFFICES ASSUME Inv, IsolationInv, [Next]_vars PROVE IsolationInv'
      OBVIOUS
    <2>1. CASE UNCHANGED vars
      BY <2>1 DEF vars, IsolationInv, Running, Missing, Active, Has, Listed, Creates
    <2>2. CASE Next
      BY <2>2, IsolationNext
    <2> QED
      BY <2>1, <2>2
  <1>3. IsolationInv => FailuresAreIsolated
    <2>1. Missing(<<>>) = {f \in Forums : Active(f) /\ ~Has(0, f)}
      BY DEF Missing, Contains
    <2> QED
      BY <2>1 DEF IsolationInv, FailuresAreIsolated
  <1> QED
    BY <1>1, <1>2, <1>3, InvHolds, PTL DEF Spec
=============================================================================
