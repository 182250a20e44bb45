---------------------------- MODULE IntakeProofs ----------------------------
(***************************************************************************)
(* Proofs about Intake, for any number of requests of any kind, of crashes *)
(* and of expirations, and whatever the interleaving.                      *)
(***************************************************************************)
EXTENDS Intake, FiniteSetTheorems, TLAPS

-----------------------------------------------------------------------------
(* Sequences *)

\* Nth counts the places of I one by one.
LEMMA NthFacts ==
  ASSUME NEW I \in SUBSET Nat, IsFiniteSet(I)
  PROVE  /\ Cardinality(I) \in Nat
         /\ \A n \in 1..Cardinality(I) : Nth(I, n) \in I
         /\ \A i \in I : \E n \in 1..Cardinality(I) : Nth(I, n) = i
<1> DEFINE UpTo(i) == { j \in I : j <= i }
           rank == [i \in I |-> Cardinality(UpTo(i))]
<1>1. Cardinality(I) \in Nat
  BY FS_CardinalityType
<1>2. ASSUME NEW i \in I
      PROVE  IsFiniteSet(UpTo(i)) /\ rank[i] \in 1..Cardinality(I)
  <2>1. UpTo(i) \in SUBSET I /\ i \in UpTo(i)
    OBVIOUS
  <2>2. IsFiniteSet(UpTo(i)) /\ Cardinality(UpTo(i)) <= Cardinality(I)
    BY <2>1, FS_Subset
  <2>3. Cardinality(UpTo(i)) \in Nat /\ Cardinality(UpTo(i)) # 0
    BY <2>1, <2>2, FS_CardinalityType, FS_EmptySet
  <2>4. QED
    BY <1>1, <2>2, <2>3
<1>3. ASSUME NEW i \in I, NEW k \in I, i < k
      PROVE  rank[i] # rank[k]
  <2>1. UpTo(i) \in SUBSET UpTo(k) /\ k \in UpTo(k) /\ k \notin UpTo(i)
    <3>1. i \in Nat /\ k \in Nat /\ \A j \in I : j \in Nat
      OBVIOUS
    <3>2. \A j \in I : j <= i => j <= k
      BY <1>3, <3>1
    <3>3. k <= k /\ ~(k <= i)
      BY <1>3, <3>1
    <3>4. QED
      BY <3>2, <3>3
  <2>2. UpTo(i) # UpTo(k)
    BY <2>1
  <2>3. IsFiniteSet(UpTo(k))
    BY <1>2
  <2>4. Cardinality(UpTo(i)) # Cardinality(UpTo(k))
    BY <2>1, <2>2, <2>3, FS_Subset
  <2>5. QED
    BY <2>4
<1>4. \A i, k \in I : rank[i] = rank[k] => i = k
  <2> HIDE DEF rank
  <2> QED
    BY <1>3
<1>5. rank \in Injection(I, 1..Cardinality(I))
  <2>1. rank \in [I -> 1..Cardinality(I)]
    BY <1>2
  <2> HIDE DEF rank
  <2>2. QED
    BY <1>4, <2>1 DEF Injection, IsInjective
<1>6. IsFiniteSet(1..Cardinality(I)) /\ Cardinality(1..Cardinality(I)) = Cardinality(I)
  BY <1>1, FS_Interval
<1>7. rank \in Surjection(I, 1..Cardinality(I))
  <2> HIDE DEF rank
  <2> QED
    BY <1>5, <1>6, FS_Injection
<1>8. ASSUME NEW n \in 1..Cardinality(I)
      PROVE  Nth(I, n) \in I /\ rank[Nth(I, n)] = n
  <2>1. \E i \in I : rank[i] = n
    <3> HIDE DEF rank
    <3> QED
      BY <1>7 DEF Surjection
  <2>2. \E i \in I : Cardinality({ j \in I : j <= i }) = n
    BY <2>1
  <2>3. Nth(I, n) \in I /\ Cardinality({ j \in I : j <= Nth(I, n) }) = n
    BY <2>2 DEF Nth
  <2>4. QED
    BY <2>3
<1>9. ASSUME NEW i \in I
      PROVE  \E n \in 1..Cardinality(I) : Nth(I, n) = i
  <2>1. rank[i] \in 1..Cardinality(I)
    BY <1>2
  <2>2. Nth(I, rank[i]) = i
    <3> HIDE DEF rank
    <3> QED
      BY <1>4, <1>8, <2>1
  <2>3. QED
    BY <2>1, <2>2
<1>10. QED
  BY <1>1, <1>8, <1>9

\* The places of a sequence that meet a condition are finitely many.
LEMMA PlacesFinite ==
  ASSUME NEW S, NEW s \in Seq(S), NEW I \in SUBSET DOMAIN s
  PROVE  I \in SUBSET Nat /\ IsFiniteSet(I)
<1>1. DOMAIN s = 1..Len(s) /\ Len(s) \in Nat
  OBVIOUS
<1>2. IsFiniteSet(1..Len(s))
  BY <1>1, FS_Interval
<1>3. QED
  BY <1>1, <1>2, FS_Subset

\* Nothing but the elements of `gone` is taken out.
LEMMA WithoutFacts ==
  ASSUME NEW S, NEW s \in Seq(S), NEW gone
  PROVE  /\ Without(s, gone) \in Seq(S)
         /\ Elements(Without(s, gone)) = Elements(s) \ gone
<1> DEFINE left == { i \in DOMAIN s : s[i] \notin gone }
           w == [ n \in 1..Cardinality(left) |-> s[Nth(left, n)] ]
<1>1. left \in SUBSET Nat /\ IsFiniteSet(left)
  BY PlacesFinite
<1>2. /\ Cardinality(left) \in Nat
      /\ \A n \in 1..Cardinality(left) : Nth(left, n) \in left
      /\ \A i \in left : \E n \in 1..Cardinality(left) : Nth(left, n) = i
  BY <1>1, NthFacts
<1>3. \A i \in left : i \in DOMAIN s /\ s[i] \in S /\ s[i] \notin gone
  OBVIOUS
<1>4. \A i \in DOMAIN s : s[i] \notin gone => i \in left
  OBVIOUS
<1>5. Without(s, gone) = w
  BY DEF Without
<1> HIDE DEF left
<1>6. w \in Seq(S) /\ DOMAIN w = 1..Cardinality(left)
  BY <1>2, <1>3
<1>7. Elements(w) = Elements(s) \ gone
  <2>1. ASSUME NEW x \in Elements(w) PROVE x \in Elements(s) \ gone
    BY <1>2, <1>3, <1>6 DEF Elements
  <2>2. ASSUME NEW x \in Elements(s) \ gone PROVE x \in Elements(w)
    <3>1. PICK i \in DOMAIN s : s[i] = x
      BY DEF Elements
    <3>2. PICK n \in 1..Cardinality(left) : Nth(left, n) = i
      BY <1>2, <1>4, <2>2, <3>1
    <3>3. w[n] = x
      BY <3>1, <3>2
    <3>4. QED
      BY <1>6, <3>3 DEF Elements
  <2>3. QED
    BY <2>1, <2>2
<1>8. QED
  BY <1>5, <1>6, <1>7

\* A line that is added, at the end or at the start, is added and nothing else is.
LEMMA AppendFacts ==
  ASSUME NEW s \in Seq(Requests), NEW x \in Requests
  PROVE  /\ Append(s, x) \in Seq(Requests) /\ <<x>> \o s \in Seq(Requests)
         /\ Elements(Append(s, x)) = Elements(s) \cup {x}
         /\ Elements(<<x>> \o s) = Elements(s) \cup {x}
<1>1. Append(s, x) \in Seq(Requests) /\ <<x>> \o s \in Seq(Requests)
  OBVIOUS
<1>2. Elements(Append(s, x)) = Elements(s) \cup {x}
  <2>1. /\ DOMAIN Append(s, x) = 1..(Len(s) + 1) /\ DOMAIN s = 1..Len(s)
        /\ \A i \in 1..Len(s) : Append(s, x)[i] = s[i]
        /\ Append(s, x)[Len(s) + 1] = x
    OBVIOUS
  <2>2. QED
    BY <2>1 DEF Elements
<1>3. Elements(<<x>> \o s) = Elements(s) \cup {x}
  <2>1. /\ DOMAIN (<<x>> \o s) = 1..(Len(s) + 1) /\ DOMAIN s = 1..Len(s)
        /\ \A i \in 1..Len(s) : (<<x>> \o s)[i + 1] = s[i]
        /\ (<<x>> \o s)[1] = x
    OBVIOUS
  <2>2. \A i \in 1..(Len(s) + 1) : i = 1 \/ (i - 1 \in 1..Len(s) /\ (<<x>> \o s)[i] = s[i - 1])
    BY <2>1
  <2>3. \A i \in 1..Len(s) : i + 1 \in 1..(Len(s) + 1)
    OBVIOUS
  <2>4. ASSUME NEW y \in Elements(<<x>> \o s) PROVE y \in Elements(s) \cup {x}
    BY <2>1, <2>2 DEF Elements
  <2>5. ASSUME NEW y \in Elements(s) PROVE y \in Elements(<<x>> \o s)
    <3>1. PICK i \in 1..Len(s) : s[i] = y
      BY <2>1 DEF Elements
    <3>2. (<<x>> \o s)[i + 1] = y /\ i + 1 \in DOMAIN (<<x>> \o s)
      BY <2>1, <2>3, <3>1
    <3>3. QED
      BY <3>2 DEF Elements
  <2>6. x \in Elements(<<x>> \o s)
    BY <2>1 DEF Elements
  <2>7. QED
    BY <2>4, <2>5, <2>6
<1>4. QED
  BY <1>1, <1>2, <1>3

-----------------------------------------------------------------------------
(* The inductive invariant: types, and how far each process is *)

Texts == Seq(Requests) \cup {Torn}
Labels == {"new", "agent", "work", "listing", "asking", "done", "dead"}
Replies == {"none", "draft", "blank draft", "updated", "queued", "not found", "error"}

\* What a request may still have to do.
Tasks == { <<>>, <<"touch">>, <<"queue", "touch">>, <<"resolve", "queue", "touch">>,
           <<"enqueue">>, <<"append", "enqueue">>, <<"put">>, <<"resolve", "put">> }

\* Its line is written; it is about to be.
Written == { <<"touch">>, <<"enqueue">> }
ToWrite == { <<"queue", "touch">>, <<"resolve", "queue", "touch">>, <<"append", "enqueue">> }

FilesType ==
  /\ server \in BOOLEAN /\ daemon \in {"down", "booting", "loaded", "up"}
  /\ drafts \in Texts /\ lines \in Texts
  /\ flag \in BOOLEAN /\ changed \in BOOLEAN /\ known \subseteq Requests
  /\ deaths \in 0..MaxDeaths /\ expiries \in 0..MaxExpiries
  /\ raced \subseteq {"drafts", "lines"} /\ contended \subseteq Requests
  /\ expired \subseteq Requests /\ unseen \subseteq Requests

ProcsType ==
  /\ pc \in [Procs -> Labels] /\ kind \in [Procs -> AllKinds \cup {"none"}]
  /\ goal \in [Procs -> Requests \cup {Nobody}]
  /\ todo \in [Procs -> Tasks \cup {<<"expire">>}]
  /\ stage \in [Procs -> {"read", "truncate", "write"}]
  /\ base \in [Procs -> Seq(Requests)] /\ reply \in [Procs -> Replies]
  /\ given \in [Procs -> Requests \cup {Nobody}]

TimerType ==
  /\ kind[Timer] = "none"
  /\ \/ pc[Timer] = "new" /\ todo[Timer] = <<>> /\ stage[Timer] = "read"
     \/ pc[Timer] = "work" /\ todo[Timer] = <<"expire">>

RequestType(p) ==
  /\ todo[p] \in Tasks
  /\ pc[p] \in {"new", "agent", "listing", "asking"} => todo[p] = <<>> /\ stage[p] = "read"
  /\ pc[p] = "new" => kind[p] = "none" /\ goal[p] = Nobody /\ reply[p] = "none"
  /\ pc[p] = "agent" => kind[p] # "none" /\ goal[p] = p /\ reply[p] = "none"
  /\ pc[p] = "work" => kind[p] # "none" /\ goal[p] \in Requests /\ todo[p] # <<>>
  /\ pc[p] = "asking" => kind[p] = "cli"
  /\ kind[p] = "cli" => goal[p] = p

IntakeType ==
  FilesType /\ ProcsType /\ TimerType /\ \A p \in Requests : RequestType(p)

TaskFact(t) ==
  /\ Tail(t) \in Tasks /\ (Len(t) > 1 <=> Tail(t) # <<>>)
  /\ Head(t) \in {"touch", "enqueue"} <=> t \in Written
  /\ Head(t) \in LineOps => t \in ToWrite /\ Tail(t) \in Written
  /\ Head(t) = "resolve" => Tail(t) \in {<<"queue", "touch">>, <<"put">>}
  /\ Tail(t) \in ToWrite => t \in ToWrite
  /\ Tail(t) \in Written => Head(t) \in LineOps
  /\ t \in ToWrite => Tail(t) \in Written \cup ToWrite
  /\ Tail(t) # t
  /\ Head(t) = "put" <=> t = <<"put">>
  /\ Head(t) = "expire" <=> t = <<"expire">>
  /\ Head(t) \in {"touch", "enqueue", "put", "expire"} <=> Tail(t) = <<>>

\* What can be left to do, and what is left after it.
LEMMA TaskFacts == \A t \in Tasks \cup {<<"expire">>} : t # <<>> => TaskFact(t)
<1> USE DEF TaskFact, Tasks, Written, ToWrite, LineOps
<1>1. TaskFact(<<"touch">>)
  OBVIOUS
<1>2. TaskFact(<<"enqueue">>)
  OBVIOUS
<1>3. TaskFact(<<"put">>)
  OBVIOUS
<1>4. TaskFact(<<"expire">>)
  OBVIOUS
<1>5. TaskFact(<<"queue", "touch">>)
  OBVIOUS
<1>6. TaskFact(<<"append", "enqueue">>)
  OBVIOUS
<1>7. TaskFact(<<"resolve", "put">>)
  OBVIOUS
<1>8. TaskFact(<<"resolve", "queue", "touch">>)
  OBVIOUS
<1> HIDE DEF TaskFact
<1>9. QED
  BY <1>1, <1>2, <1>3, <1>4, <1>5, <1>6, <1>7, <1>8

\* A torn file is no text; what is read from it is none.
LEMMA TornFacts ==
  /\ Torn \notin Seq(Requests)
  /\ \A s \in Texts : s # Torn => s \in Seq(Requests)
  /\ drafts \in Texts => Drafts \in Seq(Requests) /\ Elements(Drafts) \subseteq Requests
<1>1. Torn \notin Seq(Requests)
  <2>1. Len(Torn) = 1 /\ Torn[1] = Nobody
    BY DEF Torn
  <2>2. \A s \in Seq(Requests) : Len(s) = 1 => s[1] \in Requests
    OBVIOUS
  <2>3. QED
    BY <2>1, <2>2, IntakeAssumption
<1>2. \A s \in Seq(Requests) : Elements(s) \subseteq Requests
  BY DEF Elements
<1>3. drafts \in Texts => Drafts \in Seq(Requests)
  BY DEF Drafts, Texts
<1>4. QED
  BY <1>1, <1>2, <1>3 DEF Texts

\* The processes start with their types.
LEMMA InitIntakeType == Init => IntakeType
<1> SUFFICES ASSUME Init PROVE IntakeType
  OBVIOUS
<1>1. FilesType
  <2>1. drafts \in Texts /\ lines \in Texts
    BY DEF Init, Texts
  <2>2. deaths \in 0..MaxDeaths /\ expiries \in 0..MaxExpiries
    BY IntakeAssumption DEF Init
  <2>3. QED
    BY <2>1, <2>2 DEF Init, FilesType
<1>2. ProcsType
  BY DEF Init, ProcsType, Labels, Replies, Tasks
<1>3. TimerType /\ \A p \in Requests : RequestType(p)
  BY DEF Init, TimerType, RequestType, Procs, Tasks
<1>4. QED
  BY <1>1, <1>2, <1>3 DEF IntakeType

\* A step of one request.
LEMMA RequestStepType ==
  ASSUME IntakeType, FilesType', ProcsType', NEW p \in Requests, RequestType(p)',
         \A q \in Procs \ {p} : /\ pc'[q] = pc[q] /\ kind'[q] = kind[q] /\ goal'[q] = goal[q]
                                /\ todo'[q] = todo[q] /\ stage'[q] = stage[q]
                                /\ reply'[q] = reply[q]
  PROVE  IntakeType'
<1>1. Timer \in Procs \ {p} /\ \A q \in Requests \ {p} : q \in Procs \ {p}
  BY IntakeAssumption DEF Procs
<1>2. TimerType'
  BY <1>1 DEF IntakeType, TimerType
<1>3. \A q \in Requests \ {p} : RequestType(q)'
  BY <1>1 DEF IntakeType, RequestType
<1>4. QED
  BY <1>2, <1>3 DEF IntakeType

\* A goal that is taken in hand is a request.
LEMMA TakesType ==
  ASSUME IntakeType, NEW p \in Requests, NEW k \in AllKinds, NEW g \in Requests, Takes(p, k, g)
  PROVE  /\ kind' = [kind EXCEPT ![p] = k] /\ goal' = [goal EXCEPT ![p] = g]
         /\ kind' \in [Procs -> AllKinds \cup {"none"}]
         /\ goal' \in [Procs -> Requests \cup {Nobody}]
         /\ contended' \subseteq Requests
  BY DEF Takes, IntakeType, ProcsType, FilesType

\* A request arrives with a new goal, or with one that has a draft.
LEMMA ArrivesType ==
  ASSUME IntakeType, NEW p \in Requests, NEW k \in AllKinds, NEW g \in Requests,
         NEW l \in {"agent", "work"}, NEW t \in Tasks,
         Arrival(p), raced' \subseteq {"drafts", "lines"}, Takes(p, k, g),
         pc' = [pc EXCEPT ![p] = l], todo' = [todo EXCEPT ![p] = t], reply' = reply,
         l = "agent" => t = <<>> /\ g = p, l = "work" => t # <<>>, k = "cli" => g = p
  PROVE  IntakeType'
<1>1. FilesType'
  BY TakesType DEF Arrival, IntakeType, FilesType, host, files, watch, bound
<1>2. p \in Procs
  BY DEF Procs
<1>3. ProcsType'
  BY <1>2, TakesType DEF Arrival, IntakeType, ProcsType, Labels
<1>4. pc[p] = "new" /\ stage' = stage /\ RequestType(p)
  BY DEF Arrival, IntakeType
<1>5. RequestType(p)'
  <2>1. pc'[p] = l /\ todo'[p] = t /\ kind'[p] = k /\ goal'[p] = g /\ stage'[p] = "read" /\ reply'[p] = "none"
    BY <1>2, <1>4, TakesType DEF IntakeType, ProcsType, RequestType
  <2>2. QED
    BY <2>1 DEF RequestType, AllKinds
<1>6. QED
  BY <1>1, <1>2, <1>3, <1>4, <1>5, TakesType, RequestStepType DEF IntakeType, ProcsType

\* A request that arrives keeps the types.
LEMMA ArriveType ==
  ASSUME IntakeType, NEW p \in Requests, Arrive(p)
  PROVE  IntakeType'
<1>1. PICK k \in Kinds[p] : \/ Sms(p, k)
                            \/ Confirm(p, k)
                            \/ k = "intake" /\ DashboardIntake(p)
                            \/ k = "post" /\ PostGoal(p)
                            \/ k = "cli" /\ AddGoal(p)
  BY DEF Arrive
<1>2. k \in AllKinds /\ p \in Procs
  BY IntakeAssumption DEF Procs
<1>3. Drafts \in Seq(Requests) /\ Elements(Drafts) \subseteq Requests
  BY TornFacts DEF IntakeType, FilesType
<1>4. raced' \subseteq {"drafts", "lines"}
  BY <1>1
  DEF Sms, Confirm, DashboardIntake, PostGoal, AddGoal, ReadsDrafts, IntakeType, FilesType
<1>5. ASSUME NEW l \in AllKinds, Arrival(p), Classified(p, l)
      PROVE  IntakeType'
  <2>1. pc[p] = "new" /\ todo[p] = <<>> /\ todo' = [todo EXCEPT ![p] = <<>>]
    <3>1. pc[p] = "new" /\ todo[p] = <<>> /\ todo' = todo
      BY <1>5 DEF Arrival, Classified, IntakeType, RequestType
    <3>2. QED
      BY <3>1 DEF IntakeType, ProcsType
  <2>2. <<>> \in Tasks
    BY DEF Tasks
  <2>3. QED
    BY <1>4, <1>5, <2>1, <2>2, ArrivesType DEF Classified
<1>6. ASSUME NEW g \in Requests, NEW t \in Tasks, t # <<>>, Arrival(p), k # "cli" \/ g = p,
             Undertakes(p, t), Takes(p, k, g), UNCHANGED reply
      PROVE  IntakeType'
  BY <1>2, <1>4, <1>6, ArrivesType DEF Undertakes
<1>7. FoundOps(k) \in Tasks /\ FoundOps(k) # <<>> /\ <<"append", "enqueue">> \in Tasks
      /\ <<"append", "enqueue">> # <<>>
  BY DEF FoundOps, ConfirmOps, EditOps, Tasks
<1>8. CASE Sms(p, k)
  <2> DEFINE mine == { i \in DOMAIN Drafts : kind[Drafts[i]] = "sms" }
  <2>1. CASE mine = {}
    BY <1>2, <1>5, <1>8, <2>1 DEF Sms
  <2>2. CASE mine # {}
    <3>1. mine \in SUBSET Nat /\ IsFiniteSet(mine) /\ Cardinality(mine) # 0
      BY <1>3, <2>2, PlacesFinite, FS_EmptySet
    <3>2. Nth(mine, 1) \in mine
      <4>1. 1 \in 1..Cardinality(mine)
        BY <3>1, NthFacts
      <4>2. QED
        BY <3>1, <4>1, NthFacts
    <3>3. Drafts[Nth(mine, 1)] \in Requests
      BY <1>3, <3>2
    <3>4. k # "cli"
      BY <1>8 DEF Sms
    <3>5. /\ Arrival(p) /\ Undertakes(p, FoundOps(k)) /\ Takes(p, k, Drafts[Nth(mine, 1)])
          /\ UNCHANGED reply
      BY <1>8, <2>2 DEF Sms
    <3>6. QED
      BY <1>6, <1>7, <3>3, <3>4, <3>5
  <2>3. QED
    BY <2>1, <2>2
<1>9. CASE Confirm(p, k)
  <2>1. PICK id \in { given[q] : q \in Requests } \ {Nobody} :
       IF id \in Elements(Drafts)
         THEN /\ Undertakes(p, FoundOps(k))
              /\ Takes(p, k, id)
              /\ UNCHANGED reply
         ELSE /\ Answers(p, "not found")
              /\ kind' = [kind EXCEPT ![p] = k]
              /\ UNCHANGED <<goal, todo, contended>>
    BY <1>9 DEF Confirm
  <2>2. CASE id \in Elements(Drafts)
    BY <1>3, <1>6, <1>7, <1>9, <2>1, <2>2 DEF Confirm
  <2>3. CASE id \notin Elements(Drafts)
    <3>1. /\ pc' = [pc EXCEPT ![p] = "done"] /\ reply' = [reply EXCEPT ![p] = "not found"]
          /\ kind' = [kind EXCEPT ![p] = k] /\ UNCHANGED <<goal, todo, contended, stage, base, given>>
          /\ k # "cli"
      BY <1>9, <2>1, <2>3 DEF Answers, Confirm, Arrival
    <3>2. FilesType'
      BY <1>4, <1>9, <3>1 DEF Confirm, Arrival, IntakeType, FilesType, host, files, watch, bound
    <3>3. ProcsType'
      BY <1>2, <3>1 DEF IntakeType, ProcsType, Labels, Replies
    <3>4. RequestType(p)'
      BY <1>2, <3>1 DEF IntakeType, ProcsType, RequestType
    <3>5. QED
      BY <1>2, <3>1, <3>2, <3>3, <3>4, RequestStepType DEF IntakeType, ProcsType
  <2>4. QED
    BY <2>2, <2>3
<1>10. CASE k = "intake" /\ DashboardIntake(p)
  BY <1>2, <1>5, <1>10 DEF DashboardIntake
<1>11. CASE k = "post" /\ PostGoal(p)
  BY <1>6, <1>7, <1>11 DEF PostGoal
<1>12. CASE k = "cli" /\ AddGoal(p)
  BY <1>2, <1>5, <1>12 DEF AddGoal
<1>13. QED
  BY <1>1, <1>8, <1>9, <1>10, <1>11, <1>12

\* So does the end of the daemon.
LEMMA DaemonEndsType ==
  ASSUME IntakeType, DaemonEnds, UNCHANGED <<files, kind, goal, reply, given, expiries, hist>>,
         deaths' \in 0..MaxDeaths
  PROVE  IntakeType'
<1>1. /\ daemon' = "down" /\ changed' = FALSE /\ known' = {} /\ UNCHANGED <<server, unseen>>
      /\ pc' = [q \in Procs |-> IF q = Timer THEN "new"
                                ELSE IF OfDaemon(q) /\ Busy(q) THEN "dead" ELSE pc[q]]
      /\ todo' = [todo EXCEPT ![Timer] = <<>>] /\ stage' = [stage EXCEPT ![Timer] = "read"]
      /\ base' = [base EXCEPT ![Timer] = <<>>]
  BY DEF DaemonEnds
<1>2. FilesType'
  BY <1>1 DEF IntakeType, FilesType, files, hist
<1>3. Timer \in Procs /\ Requests \subseteq Procs /\ Timer \notin Requests
  BY IntakeAssumption DEF Procs
<1>4. ProcsType'
  BY <1>1, <1>3 DEF IntakeType, ProcsType, Labels, Tasks
<1>5. TimerType'
  BY <1>1, <1>3 DEF IntakeType, ProcsType, TimerType
<1>6. ASSUME NEW p \in Requests PROVE RequestType(p)'
  <2>1. /\ todo'[p] = todo[p] /\ stage'[p] = stage[p] /\ kind'[p] = kind[p]
        /\ goal'[p] = goal[p] /\ reply'[p] = reply[p] /\ pc'[p] \in {pc[p], "dead"}
    BY <1>1, <1>3 DEF IntakeType, ProcsType
  <2>2. QED
    BY <2>1 DEF IntakeType, RequestType
<1>7. QED
  BY <1>2, <1>4, <1>5, <1>6 DEF IntakeType

\* A step of a process that is not new does not change what it serves.
LEMMA ServeType ==
  ASSUME IntakeType, NEW p \in Requests, Serve(p)
  PROVE  IntakeType'
<1>1. p \in Procs /\ RequestType(p) /\ FilesType /\ ProcsType
  BY DEF Procs, IntakeType
<1>2. ASSUME NEW l \in Labels, NEW t \in Tasks, NEW r \in Replies, pc[p] # "new",
             pc' = [pc EXCEPT ![p] = l], todo' = [todo EXCEPT ![p] = t],
             reply' = [reply EXCEPT ![p] = r], UNCHANGED <<kind, goal, stage, base>>,
             given' \in [Procs -> Requests \cup {Nobody}], FilesType',
             l \notin {"new", "agent"},
             l \in {"listing", "asking"} => t = <<>> /\ stage[p] = "read",
             l = "work" => t # <<>> /\ kind[p] # "none" /\ goal[p] \in Requests,
             l = "asking" => kind[p] = "cli"
      PROVE  IntakeType'
  <2>1. ProcsType'
    BY <1>1, <1>2 DEF ProcsType
  <2>2. RequestType(p)'
    BY <1>1, <1>2 DEF ProcsType, RequestType
  <2>3. QED
    BY <1>1, <1>2, <2>1, <2>2, RequestStepType DEF ProcsType
<1>3. CASE Agent(p)
  <2>1. /\ pc[p] = "agent" /\ goal[p] = p /\ kind[p] # "none" /\ stage[p] = "read"
        /\ todo[p] = <<>> /\ reply[p] = "none"
    BY <1>1, <1>3 DEF Agent, Small, DraftMade, NoDraft, RequestType
  <2>2. UNCHANGED <<kind, goal, stage, base, given>> /\ FilesType'
    BY <1>1, <1>3 DEF Agent, FilesType, host, files, watch, bound, hist
  <2>3. CASE Small(p) \/ DraftMade(p)
    <3>1. PICK t \in {<<"queue", "touch">>, <<"put">>} : Undertakes(p, t) /\ UNCHANGED reply
      BY <2>3 DEF Small, DraftMade
    <3>2. t \in Tasks /\ t # <<>>
      BY DEF Tasks
    <3>3. reply' = [reply EXCEPT ![p] = "none"] /\ "none" \in Replies /\ "work" \in Labels
      BY <1>1, <2>1, <3>1 DEF ProcsType, Replies, Labels
    <3>4. pc' = [pc EXCEPT ![p] = "work"] /\ todo' = [todo EXCEPT ![p] = t]
      BY <3>1 DEF Undertakes
    <3>5. given' \in [Procs -> Requests \cup {Nobody}] /\ p \in Requests /\ goal[p] \in Requests
      BY <1>1, <2>1, <2>2 DEF ProcsType
    <3>6. QED
      BY <1>2, <2>1, <2>2, <3>2, <3>3, <3>4, <3>5
  <2>4. CASE NoDraft(p)
    <3>1. /\ reply' = [reply EXCEPT ![p] = "blank draft"] /\ todo' = [todo EXCEPT ![p] = <<>>]
          /\ \E l \in {"asking", "listing", "done"} :
               pc' = [pc EXCEPT ![p] = l] /\ (l = "asking" => kind[p] = "cli")
      BY <1>1, <2>1, <2>4 DEF NoDraft, ProcsType
    <3>2. <<>> \in Tasks /\ "blank draft" \in Replies /\ {"asking", "listing", "done"} \subseteq Labels
      BY DEF Tasks, Replies, Labels
    <3>3. QED
      BY <1>1, <1>2, <2>1, <2>2, <3>1, <3>2 DEF ProcsType
  <2>5. QED
    BY <1>3, <2>3, <2>4 DEF Agent
<1>4. CASE ListDrafts(p)
  <2>1. /\ pc[p] = "listing" /\ pc' = [pc EXCEPT ![p] = "done"]
        /\ UNCHANGED <<kind, goal, todo, stage, base, reply>>
    BY <1>4 DEF ListDrafts, work
  <2>2. FilesType'
    BY <1>1, <1>4 DEF ListDrafts, FilesType, host, files, watch, bound, hist
  <2>3. (IF Drafts = <<>> THEN Nobody ELSE Drafts[Len(Drafts)]) \in Requests \cup {Nobody}
    <3>1. Drafts \in Seq(Requests)
      BY <1>1, TornFacts DEF FilesType
    <3>2. QED
      BY <3>1
  <2>4. given' \in [Procs -> Requests \cup {Nobody}]
    BY <1>1, <1>4, <2>3 DEF ListDrafts, ProcsType
  <2>5. ProcsType'
    BY <1>1, <2>1, <2>4 DEF ProcsType, Labels
  <2>6. RequestType(p)'
    BY <1>1, <2>1 DEF ProcsType, RequestType
  <2>7. QED
    BY <1>1, <2>1, <2>2, <2>5, <2>6, RequestStepType DEF ProcsType
<1>5. CASE AnswerToAdd(p)
  <2>1. /\ pc[p] = "asking" /\ kind[p] = "cli" /\ goal[p] = p /\ stage[p] = "read"
        /\ todo[p] = <<>>
    BY <1>1, <1>5 DEF AnswerToAdd, RequestType
  <2>2. UNCHANGED <<kind, goal, stage, base, given, reply>> /\ FilesType'
    BY <1>1, <1>5 DEF AnswerToAdd, FilesType, host, files, watch, bound, hist
  <2>3. \E l \in {"work", "done"}, t \in {<<>>, <<"queue", "touch">>} :
          /\ pc' = [pc EXCEPT ![p] = l] /\ todo' = [todo EXCEPT ![p] = t]
          /\ l = "work" => t # <<>>
    <3>1. CASE Undertakes(p, <<"queue", "touch">>)
      BY <3>1 DEF Undertakes
    <3>2. CASE pc' = [pc EXCEPT ![p] = "done"] /\ UNCHANGED todo
      <4>1. todo' = [todo EXCEPT ![p] = <<>>]
        BY <1>1, <2>1, <3>2 DEF ProcsType
      <4>2. QED
        BY <3>2, <4>1
    <3>3. QED
      BY <1>5, <3>1, <3>2 DEF AnswerToAdd
  <2>4. {<<>>, <<"queue", "touch">>} \subseteq Tasks /\ {"work", "done"} \subseteq Labels
    BY DEF Tasks, Labels
  <2>5. reply[p] \in Replies /\ reply' = [reply EXCEPT ![p] = reply[p]]
    BY <1>1, <2>2 DEF ProcsType
  <2>6. given' \in [Procs -> Requests \cup {Nobody}] /\ p \in Requests /\ goal[p] \in Requests
    BY <1>1, <2>1, <2>2 DEF ProcsType
  <2>7. PICK l \in {"work", "done"}, t \in {<<>>, <<"queue", "touch">>} :
          /\ pc' = [pc EXCEPT ![p] = l] /\ todo' = [todo EXCEPT ![p] = t]
          /\ l = "work" => t # <<>>
    BY <2>3
  <2>8. l \in Labels /\ t \in Tasks
    BY <2>4
  <2>9. QED
    BY <1>2, <2>1, <2>2, <2>5, <2>6, <2>7, <2>8
<1>6. CASE Fails(p)
  <2>1. \/ DaemonEnds /\ UNCHANGED reply
        \/ Answers(p, "error") /\ UNCHANGED <<host, watch, work>>
    BY <1>6 DEF Fails
  <2>2. UNCHANGED <<files, kind, goal, given, bound, hist>> /\ pc[p] \in {"agent", "work"}
    BY <1>6 DEF Fails, At
  <2>3. CASE DaemonEnds /\ UNCHANGED reply
    <3>1. deaths' \in 0..MaxDeaths /\ UNCHANGED expiries
      BY <1>1, <2>2 DEF FilesType, bound
    <3>2. QED
      BY <2>2, <2>3, <3>1, DaemonEndsType
  <2>4. CASE Answers(p, "error") /\ UNCHANGED <<host, watch, work>>
    <3>1. FilesType'
      BY <1>1, <2>2, <2>4 DEF FilesType, host, files, watch, bound, hist
    <3>2. todo' = [todo EXCEPT ![p] = todo[p]] /\ todo[p] \in Tasks /\ "done" \in Labels
          /\ "error" \in Replies
      BY <1>1, <2>4 DEF work, ProcsType, RequestType, Labels, Replies
    <3>3. /\ pc' = [pc EXCEPT ![p] = "done"] /\ reply' = [reply EXCEPT ![p] = "error"]
          /\ UNCHANGED <<kind, goal, stage, base>>
          /\ given' \in [Procs -> Requests \cup {Nobody}]
      BY <1>1, <2>2, <2>4 DEF work, Answers, ProcsType
    <3>4. QED
      BY <1>2, <2>2, <3>1, <3>2, <3>3
  <2>5. QED
    BY <2>1, <2>3, <2>4
<1>7. QED
  BY <1>3, <1>4, <1>5, <1>6 DEF Serve

\* The process goes on to the next operation, or has done the last.
LEMMA FinishedFacts ==
  ASSUME IntakeType, NEW p \in Procs, pc[p] = "work", todo[p] # <<>>, Finished(p),
         UNCHANGED <<kind, goal, given>>
  PROVE  /\ ProcsType' /\ TimerType' /\ \A q \in Requests : RequestType(q)'
         /\ todo' = [todo EXCEPT ![p] = Tail(todo[p])] /\ stage' = [stage EXCEPT ![p] = "read"]
         /\ base' = [base EXCEPT ![p] = <<>>]
         /\ \A q \in Procs \ {p} : pc'[q] = pc[q] /\ reply'[q] = reply[q]
         /\ Tail(todo[p]) # <<>> => pc'[p] = "work" /\ reply'[p] = reply[p]
         /\ Tail(todo[p]) = <<>> /\ p \in Requests =>
              /\ pc'[p] \in {"asking", "listing", "done"}
              /\ (pc'[p] = "asking" => kind[p] = "cli")
              /\ reply'[p] = "queued" <=> Op(p) # "put"
              /\ reply'[p] = "draft" <=> (Op(p) = "put" /\ goal[p] = p)
              /\ reply'[p] # "blank draft"
<1>1. ProcsType /\ p \in Procs /\ todo[p] \in Tasks \cup {<<"expire">>} /\ TaskFact(todo[p])
  BY TaskFacts DEF IntakeType, ProcsType
<1>2. /\ todo' = [todo EXCEPT ![p] = Tail(todo[p])] /\ stage' = [stage EXCEPT ![p] = "read"]
      /\ base' = [base EXCEPT ![p] = <<>>]
  BY DEF Finished, Stage
<1>3. CASE Tail(todo[p]) # <<>>
  <2>1. UNCHANGED <<pc, reply>> /\ p \in Requests
    <3>1. Len(todo[p]) > 1
      BY <1>1, <1>3 DEF TaskFact
    <3>2. p # Timer
      BY <1>1, <1>3 DEF IntakeType, TimerType, TaskFact
    <3>3. QED
      BY <3>1, <3>2 DEF Finished, Procs
  <2>2. Tail(todo[p]) \in Tasks
    BY <1>1 DEF TaskFact
  <2>3. ProcsType'
    BY <1>1, <1>2, <2>1, <2>2 DEF ProcsType
  <2>4. TimerType'
    BY <1>1, <1>2, <2>1, IntakeAssumption DEF IntakeType, TimerType, ProcsType, Procs
  <2>5. ASSUME NEW q \in Requests PROVE RequestType(q)'
    BY <1>1, <1>2, <1>3, <2>1, <2>2 DEF IntakeType, RequestType, ProcsType, Procs
  <2>6. QED
    BY <1>1, <1>2, <1>3, <2>1, <2>3, <2>4, <2>5
<1>4. CASE Tail(todo[p]) = <<>>
  <2> DEFINE l == IF p = Timer THEN "new"
                  ELSE IF Op(p) # "put" THEN "done"
                  ELSE CASE kind[p] = "cli"    -> "asking"
                         [] kind[p] = "intake" -> "listing"
                         [] OTHER              -> "done"
             r == IF p = Timer THEN "none"
                  ELSE IF Op(p) # "put" THEN "queued"
                  ELSE IF goal[p] = p THEN "draft" ELSE "updated"
  <2>1. pc' = [pc EXCEPT ![p] = l] /\ reply' = [reply EXCEPT ![p] = r]
    BY <1>1, <1>4 DEF Finished, TaskFact
  <2>2. l \in {"new", "asking", "listing", "done"} /\ r \in Replies /\ (l = "new" <=> p = Timer)
        /\ (l = "asking" => kind[p] = "cli")
    BY DEF Replies
  <2>3. p # Timer => /\ r = "queued" <=> Op(p) # "put"
                     /\ r = "draft" <=> (Op(p) = "put" /\ goal[p] = p)
                     /\ r # "blank draft"
    OBVIOUS
  <2> HIDE DEF l, r
  <2>4. ProcsType'
    BY <1>1, <1>2, <1>4, <2>1, <2>2 DEF ProcsType, Labels, Tasks
  <2>5. TimerType'
    BY <1>1, <1>2, <1>4, <2>1, <2>2, IntakeAssumption
    DEF IntakeType, TimerType, ProcsType, Procs
  <2>6. ASSUME NEW q \in Requests PROVE RequestType(q)'
    <3>1. CASE q # p
      BY <1>1, <1>2, <2>1, <3>1 DEF IntakeType, RequestType, ProcsType, Procs
    <3>2. CASE q = p
      <4>1. /\ pc'[p] = l /\ todo'[p] = <<>> /\ stage'[p] = "read" /\ kind'[p] = kind[p]
            /\ goal'[p] = goal[p] /\ l # "new" /\ l \in {"asking", "listing", "done"} /\ p # Timer
        BY <1>1, <1>2, <1>4, <2>1, <2>2, <3>2, IntakeAssumption DEF ProcsType
      <4>2. QED
        BY <2>2, <3>2, <4>1 DEF IntakeType, RequestType, Tasks
    <3>3. QED
      BY <3>1, <3>2
  <2>7. \A q \in Procs \ {p} : pc'[q] = pc[q] /\ reply'[q] = reply[q]
    BY <1>1, <2>1 DEF ProcsType
  <2>8. pc'[p] = l /\ reply'[p] = r
    BY <1>1, <2>1 DEF ProcsType
  <2>9. p \in Requests => p # Timer
    BY IntakeAssumption
  <2>10. QED
    BY <1>2, <1>4, <2>2, <2>3, <2>4, <2>5, <2>6, <2>7, <2>8, <2>9
<1>5. QED
  BY <1>3, <1>4

\* An operation on a file goes a stage further.
LEMMA StagedType ==
  ASSUME IntakeType, NEW p \in Procs, NEW step \in {"truncate", "write"}, pc[p] = "work",
         Stage(p, step), UNCHANGED <<pc, kind, goal, todo, reply, given>>,
         base' \in [Procs -> Seq(Requests)], FilesType'
  PROVE  IntakeType'
<1>1. stage' = [stage EXCEPT ![p] = step]
  BY DEF Stage
<1>2. ProcsType'
  BY <1>1 DEF IntakeType, ProcsType
<1>3. TimerType'
  BY <1>1, IntakeAssumption DEF IntakeType, TimerType, ProcsType, Procs
<1>4. ASSUME NEW q \in Requests PROVE RequestType(q)'
  BY <1>1 DEF IntakeType, RequestType, ProcsType, Procs
<1>5. QED
  BY <1>2, <1>3, <1>4 DEF IntakeType

\* The goal of a process that works on a line, or puts a draft, is a request.
LEMMA GoalType ==
  ASSUME IntakeType, NEW p \in Procs, pc[p] = "work", Op(p) # "expire"
  PROVE  p \in Requests /\ goal[p] \in Requests
<1>1. p # Timer
  BY DEF IntakeType, TimerType, Op
<1>2. QED
  BY <1>1 DEF IntakeType, RequestType, Procs

\* A step of an operation on a file keeps the types.
LEMMA FileStepType ==
  ASSUME IntakeType, NEW p \in Procs, FileStep(p)
  PROVE  IntakeType'
<1>1. FilesType /\ ProcsType
  BY DEF IntakeType
<1>2. CASE ReadDrafts(p)
  <2>1. Drafts \in Seq(Requests)
    BY <1>1, TornFacts DEF FilesType
  <2>2. FilesType'
    BY <1>1, <1>2 DEF ReadDrafts, ReadsDrafts, FilesType, host, files, watch, bound
  <2>3. base' \in [Procs -> Seq(Requests)]
    BY <1>1, <1>2, <2>1 DEF ReadDrafts, ProcsType
  <2>4. QED
    BY <1>2, <2>2, <2>3, StagedType DEF ReadDrafts, At
<1>3. CASE ReadLines(p)
  <2>1. lines \in Seq(Requests)
    BY <1>1, <1>3, TornFacts DEF FilesType, ReadLines
  <2>2. FilesType'
    BY <1>1, <1>3 DEF ReadLines, FilesType, host, files, watch, bound, hist
  <2>3. base' \in [Procs -> Seq(Requests)]
    BY <1>1, <1>3, <2>1 DEF ReadLines, ProcsType
  <2>4. QED
    BY <1>3, <2>2, <2>3, StagedType DEF ReadLines, At
<1>4. CASE Truncate(p)
  <2>1. Torn \in Texts
    BY DEF Texts
  <2>2. FilesType'
    <3>1. /\ raced' \in {raced, raced \cup {"drafts"}, raced \cup {"lines"}}
          /\ drafts' \in {drafts, Torn} /\ lines' \in {lines, Torn}
          /\ changed' \in {changed, changed \/ Watched}
      BY <1>4 DEF Truncate
    <3>2. Watched \in BOOLEAN
      BY <1>1 DEF Watched, FilesType
    <3>3. changed' \in BOOLEAN
      BY <1>1, <3>1, <3>2, Zenon DEF FilesType
    <3>4. raced' \subseteq {"drafts", "lines"}
      BY <1>1, <3>1 DEF FilesType
    <3>5. drafts' \in Texts /\ lines' \in Texts
      BY <1>1, <2>1, <3>1 DEF FilesType
    <3>6. QED
      BY <1>1, <1>4, <3>3, <3>4, <3>5 DEF Truncate, FilesType, host, bound
  <2>3. base' \in [Procs -> Seq(Requests)]
    BY <1>1, <1>4 DEF Truncate, ProcsType
  <2>4. QED
    BY <1>4, <2>2, <2>3, StagedType DEF Truncate, At
<1>5. CASE WriteDrafts(p)
  <2>1. p \in Procs /\ pc[p] = "work" /\ todo[p] # <<>> /\ Op(p) \in DraftOps /\ Finished(p)
        /\ UNCHANGED <<host, lines, flag, watch, kind, goal, given, bound, contended>>
    BY <1>5 DEF WriteDrafts, At
  <2>2. PICK gone \in IF Op(p) = "expire" THEN SUBSET Elements(base[p]) ELSE {{}} :
       LET new == CASE Op(p) = "expire"  -> Without(base[p], gone)
                    [] Op(p) = "resolve" -> Without(base[p], {goal[p]})
                    [] Op(p) = "put"     -> Append(base[p], goal[p])
       IN  /\ drafts' \in IF drafts \in {Torn, new} THEN {new} ELSE {new, Torn}
           /\ raced' = IF drafts # Torn THEN raced \cup {"drafts"} ELSE raced
           /\ expired' = expired \cup gone
    BY <1>5 DEF WriteDrafts
  <2>3. base[p] \in Seq(Requests) /\ Elements(base[p]) \subseteq Requests
    BY <1>1 DEF ProcsType, Elements
  <2>4. gone \subseteq Requests
    BY <2>2, <2>3
  <2>5. Without(base[p], gone) \in Seq(Requests) /\ Without(base[p], {goal[p]}) \in Seq(Requests)
    BY <2>3, WithoutFacts
  <2>6. Op(p) = "put" => Append(base[p], goal[p]) \in Seq(Requests)
    BY <2>1, <2>3, GoalType, AppendFacts
  <2>7. drafts' \in Texts
    BY <2>1, <2>2, <2>5, <2>6 DEF Texts, DraftOps
  <2>8. FilesType'
    BY <1>1, <2>1, <2>2, <2>4, <2>7 DEF FilesType, host, watch, bound
  <2>9. QED
    BY <2>1, <2>8, FinishedFacts DEF IntakeType
<1>6. CASE WriteLines(p)
  <2>1. pc[p] = "work" /\ todo[p] # <<>> /\ Op(p) \in LineOps /\ Finished(p)
        /\ UNCHANGED <<host, drafts, flag, known, kind, goal, given, bound, contended, expired>>
    BY <1>6 DEF WriteLines, At
  <2>2. goal[p] \in Requests /\ base[p] \in Seq(Requests)
    BY <1>1, <2>1, GoalType DEF ProcsType, LineOps
  <2>3. lines' \in Texts
    BY <1>6, <2>2, AppendFacts DEF WriteLines, Texts
  <2>4. Watched \in BOOLEAN /\ changed \in BOOLEAN /\ changed' = (changed \/ Watched)
    BY <1>1, <1>6 DEF Watched, FilesType, WriteLines
  <2>5. changed' \in BOOLEAN
    BY <2>4, Zenon
  <2>6. unseen' \subseteq Requests /\ raced' \subseteq {"drafts", "lines"}
    BY <1>1, <1>6, <2>2 DEF WriteLines, FilesType
  <2>7. FilesType'
    BY <1>1, <2>1, <2>3, <2>5, <2>6 DEF FilesType, host, bound
  <2>8. QED
    BY <2>1, <2>7, FinishedFacts DEF IntakeType
<1>7. CASE Touch(p)
  <2>1. pc[p] = "work" /\ todo[p] # <<>> /\ Finished(p)
        /\ UNCHANGED <<host, drafts, lines, known, kind, goal, given, bound, hist>>
    BY <1>7 DEF Touch, At
  <2>2. changed' \in BOOLEAN /\ flag' \in BOOLEAN /\ unseen' \subseteq Requests
    BY <1>1, <1>7 DEF Touch, FilesType
  <2>3. FilesType'
    BY <1>1, <2>1, <2>2 DEF FilesType, host, bound, hist
  <2>4. QED
    BY <2>1, <2>3, FinishedFacts DEF IntakeType
<1>8. CASE Enqueue(p)
  <2>1. pc[p] = "work" /\ todo[p] # <<>> /\ Finished(p) /\ Op(p) = "enqueue"
        /\ UNCHANGED <<host, files, changed, unseen, kind, goal, given, bound, hist>>
    BY <1>8 DEF Enqueue, At
  <2>2. known' \subseteq Requests
    BY <1>1, <1>8, <2>1, GoalType DEF Enqueue, FilesType
  <2>3. FilesType'
    BY <1>1, <2>1, <2>2 DEF FilesType, host, files, bound, hist
  <2>4. QED
    BY <2>1, <2>3, FinishedFacts DEF IntakeType
<1>9. QED
  BY <1>2, <1>3, <1>4, <1>5, <1>6, <1>7, <1>8 DEF FileStep

\* The steps of the daemon, and a command that is killed.
LEMMA DaemonStepType ==
  ASSUME IntakeType, Die \/ ExpireByTimer \/ Boot \/ Load \/ Watch \/ Reload
  PROVE  IntakeType'
<1>1. FilesType /\ ProcsType /\ TimerType
  BY DEF IntakeType
<1>2. CASE Die
  <2>1. deaths' \in 0..MaxDeaths /\ UNCHANGED <<files, kind, goal, reply, given, expiries, hist>>
    BY <1>1, <1>2, IntakeAssumption DEF Die, FilesType
  <2>2. CASE DaemonEnds
    BY <2>1, <2>2, DaemonEndsType
  <2>3. ASSUME NEW p \in Requests, Busy(p), pc' = [pc EXCEPT ![p] = "dead"],
               UNCHANGED <<host, watch, work>>
        PROVE  IntakeType'
    <3>1. FilesType'
      BY <1>1, <2>1, <2>3 DEF FilesType, host, files, watch, hist
    <3>2. p \in Procs /\ p # Timer /\ ProcsType'
      BY <1>1, <2>1, <2>3, IntakeAssumption DEF ProcsType, Procs, work, Labels
    <3>3. RequestType(p)'
      BY <1>1, <2>1, <2>3, <3>2 DEF IntakeType, RequestType, ProcsType, work
    <3>4. QED
      BY <2>1, <2>3, <3>1, <3>2, <3>3, RequestStepType DEF work, ProcsType
  <2>4. QED
    BY <1>2, <2>2, <2>3 DEF Die
<1>3. CASE ExpireByTimer \/ Boot
  <2>1. /\ pc[Timer] = "new" /\ UNCHANGED <<server, files, watch, kind, goal, stage, base, reply, given, hist>>
        /\ pc' = [pc EXCEPT ![Timer] = "work"] /\ todo' = [todo EXCEPT ![Timer] = <<"expire">>]
        /\ daemon' \in {daemon, "booting"} /\ UNCHANGED deaths /\ expiries' \in 0..MaxExpiries
    BY <1>1, <1>3, IntakeAssumption DEF ExpireByTimer, Boot, Expire, Undertakes, FilesType
  <2>2. FilesType'
    BY <1>1, <2>1 DEF FilesType, files, watch, hist
  <2>3. Timer \in Procs /\ ProcsType' /\ TimerType'
    BY <1>1, <2>1, IntakeAssumption DEF ProcsType, TimerType, Procs, Labels
  <2>4. ASSUME NEW q \in Requests PROVE RequestType(q)'
    BY <1>1, <2>1, <2>3, IntakeAssumption DEF IntakeType, RequestType, ProcsType, Procs
  <2>5. QED
    BY <2>2, <2>3, <2>4 DEF IntakeType
<1>4. CASE Load \/ Watch \/ Reload
  <2>1. UNCHANGED <<server, files, pc, kind, goal, work, reply, given, bound, hist>>
    BY <1>4 DEF Load, Watch, Reload, host
  <2>2. lines # Torn => Elements(lines) \subseteq Requests
    BY <1>1, TornFacts DEF FilesType, Elements
  <2>3. daemon' \in {"down", "loaded", "up"} /\ known' \subseteq Requests /\ unseen' \subseteq Requests
        /\ changed' \in BOOLEAN
    BY <1>1, <1>4, <2>2 DEF Load, Watch, Reload, watch, host, FilesType
  <2>4. FilesType'
    BY <1>1, <2>1, <2>3 DEF FilesType, files, bound, hist
  <2>5. ProcsType' /\ TimerType'
    BY <1>1, <2>1 DEF ProcsType, TimerType, work
  <2>6. ASSUME NEW q \in Requests PROVE RequestType(q)'
    BY <2>1 DEF IntakeType, RequestType, work
  <2>7. QED
    BY <2>4, <2>5, <2>6 DEF IntakeType
<1>5. QED
  BY <1>2, <1>3, <1>4

\* Every step keeps the types.
LEMMA NextIntakeType == IntakeType /\ [Next]_vars => IntakeType'
<1>1. IntakeType /\ Next => IntakeType'
  BY ArriveType, ServeType, FileStepType, DaemonStepType DEF Next
<1>2. ASSUME IntakeType, UNCHANGED vars PROVE IntakeType'
  <2>1. FilesType'
    BY <1>2 DEF IntakeType, FilesType, vars, host, files, watch, bound, hist
  <2>2. ProcsType' /\ TimerType'
    BY <1>2 DEF IntakeType, ProcsType, TimerType, vars, work
  <2>3. ASSUME NEW q \in Requests PROVE RequestType(q)'
    BY <1>2 DEF IntakeType, RequestType, vars, work
  <2>4. QED
    BY <2>1, <2>2, <2>3 DEF IntakeType
<1>3. QED
  BY <1>1, <1>2

\* In every state, files and processes have their types.
THEOREM IntakeTypeCorrect == Spec => []TypeOK
<1>1. IntakeType => TypeOK
  <2>1. Tasks \cup {<<"expire">>} \subseteq Seq(DraftOps \cup LineOps \cup {"touch", "enqueue"})
    BY DEF Tasks, DraftOps, LineOps
  <2>2. ProcsType => todo \in [Procs -> Seq(DraftOps \cup LineOps \cup {"touch", "enqueue"})]
    BY <2>1 DEF ProcsType
  <2>3. FilesType => /\ {drafts, lines} \subseteq Seq(Requests) \cup {Torn}
                     /\ contended \cup expired \cup unseen \subseteq Requests
    BY DEF FilesType, Texts
  <2>4. QED
    BY <2>2, <2>3 DEF IntakeType, FilesType, ProcsType, Labels, Replies, TypeOK
<1>2. QED
  BY <1>1, InitIntakeType, NextIntakeType, PTL DEF Spec

-----------------------------------------------------------------------------
(* What a step can do to the processes and to the two files.  The proofs    *)
(* below go by these kinds of steps.                                        *)

\* Only p moves.
Others(p) ==
  \A q \in Procs \ {p} :
    /\ pc'[q] = pc[q] /\ kind'[q] = kind[q] /\ goal'[q] = goal[q] /\ todo'[q] = todo[q]
    /\ stage'[q] = stage[q] /\ base'[q] = base[q] /\ reply'[q] = reply[q]

\* p is busy and goes on with its goal.
GoesOn(p) == Others(p) /\ Busy(p) /\ kind'[p] = kind[p] /\ goal'[p] = goal[p]

\* p has a file open for writing.
Open(p, ops) == At(p, "write", ops)

SameTexts == UNCHANGED <<drafts, lines, expired>>

Comes(p) ==
  /\ Others(p) /\ pc[p] = "new" /\ SameTexts /\ stage'[p] = "read" /\ kind'[p] \in AllKinds
  /\ \/ /\ reply'[p] = "none" /\ goal'[p] = p
        /\ \/ pc'[p] = "agent" /\ todo'[p] = <<>>
           \/ pc'[p] = "work" /\ todo'[p] = <<"append", "enqueue">> /\ kind'[p] = "post"
     \/ /\ reply'[p] = "none" /\ drafts # Torn /\ goal'[p] \in Elements(drafts)
        /\ pc'[p] = "work" /\ kind'[p] # "cli"
        /\ \/ todo'[p] = <<"resolve", "queue", "touch">> /\ kind'[p] \in {"yes", "confirm"}
           \/ todo'[p] = <<"resolve", "put">>
     \/ /\ reply'[p] = "not found" /\ goal'[p] = Nobody /\ pc'[p] = "done" /\ todo'[p] = <<>>
  /\ (\E q \in Requests : Busy(q) /\ goal[q] = goal'[p]) /\ goal'[p] \in Requests
       => goal'[p] \in contended'

Talks(p) ==
  /\ GoesOn(p) /\ SameTexts /\ stage'[p] = stage[p] /\ base'[p] = base[p] /\ stage'[p] = "read"
  /\ \/ /\ pc[p] = "agent" /\ pc'[p] = "work" /\ reply'[p] = reply[p]
        /\ todo'[p] \in { <<"queue", "touch">>, <<"put">> }
     \/ /\ pc[p] = "agent" /\ pc'[p] \in {"asking", "listing", "done"} /\ todo'[p] = todo[p]
        /\ reply'[p] = "blank draft"
     \/ /\ pc[p] = "listing" /\ pc'[p] = "done" /\ todo'[p] = todo[p] /\ reply'[p] = reply[p]
     \/ /\ pc[p] = "asking" /\ kind[p] = "cli" /\ reply'[p] = reply[p]
        /\ \/ pc'[p] = "done" /\ todo'[p] = todo[p]
           \/ pc'[p] = "work" /\ todo'[p] = <<"queue", "touch">>
     \/ /\ pc[p] \in {"agent", "work"} /\ pc'[p] = "done" /\ todo'[p] = todo[p]
        /\ reply'[p] = "error"

Reads(p) ==
  /\ GoesOn(p) /\ SameTexts /\ pc[p] = "work" /\ pc'[p] = "work" /\ todo'[p] = todo[p]
  /\ todo[p] # <<>> /\ reply'[p] = reply[p] /\ stage[p] = "read" /\ stage'[p] = "truncate"
  /\ Op(p) \in DraftOps \/ (Op(p) \in LineOps /\ lines # Torn /\ base'[p] = lines)

Opens(p) ==
  /\ GoesOn(p) /\ pc[p] = "work" /\ pc'[p] = "work" /\ todo'[p] = todo[p] /\ todo[p] # <<>>
  /\ reply'[p] = reply[p] /\ stage[p] = "truncate" /\ stage'[p] = "write" /\ base'[p] = base[p]
  /\ UNCHANGED expired
  /\ \/ /\ Op(p) \in DraftOps /\ drafts' = Torn /\ lines' = lines
        /\ "drafts" \notin raced' => drafts = base[p]
     \/ /\ Op(p) \in LineOps /\ lines' = Torn /\ drafts' = drafts
        /\ "lines" \notin raced' => lines = base[p]

\* The first of the operations of p is done.
Completes(p) ==
  /\ GoesOn(p) /\ pc[p] = "work" /\ todo[p] # <<>> /\ todo'[p] = Tail(todo[p])
  /\ stage'[p] = "read"
  /\ Tail(todo[p]) # <<>> => pc'[p] = "work" /\ reply'[p] = reply[p]
  /\ Tail(todo[p]) = <<>> /\ p \in Requests =>
       /\ pc'[p] \in {"asking", "listing", "done"}
       /\ reply'[p] = "queued" <=> Op(p) # "put"
       /\ reply'[p] = "draft" <=> (Op(p) = "put" /\ goal[p] = p)
       /\ reply'[p] # "blank draft"

StoresDrafts(p) ==
  /\ Completes(p) /\ Open(p, DraftOps) /\ lines' = lines
  /\ "drafts" \notin raced' =>
       /\ drafts = Torn /\ drafts' \in Seq(Requests) /\ expired \subseteq expired'
       /\ Op(p) = "expire" => /\ Elements(drafts') \subseteq Elements(base[p])
                              /\ Elements(base[p]) \subseteq Elements(drafts') \cup expired'
       /\ Op(p) = "resolve" => Elements(drafts') = Elements(base[p]) \ {goal[p]}
       /\ Op(p) = "put" => Elements(drafts') = Elements(base[p]) \cup {goal[p]}

StoresLines(p) ==
  /\ Completes(p) /\ Open(p, LineOps) /\ UNCHANGED <<drafts, expired>>
  /\ "lines" \notin raced' => lines = Torn
  /\ p \in Requests /\ goal[p] \in Requests
  /\ lines' \in { Append(base[p], goal[p]), <<goal[p]>> \o base[p] }
  /\ lines' \in Seq(Requests) /\ Elements(lines') = Elements(base[p]) \cup {goal[p]}

Signals(p) == Completes(p) /\ p \in Requests /\ todo[p] \in Written /\ SameTexts

\* Processes end, or the timer starts or ends.
Rests ==
  /\ SameTexts
  /\ \A q \in Requests :
       /\ pc'[q] \in {pc[q], "dead"} /\ kind'[q] = kind[q] /\ goal'[q] = goal[q]
       /\ pc'[q] # pc[q] => Busy(q)
       /\ todo'[q] = todo[q] /\ stage'[q] = stage[q] /\ base'[q] = base[q] /\ reply'[q] = reply[q]
  /\ \/ stage'[Timer] = "read"
     \/ /\ pc'[Timer] = pc[Timer] /\ todo'[Timer] = todo[Timer]
        /\ stage'[Timer] = stage[Timer] /\ base'[Timer] = base[Timer]

\* What a request that arrives does.
LEMMA ArriveKind ==
  ASSUME IntakeType, NEW p \in Requests, Arrive(p)
  PROVE  Comes(p) /\ raced \subseteq raced' /\ contended \subseteq contended'
<1>1. PICK k \in Kinds[p] : \/ Sms(p, k)
                            \/ Confirm(p, k)
                            \/ k = "intake" /\ DashboardIntake(p)
                            \/ k = "post" /\ PostGoal(p)
                            \/ k = "cli" /\ AddGoal(p)
  BY DEF Arrive
<1>2. k \in AllKinds /\ p \in Procs /\ ProcsType /\ RequestType(p)
  BY IntakeAssumption DEF Procs, IntakeType
<1>3. Arrival(p) /\ raced \subseteq raced'
  BY <1>1 DEF Sms, Confirm, DashboardIntake, PostGoal, AddGoal, ReadsDrafts
<1>4. /\ pc[p] = "new" /\ stage[p] = "read" /\ todo[p] = <<>> /\ goal[p] = Nobody
      /\ reply[p] = "none" /\ UNCHANGED <<drafts, lines, expired, stage, base>>
  BY <1>2, <1>3 DEF Arrival, RequestType, files
<1>5. SameTexts
  BY <1>4 DEF SameTexts
<1>6. ASSUME NEW g \in Requests, NEW l \in AllKinds, Takes(p, l, g)
      PROVE  /\ kind' = [kind EXCEPT ![p] = l] /\ goal' = [goal EXCEPT ![p] = g]
             /\ contended \subseteq contended'
             /\ (\E q \in Requests : Busy(q) /\ goal[q] = g) => g \in contended'
  BY <1>6 DEF Takes
<1>7. ASSUME NEW l \in AllKinds, Classified(p, l)
      PROVE  Comes(p) /\ contended \subseteq contended'
  <2>1. /\ pc' = [pc EXCEPT ![p] = "agent"] /\ UNCHANGED <<todo, reply>>
        /\ kind' = [kind EXCEPT ![p] = l] /\ goal' = [goal EXCEPT ![p] = p]
        /\ contended \subseteq contended'
        /\ (\E q \in Requests : Busy(q) /\ goal[q] = p) => p \in contended'
    BY <1>6, <1>7 DEF Classified
  <2>2. Others(p)
    BY <1>4, <2>1 DEF Others
  <2>3. QED
    BY <1>2, <1>4, <1>5, <2>1, <2>2 DEF Comes, ProcsType
<1>8. ASSUME NEW g \in Requests, NEW t, Undertakes(p, t), Takes(p, k, g), UNCHANGED reply,
             \/ k = "post" /\ g = p /\ t = <<"append", "enqueue">>
             \/ k # "cli" /\ drafts # Torn /\ g \in Elements(drafts) /\ t = FoundOps(k)
      PROVE  Comes(p) /\ contended \subseteq contended'
  <2>1. /\ pc' = [pc EXCEPT ![p] = "work"] /\ todo' = [todo EXCEPT ![p] = t] /\ UNCHANGED reply
        /\ kind' = [kind EXCEPT ![p] = k] /\ goal' = [goal EXCEPT ![p] = g]
        /\ contended \subseteq contended'
        /\ (\E q \in Requests : Busy(q) /\ goal[q] = g) => g \in contended'
    BY <1>2, <1>6, <1>8 DEF Undertakes
  <2>2. Others(p)
    BY <1>4, <2>1 DEF Others
  <2>3. /\ pc'[p] = "work" /\ kind'[p] = k /\ goal'[p] = g /\ todo'[p] = t /\ reply'[p] = "none"
        /\ stage'[p] = "read"
    BY <1>2, <1>4, <2>1 DEF ProcsType
  <2>4. FoundOps(k) \in { <<"resolve", "queue", "touch">>, <<"resolve", "put">> }
        /\ (FoundOps(k) # <<"resolve", "put">> => k \in {"yes", "confirm"})
    BY DEF FoundOps, ConfirmOps, EditOps
  <2>5. QED
    BY <1>2, <1>4, <1>5, <1>8, <2>1, <2>2, <2>3, <2>4 DEF Comes
<1>9. Drafts \in Seq(Requests) /\ Elements(Drafts) \subseteq Requests
      /\ (Drafts # <<>> => drafts # Torn /\ Drafts = drafts)
  BY TornFacts DEF IntakeType, FilesType, Drafts
<1>10. CASE Sms(p, k)
  <2> DEFINE mine == { i \in DOMAIN Drafts : kind[Drafts[i]] = "sms" }
  <2>1. CASE mine = {}
    BY <1>2, <1>3, <1>7, <1>10, <2>1 DEF Sms
  <2>2. CASE mine # {}
    <3>1. mine \in SUBSET Nat /\ IsFiniteSet(mine) /\ Cardinality(mine) # 0
      BY <1>9, <2>2, PlacesFinite, FS_EmptySet
    <3>2. Nth(mine, 1) \in DOMAIN Drafts
      BY <3>1, NthFacts
    <3>3. /\ Drafts[Nth(mine, 1)] \in Requests /\ Drafts # <<>>
          /\ Drafts[Nth(mine, 1)] \in Elements(Drafts)
      <4>1. ASSUME NEW i \in DOMAIN Drafts PROVE Drafts[i] \in Elements(Drafts)
        BY DEF Elements
      <4>2. Drafts[Nth(mine, 1)] \in Elements(Drafts)
        BY <3>2, <4>1
      <4>3. Drafts # <<>>
        BY <3>2
      <4>4. QED
        BY <1>9, <4>2, <4>3
    <3>4. /\ k # "cli" /\ Undertakes(p, FoundOps(k)) /\ Takes(p, k, Drafts[Nth(mine, 1)])
          /\ UNCHANGED reply
      BY <1>10, <2>2 DEF Sms
    <3>5. QED
      BY <1>3, <1>8, <1>9, <3>3, <3>4
  <2>3. QED
    BY <2>1, <2>2
<1>11. CASE Confirm(p, k)
  <2>1. PICK id \in { given[q] : q \in Requests } \ {Nobody} :
       IF id \in Elements(Drafts)
         THEN /\ Undertakes(p, FoundOps(k))
              /\ Takes(p, k, id)
              /\ UNCHANGED reply
         ELSE /\ Answers(p, "not found")
              /\ kind' = [kind EXCEPT ![p] = k]
              /\ UNCHANGED <<goal, todo, contended>>
    BY <1>11 DEF Confirm
  <2>2. CASE id \in Elements(Drafts)
    <3>1. Drafts # <<>>
      BY <2>2 DEF Elements
    <3>2. id \in Requests /\ k # "cli"
      BY <1>9, <1>11, <2>2 DEF Confirm
    <3>3. QED
      BY <1>3, <1>8, <1>9, <2>1, <2>2, <3>1, <3>2
  <2>3. CASE id \notin Elements(Drafts)
    <3>1. /\ pc' = [pc EXCEPT ![p] = "done"] /\ reply' = [reply EXCEPT ![p] = "not found"]
          /\ kind' = [kind EXCEPT ![p] = k] /\ UNCHANGED <<goal, todo, contended>>
      BY <2>1, <2>3 DEF Answers
    <3>2. Others(p)
      BY <1>2, <1>4, <3>1 DEF Others, ProcsType
    <3>3. QED
      BY <1>2, <1>3, <1>4, <1>5, <3>1, <3>2, IntakeAssumption DEF Comes, ProcsType
  <2>4. QED
    BY <2>2, <2>3
<1>12. CASE k = "intake" /\ DashboardIntake(p)
  BY <1>2, <1>3, <1>7, <1>12 DEF DashboardIntake
<1>13. CASE k = "post" /\ PostGoal(p)
  BY <1>3, <1>8, <1>13 DEF PostGoal
<1>14. CASE k = "cli" /\ AddGoal(p)
  BY <1>2, <1>3, <1>7, <1>14 DEF AddGoal
<1>15. QED
  BY <1>1, <1>10, <1>11, <1>12, <1>13, <1>14

\* What ends with the daemon.
LEMMA DaemonEndsKind ==
  ASSUME IntakeType, DaemonEnds, UNCHANGED <<files, kind, goal, reply, hist>>
  PROVE  Rests
<1>1. /\ pc' = [q \in Procs |-> IF q = Timer THEN "new"
                                ELSE IF OfDaemon(q) /\ Busy(q) THEN "dead" ELSE pc[q]]
      /\ todo' = [todo EXCEPT ![Timer] = <<>>] /\ stage' = [stage EXCEPT ![Timer] = "read"]
      /\ base' = [base EXCEPT ![Timer] = <<>>]
  BY DEF DaemonEnds
<1>2. ProcsType /\ Timer \in Procs /\ Requests \subseteq Procs /\ Timer \notin Requests
  BY IntakeAssumption DEF IntakeType, Procs
<1>3. SameTexts
  BY DEF SameTexts, files, hist
<1>4. stage'[Timer] = "read"
  BY <1>1, <1>2 DEF ProcsType
<1>5. ASSUME NEW q \in Requests
      PROVE  /\ pc'[q] \in {pc[q], "dead"} /\ (pc'[q] # pc[q] => Busy(q))
             /\ todo'[q] = todo[q] /\ stage'[q] = stage[q] /\ base'[q] = base[q]
  BY <1>1, <1>2 DEF ProcsType
<1>6. QED
  BY <1>3, <1>4, <1>5 DEF Rests

\* What the answers of agents and of senders do.
LEMMA ServeKind ==
  ASSUME IntakeType, NEW p \in Requests, Serve(p)
  PROVE  (Talks(p) \/ Rests) /\ UNCHANGED <<raced, contended>>
<1>1. p \in Procs /\ RequestType(p) /\ ProcsType
  BY DEF Procs, IntakeType
<1>2. UNCHANGED <<raced, contended>> /\ SameTexts /\ UNCHANGED <<kind, goal>>
  BY DEF Serve, Agent, ListDrafts, AnswerToAdd, Fails, SameTexts, hist, files
<1>3. CASE Agent(p) \/ ListDrafts(p) \/ AnswerToAdd(p)
  <2>1. pc[p] \in {"agent", "listing", "asking"} /\ stage[p] = "read" /\ todo[p] = <<>>
        /\ Busy(p)
    BY <1>1, <1>3
    DEF Agent, Small, DraftMade, NoDraft, ListDrafts, AnswerToAdd, RequestType, Busy
  <2>2. UNCHANGED <<stage, base>>
    BY <1>3 DEF Agent, ListDrafts, AnswerToAdd, work
  <2>3. Others(p)
    BY <1>1, <1>2, <1>3, <2>2
    DEF Agent, Small, DraftMade, NoDraft, ListDrafts, AnswerToAdd, Undertakes, work, Others,
        ProcsType
  <2>4. GoesOn(p)
    BY <1>2, <2>1, <2>3 DEF GoesOn
  <2>5. CASE Agent(p)
    <3>1. CASE Small(p) \/ DraftMade(p)
      BY <1>1, <1>2, <2>1, <2>2, <2>4, <3>1 DEF Small, DraftMade, Undertakes, Talks, ProcsType
    <3>2. CASE NoDraft(p)
      <4>1. pc[p] = "agent" /\ reply'[p] = "blank draft" /\ todo'[p] = todo[p]
            /\ pc'[p] \in {"asking", "listing", "done"}
        BY <1>1, <3>2 DEF NoDraft, ProcsType
      <4>2. QED
        BY <1>2, <2>1, <2>2, <2>4, <4>1 DEF Talks
    <3>3. QED
      BY <2>5, <3>1, <3>2 DEF Agent
  <2>6. CASE ListDrafts(p)
    BY <1>1, <1>2, <2>1, <2>2, <2>4, <2>6 DEF ListDrafts, Talks, ProcsType, work
  <2>7. CASE AnswerToAdd(p)
    BY <1>1, <1>2, <2>1, <2>2, <2>4, <2>7
    DEF AnswerToAdd, Talks, ProcsType, Undertakes, RequestType
  <2>8. QED
    BY <1>2, <1>3, <2>5, <2>6, <2>7
<1>4. CASE Fails(p)
  <2>1. CASE DaemonEnds /\ UNCHANGED reply
    BY <1>4, <1>2, <2>1, DaemonEndsKind DEF Fails
  <2>2. CASE Answers(p, "error") /\ UNCHANGED <<host, watch, work>>
    <3>1. pc[p] \in {"agent", "work"} /\ stage[p] = "read" /\ Busy(p)
      BY <1>1, <1>4 DEF Fails, At, RequestType, Busy
    <3>2. pc'[p] = "done" /\ reply'[p] = "error" /\ UNCHANGED <<todo, stage, base>>
      BY <1>1, <2>2 DEF Answers, work, ProcsType
    <3>3. Others(p)
      BY <1>1, <1>2, <2>2, <3>2 DEF Others, Answers, ProcsType
    <3>4. QED
      BY <1>2, <3>1, <3>2, <3>3 DEF Talks, GoesOn
  <2>3. QED
    BY <1>4, <2>1, <2>2 DEF Fails
<1>5. QED
  BY <1>3, <1>4 DEF Serve

\* A step that finishes an operation completes it.
LEMMA CompletesFacts ==
  ASSUME IntakeType, NEW p \in Procs, pc[p] = "work", todo[p] # <<>>, Finished(p),
         UNCHANGED <<kind, goal, given>>
  PROVE  Completes(p)
<1>1. ProcsType
  BY DEF IntakeType
<1>2. /\ todo' = [todo EXCEPT ![p] = Tail(todo[p])] /\ stage' = [stage EXCEPT ![p] = "read"]
      /\ base' = [base EXCEPT ![p] = <<>>]
      /\ \A q \in Procs \ {p} : pc'[q] = pc[q] /\ reply'[q] = reply[q]
  BY FinishedFacts
<1>3. Others(p)
  BY <1>1, <1>2 DEF Others, ProcsType
<1>4. GoesOn(p)
  BY <1>3 DEF GoesOn, Busy
<1>5. todo'[p] = Tail(todo[p]) /\ stage'[p] = "read"
  BY <1>1, <1>2 DEF ProcsType
<1>6. /\ Tail(todo[p]) # <<>> => pc'[p] = "work" /\ reply'[p] = reply[p]
      /\ Tail(todo[p]) = <<>> /\ p \in Requests =>
           /\ pc'[p] \in {"asking", "listing", "done"}
           /\ reply'[p] = "queued" <=> Op(p) # "put"
           /\ reply'[p] = "draft" <=> (Op(p) = "put" /\ goal[p] = p)
           /\ reply'[p] # "blank draft"
  BY FinishedFacts
<1>7. QED
  BY <1>4, <1>5, <1>6 DEF Completes

\* What a step of an operation on a file does.
LEMMA FileStepKind ==
  ASSUME IntakeType, NEW p \in Procs, FileStep(p)
  PROVE  /\ Reads(p) \/ Opens(p) \/ StoresDrafts(p) \/ StoresLines(p) \/ Signals(p)
         /\ raced \subseteq raced' /\ UNCHANGED contended
<1>1. ProcsType /\ FilesType
  BY DEF IntakeType
<1>2. raced \subseteq raced' /\ UNCHANGED <<kind, goal, given, contended>>
  BY DEF FileStep, ReadDrafts, ReadsDrafts, ReadLines, Truncate, WriteDrafts, WriteLines, Touch,
         Enqueue, hist
<1>3. pc[p] = "work" /\ todo[p] # <<>> /\ Busy(p)
  BY DEF FileStep, ReadDrafts, ReadLines, Truncate, WriteDrafts, WriteLines, Touch, Enqueue,
     At, Busy
<1>4. CASE ReadDrafts(p)
  <2>1. /\ UNCHANGED <<pc, todo, reply>> /\ stage' = [stage EXCEPT ![p] = "truncate"]
        /\ base' = [base EXCEPT ![p] = Drafts] /\ Op(p) \in DraftOps /\ stage[p] = "read"
    BY <1>4 DEF ReadDrafts, Stage, At
  <2>2. Others(p)
    BY <1>1, <1>2, <2>1 DEF Others, ProcsType
  <2>3. SameTexts
    BY <1>4 DEF ReadDrafts, SameTexts, files
  <2>4. QED
    BY <1>1, <1>2, <1>3, <2>1, <2>2, <2>3 DEF Reads, GoesOn, ProcsType
<1>5. CASE ReadLines(p)
  <2>1. /\ UNCHANGED <<pc, todo, reply>> /\ stage' = [stage EXCEPT ![p] = "truncate"]
        /\ base' = [base EXCEPT ![p] = lines] /\ Op(p) \in LineOps /\ lines # Torn
        /\ stage[p] = "read"
    BY <1>5 DEF ReadLines, Stage, At
  <2>2. Others(p)
    BY <1>1, <1>2, <2>1 DEF Others, ProcsType
  <2>3. SameTexts
    BY <1>5 DEF ReadLines, SameTexts, files, hist
  <2>4. QED
    BY <1>1, <1>2, <1>3, <2>1, <2>2, <2>3 DEF Reads, GoesOn, ProcsType
<1>6. CASE Truncate(p)
  <2>1. /\ UNCHANGED <<pc, todo, reply, base, expired>> /\ stage' = [stage EXCEPT ![p] = "write"]
        /\ stage[p] = "truncate"
    BY <1>6 DEF Truncate, Stage, At
  <2>2. Others(p)
    BY <1>1, <1>2, <2>1 DEF Others, ProcsType
  <2>3. \/ /\ Op(p) \in DraftOps /\ drafts' = Torn /\ lines' = lines
           /\ "drafts" \notin raced' => drafts = base[p]
        \/ /\ Op(p) \in LineOps /\ lines' = Torn /\ drafts' = drafts
           /\ "lines" \notin raced' => lines = base[p]
    BY <1>6 DEF Truncate, At
  <2>4. QED
    BY <1>1, <1>2, <1>3, <2>1, <2>2, <2>3 DEF Opens, GoesOn, ProcsType
<1>7. CASE WriteDrafts(p)
  <2>1. Open(p, DraftOps) /\ Finished(p) /\ lines' = lines
    BY <1>7 DEF WriteDrafts, Open
  <2>2. Completes(p)
    BY <1>2, <1>3, <2>1, CompletesFacts
  <2>3. PICK gone \in IF Op(p) = "expire" THEN SUBSET Elements(base[p]) ELSE {{}} :
       LET new == CASE Op(p) = "expire"  -> Without(base[p], gone)
                    [] Op(p) = "resolve" -> Without(base[p], {goal[p]})
                    [] Op(p) = "put"     -> Append(base[p], goal[p])
       IN  /\ drafts' \in IF drafts \in {Torn, new} THEN {new} ELSE {new, Torn}
           /\ raced' = IF drafts # Torn THEN raced \cup {"drafts"} ELSE raced
           /\ expired' = expired \cup gone
    BY <1>7 DEF WriteDrafts
  <2>4. base[p] \in Seq(Requests) /\ Op(p) \in DraftOps
    BY <1>1, <1>7 DEF ProcsType, WriteDrafts, At
  <2>5. ASSUME "drafts" \notin raced'
        PROVE  drafts = Torn /\ expired' = expired \cup gone
               /\ drafts' = CASE Op(p) = "expire"  -> Without(base[p], gone)
                              [] Op(p) = "resolve" -> Without(base[p], {goal[p]})
                              [] Op(p) = "put"     -> Append(base[p], goal[p])
    BY <2>3, <2>5
  <2>6. CASE Op(p) = "expire"
    <3>1. ASSUME "drafts" \notin raced' PROVE drafts' = Without(base[p], gone)
      BY <2>5, <2>6, <3>1
    <3>2. Without(base[p], gone) \in Seq(Requests) /\ Elements(Without(base[p], gone)) = Elements(base[p]) \ gone
      BY <2>4, WithoutFacts
    <3>3. QED
      BY <1>2, <2>1, <2>2, <2>5, <2>6, <3>1, <3>2 DEF StoresDrafts
  <2>7. CASE Op(p) = "resolve"
    <3>1. ASSUME "drafts" \notin raced' PROVE drafts' = Without(base[p], {goal[p]})
      BY <2>5, <2>7, <3>1
    <3>2. Without(base[p], {goal[p]}) \in Seq(Requests)
          /\ Elements(Without(base[p], {goal[p]})) = Elements(base[p]) \ {goal[p]}
      BY <2>4, WithoutFacts
    <3>3. QED
      BY <1>2, <2>1, <2>2, <2>5, <2>7, <3>1, <3>2 DEF StoresDrafts
  <2>8. CASE Op(p) = "put"
    <3>1. ASSUME "drafts" \notin raced' PROVE drafts' = Append(base[p], goal[p])
      BY <2>5, <2>8, <3>1
    <3>2. goal[p] \in Requests
      BY <1>3, <2>8, GoalType
    <3>3. Append(base[p], goal[p]) \in Seq(Requests)
          /\ Elements(Append(base[p], goal[p])) = Elements(base[p]) \cup {goal[p]}
      BY <2>4, <3>2, AppendFacts
    <3>4. QED
      BY <1>2, <2>1, <2>2, <2>5, <2>8, <3>1, <3>3 DEF StoresDrafts
  <2>9. QED
    BY <1>2, <2>4, <2>6, <2>7, <2>8 DEF DraftOps
<1>8. CASE WriteLines(p)
  <2>1. Open(p, LineOps) /\ Finished(p) /\ UNCHANGED <<drafts, expired>> /\ Op(p) \in LineOps
    BY <1>8 DEF WriteLines, Open, At
  <2>2. Completes(p)
    BY <1>2, <1>3, <2>1, CompletesFacts
  <2>3. "lines" \notin raced' => lines = Torn
    BY <1>8 DEF WriteLines
  <2>4. p \in Requests /\ goal[p] \in Requests /\ base[p] \in Seq(Requests)
    BY <1>1, <1>3, <2>1, GoalType DEF ProcsType, LineOps
  <2>5. lines' \in { Append(base[p], goal[p]), <<goal[p]>> \o base[p] }
    BY <1>8 DEF WriteLines
  <2>6. lines' \in Seq(Requests) /\ Elements(lines') = Elements(base[p]) \cup {goal[p]}
    BY <2>4, <2>5, AppendFacts
  <2>7. QED
    BY <1>2, <2>1, <2>2, <2>3, <2>4, <2>5, <2>6 DEF StoresLines
<1>9. CASE Touch(p) \/ Enqueue(p)
  <2>1. Finished(p) /\ Op(p) \in {"touch", "enqueue"} /\ SameTexts
    BY <1>9 DEF Touch, Enqueue, At, SameTexts, files, hist
  <2>2. Completes(p)
    BY <1>2, <1>3, <2>1, CompletesFacts
  <2>3. TaskFact(todo[p])
    BY <1>1, <1>3, TaskFacts DEF ProcsType
  <2>4. todo[p] \in Written
    BY <2>1, <2>3 DEF TaskFact, Op
  <2>5. p \in Requests
    BY <1>3, <2>1, GoalType
  <2>6. QED
    BY <1>2, <2>1, <2>2, <2>4, <2>5 DEF Signals
<1>10. QED
  BY <1>4, <1>5, <1>6, <1>7, <1>8, <1>9 DEF FileStep

\* What a step of the daemon does.
LEMMA DaemonKind ==
  ASSUME IntakeType, Die \/ ExpireByTimer \/ Boot \/ Load \/ Watch \/ Reload \/ UNCHANGED vars
  PROVE  Rests /\ UNCHANGED <<raced, contended>>
<1>1. ProcsType /\ TimerType /\ Timer \in Procs /\ Requests \subseteq Procs /\ Timer \notin Requests
  BY IntakeAssumption DEF IntakeType, Procs
<1>2. UNCHANGED <<files, kind, goal, reply, hist, raced, contended>> /\ SameTexts
  BY DEF Die, ExpireByTimer, Boot, Expire, Load, Watch, Reload, vars, hist, files, SameTexts
<1>3. CASE Die
  <2>1. CASE DaemonEnds
    BY <1>2, <2>1, DaemonEndsKind
  <2>2. ASSUME NEW p \in Requests, Busy(p), pc' = [pc EXCEPT ![p] = "dead"], UNCHANGED work
        PROVE  Rests
    <3>1. pc'[Timer] = pc[Timer]
      BY <1>1, <2>2 DEF ProcsType
    <3>2. \A q \in Requests : pc'[q] \in {pc[q], "dead"} /\ (pc'[q] # pc[q] => q = p)
      BY <1>1, <2>2 DEF ProcsType
    <3>3. QED
      BY <1>2, <2>2, <3>1, <3>2 DEF Rests, work
  <2>3. QED
    BY <1>2, <1>3, <2>1, <2>2 DEF Die
<1>4. CASE ExpireByTimer \/ Boot
  <2>1. /\ pc' = [pc EXCEPT ![Timer] = "work"] /\ todo' = [todo EXCEPT ![Timer] = <<"expire">>]
        /\ UNCHANGED <<stage, base>> /\ pc[Timer] = "new"
    BY <1>4 DEF ExpireByTimer, Boot, Expire, Undertakes
  <2>2. stage'[Timer] = "read"
    BY <1>1, <2>1 DEF TimerType
  <2>3. \A q \in Requests : pc'[q] = pc[q] /\ todo'[q] = todo[q]
    BY <1>1, <2>1 DEF ProcsType
  <2>4. QED
    BY <1>2, <2>1, <2>2, <2>3 DEF Rests
<1>5. CASE Load \/ Watch \/ Reload \/ UNCHANGED vars
  <2>1. UNCHANGED <<pc, todo, stage, base>>
    BY <1>5 DEF Load, Watch, Reload, vars, work
  <2>2. QED
    BY <1>2, <2>1 DEF Rests
<1>6. QED
  BY <1>2, <1>3, <1>4, <1>5

Step ==
  \/ \E p \in Requests : Comes(p) \/ Talks(p)
  \/ \E p \in Procs : Reads(p) \/ Opens(p) \/ StoresDrafts(p) \/ StoresLines(p) \/ Signals(p)
  \/ Rests

\* Every step is of one of these kinds.
LEMMA Steps ==
  ASSUME IntakeType, [Next]_vars
  PROVE  Step /\ raced \subseteq raced' /\ contended \subseteq contended'
<1>1. ASSUME NEW p \in Requests, Arrive(p) \/ Serve(p)
      PROVE  Step /\ raced \subseteq raced' /\ contended \subseteq contended'
  BY <1>1, ArriveKind, ServeKind DEF Step
<1>2. ASSUME NEW p \in Procs, FileStep(p)
      PROVE  Step /\ raced \subseteq raced' /\ contended \subseteq contended'
  BY <1>2, FileStepKind DEF Step
<1>3. CASE Die \/ ExpireByTimer \/ Boot \/ Load \/ Watch \/ Reload \/ UNCHANGED vars
  BY <1>3, DaemonKind DEF Step
<1>4. QED
  BY <1>1, <1>2, <1>3 DEF Next

-----------------------------------------------------------------------------
(* Who has a file open, and what is in it or on its way back into it *)

LineText(s) == \/ lines = s /\ lines # Torn
               \/ \E q \in Procs : Open(q, LineOps) /\ base[q] = s
DraftText(s) == \/ drafts = s /\ drafts # Torn
                \/ \E q \in Procs : Open(q, DraftOps) /\ base[q] = s

\* While no two writers met, a file that is open is torn, and open once.
LinesAlone ==
  "lines" \notin raced =>
    /\ \A q \in Procs : Open(q, LineOps) => lines = Torn
    /\ \A q, r \in Procs : Open(q, LineOps) /\ Open(r, LineOps) => q = r
DraftsAlone ==
  "drafts" \notin raced =>
    /\ \A q \in Procs : Open(q, DraftOps) => drafts = Torn
    /\ \A q, r \in Procs : Open(q, DraftOps) /\ Open(r, DraftOps) => q = r

Base == IntakeType /\ LinesAlone /\ DraftsAlone

\* A file that is open after a step was open before it, or has been opened by it.
LEMMA OpenStep ==
  ASSUME Step, NEW q \in Procs, NEW ops \in {LineOps, DraftOps}, Open(q, ops)'
  PROVE  /\ base'[q] = base[q] /\ todo'[q] = todo[q]
         /\ Open(q, ops) \/ (Opens(q) /\ Op(q) \in ops)
<1>1. pc'[q] = "work" /\ stage'[q] = "write" /\ todo'[q] # <<>> /\ Head(todo'[q]) \in ops
  BY DEF Open, At, Op
<1>2. ASSUME NEW p \in Procs, Others(p), q # p
      PROVE  base'[q] = base[q] /\ todo'[q] = todo[q] /\ Open(q, ops)
  BY <1>1, <1>2 DEF Others, Open, At, Op
<1>3. CASE \E p \in Requests : Comes(p) \/ Talks(p)
  <2>1. PICK p \in Requests : Comes(p) \/ Talks(p)
    BY <1>3
  <2>2. Others(p) /\ stage'[p] = "read" /\ p \in Procs
    BY <2>1 DEF Comes, Talks, GoesOn, Procs
  <2>3. QED
    BY <1>1, <1>2, <2>2
<1>4. CASE \E p \in Procs : Reads(p) \/ StoresDrafts(p) \/ StoresLines(p) \/ Signals(p)
  <2>1. PICK p \in Procs : Reads(p) \/ StoresDrafts(p) \/ StoresLines(p) \/ Signals(p)
    BY <1>4
  <2>2. Others(p) /\ stage'[p] # "write"
    BY <2>1 DEF Reads, StoresDrafts, StoresLines, Signals, Completes, GoesOn
  <2>3. QED
    BY <1>1, <1>2, <2>2
<1>5. CASE \E p \in Procs : Opens(p)
  <2>1. PICK p \in Procs : Opens(p)
    BY <1>5
  <2>2. Others(p) /\ todo'[p] = todo[p] /\ base'[p] = base[p]
    BY <2>1 DEF Opens, GoesOn
  <2>3. QED
    BY <1>1, <1>2, <2>1, <2>2 DEF Op
<1>6. CASE Rests
  <2>1. pc'[q] \in {pc[q], "dead"} /\ todo'[q] = todo[q] /\ stage'[q] = stage[q] /\ base'[q] = base[q]
    BY <1>1, <1>6 DEF Rests, Procs
  <2>2. QED
    BY <1>1, <2>1 DEF Open, At, Op
<1>7. QED
  BY <1>3, <1>4, <1>5, <1>6 DEF Step

\* What happens to goals.md, and to pending-goals.json.
LEMMA LinesStep ==
  ASSUME Step
  PROVE  \/ UNCHANGED lines /\ \A p \in Procs : ~Opens(p) \/ Op(p) \in DraftOps
         \/ \E p \in Procs : Opens(p) /\ Op(p) \in LineOps
         \/ \E p \in Procs : StoresLines(p)
<1>1. ASSUME NEW p \in Procs, Opens(p) PROVE \A q \in Procs : Opens(q) => q = p
  <2>1. ASSUME NEW q \in Procs, Opens(q), q # p PROVE FALSE
    BY <1>1, <2>1 DEF Opens, GoesOn, Others
  <2>2. QED
    BY <2>1
<1>2. ASSUME NEW p \in Procs, Opens(p)
      PROVE  Op(p) \in LineOps \/ (Op(p) \in DraftOps /\ UNCHANGED lines)
  BY <1>2 DEF Opens
<1>3. CASE \E p \in Procs : Opens(p)
  BY <1>1, <1>2, <1>3
<1>4. CASE ~\E p \in Procs : Opens(p)
  BY <1>4 DEF Step, Comes, Talks, Reads, StoresDrafts, Signals, Rests, SameTexts
<1>5. QED
  BY <1>3, <1>4

\* What happens to pending-goals.json.
LEMMA DraftsStep ==
  ASSUME Step
  PROVE  \/ UNCHANGED drafts /\ \A p \in Procs : ~Opens(p) \/ Op(p) \in LineOps
         \/ \E p \in Procs : Opens(p) /\ Op(p) \in DraftOps
         \/ \E p \in Procs : StoresDrafts(p)
<1>1. ASSUME NEW p \in Procs, Opens(p) PROVE \A q \in Procs : Opens(q) => q = p
  <2>1. ASSUME NEW q \in Procs, Opens(q), q # p PROVE FALSE
    BY <1>1, <2>1 DEF Opens, GoesOn, Others
  <2>2. QED
    BY <2>1
<1>2. ASSUME NEW p \in Procs, Opens(p)
      PROVE  Op(p) \in DraftOps \/ (Op(p) \in LineOps /\ UNCHANGED drafts)
  BY <1>2 DEF Opens
<1>3. CASE \E p \in Procs : Opens(p)
  BY <1>1, <1>2, <1>3
<1>4. CASE ~\E p \in Procs : Opens(p)
  BY <1>4 DEF Step, Comes, Talks, Reads, StoresLines, Signals, Rests, SameTexts
<1>5. QED
  BY <1>3, <1>4

\* While no two writers of goals.md meet, whoever writes it is alone.
LEMMA LinesAloneStep ==
  ASSUME IntakeType, LinesAlone, Step, "lines" \notin raced', raced \subseteq raced'
  PROVE  /\ LinesAlone'
         /\ \A p \in Procs : StoresLines(p) => \A q \in Procs : ~Open(q, LineOps)'
<1>1. /\ \A q \in Procs : Open(q, LineOps) => lines = Torn
      /\ \A q, r \in Procs : Open(q, LineOps) /\ Open(r, LineOps) => q = r
  BY DEF LinesAlone
<1>2. \A q \in Procs : Open(q, LineOps)' => Open(q, LineOps) \/ (Opens(q) /\ Op(q) \in LineOps)
  BY OpenStep
<1>3. ASSUME NEW p \in Procs, StoresLines(p), NEW q \in Procs, Open(q, LineOps)' PROVE FALSE
  <2>1. Open(p, LineOps) /\ stage'[p] = "read" /\ Others(p)
    BY <1>3 DEF StoresLines, Completes, GoesOn
  <2>2. q # p
    BY <1>3, <2>1 DEF Open, At
  <2>3. ~Opens(q)
    BY <2>1, <2>2 DEF Others, Opens
  <2>4. QED
    BY <1>1, <1>2, <1>3, <2>1, <2>2, <2>3
<1>4. CASE UNCHANGED lines /\ \A p \in Procs : ~Opens(p) \/ Op(p) \in DraftOps
  <2>1. \A q \in Procs : Open(q, LineOps)' => Open(q, LineOps)
    BY <1>2, <1>4 DEF DraftOps, LineOps
  <2>2. QED
    BY <1>1, <1>3, <1>4, <2>1 DEF LinesAlone
<1>5. ASSUME NEW p \in Procs, Opens(p), Op(p) \in LineOps PROVE LinesAlone'
  <2>1. lines = base[p] /\ lines' = Torn /\ Others(p)
    BY <1>5 DEF Opens, DraftOps, LineOps, GoesOn
  <2>2. lines # Torn
    BY <2>1, TornFacts DEF IntakeType, ProcsType
  <2>3. \A q \in Procs : Open(q, LineOps)' => q = p
    <3>1. ASSUME NEW q \in Procs, Opens(q), q # p PROVE FALSE
      BY <2>1, <3>1 DEF Opens, Others
    <3>2. QED
      BY <1>1, <1>2, <2>2, <3>1
  <2>4. QED
    BY <2>1, <2>3 DEF LinesAlone
<1>6. ASSUME NEW p \in Procs, StoresLines(p) PROVE LinesAlone'
  BY <1>3, <1>6 DEF LinesAlone
<1>7. QED
  BY <1>3, <1>4, <1>5, <1>6, LinesStep

\* The same of pending-goals.json.
LEMMA DraftsAloneStep ==
  ASSUME IntakeType, DraftsAlone, Step, "drafts" \notin raced', raced \subseteq raced'
  PROVE  /\ DraftsAlone'
         /\ \A p \in Procs : StoresDrafts(p) => \A q \in Procs : ~Open(q, DraftOps)'
<1>1. /\ \A q \in Procs : Open(q, DraftOps) => drafts = Torn
      /\ \A q, r \in Procs : Open(q, DraftOps) /\ Open(r, DraftOps) => q = r
  BY DEF DraftsAlone
<1>2. \A q \in Procs : Open(q, DraftOps)' => Open(q, DraftOps) \/ (Opens(q) /\ Op(q) \in DraftOps)
  BY OpenStep
<1>3. ASSUME NEW p \in Procs, StoresDrafts(p), NEW q \in Procs, Open(q, DraftOps)' PROVE FALSE
  <2>1. Open(p, DraftOps) /\ stage'[p] = "read" /\ Others(p)
    BY <1>3 DEF StoresDrafts, Completes, GoesOn
  <2>2. q # p
    BY <1>3, <2>1 DEF Open, At
  <2>3. ~Opens(q)
    BY <2>1, <2>2 DEF Others, Opens
  <2>4. QED
    BY <1>1, <1>2, <1>3, <2>1, <2>2, <2>3
<1>4. CASE UNCHANGED drafts /\ \A p \in Procs : ~Opens(p) \/ Op(p) \in LineOps
  <2>1. \A q \in Procs : Open(q, DraftOps)' => Open(q, DraftOps)
    BY <1>2, <1>4 DEF DraftOps, LineOps
  <2>2. QED
    BY <1>1, <1>3, <1>4, <2>1 DEF DraftsAlone
<1>5. ASSUME NEW p \in Procs, Opens(p), Op(p) \in DraftOps PROVE DraftsAlone'
  <2>1. drafts = base[p] /\ drafts' = Torn /\ Others(p)
    BY <1>5 DEF Opens, DraftOps, LineOps, GoesOn
  <2>2. drafts # Torn
    BY <2>1, TornFacts DEF IntakeType, ProcsType
  <2>3. \A q \in Procs : Open(q, DraftOps)' => q = p
    <3>1. ASSUME NEW q \in Procs, Opens(q), q # p PROVE FALSE
      BY <2>1, <3>1 DEF Opens, Others
    <3>2. QED
      BY <1>1, <1>2, <2>2, <3>1
  <2>4. QED
    BY <2>1, <2>3 DEF DraftsAlone
<1>6. ASSUME NEW p \in Procs, StoresDrafts(p) PROVE DraftsAlone'
  BY <1>3, <1>6 DEF DraftsAlone
<1>7. QED
  BY <1>3, <1>4, <1>5, <1>6, DraftsStep

\* A text that may become goals.md is an old one, or an old one with a new line.
LEMMA LineTextStep ==
  ASSUME IntakeType, LinesAlone, Step, "lines" \notin raced', raced \subseteq raced', NEW s,
         LineText(s)'
  PROVE  \/ LineText(s) /\ \A p \in Procs : ~StoresLines(p)
         \/ \E p \in Procs : StoresLines(p) /\ s = lines' /\ LineText(base[p])
<1>1. CASE \E p \in Procs : StoresLines(p)
  <2>1. PICK p \in Procs : StoresLines(p)
    BY <1>1
  <2>2. lines' = s
    BY <2>1, LinesAloneStep DEF LineText
  <2>3. LineText(base[p])
    BY <2>1 DEF StoresLines, LineText
  <2>4. QED
    BY <2>1, <2>2, <2>3
<1>2. CASE \A p \in Procs : ~StoresLines(p)
  <2>1. CASE lines' = s /\ lines' # Torn
    <3>1. \A p \in Procs : Opens(p) /\ Op(p) \in LineOps => lines' = Torn
      BY DEF Opens, DraftOps, LineOps
    <3>2. UNCHANGED lines
      BY <1>2, <2>1, <3>1, LinesStep
    <3>3. QED
      BY <1>2, <2>1, <3>2 DEF LineText
  <2>2. ASSUME NEW q \in Procs, Open(q, LineOps)', base'[q] = s PROVE LineText(s)
    <3>1. base[q] = s /\ (Open(q, LineOps) \/ (Opens(q) /\ Op(q) \in LineOps))
      BY <2>2, OpenStep
    <3>2. CASE Open(q, LineOps)
      BY <3>1, <3>2 DEF LineText
    <3>3. CASE Opens(q) /\ Op(q) \in LineOps
      <4>1. lines = base[q]
        BY <3>3 DEF Opens, DraftOps, LineOps
      <4>2. lines # Torn
        BY <4>1, TornFacts DEF IntakeType, ProcsType
      <4>3. QED
        BY <3>1, <4>1, <4>2 DEF LineText
    <3>4. QED
      BY <3>1, <3>2, <3>3
  <2>3. QED
    BY <1>2, <2>1, <2>2 DEF LineText
<1>3. QED
  BY <1>1, <1>2

\* The same of pending-goals.json.
LEMMA DraftTextStep ==
  ASSUME IntakeType, DraftsAlone, Step, "drafts" \notin raced', raced \subseteq raced', NEW s,
         DraftText(s)'
  PROVE  \/ DraftText(s) /\ \A p \in Procs : ~StoresDrafts(p)
         \/ \E p \in Procs : StoresDrafts(p) /\ s = drafts' /\ DraftText(base[p])
<1>1. CASE \E p \in Procs : StoresDrafts(p)
  <2>1. PICK p \in Procs : StoresDrafts(p)
    BY <1>1
  <2>2. drafts' = s
    BY <2>1, DraftsAloneStep DEF DraftText
  <2>3. DraftText(base[p])
    BY <2>1 DEF StoresDrafts, DraftText
  <2>4. QED
    BY <2>1, <2>2, <2>3
<1>2. CASE \A p \in Procs : ~StoresDrafts(p)
  <2>1. CASE drafts' = s /\ drafts' # Torn
    <3>1. \A p \in Procs : Opens(p) /\ Op(p) \in DraftOps => drafts' = Torn
      BY DEF Opens, DraftOps, LineOps
    <3>2. UNCHANGED drafts
      BY <1>2, <2>1, <3>1, DraftsStep
    <3>3. QED
      BY <1>2, <2>1, <3>2 DEF DraftText
  <2>2. ASSUME NEW q \in Procs, Open(q, DraftOps)', base'[q] = s PROVE DraftText(s)
    <3>1. base[q] = s /\ (Open(q, DraftOps) \/ (Opens(q) /\ Op(q) \in DraftOps))
      BY <2>2, OpenStep
    <3>2. CASE Open(q, DraftOps)
      BY <3>1, <3>2 DEF DraftText
    <3>3. CASE Opens(q) /\ Op(q) \in DraftOps
      <4>1. drafts = base[q]
        BY <3>3 DEF Opens, DraftOps, LineOps
      <4>2. drafts # Torn
        BY <4>1, TornFacts DEF IntakeType, ProcsType
      <4>3. QED
        BY <3>1, <4>1, <4>2 DEF DraftText
    <3>4. QED
      BY <3>1, <3>2, <3>3
  <2>3. QED
    BY <1>2, <2>1, <2>2 DEF DraftText
<1>3. QED
  BY <1>1, <1>2

\* These texts are sequences of goals.
LEMMA TextTypes ==
  ASSUME IntakeType
  PROVE  \A s : LineText(s) \/ DraftText(s) => s \in Seq(Requests)
BY TornFacts DEF LineText, DraftText, IntakeType, ProcsType, FilesType

\* At first nobody has a file open.
LEMMA InitBase == Init => Base
<1> SUFFICES ASSUME Init PROVE Base
  OBVIOUS
<1>1. \A q \in Procs : pc[q] = "new"
  BY DEF Init
<1>2. \A q \in Procs : ~Open(q, LineOps) /\ ~Open(q, DraftOps)
  BY <1>1 DEF Open, At
<1>3. QED
  BY <1>2, InitIntakeType DEF Base, LinesAlone, DraftsAlone

\* Types and solitude are kept.
LEMMA NextBase ==
  ASSUME Base, [Next]_vars
  PROVE  Base' /\ Step /\ raced \subseteq raced' /\ contended \subseteq contended'
<1>1. IntakeType' /\ Step /\ raced \subseteq raced' /\ contended \subseteq contended'
  BY NextIntakeType, Steps DEF Base
<1>2. LinesAlone'
  <2>1. CASE "lines" \in raced'
    BY <2>1 DEF LinesAlone
  <2>2. CASE "lines" \notin raced'
    BY <1>1, <2>2, LinesAloneStep DEF Base
  <2>3. QED
    BY <2>1, <2>2
<1>3. DraftsAlone'
  <2>1. CASE "drafts" \in raced'
    BY <2>1 DEF DraftsAlone
  <2>2. CASE "drafts" \notin raced'
    BY <1>1, <2>2, DraftsAloneStep DEF Base
  <2>3. QED
    BY <2>1, <2>2
<1>4. QED
  BY <1>1, <1>2, <1>3 DEF Base

-----------------------------------------------------------------------------
(* What was said to be queued is in goals.md *)

\* The line is written: only its signal is missing, or nothing.
Settled(p) == reply[p] = "queued" \/ (pc[p] = "work" /\ todo[p] \in Written)

\* In goals.md, and in every text that may become goals.md.
LinesInv ==
  "lines" \notin raced =>
    \A p \in Requests : Settled(p) => \A s : LineText(s) => goal[p] \in Elements(s)

\* A request never expires drafts.
LEMMA RequestTask ==
  ASSUME IntakeType, NEW p \in Requests, todo[p] # <<>>
  PROVE  TaskFact(todo[p]) /\ Op(p) # "expire" /\ todo[p] \in Tasks
<1>1. TaskFact(todo[p]) /\ todo[p] \in Tasks
  BY TaskFacts DEF IntakeType, RequestType
<1>2. <<"expire">> \notin Tasks
  BY DEF Tasks
<1>3. QED
  BY <1>1, <1>2 DEF TaskFact, Op

\* The three kinds of tasks are disjoint.
LEMMA TaskKinds ==
  /\ \A t \in { <<>>, <<"put">>, <<"resolve", "put">> } : t \notin Written \cup ToWrite
  /\ \A t \in ToWrite : t \notin Written
<1>1. \A t \in Written : Len(t) = 1 /\ t[1] \in {"touch", "enqueue"}
  BY DEF Written
<1>2. \A t \in ToWrite : Len(t) > 1 /\ t[Len(t)] \in {"touch", "enqueue"}
  BY DEF ToWrite
<1>3. \A t \in { <<>>, <<"put">>, <<"resolve", "put">> } : t = <<>> \/ t[Len(t)] = "put"
  OBVIOUS
<1>4. QED
  BY <1>1, <1>2, <1>3

\* A request that is settled was, or has written its line just now.
LEMMA SettledStep ==
  ASSUME IntakeType, Step, NEW p \in Requests, Settled(p)'
  PROVE  goal'[p] = goal[p] /\ (Settled(p) \/ StoresLines(p))
<1>1. p \in Procs /\ (reply'[p] = "queued" \/ (pc'[p] = "work" /\ todo'[p] \in Written))
  BY DEF Procs, Settled
<1>2. ASSUME NEW q \in Procs, Others(q), q # p PROVE goal'[p] = goal[p] /\ Settled(p)
  BY <1>1, <1>2 DEF Others, Settled
<1>3. ASSUME NEW q \in Requests, Comes(q) PROVE q # p
  <2>1. ASSUME q = p PROVE FALSE
    <3>1. todo'[p] \in Written /\ reply'[p] \in {"none", "not found"}
      BY <1>1, <1>3, <2>1 DEF Comes
    <3>2. /\ <<"append", "enqueue">> \in ToWrite /\ <<"resolve", "queue", "touch">> \in ToWrite
      BY DEF ToWrite
    <3>3. QED
      BY <1>3, <2>1, <3>1, <3>2, TaskKinds DEF Comes
  <2>2. QED
    BY <2>1
<1>4. ASSUME Talks(p) PROVE goal'[p] = goal[p] /\ Settled(p)
  <2>1. <<"queue", "touch">> \in ToWrite
    BY DEF ToWrite
  <2>2. goal'[p] = goal[p] /\ (pc'[p] = "work" => todo'[p] \notin Written) /\ reply'[p] = "queued"
    BY <1>1, <1>4, <2>1, TaskKinds DEF Talks, GoesOn
  <2>3. QED
    BY <1>4, <2>2 DEF Talks, Settled
<1>5. ASSUME Reads(p) \/ Opens(p) PROVE goal'[p] = goal[p] /\ Settled(p)
  BY <1>1, <1>5 DEF Reads, Opens, GoesOn, Settled
<1>6. ASSUME Completes(p) PROVE goal'[p] = goal[p] /\ (Settled(p) \/ Op(p) \in LineOps)
  <2>1. goal'[p] = goal[p] /\ todo[p] # <<>> /\ pc[p] = "work" /\ todo'[p] = Tail(todo[p])
    BY <1>6 DEF Completes, GoesOn
  <2>2. TaskFact(todo[p]) /\ Op(p) # "expire"
    BY <2>1, RequestTask
  <2>3. CASE Tail(todo[p]) # <<>>
    <3>1. reply'[p] = reply[p]
      BY <1>6, <2>3 DEF Completes
    <3>2. QED
      BY <1>1, <2>1, <2>2, <3>1 DEF TaskFact, Settled, Op
  <2>4. CASE Tail(todo[p]) = <<>>
    <3>1. <<>> \notin Written
      BY DEF Written
    <3>2. Op(p) # "put"
      BY <1>1, <1>6, <2>1, <2>4, <3>1 DEF Completes
    <3>3. todo[p] \in Written
      BY <2>2, <2>4, <3>2 DEF TaskFact, Op
    <3>4. QED
      BY <2>1, <3>3 DEF Settled
  <2>5. QED
    BY <2>3, <2>4
<1>7. ASSUME StoresDrafts(p) \/ Signals(p) PROVE Op(p) \notin LineOps
  <2>1. CASE StoresDrafts(p)
    BY <2>1 DEF StoresDrafts, Open, At, DraftOps, LineOps
  <2>2. CASE Signals(p)
    <3>1. todo[p] \in Written /\ todo[p] # <<>>
      BY <2>2 DEF Signals, Completes
    <3>2. QED
      BY <3>1, RequestTask DEF TaskFact, Op, LineOps
  <2>3. QED
    BY <1>7, <2>1, <2>2
<1>8. CASE Rests
  BY <1>1, <1>8 DEF Rests, Settled
<1>9. CASE \E q \in Requests : Comes(q) \/ Talks(q)
  <2>1. PICK q \in Requests : Comes(q) \/ Talks(q)
    BY <1>9
  <2>2. Others(q) /\ q \in Procs
    BY <2>1 DEF Comes, Talks, GoesOn, Procs
  <2>3. QED
    BY <1>2, <1>3, <1>4, <2>1, <2>2
<1>10. CASE \E q \in Procs : Reads(q) \/ Opens(q) \/ StoresDrafts(q) \/ StoresLines(q) \/ Signals(q)
  <2>1. PICK q \in Procs : Reads(q) \/ Opens(q) \/ StoresDrafts(q) \/ StoresLines(q) \/ Signals(q)
    BY <1>10
  <2>2. Others(q) /\ (Reads(q) \/ Opens(q) \/ Completes(q))
    BY <2>1 DEF Reads, Opens, StoresDrafts, StoresLines, Signals, Completes, GoesOn
  <2>3. QED
    BY <1>2, <1>5, <1>6, <1>7, <2>1, <2>2
<1>11. QED
  BY <1>8, <1>9, <1>10 DEF Step

\* A line that is written stays in every text.
LEMMA NextLinesInv ==
  ASSUME Base, LinesInv, [Next]_vars
  PROVE  LinesInv'
<1>1. Base' /\ Step /\ raced \subseteq raced'
  BY NextBase
<1>2. SUFFICES ASSUME "lines" \notin raced', NEW p \in Requests, Settled(p)', NEW s,
                      LineText(s)'
               PROVE  goal'[p] \in Elements(s)
  BY DEF LinesInv
<1>3. "lines" \notin raced
  BY <1>1, <1>2
<1>4. goal'[p] = goal[p] /\ (Settled(p) \/ StoresLines(p))
  BY <1>1, <1>2, SettledStep DEF Base
<1>5. \A q \in Procs : StoresLines(q) =>
        LineText(base[q]) /\ Elements(lines') = Elements(base[q]) \cup {goal[q]}
  BY DEF StoresLines, LineText
<1>6. \/ LineText(s) /\ \A q \in Procs : ~StoresLines(q)
      \/ \E q \in Procs : StoresLines(q) /\ s = lines' /\ LineText(base[q])
  BY <1>1, <1>2, LineTextStep DEF Base
<1>7. CASE LineText(s) /\ \A q \in Procs : ~StoresLines(q)
  BY <1>3, <1>4, <1>7 DEF LinesInv, Procs
<1>8. ASSUME NEW q \in Procs, StoresLines(q), s = lines', LineText(base[q])
      PROVE  goal'[p] \in Elements(s)
  <2>1. CASE Settled(p)
    BY <1>3, <1>4, <1>5, <1>8, <2>1 DEF LinesInv
  <2>2. CASE StoresLines(p)
    BY <1>4, <1>5, <1>8, <2>2 DEF Procs
  <2>3. QED
    BY <1>4, <2>1, <2>2
<1>9. QED
  BY <1>6, <1>7, <1>8

\* A file that is torn is open, or a writer was cut off.
TornHeld ==
  "lines" \notin raced /\ lines = Torn => CutOff \/ \E q \in Requests : Open(q, LineOps)

\* Only requests write goals.md.
LEMMA RequestsWriteLines ==
  ASSUME IntakeType, NEW p \in Procs, todo[p] # <<>>, Op(p) \in LineOps
  PROVE  p \in Requests
BY DEF IntakeType, TimerType, Procs, Op, LineOps

\* A writer that has the file open goes on with it, or is cut off.
LEMMA HolderStep ==
  ASSUME IntakeType, Step, NEW q \in Requests, stage[q] = "write", todo[q] # <<>>,
         Op(q) \in LineOps, pc[q] \in {"work", "dead"}, ~StoresLines(q)
  PROVE  CutOff' \/ Open(q, LineOps)'
<1>1. ASSUME pc'[q] \in {"work", "dead"}, todo'[q] = todo[q], stage'[q] = stage[q]
      PROVE  CutOff' \/ Open(q, LineOps)'
  BY <1>1 DEF CutOff, Open, At, Op, Procs
<1>2. ASSUME NEW p \in Procs, Others(p), p # q PROVE CutOff' \/ Open(q, LineOps)'
  BY <1>1, <1>2 DEF Others, Procs
<1>3. CASE Rests
  BY <1>1, <1>3 DEF Rests
<1>4. CASE \E p \in Requests : Comes(p) \/ Talks(p)
  <2>1. PICK p \in Requests : Comes(p) \/ Talks(p)
    BY <1>4
  <2>2. Others(p) /\ p # q
    BY <2>1 DEF Comes, Talks, GoesOn
  <2>3. QED
    BY <1>2, <2>2 DEF Procs
<1>5. CASE \E p \in Procs : Reads(p) \/ Opens(p) \/ StoresDrafts(p) \/ StoresLines(p) \/ Signals(p)
  <2>1. PICK p \in Procs : Reads(p) \/ Opens(p) \/ StoresDrafts(p) \/ StoresLines(p) \/ Signals(p)
    BY <1>5
  <2>2. Others(p)
    BY <2>1 DEF Reads, Opens, StoresDrafts, StoresLines, Signals, Completes, GoesOn
  <2>3. ~Reads(q) /\ ~Opens(q)
    BY DEF Reads, Opens
  <2>4. ~StoresDrafts(q)
    BY DEF StoresDrafts, Open, At, DraftOps, LineOps
  <2>5. ~Signals(q)
    <3>1. Signals(q) => todo[q] \in Written
      BY DEF Signals
    <3>2. QED
      BY <3>1, RequestTask DEF TaskFact, Op, LineOps
  <2>6. p # q
    BY <2>1, <2>3, <2>4, <2>5
  <2>7. QED
    BY <1>2, <2>2, <2>6
<1>6. QED
  BY <1>3, <1>4, <1>5 DEF Step

LEMMA NextTornHeld ==
  ASSUME Base, TornHeld, [Next]_vars
  PROVE  TornHeld'
<1>1. IntakeType /\ Step /\ raced \subseteq raced'
  BY NextBase DEF Base
<1>2. SUFFICES ASSUME "lines" \notin raced', lines' = Torn
               PROVE  CutOff' \/ \E q \in Requests : Open(q, LineOps)'
  BY DEF TornHeld
<1>3. \A p \in Procs : ~StoresLines(p)
  BY <1>2, TornFacts DEF StoresLines
<1>4. CASE \E p \in Procs : Opens(p) /\ Op(p) \in LineOps
  <2>1. PICK p \in Procs : Opens(p) /\ Op(p) \in LineOps
    BY <1>4
  <2>2. p \in Requests
    BY <1>1, <2>1, RequestsWriteLines DEF Opens
  <2>3. Open(p, LineOps)'
    BY <2>1 DEF Opens, Open, At, Op
  <2>4. QED
    BY <2>2, <2>3
<1>5. CASE UNCHANGED lines
  <2>1. CutOff \/ \E q \in Requests : Open(q, LineOps)
    BY <1>1, <1>2, <1>5 DEF TornHeld
  <2>2. PICK q \in Procs : /\ stage[q] = "write" /\ todo[q] # <<>> /\ Op(q) \in LineOps
                           /\ pc[q] \in {"work", "dead"}
    BY <2>1 DEF CutOff, Open, At, Procs
  <2>3. q \in Requests
    BY <1>1, <2>2, RequestsWriteLines
  <2>4. QED
    BY <1>1, <1>3, <2>2, <2>3, HolderStep
<1>6. QED
  BY <1>1, <1>3, <1>4, <1>5, LinesStep

\* A goal whose sender was told "Queued" has its line in goals.md, or in the text that a
\* writer who has the file open is about to put back, unless two writers of goals.md
\* met or one was killed with the file open.
THEOREM QueuedGoalsAreWritten == Spec => []QueuedIsWritten
<1>1. Init => Base /\ LinesInv /\ TornHeld
  <2>1. Init => \A p \in Requests : ~Settled(p)
    BY DEF Init, Settled, Procs
  <2>2. Init => TornHeld
    BY DEF Init, TornHeld, Torn
  <2>3. QED
    BY <2>1, <2>2, InitBase DEF LinesInv
<1>2. Base /\ LinesInv /\ TornHeld /\ [Next]_vars => (Base /\ LinesInv /\ TornHeld)'
  BY NextBase, NextLinesInv, NextTornHeld
<1>3. ASSUME Base, LinesInv, TornHeld PROVE QueuedIsWritten
  <2> SUFFICES ASSUME "lines" \notin raced, ~CutOff, NEW p \in Requests, reply[p] = "queued"
               PROVE  \/ goal[p] \in Elements(lines)
                      \/ \E q \in Procs : /\ At(q, "write", LineOps)
                                         /\ goal[p] \in Elements(base[q])
    BY DEF QueuedIsWritten
  <2>1. \A s : LineText(s) => goal[p] \in Elements(s)
    BY <1>3 DEF LinesInv, Settled
  <2>2. CASE lines # Torn
    BY <2>1, <2>2 DEF LineText
  <2>3. CASE lines = Torn
    <3>1. PICK q \in Procs : Open(q, LineOps)
      BY <1>3, <2>3 DEF TornHeld, Procs
    <3>2. QED
      BY <2>1, <3>1 DEF LineText, Open
  <2>4. QED
    BY <2>2, <2>3
<1>4. QED
  BY <1>1, <1>2, <1>3, PTL DEF Spec

-----------------------------------------------------------------------------
(* Nothing is queued without a confirmation *)

\* p does nothing, or its process ends.
Stays(p) ==
  /\ pc'[p] \in {pc[p], "dead"} /\ (pc'[p] # pc[p] => Busy(p))
  /\ kind'[p] = kind[p] /\ goal'[p] = goal[p] /\ todo'[p] = todo[p] /\ stage'[p] = stage[p]
  /\ base'[p] = base[p] /\ reply'[p] = reply[p]

\* What a step does to one request.
LEMMA RequestStep ==
  ASSUME Step, NEW p \in Requests
  PROVE  Comes(p) \/ Talks(p) \/ Reads(p) \/ Opens(p) \/ Completes(p) \/ Stays(p)
<1>1. p \in Procs /\ \A q \in Procs \ {p} : Others(q) => Stays(p)
  BY DEF Others, Stays, Procs
<1>2. Rests => Stays(p)
  BY DEF Rests, Stays
<1>3. CASE \E q \in Requests : Comes(q) \/ Talks(q)
  <2>1. PICK q \in Requests : Comes(q) \/ Talks(q)
    BY <1>3
  <2>2. Others(q) /\ q \in Procs
    BY <2>1 DEF Comes, Talks, GoesOn, Procs
  <2>3. QED
    BY <1>1, <2>1, <2>2
<1>4. CASE \E q \in Procs : Reads(q) \/ Opens(q) \/ StoresDrafts(q) \/ StoresLines(q) \/ Signals(q)
  <2>1. PICK q \in Procs : Reads(q) \/ Opens(q) \/ StoresDrafts(q) \/ StoresLines(q) \/ Signals(q)
    BY <1>4
  <2>2. Others(q) /\ (Reads(q) \/ Opens(q) \/ Completes(q))
    BY <2>1 DEF Reads, Opens, StoresDrafts, StoresLines, Signals, Completes, GoesOn
  <2>3. QED
    BY <1>1, <2>1, <2>2
<1>5. QED
  BY <1>2, <1>3, <1>4 DEF Step

\* A request serves one kind and one goal from its arrival on.
LEMMA KindStep ==
  ASSUME IntakeType, Step, NEW p \in Requests
  PROVE  Comes(p) \/ (kind'[p] = kind[p] /\ goal'[p] = goal[p])
BY RequestStep DEF Talks, Reads, Opens, Completes, GoesOn, Stays

\* A confirmation of g has come; the command asks for its own.
Confirmed(g) ==
  \/ kind[g] = "cli"
  \/ \E p \in Requests : goal[p] = g /\ kind[p] \in {"yes", "confirm"}

\* g was never a draft: its sender is told that it is queued, or nothing.
Undrafted(g) ==
  /\ pc[g] \notin {"new", "agent"} /\ reply[g] \notin {"draft", "blank draft"}
  /\ todo[g] \in {<<>>} \cup Written \cup ToWrite

Free(g) == Confirmed(g) \/ Undrafted(g)

FreeInv ==
  /\ lines # Torn => \A g \in Elements(lines) : Free(g)
  /\ \A p \in Requests :
       pc[p] = "work" /\ todo[p] \in ToWrite =>
         /\ Free(goal[p])
         /\ Op(p) \in LineOps /\ stage[p] # "read" => \A g \in Elements(base[p]) : Free(g)

\* What is confirmed stays confirmed.
LEMMA ConfirmedStep ==
  ASSUME IntakeType, Step, NEW g \in Requests, Confirmed(g)
  PROVE  Confirmed(g)'
<1>1. \A p \in Requests : kind[p] # "none" => kind'[p] = kind[p] /\ goal'[p] = goal[p]
  BY KindStep DEF Comes, IntakeType, RequestType
<1>2. QED
  BY <1>1 DEF Confirmed

\* What may be queued may be queued ever after.
LEMMA FreeStep ==
  ASSUME IntakeType, Step, NEW g \in Requests, Free(g)
  PROVE  Free(g)'
<1>1. CASE Confirmed(g)
  BY <1>1, ConfirmedStep DEF Free
<1>2. CASE Undrafted(g)
  <2>1. ~Comes(g) /\ RequestType(g)
    BY <1>2 DEF Comes, Undrafted, IntakeType
  <2>2. CASE Talks(g)
    <3>1. CASE todo'[g] = todo[g]
      BY <1>2, <2>2, <3>1 DEF Talks, Undrafted, Free
    <3>2. CASE pc[g] = "asking" /\ todo'[g] = <<"queue", "touch">> /\ pc'[g] = "work" /\ reply'[g] = reply[g]
      BY <1>2, <3>2 DEF Undrafted, Free, ToWrite
    <3>3. QED
      BY <1>2, <2>2, <3>1, <3>2 DEF Talks, Undrafted
  <2>3. CASE Reads(g) \/ Opens(g)
    BY <1>2, <2>3 DEF Reads, Opens, Undrafted, Free
  <2>4. CASE Completes(g)
    <3>1. todo[g] # <<>> /\ todo'[g] = Tail(todo[g])
      BY <2>4 DEF Completes
    <3>2. TaskFact(todo[g]) /\ todo[g] \in Written \cup ToWrite /\ Op(g) # "expire"
      BY <1>2, <3>1, RequestTask DEF Undrafted
    <3>3. Op(g) # "put"
      BY <3>2, TaskKinds DEF TaskFact, Op
    <3>4. todo'[g] \in {<<>>} \cup Written \cup ToWrite
      BY <3>1, <3>2 DEF TaskFact, Written
    <3>5. pc'[g] \in {"work", "asking", "listing", "done"} /\ reply'[g] \in {reply[g], "queued"}
      BY <2>4, <3>3 DEF Completes
    <3>6. QED
      BY <1>2, <3>4, <3>5 DEF Undrafted, Free
  <2>5. CASE Stays(g)
    BY <1>2, <2>5 DEF Stays, Undrafted, Free
  <2>6. QED
    BY <2>1, <2>2, <2>3, <2>4, <2>5, RequestStep
<1>3. QED
  BY <1>1, <1>2 DEF Free

\* A line that is about to be written was confirmed, or was never a draft.
LEMMA ToWriteStep ==
  ASSUME IntakeType, IntakeType', FreeInv, Step, NEW p \in Requests, pc'[p] = "work",
         todo'[p] \in ToWrite
  PROVE  Free(goal[p])' /\ goal'[p] \in Requests
<1>1. RequestType(p) /\ RequestType(p)' /\ goal'[p] \in Requests
  BY DEF IntakeType, RequestType
<1>2. CASE Comes(p)
  <2>1. CASE goal'[p] = p /\ todo'[p] = <<"append", "enqueue">> /\ reply'[p] = "none"
    <3>1. Undrafted(p)'
      BY <2>1 DEF Undrafted
    <3>2. QED
      BY <1>1, <2>1, <3>1 DEF Free, Undrafted
  <2>2. CASE kind'[p] \in {"yes", "confirm"}
    BY <1>1, <2>2 DEF Free, Confirmed
  <2>3. QED
    BY <1>2, <2>1, <2>2, TaskKinds DEF Comes
<1>3. CASE Talks(p)
  <2>1. CASE pc[p] = "agent" /\ reply'[p] = reply[p]
    <3>1. goal'[p] = p /\ reply'[p] = "none"
      BY <1>1, <1>3, <2>1 DEF Talks, GoesOn, RequestType
    <3>2. Undrafted(p)'
      BY <3>1 DEF Undrafted
    <3>3. QED
      BY <3>1, <3>2 DEF Free, Undrafted
  <2>2. CASE pc[p] = "asking" /\ kind[p] = "cli"
    BY <1>1, <1>3, <2>2 DEF Talks, GoesOn, RequestType, Free, Confirmed
  <2>3. QED
    BY <1>1, <1>3, <2>1, <2>2 DEF Talks, RequestType
<1>4. CASE Reads(p) \/ Opens(p) \/ Stays(p)
  <2>1. pc[p] = "work" /\ todo[p] \in ToWrite /\ goal'[p] = goal[p]
    BY <1>4 DEF Reads, Opens, Stays, GoesOn
  <2>2. QED
    BY <1>1, <2>1, FreeStep DEF FreeInv, Free, Confirmed, Undrafted
<1>5. CASE Completes(p)
  <2>1. pc[p] = "work" /\ goal'[p] = goal[p] /\ todo[p] # <<>> /\ todo'[p] = Tail(todo[p])
    BY <1>5 DEF Completes, GoesOn
  <2>2. todo[p] \in ToWrite
    BY <2>1, RequestTask DEF TaskFact
  <2>3. QED
    BY <1>1, <2>1, <2>2, FreeStep DEF FreeInv, Free, Confirmed, Undrafted
<1>6. QED
  BY <1>2, <1>3, <1>4, <1>5, RequestStep

\* Only such goals are written.
LEMMA NextFreeInv ==
  ASSUME Base, FreeInv, [Next]_vars
  PROVE  FreeInv'
<1>1. IntakeType /\ IntakeType' /\ Step
  BY NextBase DEF Base
<1>2. (lines # Torn => Elements(lines) \subseteq Requests) /\ \A p \in Procs : Elements(base[p]) \subseteq Requests
  BY <1>1, TornFacts DEF IntakeType, FilesType, ProcsType, Elements
<1>3. \A g \in Requests : Free(g) => Free(g)'
  BY <1>1, FreeStep
<1>4. ASSUME lines' # Torn, NEW g \in Elements(lines') PROVE Free(g)'
  <2>1. CASE UNCHANGED lines
    BY <1>2, <1>3, <1>4, <2>1 DEF FreeInv
  <2>2. ASSUME NEW p \in Procs, Opens(p), Op(p) \in LineOps PROVE FALSE
    BY <1>4, <2>2 DEF Opens, DraftOps, LineOps
  <2>3. ASSUME NEW p \in Procs, StoresLines(p) PROVE Free(g)'
    <3>1. /\ p \in Requests /\ pc[p] = "work" /\ todo[p] # <<>> /\ Op(p) \in LineOps /\ stage[p] # "read"
          /\ goal[p] \in Requests /\ Elements(lines') = Elements(base[p]) \cup {goal[p]}
      BY <2>3 DEF StoresLines, Open, At
    <3>2. todo[p] \in ToWrite
      BY <1>1, <3>1, RequestTask DEF TaskFact, Op
    <3>3. g \in Requests /\ Free(g)
      BY <1>2, <1>4, <3>1, <3>2 DEF FreeInv, Procs
    <3>4. QED
      BY <1>3, <3>3
  <2>4. QED
    BY <1>1, <2>1, <2>2, <2>3, LinesStep
<1>5. ASSUME NEW p \in Requests, pc'[p] = "work", todo'[p] \in ToWrite,
             Head(todo'[p]) \in LineOps,
             stage'[p] # "read", NEW g \in Elements(base'[p])
      PROVE  Free(g)'
  <2>1. ~Comes(p) /\ ~Talks(p) /\ ~Completes(p)
    BY <1>5 DEF Comes, Talks, Completes
  <2>2. CASE Reads(p)
    <3>1. lines # Torn /\ base'[p] = lines
      BY <1>5, <2>2 DEF Reads, Op, DraftOps, LineOps
    <3>2. QED
      BY <1>2, <1>3, <1>5, <3>1 DEF FreeInv
  <2>3. CASE Opens(p) \/ Stays(p)
    <3>1. pc[p] = "work" /\ todo[p] = todo'[p] /\ stage[p] # "read" /\ base'[p] = base[p]
      BY <1>5, <2>3 DEF Opens, Stays
    <3>2. QED
      BY <1>2, <1>3, <1>5, <3>1 DEF FreeInv, Op, Procs
  <2>4. QED
    BY <1>1, <2>1, <2>2, <2>3, RequestStep
<1>6. ASSUME NEW p \in Requests, pc'[p] = "work", todo'[p] \in ToWrite PROVE Free(goal[p])'
  BY <1>1, <1>6, ToWriteStep
<1>7. QED
  BY <1>4, <1>5, <1>6 DEF FreeInv, Op

\* No goal that was scored 3 or more is in goals.md before a confirmation of that
\* very goal has arrived, whatever writers meet, fail or die.
THEOREM NothingQueuedUnconfirmed == Spec => []NothingUnconfirmed
<1>1. Init => Base /\ FreeInv
  <2>1. Init => /\ Elements(lines) = {}
                /\ \A p \in Requests : pc[p] = "new"
    BY DEF Init, Elements, Procs
  <2>2. QED
    BY <2>1, InitBase DEF FreeInv
<1>2. Base /\ FreeInv /\ [Next]_vars => (Base /\ FreeInv)'
  BY NextBase, NextFreeInv
<1>3. Base /\ FreeInv => NothingUnconfirmed
  BY DEF FreeInv, NothingUnconfirmed, Free, Undrafted, Confirmed
<1>4. QED
  BY <1>1, <1>2, <1>3, PTL DEF Spec

-----------------------------------------------------------------------------
(* The running daemon overlooks nothing *)

OverlookedInv ==
  /\ daemon = "loaded" => Requests \subseteq known \cup unseen
  /\ daemon = "up" /\ ~changed /\ server /\ lines # Torn =>
       Elements(lines) \subseteq known \cup unseen
  /\ daemon = "up" /\ ~changed /\ ~server /\ "lines" \notin raced =>
       \A s : LineText(s) => Elements(s) \subseteq known \cup unseen

\* A step that the daemon's watch, its queue and the lines do not notice.
LEMMA UnnoticedStep ==
  ASSUME Base, OverlookedInv, [Next]_vars, UNCHANGED <<server, daemon, changed, lines>>,
         known \cup unseen \subseteq known' \cup unseen'
  PROVE  OverlookedInv'
<1>1. Base' /\ Step /\ raced \subseteq raced'
  BY NextBase
<1>2. ASSUME "lines" \notin raced', NEW s, LineText(s)' PROVE LineText(s)
  <2>1. CASE s = lines'
    <3>1. lines = s /\ base' \in [Procs -> Seq(Requests)] /\ Torn \notin Seq(Requests)
      BY <1>1, <2>1, TornFacts DEF Base, IntakeType, ProcsType
    <3>2. lines # Torn
      BY <1>2, <3>1 DEF LineText
    <3>3. QED
      BY <3>1, <3>2 DEF LineText
  <2>2. CASE s # lines'
    BY <1>1, <1>2, <2>2, LineTextStep DEF Base
  <2>3. QED
    BY <2>1, <2>2
<1>3. QED
  BY <1>1, <1>2 DEF OverlookedInv

\* Every step of the daemon and of the writers keeps the account of what it saw.
LEMMA NextOverlookedInv ==
  ASSUME Base, OverlookedInv, [Next]_vars
  PROVE  OverlookedInv'
<1>1. Base' /\ Step /\ raced \subseteq raced' /\ IntakeType /\ IntakeType'
  BY NextBase DEF Base
<1>2. \A s : (LineText(s) => Elements(s) \subseteq Requests) /\ (LineText(s)' => Elements(s) \subseteq Requests)
  <2>1. \A s \in Seq(Requests) : Elements(s) \subseteq Requests
    BY DEF Elements
  <2>2. \A s : LineText(s) \/ DraftText(s) => s \in Seq(Requests)
    BY <1>1, TextTypes
  <2>3. \A s : LineText(s)' \/ DraftText(s)' => s \in Seq(Requests)
    BY <1>1, TornFacts DEF LineText, DraftText, IntakeType, ProcsType, FilesType
  <2>4. QED
    BY <2>1, <2>2, <2>3
<1>3. \A s : lines' = s /\ lines' # Torn => LineText(s)'
  BY DEF LineText
<1>4. ASSUME daemon' \in {"down", "booting"} PROVE OverlookedInv'
  BY <1>4 DEF OverlookedInv
<1>5. ASSUME NEW p \in Requests, Arrive(p) \/ Serve(p) PROVE OverlookedInv'
  <2>1. daemon' = "down" \/ UNCHANGED <<server, daemon, changed, known, unseen, lines>>
    <3>1. CASE Arrive(p)
      BY <3>1
      DEF Arrive, Sms, Confirm, DashboardIntake, PostGoal, AddGoal, Arrival, host, files, watch
    <3>2. CASE Serve(p)
      BY <3>2 DEF Serve, Agent, ListDrafts, AnswerToAdd, Fails, DaemonEnds, host, files, watch
    <3>3. QED
      BY <1>5, <3>1, <3>2
  <2>2. QED
    BY <1>4, <2>1, UnnoticedStep
<1>6. ASSUME NEW p \in Procs, ReadDrafts(p) \/ ReadLines(p) \/ WriteDrafts(p) \/ Enqueue(p)
      PROVE  OverlookedInv'
  <2>1. UNCHANGED <<server, daemon, changed, unseen, lines>> /\ known \subseteq known'
    BY <1>6 DEF ReadDrafts, ReadLines, WriteDrafts, Enqueue, host, files, watch
  <2>2. QED
    BY <2>1, UnnoticedStep
<1>7. ASSUME NEW p \in Procs, Truncate(p) PROVE OverlookedInv'
  <2>1. UNCHANGED <<server, daemon, known, unseen>>
    BY <1>7 DEF Truncate, host
  <2>2. CASE UNCHANGED <<lines, changed>>
    BY <2>1, <2>2, UnnoticedStep
  <2>3. CASE lines' = Torn /\ changed' = (changed \/ Watched)
    <3>1. ASSUME "lines" \notin raced', NEW s, LineText(s)' PROVE LineText(s)
      <4>1. s # lines'
        BY <1>1, <2>3, <3>1, TornFacts DEF LineText, IntakeType, ProcsType
      <4>2. QED
        BY <1>1, <3>1, <4>1, LineTextStep DEF Base
    <3>2. ~changed' => ~changed
      BY <2>3
    <3>3. QED
      BY <1>1, <2>1, <2>3, <3>1, <3>2 DEF OverlookedInv
  <2>4. QED
    BY <1>7, <2>2, <2>3 DEF Truncate
<1>8. ASSUME NEW p \in Procs, WriteLines(p) PROVE OverlookedInv'
  <2>1. UNCHANGED <<server, daemon, known>> /\ changed' = (changed \/ Watched)
        /\ unseen' = IF Watched THEN unseen \ {goal[p]} ELSE unseen \cup {goal[p]}
    BY <1>8 DEF WriteLines, host
  <2>2. CASE daemon = "up" /\ server
    BY <2>1, <2>2 DEF Watched, OverlookedInv
  <2>3. CASE ~(daemon = "up" /\ server)
    <3>1. unseen' = unseen \cup {goal[p]} /\ (~changed' => ~changed)
      BY <2>1, <2>3 DEF Watched
    <3>2. ASSUME "lines" \notin raced', NEW s, LineText(s)', daemon = "up", ~changed, ~server
          PROVE  Elements(s) \subseteq known \cup unseen'
      <4>1. \A t : LineText(t) => Elements(t) \subseteq known \cup unseen
        BY <1>1, <3>2 DEF OverlookedInv
      <4>2. CASE LineText(s)
        BY <3>1, <4>1, <4>2
      <4>3. ASSUME NEW q \in Procs, StoresLines(q), s = lines', LineText(base[q])
            PROVE  Elements(s) \subseteq known \cup unseen'
        <5>1. q = p
          <6>1. Completes(p)
            BY <1>1, <1>8, CompletesFacts DEF WriteLines, At
          <6>2. Others(q) /\ todo'[p] = Tail(todo[p]) /\ todo[p] # <<>>
                /\ todo[p] \in Tasks \cup {<<"expire">>}
            BY <1>1, <4>3, <6>1 DEF StoresLines, Completes, GoesOn, IntakeType, ProcsType
          <6>3. Tail(todo[p]) # todo[p]
            BY <6>2, TaskFacts DEF TaskFact
          <6>4. QED
            BY <6>2, <6>3 DEF Others
        <5>2. Elements(s) = Elements(base[p]) \cup {goal[p]}
          BY <4>3, <5>1 DEF StoresLines
        <5>3. QED
          BY <3>1, <4>1, <4>3, <5>1, <5>2
      <4>4. QED
        BY <1>1, <3>2, <4>2, <4>3, LineTextStep DEF Base
    <3>3. QED
      BY <1>1, <2>1, <2>3, <3>1, <3>2 DEF OverlookedInv
  <2>4. QED
    BY <2>2, <2>3
<1>9. ASSUME NEW p \in Procs, Touch(p) PROVE OverlookedInv'
  <2>1. UNCHANGED <<server, daemon, known, lines>>
    BY <1>9 DEF Touch, host
  <2>2. CASE daemon = "up" /\ flag
    BY <1>9, <2>1, <2>2 DEF Touch, OverlookedInv
  <2>3. CASE ~(daemon = "up" /\ flag)
    <3>1. unseen' = unseen /\ changed' \in {changed, TRUE}
      BY <1>9, <2>3 DEF Touch
    <3>2. CASE changed' = changed
      BY <2>1, <3>1, <3>2, UnnoticedStep
    <3>3. CASE changed' = TRUE
      BY <2>1, <3>1, <3>3 DEF OverlookedInv
    <3>4. QED
      BY <3>1, <3>2, <3>3
  <2>4. QED
    BY <2>2, <2>3
<1>10. CASE Die
  <2>1. daemon' = "down" \/ UNCHANGED <<server, daemon, changed, known, unseen, lines>>
    BY <1>10 DEF Die, DaemonEnds, host, watch, files
  <2>2. QED
    BY <1>4, <2>1, UnnoticedStep
<1>11. CASE ExpireByTimer
  <2>1. UNCHANGED <<server, daemon, changed, known, unseen, lines>>
    BY <1>11 DEF ExpireByTimer, Expire, watch, files
  <2>2. QED
    BY <2>1, UnnoticedStep
<1>12. CASE Boot
  BY <1>4, <1>12 DEF Boot
<1>13. CASE Load
  BY <1>13 DEF Load, OverlookedInv
<1>14. CASE Watch
  <2>1. Requests \subseteq known' \cup unseen' /\ daemon' = "up"
    BY <1>14 DEF Watch, OverlookedInv, watch
  <2>2. QED
    BY <1>2, <1>3, <2>1 DEF OverlookedInv
<1>15. CASE Reload
  <2>1. UNCHANGED <<daemon, server, lines>> /\ daemon' = "up"
    BY <1>15 DEF Reload, host, files
  <2>2. CASE lines # Torn
    <3>1. Elements(lines) \subseteq known'
      BY <1>15, <2>2 DEF Reload
    <3>2. ASSUME "lines" \notin raced', NEW s, LineText(s)' PROVE s = lines
      BY <1>1, <2>1, <2>2, <3>2 DEF Base, LinesAlone, LineText
    <3>3. QED
      BY <2>1, <3>1, <3>2 DEF OverlookedInv
  <2>3. CASE lines = Torn
    <3>1. ~server => unseen' = Requests
      BY <1>15, <2>3 DEF Reload
    <3>2. QED
      BY <1>2, <2>1, <2>3, <3>1 DEF OverlookedInv
  <2>4. QED
    BY <2>2, <2>3
<1>16. CASE UNCHANGED vars
  <2>1. UNCHANGED <<server, daemon, changed, known, unseen, lines>>
    BY <1>16 DEF vars, host, watch, files
  <2>2. QED
    BY <2>1, UnnoticedStep
<1>17. ASSUME NEW p \in Procs, FileStep(p) PROVE OverlookedInv'
  BY <1>6, <1>7, <1>8, <1>9, <1>17 DEF FileStep
<1>18. QED
  BY <1>5, <1>10, <1>11, <1>12, <1>13, <1>14, <1>15, <1>16, <1>17 DEF Next

\* The running daemon has every line of goals.md in its queue once it has acted on
\* the last change it saw, unless the line was written while it did not look.
THEOREM NothingIsOverlooked == Spec => []NothingOverlooked
<1>1. Init => Base /\ OverlookedInv
  <2>1. ASSUME Init PROVE \A s : LineText(s) => Elements(s) = {}
    <3>1. \A q \in Procs : ~Open(q, LineOps)
      BY <2>1 DEF Init, Open, At
    <3>2. lines = <<>>
      BY <2>1 DEF Init
    <3>3. QED
      BY <3>1, <3>2 DEF LineText, Elements
  <2>2. QED
    BY <2>1, InitBase DEF OverlookedInv, Init, LineText
<1>2. Base /\ OverlookedInv /\ [Next]_vars => (Base /\ OverlookedInv)'
  BY NextBase, NextOverlookedInv
<1>3. Base /\ OverlookedInv => NothingOverlooked
  BY DEF Base, OverlookedInv, NothingOverlooked, LineText
<1>4. QED
  BY <1>1, <1>2, <1>3, PTL DEF Spec

-----------------------------------------------------------------------------
(* A draft does not get lost *)

\* A request has g in hand, or ended with it in hand.
InHand(g) == \E p \in Requests : goal[p] = g /\ todo[p] # <<>>

Stored(g) ==
  \A s, t : LineText(s) /\ DraftText(t) => g \in Elements(s) \cup Elements(t) \cup expired

AccountedInv ==
  raced = {} => \A g \in Requests : reply[g] = "draft" => InHand(g) \/ Stored(g)

\* An operation of a request that is done is one of three.
LEMMA CompletesStep ==
  ASSUME IntakeType, Step, NEW p \in Requests, Completes(p)
  PROVE  StoresDrafts(p) \/ StoresLines(p) \/ Signals(p)
<1>1. todo'[p] # todo[p]
  <2>1. todo'[p] = Tail(todo[p]) /\ todo[p] # <<>> /\ todo[p] \in Tasks \cup {<<"expire">>}
    BY DEF Completes, IntakeType, ProcsType, Procs
  <2>2. QED
    BY <2>1, TaskFacts DEF TaskFact
<1>2. ASSUME NEW q \in Procs, Others(q) PROVE q = p
  BY <1>1, <1>2 DEF Others, Procs
<1>3. \A q \in Procs : ~Reads(q) /\ ~Opens(q)
  BY <1>1, <1>2 DEF Reads, Opens, GoesOn
<1>4. \A q \in Requests : ~Comes(q) /\ ~Talks(q)
  <2>1. ASSUME NEW q \in Requests, Comes(q) \/ Talks(q) PROVE FALSE
    <3>1. q = p
      BY <1>2, <2>1 DEF Comes, Talks, GoesOn, Procs
    <3>2. pc[p] = "work" /\ pc'[p] \in {"work", "done", "asking", "listing"} /\ RequestType(p)
      BY <2>1, <3>1 DEF Completes, IntakeType
    <3>3. QED
      BY <1>1, <2>1, <3>1, <3>2 DEF Comes, Talks
  <2>2. QED
    BY <2>1
<1>5. ~Rests
  BY <1>1 DEF Rests
<1>6. PICK q \in Procs : StoresDrafts(q) \/ StoresLines(q) \/ Signals(q)
  BY <1>3, <1>4, <1>5 DEF Step
<1>7. q = p
  BY <1>2, <1>6 DEF StoresDrafts, StoresLines, Signals, Completes, GoesOn
<1>8. QED
  BY <1>6, <1>7

\* Nobody drops a draft while no two writers meet.
LEMMA NextAccountedInv ==
  ASSUME Base, LinesInv, AccountedInv, [Next]_vars
  PROVE  AccountedInv'
<1>1. Base' /\ IntakeType /\ IntakeType' /\ Step /\ raced \subseteq raced'
  BY NextBase DEF Base
<1>2. SUFFICES ASSUME raced' = {}, NEW g \in Requests, reply'[g] = "draft"
               PROVE  InHand(g)' \/ Stored(g)'
  BY DEF AccountedInv
<1>3. raced = {} /\ "lines" \notin raced' /\ "drafts" \notin raced'
  BY <1>1, <1>2
<1>4. ASSUME NEW s, LineText(s)'
      PROVE  \E r : LineText(r) /\ Elements(r) \subseteq Elements(s)
  BY <1>1, <1>3, <1>4, LineTextStep DEF Base, StoresLines
<1>5. ASSUME NEW t, DraftText(t)'
      PROVE  \/ DraftText(t) /\ \A q \in Procs : ~StoresDrafts(q)
             \/ \E q \in Procs : StoresDrafts(q) /\ t = drafts' /\ DraftText(base[q])
  BY <1>1, <1>3, <1>5, DraftTextStep DEF Base
<1>6. (\A q \in Procs : ~StoresDrafts(q)) => expired \subseteq expired'
  BY <1>1 DEF Step, Comes, Talks, Reads, Opens, StoresLines, Signals, Rests, SameTexts
\* A draft that was put is in the file.
<1>7. ASSUME NEW p \in Requests, Completes(p), Op(p) = "put", goal[p] = g PROVE Stored(g)'
  <2>1. StoresDrafts(p)
    <3>1. ~StoresLines(p)
      BY <1>7 DEF StoresLines, Open, At, LineOps
    <3>2. ~Signals(p)
      <4>1. TaskFact(todo[p]) /\ todo[p] # <<>>
        BY <1>1, <1>7, RequestTask DEF Completes
      <4>2. QED
        BY <1>7, <4>1 DEF Signals, TaskFact, Op
    <3>3. QED
      BY <1>1, <1>7, <3>1, <3>2, CompletesStep
  <2>2. g \in Elements(drafts')
    BY <1>3, <1>7, <2>1 DEF StoresDrafts
  <2>3. ASSUME NEW t, DraftText(t)' PROVE t = drafts'
    BY <1>5, <2>1, <2>3 DEF Procs
  <2>4. QED
    BY <2>2, <2>3 DEF Stored
\* The request that has it in hand goes on, or has written its line or its draft.
<1>8. CASE InHand(g)
  <2>1. PICK p \in Requests : goal[p] = g /\ todo[p] # <<>>
    BY <1>8 DEF InHand
  <2>2. RequestType(p)
    BY <1>1 DEF IntakeType
  <2>3. CASE Completes(p)
    <3>1. CASE Tail(todo[p]) # <<>>
      BY <2>1, <2>3, <3>1 DEF Completes, GoesOn, InHand
    <3>2. CASE Tail(todo[p]) = <<>> /\ Op(p) # "put"
      <4>1. TaskFact(todo[p]) /\ Op(p) # "expire"
        BY <1>1, <2>1, RequestTask
      <4>2. todo[p] \in Written
        BY <3>2, <4>1 DEF TaskFact, Op
      <4>3. Settled(p)
        BY <2>3, <4>2 DEF Settled, Completes
      <4>4. \A s : LineText(s) => g \in Elements(s)
        BY <1>3, <2>1, <4>3 DEF LinesInv
      <4>5. QED
        BY <1>4, <4>4 DEF Stored
    <3>3. CASE Op(p) = "put"
      BY <1>7, <2>1, <2>3, <3>3
    <3>4. QED
      BY <3>1, <3>2, <3>3
  <2>4. CASE ~Completes(p)
    <3>1. todo'[p] = todo[p] /\ goal'[p] = goal[p]
      BY <1>1, <2>1, <2>2, <2>4, RequestStep
      DEF Comes, Talks, Reads, Opens, Stays, GoesOn, RequestType
    <3>2. QED
      BY <2>1, <3>1 DEF InHand
  <2>5. QED
    BY <2>3, <2>4
\* The file that has it keeps it, unless a request takes it in hand or it expires.
<1>9. CASE Stored(g)
  <2>1. CASE \E p \in Requests : Completes(p) /\ Op(p) = "resolve" /\ goal[p] = g
    <3>1. PICK p \in Requests : Completes(p) /\ Op(p) = "resolve" /\ goal[p] = g
      BY <2>1
    <3>2. TaskFact(todo[p]) /\ todo[p] # <<>>
      BY <1>1, <3>1, RequestTask DEF Completes
    <3>3. Tail(todo[p]) # <<>> /\ todo'[p] = Tail(todo[p]) /\ goal'[p] = g
      BY <3>1, <3>2 DEF TaskFact, Op, Completes, GoesOn
    <3>4. QED
      BY <3>3 DEF InHand
  <2>2. CASE \A p \in Requests : ~(Completes(p) /\ Op(p) = "resolve" /\ goal[p] = g)
    <3>1. ASSUME NEW s, NEW t, LineText(s)', DraftText(t)'
          PROVE  g \in Elements(s) \cup Elements(t) \cup expired'
      <4>1. PICK r : LineText(r) /\ Elements(r) \subseteq Elements(s)
        BY <1>4, <3>1
      <4>2. CASE DraftText(t) /\ \A q \in Procs : ~StoresDrafts(q)
        BY <1>6, <1>9, <4>1, <4>2 DEF Stored
      <4>3. ASSUME NEW q \in Procs, StoresDrafts(q), t = drafts', DraftText(base[q])
            PROVE  g \in Elements(s) \cup Elements(t) \cup expired'
        <5>1. Completes(q) /\ Op(q) \in DraftOps /\ pc[q] = "work" /\ expired \subseteq expired'
          BY <1>3, <4>3 DEF StoresDrafts, Open, At
        <5>2. g \in Elements(base[q]) => g \in Elements(t) \cup expired'
          <6>1. CASE Op(q) = "resolve"
            <7>1. q \in Requests
              BY <1>1, <5>1, <6>1, GoalType
            <7>2. goal[q] # g
              BY <2>2, <5>1, <6>1, <7>1
            <7>3. QED
              BY <1>3, <4>3, <6>1, <7>2 DEF StoresDrafts
          <6>2. CASE Op(q) \in {"put", "expire"}
            BY <1>3, <4>3, <6>2 DEF StoresDrafts
          <6>3. QED
            BY <5>1, <6>1, <6>2 DEF DraftOps
        <5>3. g \in Elements(r) \cup Elements(base[q]) \cup expired
          BY <1>9, <4>1, <4>3 DEF Stored
        <5>4. QED
          BY <4>1, <5>1, <5>2, <5>3
      <4>4. QED
        BY <1>5, <3>1, <4>2, <4>3
    <3>2. QED
      BY <3>1 DEF Stored
  <2>3. QED
    BY <2>1, <2>2
<1>10. reply[g] = "draft" \/ (Completes(g) /\ Op(g) = "put" /\ goal[g] = g)
  BY <1>1, <1>2, RequestStep DEF Comes, Talks, Reads, Opens, Completes, Stays
<1>11. QED
  BY <1>3, <1>7, <1>8, <1>9, <1>10 DEF AccountedInv

\* A draft that somebody was shown is still in pending-goals.json, or is queued, or
\* has expired, or is in the hands of a request, unless two writers met.
THEOREM DraftsAreAccountedFor == Spec => []DraftAccountedFor
<1>1. Init => Base /\ LinesInv /\ AccountedInv
  <2>1. Init => \A p \in Requests : ~Settled(p) /\ reply[p] # "draft"
    BY DEF Init, Settled, Procs
  <2>2. QED
    BY <2>1, InitBase DEF LinesInv, AccountedInv
<1>2. Base /\ LinesInv /\ AccountedInv /\ [Next]_vars => (Base /\ LinesInv /\ AccountedInv)'
  BY NextBase, NextLinesInv, NextAccountedInv
<1>3. AccountedInv => DraftAccountedFor
  <2>1. SUFFICES ASSUME AccountedInv, raced = {}, drafts # Torn, lines # Torn,
                        NEW g \in Requests, reply[g] = "draft"
                 PROVE  \/ g \in Elements(drafts) \cup Elements(lines) \cup expired
                        \/ \E p \in Requests : goal[p] = g /\ todo[p] # <<>>
    BY DEF DraftAccountedFor
  <2>2. LineText(lines) /\ DraftText(drafts)
    BY <2>1 DEF LineText, DraftText
  <2>3. QED
    BY <2>1, <2>2 DEF AccountedInv, InHand, Stored
<1>4. QED
  BY <1>1, <1>2, <1>3, PTL DEF Spec

-----------------------------------------------------------------------------
(* A draft is queued at most once *)

\* p may still write the line or the draft of g; it may, and has not to remove it first.
Bringing(p, g) ==
  goal[p] = g /\ (pc[p] = "agent" \/ (pc[p] = "work" /\ todo[p] \notin Written))
Brings(p, g) == Bringing(p, g) /\ (todo[p] = <<>> \/ Op(p) # "resolve")

OnceIn(g, s) == \A i, j \in DOMAIN s : s[i] = g /\ s[j] = g => i = j

OnceInLines(g) == \A s : LineText(s) => OnceIn(g, s)
BringsNew(g) ==
  \A p \in Requests :
    /\ Bringing(p, g) => \A s : LineText(s) => g \notin Elements(s)
    /\ Brings(p, g) => \A t : DraftText(t) => g \notin Elements(t)
NotBoth(g) == \A s, t : LineText(s) /\ DraftText(t) => g \notin Elements(s) \cap Elements(t)
OneBusy(g) ==
  \A p, q \in Requests : Busy(p) /\ Busy(q) /\ goal[p] = g /\ goal[q] = g => p = q
Unheard(g) ==
  pc[g] = "new" =>
    /\ \A s : LineText(s) \/ DraftText(s) => g \notin Elements(s)
    /\ \A p \in Requests : goal[p] # g

OnceOnly(g) == OnceInLines(g) /\ BringsNew(g) /\ NotBoth(g) /\ OneBusy(g) /\ Unheard(g)
OnceInv ==
  raced = {} => \A g \in Requests \ contended : kind[g] # "cli" => OnceOnly(g)

\* A goal that is not in a text is in it once when it has been added.
LEMMA OnceAppended ==
  ASSUME NEW s \in Seq(Requests), NEW x \in Requests, NEW g, OnceIn(g, s),
         x = g => g \notin Elements(s)
  PROVE  OnceIn(g, Append(s, x)) /\ OnceIn(g, <<x>> \o s)
<1>1. \A i \in DOMAIN s : s[i] = g => x # g
  BY DEF Elements
<1>2. OnceIn(g, Append(s, x))
  <2>1. /\ DOMAIN Append(s, x) = 1..(Len(s) + 1) /\ DOMAIN s = 1..Len(s)
        /\ \A i \in 1..Len(s) : Append(s, x)[i] = s[i]
        /\ Append(s, x)[Len(s) + 1] = x
    OBVIOUS
  <2>2. \A i \in 1..(Len(s) + 1) : i \in 1..Len(s) \/ i = Len(s) + 1
    OBVIOUS
  <2>3. QED
    BY <1>1, <2>1, <2>2 DEF OnceIn
<1>3. OnceIn(g, <<x>> \o s)
  <2>1. /\ DOMAIN (<<x>> \o s) = 1..(Len(s) + 1) /\ DOMAIN s = 1..Len(s)
        /\ \A i \in 1..Len(s) : (<<x>> \o s)[i + 1] = s[i]
        /\ (<<x>> \o s)[1] = x
    OBVIOUS
  <2>2. \A i \in 1..(Len(s) + 1) :
          i = 1 \/ (i - 1 \in 1..Len(s) /\ (<<x>> \o s)[i] = s[i - 1])
    BY <2>1
  <2>3. ASSUME NEW i \in 1..(Len(s) + 1), NEW j \in 1..(Len(s) + 1),
               (<<x>> \o s)[i] = g, (<<x>> \o s)[j] = g
        PROVE  i = j
    <3>1. CASE i = 1
      BY <1>1, <2>1, <2>2, <2>3, <3>1
    <3>2. CASE j = 1
      BY <1>1, <2>1, <2>2, <2>3, <3>2
    <3>3. CASE i # 1 /\ j # 1
      <4>1. i - 1 \in DOMAIN s /\ j - 1 \in DOMAIN s /\ s[i - 1] = g /\ s[j - 1] = g
        BY <2>1, <2>2, <2>3, <3>3
      <4>2. i - 1 = j - 1
        BY <4>1 DEF OnceIn
      <4>3. QED
        BY <4>2
    <3>4. QED
      BY <3>1, <3>2, <3>3
  <2>4. QED
    BY <2>1, <2>3 DEF OnceIn
<1>4. QED
  BY <1>2, <1>3

\* While a request comes, nobody stores anything.
LEMMA ComesAlone ==
  ASSUME NEW p \in Requests, Comes(p), NEW q \in Procs
  PROVE  ~StoresLines(q) /\ ~StoresDrafts(q)
<1>1. pc[p] = "new" /\ pc'[p] # "new" /\ p \in Procs
  BY DEF Comes, Procs
<1>2. ASSUME Completes(q) PROVE FALSE
  BY <1>1, <1>2 DEF Completes, GoesOn, Others
<1>3. QED
  BY <1>2 DEF StoresLines, StoresDrafts

\* Who may still write g could before, or has come with it.
LEMMA BringingStep ==
  ASSUME IntakeType, Step, NEW p \in Requests, NEW g \in Requests, kind[g] # "cli",
         Bringing(p, g)'
  PROVE  Bringing(p, g) \/ (Comes(p) /\ goal'[p] = g)
<1>1. goal'[p] = g /\ (pc'[p] = "agent" \/ (pc'[p] = "work" /\ todo'[p] \notin Written))
  BY DEF Bringing
<1>2. RequestType(p)
  BY DEF IntakeType
<1>3. CASE Talks(p)
  BY <1>1, <1>2, <1>3 DEF Talks, GoesOn, Bringing, RequestType
<1>4. CASE Reads(p) \/ Opens(p) \/ Stays(p)
  BY <1>1, <1>4 DEF Reads, Opens, Stays, GoesOn, Bringing
<1>5. CASE Completes(p)
  <2>1. todo[p] # <<>> /\ TaskFact(todo[p]) /\ Tail(todo[p]) # <<>>
    BY <1>1, <1>5, RequestTask DEF Completes
  <2>2. todo[p] \notin Written
    BY <2>1 DEF TaskFact
  <2>3. QED
    BY <1>1, <1>5, <2>2 DEF Completes, GoesOn, Bringing
<1>6. QED
  BY <1>1, <1>3, <1>4, <1>5, RequestStep

\* The same of those that need not remove a draft first: the draft is gone.
LEMMA BringsStep ==
  ASSUME IntakeType, Step, NEW p \in Requests, NEW g \in Requests, kind[g] # "cli",
         Brings(p, g)'
  PROVE  \/ Brings(p, g)
         \/ Comes(p) /\ p = g
         \/ StoresDrafts(p) /\ Op(p) = "resolve" /\ goal[p] = g
<1>1. goal'[p] = g /\ (todo'[p] = <<>> \/ Head(todo'[p]) # "resolve")
  BY DEF Brings, Bringing, Op
<1>2. Bringing(p, g) \/ (Comes(p) /\ goal'[p] = g)
  BY BringingStep DEF Brings
<1>3. CASE Comes(p)
  <2>1. /\ Head(<<"resolve", "queue", "touch">>) = "resolve" /\ Head(<<"resolve", "put">>) = "resolve"
        /\ <<"resolve", "queue", "touch">> # <<>> /\ <<"resolve", "put">> # <<>>
    OBVIOUS
  <2>2. goal'[p] = p
    BY <1>1, <1>3, <2>1, IntakeAssumption DEF Comes
  <2>3. QED
    BY <1>1, <1>3, <2>2
<1>4. CASE Bringing(p, g) /\ ~Comes(p)
  <2>1. CASE Talks(p)
    BY <1>4, <2>1 DEF Talks, Bringing, Brings, IntakeType, RequestType
  <2>2. CASE Reads(p) \/ Opens(p) \/ Stays(p)
    BY <1>1, <1>4, <2>2 DEF Reads, Opens, Stays, Brings, Op
  <2>3. CASE Completes(p)
    <3>1. CASE Op(p) # "resolve"
      BY <1>4, <3>1 DEF Brings
    <3>2. CASE Op(p) = "resolve"
      <4>1. TaskFact(todo[p]) /\ todo[p] # <<>>
        BY <2>3, RequestTask DEF Completes
      <4>2. ~StoresLines(p) /\ ~Signals(p)
        BY <3>2, <4>1 DEF StoresLines, Open, At, LineOps, Signals, TaskFact, Op
      <4>3. StoresDrafts(p)
        BY <2>3, <4>2, CompletesStep
      <4>4. QED
        BY <1>4, <3>2, <4>3 DEF Bringing
    <3>3. QED
      BY <3>1, <3>2
  <2>4. QED
    BY <1>4, <2>1, <2>2, <2>3, RequestStep
<1>5. QED
  BY <1>2, <1>3, <1>4

\* Who stores g was bringing it, and no longer is.
LEMMA StoresFacts ==
  ASSUME IntakeType, NEW q \in Procs, NEW g \in Requests
  PROVE  /\ StoresLines(q) /\ goal[q] = g =>
              q \in Requests /\ Brings(q, g) /\ Bringing(q, g) /\ Busy(q) /\ ~Bringing(q, g)'
         /\ StoresDrafts(q) /\ Op(q) = "put" /\ goal[q] = g =>
              q \in Requests /\ Brings(q, g) /\ Bringing(q, g) /\ Busy(q) /\ ~Bringing(q, g)'
<1>1. ASSUME StoresLines(q), goal[q] = g
      PROVE  q \in Requests /\ Brings(q, g) /\ Bringing(q, g) /\ Busy(q) /\ ~Bringing(q, g)'
  <2>1. /\ q \in Requests /\ pc[q] = "work" /\ todo[q] # <<>> /\ Op(q) \in LineOps /\ Busy(q)
        /\ todo'[q] = Tail(todo[q])
    BY <1>1 DEF StoresLines, Open, At, Completes, GoesOn
  <2>2. TaskFact(todo[q])
    BY <2>1, RequestTask
  <2>3. todo[q] \notin Written /\ todo'[q] \in Written /\ Tail(todo[q]) # <<>> /\ Op(q) # "resolve"
    BY <2>1, <2>2, TaskKinds DEF TaskFact, Op, LineOps
  <2>4. pc'[q] = "work"
    BY <1>1, <2>3 DEF StoresLines, Completes
  <2>5. QED
    BY <1>1, <2>1, <2>3, <2>4 DEF Brings, Bringing
<1>2. ASSUME StoresDrafts(q), Op(q) = "put", goal[q] = g
      PROVE  q \in Requests /\ Brings(q, g) /\ Bringing(q, g) /\ Busy(q) /\ ~Bringing(q, g)'
  <2>1. pc[q] = "work" /\ todo[q] # <<>> /\ Busy(q) /\ Completes(q)
    BY <1>2 DEF StoresDrafts, Open, At, Completes, GoesOn
  <2>2. q \in Requests
    BY <1>2, <2>1, GoalType
  <2>3. TaskFact(todo[q])
    BY <2>1, <2>2, RequestTask
  <2>4. todo[q] \notin Written /\ Tail(todo[q]) = <<>>
    BY <1>2, <2>1, <2>3 DEF TaskFact, Op
  <2>5. pc'[q] \in {"asking", "listing", "done"}
    BY <2>1, <2>2, <2>4 DEF Completes
  <2>6. QED
    BY <1>2, <2>1, <2>2, <2>4, <2>5 DEF Brings, Bringing
<1>3. QED
  BY <1>1, <1>2

\* No step makes a second line, or a second writer, of a goal nobody contends for.
LEMMA NextOnceInv ==
  ASSUME Base, OnceInv, [Next]_vars
  PROVE  OnceInv'
<1>1. /\ Base' /\ IntakeType /\ IntakeType' /\ LinesAlone /\ DraftsAlone /\ Step
      /\ raced \subseteq raced' /\ contended \subseteq contended'
  BY NextBase DEF Base
<1>2. SUFFICES ASSUME raced' = {}, NEW g \in Requests, g \notin contended', kind'[g] # "cli"
               PROVE  OnceOnly(g)'
  BY DEF OnceInv
<1>3. kind[g] # "cli"
  BY <1>1, <1>2, KindStep DEF Comes, IntakeType, RequestType
<1>4. OnceInLines(g) /\ BringsNew(g) /\ NotBoth(g) /\ OneBusy(g) /\ Unheard(g)
  BY <1>1, <1>2, <1>3 DEF OnceInv, OnceOnly
<1>5. "lines" \notin raced' /\ "drafts" \notin raced'
  BY <1>2
\* What the texts are after the step.
<1>6. ASSUME NEW s, LineText(s)'
      PROVE  \/ LineText(s) /\ \A q \in Procs : ~StoresLines(q)
             \/ \E q \in Procs : StoresLines(q) /\ s = lines' /\ LineText(base[q])
  BY <1>1, <1>5, <1>6, LineTextStep
<1>7. ASSUME NEW t, DraftText(t)'
      PROVE  \/ DraftText(t) /\ \A q \in Procs : ~StoresDrafts(q)
             \/ \E q \in Procs : StoresDrafts(q) /\ t = drafts' /\ DraftText(base[q])
  BY <1>1, <1>5, <1>7, DraftTextStep
<1>8. \A q \in Procs : StoresLines(q) => Elements(lines') = Elements(base[q]) \cup {goal[q]}
  BY DEF StoresLines
<1>9. ASSUME NEW q \in Procs, StoresDrafts(q), g \in Elements(drafts')
      PROVE  g \in Elements(base[q]) \/ (Op(q) = "put" /\ goal[q] = g)
  BY <1>5, <1>9 DEF StoresDrafts, Open, At, DraftOps
\* A request that comes with g finds it in a draft, or brings it itself.
<1>10. ASSUME NEW p \in Requests, Comes(p), goal'[p] = g
       PROVE  (p = g /\ pc[g] = "new") \/ (g \in Elements(drafts) /\ DraftText(drafts))
  BY <1>10, IntakeAssumption DEF Comes, DraftText
<1>11. OnceInLines(g)'
  <2>1. SUFFICES ASSUME NEW s, LineText(s)' PROVE OnceIn(g, s)
    BY DEF OnceInLines, OnceIn
  <2>2. CASE LineText(s)
    BY <1>4, <2>2 DEF OnceInLines
  <2>3. ASSUME NEW q \in Procs, StoresLines(q), s = lines', LineText(base[q]) PROVE OnceIn(g, s)
    <3>1. base[q] \in Seq(Requests) /\ goal[q] \in Requests /\ OnceIn(g, base[q])
      BY <1>1, <1>4, <2>3 DEF OnceInLines, StoresLines, IntakeType, ProcsType
    <3>2. goal[q] = g => g \notin Elements(base[q])
      BY <1>1, <1>4, <2>3, StoresFacts DEF BringsNew
    <3>3. OnceIn(g, Append(base[q], goal[q])) /\ OnceIn(g, <<goal[q]>> \o base[q])
      BY <3>1, <3>2, OnceAppended
    <3>4. QED
      BY <2>3, <3>3 DEF StoresLines
  <2>4. QED
    BY <1>6, <2>1, <2>2, <2>3
<1>12. ASSUME NEW p \in Requests, Bringing(p, g)', NEW s, LineText(s)'
       PROVE  g \notin Elements(s)
  <2>1. Bringing(p, g) \/ (Comes(p) /\ goal'[p] = g)
    BY <1>1, <1>3, <1>12, BringingStep
  <2>2. CASE LineText(s)
    <3>1. CASE Bringing(p, g)
      BY <1>4, <2>2, <3>1 DEF BringsNew
    <3>2. CASE Comes(p) /\ goal'[p] = g
      BY <1>4, <1>10, <2>2, <3>2 DEF Unheard, NotBoth
    <3>3. QED
      BY <2>1, <3>1, <3>2
  <2>3. ASSUME NEW q \in Procs, StoresLines(q), s = lines', LineText(base[q])
        PROVE  g \notin Elements(s)
    <3>1. Bringing(p, g) /\ Busy(p)
      BY <2>1, <2>3, ComesAlone DEF Bringing, Busy
    <3>2. g \notin Elements(base[q])
      BY <1>4, <2>3, <3>1 DEF BringsNew
    <3>3. ASSUME goal[q] = g PROVE FALSE
      <4>1. q \in Requests /\ Busy(q) /\ ~Bringing(q, g)'
        BY <1>1, <2>3, <3>3, StoresFacts
      <4>2. q = p
        BY <1>4, <3>1, <3>3, <4>1 DEF OneBusy, Bringing
      <4>3. QED
        BY <1>12, <4>1, <4>2
    <3>4. QED
      BY <1>8, <2>3, <3>2, <3>3
  <2>4. QED
    BY <1>6, <1>12, <2>2, <2>3
<1>13. ASSUME NEW p \in Requests, Brings(p, g)', NEW t, DraftText(t)' PROVE g \notin Elements(t)
  <2>1. \/ Brings(p, g)
        \/ Comes(p) /\ p = g
        \/ StoresDrafts(p) /\ Op(p) = "resolve" /\ goal[p] = g
    BY <1>1, <1>3, <1>13, BringsStep
  <2>2. p \in Procs /\ Bringing(p, g)'
    BY <1>13 DEF Procs, Brings
  <2>3. CASE DraftText(t) /\ \A q \in Procs : ~StoresDrafts(q)
    <3>1. CASE Brings(p, g)
      BY <1>4, <2>3, <3>1 DEF BringsNew
    <3>2. CASE Comes(p) /\ p = g
      BY <1>4, <2>3, <3>2 DEF Unheard, Comes
    <3>3. QED
      BY <2>1, <2>2, <2>3, <3>1, <3>2
  <2>4. ASSUME NEW q \in Procs, StoresDrafts(q), t = drafts', DraftText(base[q])
        PROVE  g \notin Elements(t)
    <3>1. CASE Brings(p, g)
      <4>1. Busy(p) /\ goal[p] = g /\ g \notin Elements(base[q])
        BY <1>4, <2>4, <3>1 DEF BringsNew, Brings, Bringing, Busy
      <4>2. ASSUME Op(q) = "put", goal[q] = g PROVE FALSE
        <5>1. q \in Requests /\ Busy(q) /\ ~Bringing(q, g)'
          BY <1>1, <2>4, <4>2, StoresFacts
        <5>2. q = p
          BY <1>4, <4>1, <4>2, <5>1 DEF OneBusy
        <5>3. QED
          BY <2>2, <5>1, <5>2
      <4>3. QED
        BY <1>9, <2>4, <4>1, <4>2
    <3>2. CASE Comes(p)
      BY <2>4, <3>2, ComesAlone
    <3>3. CASE StoresDrafts(p) /\ Op(p) = "resolve" /\ goal[p] = g
      BY <1>5, <2>4, <3>3 DEF StoresDrafts
    <3>4. QED
      BY <2>1, <3>1, <3>2, <3>3
  <2>5. QED
    BY <1>7, <1>13, <2>3, <2>4
<1>14. BringsNew(g)'
  BY <1>12, <1>13 DEF BringsNew, Elements
<1>15. ASSUME NEW s, NEW t, LineText(s)', DraftText(t)', g \in Elements(s), g \in Elements(t)
       PROVE  FALSE
  <2>1. CASE LineText(s) /\ DraftText(t)
    BY <1>4, <1>15, <2>1 DEF NotBoth
  <2>2. ASSUME NEW q \in Procs, StoresDrafts(q), t = drafts', DraftText(base[q]), LineText(s)
        PROVE  FALSE
    BY <1>1, <1>4, <1>9, <1>15, <2>2, StoresFacts DEF NotBoth, BringsNew
  <2>3. ASSUME NEW q \in Procs, StoresLines(q), s = lines', LineText(base[q]), DraftText(t)
        PROVE  FALSE
    BY <1>1, <1>4, <1>8, <1>15, <2>3, StoresFacts DEF NotBoth, BringsNew
  <2>4. ASSUME NEW q \in Procs, NEW r \in Procs, StoresLines(q), StoresDrafts(r) PROVE FALSE
    <3>1. lines' = lines /\ lines = Torn /\ lines' \in Seq(Requests)
      BY <1>5, <2>4 DEF StoresLines, StoresDrafts
    <3>2. QED
      BY <3>1, TornFacts
  <2>5. QED
    BY <1>6, <1>7, <1>15, <2>1, <2>2, <2>3, <2>4
<1>16. NotBoth(g)'
  BY <1>15 DEF NotBoth, Elements
\* Two requests that have g in hand contend for it.
<1>17. ASSUME NEW p \in Requests, Busy(p)', goal'[p] = g
       PROVE  Comes(p) \/ (Busy(p) /\ goal[p] = g)
  BY <1>1, <1>17, RequestStep
  DEF Talks, Reads, Opens, Completes, GoesOn, Stays, Busy
<1>18. ASSUME NEW p \in Requests, NEW q \in Requests, Comes(p), goal'[p] = g, Busy(q)',
              goal'[q] = g
       PROVE  p = q
  <2>1. ASSUME p # q PROVE FALSE
    <3>1. Busy(q) /\ goal[q] = g
      BY <1>18, <2>1 DEF Comes, Others, Busy, Procs
    <3>2. QED
      BY <1>2, <1>18, <3>1 DEF Comes
  <2>2. QED
    BY <2>1
<1>19. OneBusy(g)'
  BY <1>4, <1>17, <1>18 DEF OneBusy
<1>20. Unheard(g)'
  <2>1. SUFFICES ASSUME pc'[g] = "new"
                 PROVE  /\ \A s : LineText(s)' \/ DraftText(s)' => g \notin Elements(s)
                        /\ \A p \in Requests : goal'[p] # g
    BY DEF Unheard, Elements
  <2>2. pc[g] = "new" /\ ~Comes(g)
    BY <1>1, <2>1, RequestStep DEF Comes, Talks, Reads, Opens, Completes, Stays
  <2>3. /\ \A s : LineText(s) \/ DraftText(s) => g \notin Elements(s)
        /\ \A p \in Requests : goal[p] # g
    BY <1>4, <2>2 DEF Unheard
  <2>4. ASSUME NEW s, LineText(s)' PROVE g \notin Elements(s)
    <3>1. \A q \in Procs : StoresLines(q) => goal[q] # g
      BY <2>3 DEF StoresLines
    <3>2. QED
      BY <1>6, <1>8, <2>3, <2>4, <3>1
  <2>5. ASSUME NEW t, DraftText(t)' PROVE g \notin Elements(t)
    <3>1. \A q \in Procs : StoresDrafts(q) /\ Op(q) = "put" => goal[q] # g
      BY <1>1, <2>3, StoresFacts
    <3>2. QED
      BY <1>7, <1>9, <2>3, <2>5, <3>1
  <2>6. ASSUME NEW p \in Requests, goal'[p] = g PROVE FALSE
    <3>1. Comes(p)
      BY <1>1, <2>3, <2>6, KindStep
    <3>2. QED
      BY <1>10, <2>2, <2>3, <2>6, <3>1
  <2>7. QED
    BY <2>4, <2>5, <2>6
<1>21. QED
  BY <1>11, <1>14, <1>16, <1>19, <1>20 DEF OnceOnly

\* A goal at no two places of a text occurs in it at most once.
LEMMA OnceTimes ==
  ASSUME NEW g, NEW s \in Seq(Requests), OnceIn(g, s)
  PROVE  Times(g, s) <= 1
<1> DEFINE I == { i \in DOMAIN s : s[i] = g }
<1>1. CASE I = {}
  BY <1>1, FS_EmptySet DEF Times
<1>2. CASE I # {}
  <2>1. PICK i : i \in I
    BY <1>2
  <2>2. I = {i}
    BY <2>1 DEF OnceIn
  <2>3. Cardinality(I) = 1
    BY <2>2, FS_Singleton, Zenon
  <2>4. Times(g, s) = Cardinality(I)
    BY DEF Times
  <2>5. QED
    BY <2>3, <2>4
<1>3. QED
  BY <1>1, <1>2

\* A draft is queued at most once, although people repeat themselves and the daemon
\* dies between the two files, unless two requests had it in hand at the same time
\* or two writers met.
THEOREM DraftsAreQueuedOnce == Spec => []QueuedOnce
<1>1. Init => Base /\ OnceInv
  <2>1. SUFFICES ASSUME Init PROVE OnceInv
    BY InitBase
  <2>2. /\ \A p \in Procs : pc[p] = "new" /\ goal[p] = Nobody
        /\ lines = <<>> /\ drafts = <<>> /\ DOMAIN <<>> = {}
    BY <2>1 DEF Init
  <2>3. \A q \in Procs : ~Open(q, LineOps) /\ ~Open(q, DraftOps)
    BY <2>2 DEF Open, At
  <2>4. \A s : LineText(s) \/ DraftText(s) => s = <<>> /\ Elements(s) = {}
    BY <2>2, <2>3 DEF LineText, DraftText, Elements
  <2>5. \A p, g \in Requests : ~Busy(p) /\ goal[p] # g /\ ~Bringing(p, g) /\ ~Brings(p, g)
    BY <2>2, IntakeAssumption DEF Procs, Busy, Bringing, Brings
  <2>6. ASSUME NEW g \in Requests PROVE OnceOnly(g)
    BY <2>2, <2>4, <2>5
    DEF OnceOnly, OnceInLines, OnceIn, BringsNew, NotBoth, OneBusy, Unheard
  <2>7. QED
    BY <2>6 DEF OnceInv
<1>2. Base /\ OnceInv /\ [Next]_vars => (Base /\ OnceInv)'
  BY NextBase, NextOnceInv
<1>3. Base /\ OnceInv => QueuedOnce
  <2>1. SUFFICES ASSUME Base, OnceInv, raced = {}, lines # Torn, NEW g \in Requests \ contended,
                        kind[g] # "cli"
                 PROVE  Times(g, lines) <= 1
    BY DEF QueuedOnce
  <2>2. LineText(lines) /\ lines \in Seq(Requests)
    BY <2>1, TextTypes DEF LineText, Base
  <2>3. OnceIn(g, lines)
    BY <2>1, <2>2 DEF OnceInv, OnceOnly, OnceInLines
  <2>4. QED
    BY <2>2, <2>3, OnceTimes
<1>4. QED
  BY <1>1, <1>2, <1>3, PTL DEF Spec

=============================================================================
