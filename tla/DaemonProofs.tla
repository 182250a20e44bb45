---------------------------- MODULE DaemonProofs ----------------------------
(***************************************************************************)
(* Proofs about Daemon, for any number of workers and goals, any changes   *)
(* of goals.md, signals and pauses.                                        *)
(***************************************************************************)
EXTENDS Daemon, FiniteSetTheorems, TLAPS

-----------------------------------------------------------------------------
(* The inductive invariant *)

\* The wake-up slot holds a worker that waits; those in the list of the mutex
\* are blocked, and each is there once.
WaitersInv ==
  /\ wakeResolver # NoWorker => wpc[wakeResolver] = "waiting"
  /\ \A i \in DOMAIN waiters : wpc[waiters[i]] = "blocked"
  /\ \A i, j \in DOMAIN waiters : waiters[i] = waiters[j] => i = j

\* The flag of the mutex is set while somebody is inside.
MutexInv == OneGoalAtATime /\ \A w \in Workers : InMutex(w) => locked

Holding == {"taken", "blocked", "woken", "attempt", "paused", "ended"}

\* A worker has a goal from the queue to the end of its run, and attempts it
\* only inside the mutex.
HandInv ==
  \A w \in Workers :
    /\ wpc[w] \in Holding => wgoal[w] \in Titles
    /\ wpc[w] \notin Holding => wgoal[w] = NoGoal
    /\ ~InMutex(w) => attempt[w] = 0

\* Goals are in hand or in the queue, once: `running` is what addToQueue sees.
GoalsInv ==
  /\ NoGoalTwice
  /\ \A w \in Workers : wgoal[w] # NoGoal => wgoal[w] \in running
  /\ \A i \in DOMAIN queue : queue[i] \notin running
  /\ \A i, j \in DOMAIN queue : queue[i] = queue[j] => i = j

\* The pause flag is the doing of a worker that still holds the mutex, or was
\* there before any worker took a goal.
PauseInv ==
  pauseFlag /\ ~shuttingDown =>
    \/ \E w \in Workers : wpc[w] = "paused"
    \/ \A w \in Workers : wpc[w] \notin {"taken", "blocked", "woken", "attempt"}

\* The first goal taken is the one the pointer was computed for.
PointerInv ==
  /\ completedCount = 0 =>
       /\ \A w \in Workers : wgoal[w] = NoGoal
       /\ InitialPending # <<>> => queue # <<>> /\ queue[1] = InitialPending[1]
  /\ completedCount = 1 /\ InitialPending # <<>> =>
       \A w \in Workers : wgoal[w] # NoGoal => wgoal[w] = InitialPending[1]
  /\ \A w \in Workers : pointer[w] =>
       /\ wpc[w] \in {"blocked", "woken", "attempt", "ended"}
       /\ wgoal[w] = InitialPending[1] /\ attempt[w] <= 1

IInv == TypeOK /\ WaitersInv /\ MutexInv /\ HandInv /\ GoalsInv /\ PauseInv /\ PointerInv

-----------------------------------------------------------------------------
(* Building blocks *)

\* Waking the worker in the slot keeps the labels labels.
LEMMA WokenType ==
  ASSUME TypeOK, NEW labels \in [Workers -> Labels]
  PROVE  Woken(labels) \in [Workers -> Labels]
BY PoolAssumption DEF TypeOK, Woken, Labels

\* What addToQueue appends are titles.
LEMMA AddToQueueType ==
  ASSUME TypeOK, NEW ts \in Seq(Titles), NEW labels \in [Workers -> Labels],
         AddToQueue(ts, labels)
  PROVE  /\ queue' \in Seq(Titles) /\ wpc' \in [Workers -> Labels]
         /\ wakeResolver' \in Workers \cup {NoWorker}
<1>1. queue \o ts \in Seq(Titles)
  BY DEF TypeOK
<1>2. Woken(labels) \in [Workers -> Labels]
  BY WokenType
<1>3. QED
  BY <1>1, <1>2 DEF TypeOK, AddToQueue

\* A reload brings titles that are neither queued nor in hand, each once.
LEMMA NewGoalsType ==
  ASSUME TypeOK, NEW ts \in NewGoals
  PROVE  /\ ts \in Seq(Titles)
         /\ \A i \in DOMAIN ts : ts[i] \in NotQueued
         /\ \A i, j \in DOMAIN ts : ts[i] = ts[j] => i = j
<1> DEFINE new == Elements(pending) \cap NotQueued
<1>1. IsFiniteSet(new) /\ new \subseteq Titles
  BY QueueAssumption, FS_Subset DEF NotQueued
<1>2. Cardinality(new) \in Nat
  BY <1>1, FS_CardinalityType
<1>3. /\ ts \in [1..Cardinality(new) -> new]
      /\ \A i, j \in DOMAIN ts : i < j => Precedes(ts[i], ts[j])
  BY DEF NewGoals
<1> HIDE DEF new
<1>4. \A i \in DOMAIN ts : ts[i] \in new
  BY <1>3
<1>5. ts \in Seq(Titles)
  BY <1>1, <1>2, <1>3
<1>6. \A t \in Titles : ~Precedes(t, t)
  <2>1. \A k \in DOMAIN pending : k \in 1..k
    BY DEF TypeOK
  <2>2. QED
    BY <2>1 DEF Precedes
<1>7. \A i, j \in DOMAIN ts : ts[i] = ts[j] => i = j
  BY <1>1, <1>2, <1>3, <1>4, <1>6
<1>8. QED
  BY <1>4, <1>5, <1>7 DEF new

\* The list of at most one title that a fix goal or a posted goal gives.
LEMMA OneTitleType ==
  ASSUME NEW t \in Titles
  PROVE  LET ts == IF t \in NotQueued THEN <<t>> ELSE <<>>
         IN  /\ ts \in Seq(Titles)
             /\ \A i \in DOMAIN ts : ts[i] \in NotQueued
             /\ \A i, j \in DOMAIN ts : ts[i] = ts[j] => i = j
OBVIOUS

-----------------------------------------------------------------------------
(* Types *)

\* The initial states satisfy the invariant.
LEMMA InitIInv == Init => IInv
<1> SUFFICES ASSUME Init PROVE IInv
  OBVIOUS
<1>1. TypeOK
  <2>1. /\ wpc \in [Workers -> Labels] /\ wgoal \in [Workers -> Titles \cup {NoGoal}]
        /\ attempt \in [Workers -> 0..3] /\ pointer \in [Workers -> BOOLEAN]
    BY DEF Init, Labels
  <2>2. /\ queue \in Seq(Titles) /\ pending \in Seq(Titles) /\ waiters \in Seq(Workers)
        /\ running \in SUBSET Titles /\ finished \in SUBSET Titles
    BY QueueAssumption DEF Init
  <2>3. /\ server \in BOOLEAN /\ pauseFlag \in BOOLEAN /\ shuttingDown \in BOOLEAN
        /\ locked \in BOOLEAN
    BY DEF Init
  <2>4. QED
    BY <2>1, <2>2, <2>3 DEF Init, TypeOK
<1>2. WaitersInv /\ MutexInv /\ HandInv /\ PauseInv
  BY DEF Init, WaitersInv, MutexInv, OneGoalAtATime, HandInv, PauseInv, InMutex, Holding
<1>3. GoalsInv
  BY QueueAssumption DEF Init, GoalsInv, NoGoalTwice
<1>4. PointerInv
  BY QueueAssumption DEF Init, PointerInv
<1>5. QED
  BY <1>1, <1>2, <1>3, <1>4 DEF IInv

\* Every step keeps the types.
LEMMA NextType ==
  ASSUME TypeOK, HandInv, [Next]_vars
  PROVE  TypeOK'
<1> USE DEF files, pool, mutex, work, proc, hist, Goto
<1>1. ASSUME NEW w \in Workers, WorkerLoop(w) \/ NoGoalLeft(w) \/ WaitTimeout(w)
      PROVE  TypeOK'
  BY <1>1 DEF TypeOK, Labels, WorkerLoop, NoGoalLeft, WaitTimeout
<1>2. ASSUME NEW w \in Workers, TakeGoal(w) PROVE TypeOK'
  <2>1. Head(queue) \in Titles /\ Tail(queue) \in Seq(Titles)
    BY <1>2 DEF TypeOK, TakeGoal
  <2>2. QED
    BY <1>2, <2>1 DEF TypeOK, Labels, TakeGoal
<1>3. ASSUME NEW w \in Workers, GiveBack(w) PROVE TypeOK'
  <2>1. <<wgoal[w]>> \o queue \in Seq(Titles)
    BY <1>3 DEF TypeOK, HandInv, Holding, GiveBack
  <2>2. QED
    BY <1>3, <2>1 DEF TypeOK, Labels, GiveBack
<1>4. ASSUME NEW w \in Workers, BeginGoal(w) \/ Retry(w) PROVE TypeOK'
  <2>1. Append(waiters, w) \in Seq(Workers)
    BY DEF TypeOK
  <2>2. wpc' \in [Workers -> Labels] /\ waiters' \in Seq(Workers) /\ locked' \in BOOLEAN
    BY <1>4, <2>1 DEF TypeOK, Labels, BeginGoal, Retry, Acquire
  <2>3. attempt' \in [Workers -> 0..3]
    BY <1>4 DEF TypeOK, BeginGoal, Retry, Acquire
  <2>4. pointer' \in [Workers -> BOOLEAN]
    <3>1. (completedCount = 1 /\ Resuming) \in BOOLEAN
      OBVIOUS
    <3>2. QED
      BY <1>4, <3>1 DEF TypeOK, BeginGoal, Retry
  <2>5. QED
    BY <1>4, <2>2, <2>3, <2>4 DEF TypeOK, BeginGoal, Retry
<1>5. ASSUME NEW w \in Workers, GoalReturns(w) \/ GoalThrows(w) \/ LeavePause(w)
      PROVE  TypeOK'
  <2>1. CASE GoalReturns(w) \/ LeavePause(w)
    BY <2>1 DEF TypeOK, Labels, GoalReturns, LeavePause
  <2>2. CASE GoalThrows(w)
    <3>1. wpc' \in [Workers -> Labels] /\ pointer' \in [Workers -> BOOLEAN]
      BY <2>2 DEF TypeOK, Labels, GoalThrows
    <3>2. attempt' \in [Workers -> 0..3]
      <4>1. attempt \in [Workers -> 0..3] /\ attempt[w] \in 0..3
        BY DEF TypeOK
      <4>2. attempt[w] < 3 => attempt[w] + 1 \in 0..3
        BY <4>1
      <4>3. QED
        BY <2>2, <4>1, <4>2 DEF GoalThrows
    <3>3. pauseFlag' \in BOOLEAN
      BY <2>2 DEF TypeOK, GoalThrows
    <3>4. QED
      BY <2>2, <3>1, <3>2, <3>3 DEF TypeOK, GoalThrows
  <2>3. QED
    BY <1>5, <2>1, <2>2
<1>6. ASSUME NEW w \in Workers, GoalQueuesFix(w) PROVE TypeOK'
  <2>1. PICK t \in FixTitles :
          AddToQueue(IF t \in NotQueued THEN <<t>> ELSE <<>>, [wpc EXCEPT ![w] = "ended"])
    BY <1>6 DEF GoalQueuesFix
  <2>2. [wpc EXCEPT ![w] = "ended"] \in [Workers -> Labels]
    BY DEF TypeOK, Labels
  <2>3. /\ queue' \in Seq(Titles) /\ wpc' \in [Workers -> Labels]
        /\ wakeResolver' \in Workers \cup {NoWorker}
    BY <2>1, <2>2, QueueAssumption, OneTitleType, AddToQueueType
  <2>4. QED
    BY <1>6, <2>3 DEF TypeOK, GoalQueuesFix
<1>7. ASSUME NEW w \in Workers, EndGoal(w) PROVE TypeOK'
  <2>1. waiters # <<>> => Tail(waiters) \in Seq(Workers) /\ Head(waiters) \in Workers
    BY DEF TypeOK
  <2>2. wgoal[w] \in Titles
    BY <1>7 DEF EndGoal, HandInv, Holding
  <2>3. wpc' \in [Workers -> Labels] /\ waiters' \in Seq(Workers)
    BY <1>7, <2>1 DEF TypeOK, Labels, EndGoal
  <2>4. /\ wgoal' \in [Workers -> Titles \cup {NoGoal}]
        /\ attempt' \in [Workers -> 0..3] /\ pointer' \in [Workers -> BOOLEAN]
    BY <1>7 DEF TypeOK, EndGoal
  <2>5. QED
    BY <1>7, <2>2, <2>3, <2>4 DEF TypeOK, EndGoal
<1>8. ASSUME NEW w \in Workers, Report(w) PROVE TypeOK'
  <2>1. [wpc EXCEPT ![w] = "loop"] \in [Workers -> Labels]
    BY DEF TypeOK, Labels
  <2>2. wpc' \in [Workers -> Labels]
    BY <1>8, <2>1, WokenType DEF Report
  <2>3. QED
    BY <1>8, <2>2 DEF TypeOK, Report
<1>9. CASE Close \/ Signal \/ Unpause \/ UNCHANGED vars
  BY <1>9 DEF TypeOK, Close, Signal, Unpause, vars
<1>10. CASE EditGoals
  <2>1. pending' \in Seq(Titles)
    BY <1>10 DEF TypeOK, EditGoals
  <2>2. QED
    BY <1>10, <2>1 DEF TypeOK, EditGoals
<1>11. CASE Reload
  <2>1. PICK ts \in NewGoals : AddToQueue(ts, wpc)
    BY <1>11 DEF Reload
  <2>2. /\ queue' \in Seq(Titles) /\ wpc' \in [Workers -> Labels]
        /\ wakeResolver' \in Workers \cup {NoWorker}
    BY <2>1, NewGoalsType, AddToQueueType DEF TypeOK
  <2>3. QED
    BY <1>11, <2>2 DEF TypeOK, Reload
<1>12. CASE PostGoal
  <2>1. PICK t \in Titles :
          /\ pending' = <<t>> \o pending
          /\ AddToQueue(IF t \in NotQueued THEN <<t>> ELSE <<>>, wpc)
    BY <1>12 DEF PostGoal
  <2>2. /\ queue' \in Seq(Titles) /\ wpc' \in [Workers -> Labels]
        /\ wakeResolver' \in Workers \cup {NoWorker}
    BY <2>1, OneTitleType, AddToQueueType DEF TypeOK
  <2>3. pending' \in Seq(Titles)
    BY <2>1 DEF TypeOK
  <2>4. QED
    BY <1>12, <2>2, <2>3 DEF TypeOK, PostGoal
<1>13. QED
  BY <1>1, <1>2, <1>3, <1>4, <1>5, <1>6, <1>7, <1>8, <1>9, <1>10, <1>11, <1>12
     DEF Next, DaemonStep, Environment, Worker

-----------------------------------------------------------------------------
(* Waiting *)

\* The labels that wake() leaves: only the waiting worker in the slot moves.
LEMMA WokenLabels ==
  ASSUME TypeOK, WaitersInv, NEW labels \in [Workers -> Labels],
         \A w \in Workers : wpc[w] = "waiting" => labels[w] = "waiting"
  PROVE  \A w \in Workers :
           \/ Woken(labels)[w] = labels[w]
           \/ w = wakeResolver /\ labels[w] = "waiting" /\ Woken(labels)[w] = "loop"
<1>1. wakeResolver \in Workers \cup {NoWorker}
  BY DEF TypeOK
<1>2. QED
  BY <1>1 DEF WaitersInv, Woken

\* Every step leaves the slot with a waiting worker and the list with blocked ones.
LEMMA NextWaiters ==
  ASSUME TypeOK, TypeOK', WaitersInv, [Next]_vars
  PROVE  WaitersInv'
<1> USE DEF files, pool, mutex, work, proc, hist, Goto
<1>0. \A i \in DOMAIN waiters : waiters[i] \in Workers
  BY DEF TypeOK
<1>1. ASSUME NEW w \in Workers, WorkerLoop(w) \/ TakeGoal(w) \/ WaitTimeout(w)
      PROVE  WaitersInv'
  BY <1>0, <1>1 DEF TypeOK, WaitersInv, WorkerLoop, TakeGoal, WaitTimeout
<1>2. ASSUME NEW w \in Workers, NoGoalLeft(w) PROVE WaitersInv'
  BY <1>0, <1>2 DEF TypeOK, WaitersInv, NoGoalLeft
<1>3. ASSUME NEW w \in Workers, GiveBack(w) \/ GoalReturns(w) \/ LeavePause(w)
      PROVE  WaitersInv'
  BY <1>0, <1>3 DEF TypeOK, WaitersInv, GiveBack, GoalReturns, LeavePause
<1>4. ASSUME NEW w \in Workers, GoalThrows(w) PROVE WaitersInv'
  BY <1>0, <1>4 DEF TypeOK, WaitersInv, GoalThrows
<1>5. ASSUME NEW w \in Workers, BeginGoal(w) \/ Retry(w) PROVE WaitersInv'
  <2>1. wpc[w] \in {"taken", "woken"} /\ wakeResolver' = wakeResolver
    BY <1>5 DEF BeginGoal, Retry
  <2>2. CASE locked
    <3>1. waiters' = Append(waiters, w) /\ wpc' = [wpc EXCEPT ![w] = "blocked"]
      BY <1>5, <2>2 DEF BeginGoal, Retry, Acquire
    <3>2. \A i \in DOMAIN waiters : waiters[i] # w
      BY <2>1 DEF WaitersInv
    <3>3. /\ DOMAIN waiters' = 1..(Len(waiters) + 1) /\ Len(waiters) \in Nat
          /\ DOMAIN waiters = 1..Len(waiters)
          /\ waiters'[Len(waiters) + 1] = w
          /\ \A i \in DOMAIN waiters : waiters'[i] = waiters[i]
      BY <3>1 DEF TypeOK
    <3>4. QED
      BY <1>0, <2>1, <3>1, <3>2, <3>3 DEF TypeOK, WaitersInv
  <2>3. CASE ~locked
    <3>1. waiters' = waiters /\ wpc' = [wpc EXCEPT ![w] = "attempt"]
      BY <1>5, <2>3 DEF BeginGoal, Retry, Acquire
    <3>2. QED
      BY <1>0, <2>1, <3>1 DEF TypeOK, WaitersInv
  <2>4. QED
    BY <2>2, <2>3
<1>6. ASSUME NEW w \in Workers, EndGoal(w) PROVE WaitersInv'
  <2>1. CASE waiters = <<>>
    BY <1>6, <2>1 DEF TypeOK, WaitersInv, EndGoal
  <2>2. CASE waiters # <<>>
    <3> DEFINE h == Head(waiters)
    <3>1. /\ h = waiters[1] /\ 1 \in DOMAIN waiters
          /\ DOMAIN Tail(waiters) = 1..(Len(waiters) - 1)
          /\ DOMAIN waiters = 1..Len(waiters) /\ Len(waiters) \in Nat
          /\ \A i \in DOMAIN Tail(waiters) : Tail(waiters)[i] = waiters[i + 1]
      BY <2>2 DEF TypeOK
    <3>2. /\ waiters' = Tail(waiters) /\ wakeResolver' = wakeResolver
          /\ wpc' = [wpc EXCEPT ![w] = "reporting", ![h] = "woken"]
          /\ wpc[w] = "ended"
      BY <1>6, <2>2 DEF EndGoal
    <3> HIDE DEF h
    <3>3. h \in Workers /\ wpc[h] = "blocked" /\ h # w
      BY <1>0, <3>1, <3>2 DEF WaitersInv
    <3>4. \A i \in DOMAIN waiters' : waiters'[i] # h /\ waiters'[i] # w
      BY <3>1, <3>2 DEF WaitersInv
    <3>5. \A i \in DOMAIN waiters' : wpc'[waiters'[i]] = "blocked"
      BY <1>0, <3>1, <3>2, <3>3, <3>4 DEF TypeOK, WaitersInv
    <3>6. \A i, j \in DOMAIN waiters' : waiters'[i] = waiters'[j] => i = j
      BY <3>1, <3>2 DEF WaitersInv
    <3>7. wakeResolver' # NoWorker => wpc'[wakeResolver'] = "waiting"
      BY <3>2, <3>3 DEF TypeOK, WaitersInv
    <3>8. QED
      BY <3>5, <3>6, <3>7 DEF WaitersInv
  <2>3. QED
    BY <2>1, <2>2
<1>7. ASSUME NEW labels \in [Workers -> Labels],
             \A w \in Workers : wpc[w] \in {"waiting", "blocked"} => labels[w] = wpc[w],
             wpc' = Woken(labels), wakeResolver' = NoWorker, waiters' = waiters
      PROVE  WaitersInv'
  BY <1>0, <1>7, WokenLabels DEF WaitersInv
<1>8. ASSUME NEW w \in Workers, Report(w) PROVE WaitersInv'
  <2>1. [wpc EXCEPT ![w] = "loop"] \in [Workers -> Labels]
    BY DEF TypeOK, Labels
  <2>2. QED
    BY <1>7, <1>8, <2>1 DEF TypeOK, Report
<1>9. ASSUME NEW ts, NEW labels \in [Workers -> Labels],
             \A w \in Workers : wpc[w] \in {"waiting", "blocked"} => labels[w] = wpc[w],
             AddToQueue(ts, labels), waiters' = waiters
      PROVE  WaitersInv'
  <2>1. CASE ts = <<>>
    BY <1>0, <1>9, <2>1 DEF TypeOK, WaitersInv, AddToQueue
  <2>2. CASE ts # <<>>
    BY <1>7, <1>9, <2>2 DEF AddToQueue
  <2>3. QED
    BY <2>1, <2>2
<1>10. ASSUME NEW w \in Workers, GoalQueuesFix(w) PROVE WaitersInv'
  <2>1. [wpc EXCEPT ![w] = "ended"] \in [Workers -> Labels]
    BY DEF TypeOK, Labels
  <2>2. QED
    BY <1>9, <1>10, <2>1 DEF TypeOK, GoalQueuesFix
<1>11. CASE Reload \/ PostGoal
  BY <1>9, <1>11 DEF TypeOK, Reload, PostGoal
<1>12. CASE Close \/ EditGoals \/ Signal \/ Unpause \/ UNCHANGED vars
  BY <1>12 DEF WaitersInv, Close, EditGoals, Signal, Unpause, vars
<1>13. QED
  BY <1>1, <1>2, <1>3, <1>4, <1>5, <1>6, <1>8, <1>10, <1>11, <1>12
     DEF Next, DaemonStep, Environment, Worker

-----------------------------------------------------------------------------
(* Labels *)

\* Apart from the worker that acts and the one that a release wakes, a step
\* moves a worker at most from its wait to its loop.
OthersStay(acting) ==
  \A w \in Workers \ acting : wpc'[w] = wpc[w] \/ (wpc[w] = "waiting" /\ wpc'[w] = "loop")

\* Queueing goals moves nobody but a waiting worker.
LEMMA AddToQueueStays ==
  ASSUME TypeOK, WaitersInv, NEW ts, NEW labels \in [Workers -> Labels],
         \A w \in Workers : wpc[w] = "waiting" => labels[w] = "waiting",
         AddToQueue(ts, labels)
  PROVE  \A w \in Workers : wpc'[w] = labels[w] \/ (labels[w] = "waiting" /\ wpc'[w] = "loop")
BY WokenLabels DEF AddToQueue

\* The same for the wake-up that follows a goal, a fix, a reload and a posted goal.
LEMMA QueueSteps ==
  ASSUME TypeOK, WaitersInv
  PROVE  /\ \A w \in Workers : Report(w) => OthersStay({w}) /\ wpc'[w] = "loop"
         /\ \A w \in Workers : GoalQueuesFix(w) => OthersStay({w}) /\ wpc'[w] = "ended"
         /\ Reload \/ PostGoal => OthersStay({})
<1>1. ASSUME NEW w \in Workers, Report(w) PROVE OthersStay({w}) /\ wpc'[w] = "loop"
  <2> DEFINE labels == [wpc EXCEPT ![w] = "loop"]
  <2>1. labels \in [Workers -> Labels]
    BY DEF TypeOK, Labels
  <2>2. \A v \in Workers : labels[v] = IF v = w THEN "loop" ELSE wpc[v]
    BY DEF TypeOK
  <2>3. wpc[w] = "reporting" /\ wpc' = Woken(labels)
    BY <1>1 DEF Report
  <2> HIDE DEF labels
  <2>4. QED
    BY <2>1, <2>2, <2>3, WokenLabels DEF OthersStay
<1>2. ASSUME NEW w \in Workers, GoalQueuesFix(w)
      PROVE  OthersStay({w}) /\ wpc'[w] = "ended"
  <2>1. [wpc EXCEPT ![w] = "ended"] \in [Workers -> Labels]
    BY DEF TypeOK, Labels
  <2>2. QED
    BY <1>2, <2>1, AddToQueueStays DEF TypeOK, GoalQueuesFix, OthersStay
<1>3. Reload \/ PostGoal => OthersStay({})
  BY AddToQueueStays DEF TypeOK, Reload, PostGoal, OthersStay
<1>4. QED
  BY <1>1, <1>2, <1>3

-----------------------------------------------------------------------------
(* The mutex *)

\* Every step keeps the mutex exclusive.
LEMMA NextMutex ==
  ASSUME TypeOK, TypeOK', WaitersInv, MutexInv, [Next]_vars
  PROVE  MutexInv'
<1> USE DEF files, pool, mutex, work, proc, hist, Goto
<1>1. ASSUME locked' = locked, \A w \in Workers : InMutex(w)' => InMutex(w)
      PROVE  MutexInv'
  BY <1>1 DEF MutexInv, OneGoalAtATime
<1>2. ASSUME NEW w \in Workers,
             WorkerLoop(w) \/ TakeGoal(w) \/ NoGoalLeft(w) \/ WaitTimeout(w) \/ GiveBack(w)
      PROVE  MutexInv'
  BY <1>1, <1>2 DEF TypeOK, InMutex, WorkerLoop, TakeGoal, NoGoalLeft, WaitTimeout, GiveBack
<1>3. ASSUME NEW w \in Workers, GoalReturns(w) \/ GoalThrows(w) \/ LeavePause(w)
      PROVE  MutexInv'
  BY <1>1, <1>3 DEF TypeOK, InMutex, GoalReturns, GoalThrows, LeavePause
<1>4. ASSUME NEW w \in Workers, BeginGoal(w) \/ Retry(w) PROVE MutexInv'
  <2>1. CASE locked
    BY <1>1, <1>4, <2>1 DEF TypeOK, InMutex, BeginGoal, Retry, Acquire
  <2>2. CASE ~locked
    <3>1. \A v \in Workers : ~InMutex(v)
      BY <2>2 DEF MutexInv
    <3>2. locked' = TRUE /\ wpc' = [wpc EXCEPT ![w] = "attempt"]
      BY <1>4, <2>2 DEF BeginGoal, Retry, Acquire
    <3>3. QED
      BY <3>1, <3>2 DEF TypeOK, MutexInv, OneGoalAtATime, InMutex
  <2>3. QED
    BY <2>1, <2>2
<1>5. ASSUME NEW w \in Workers, EndGoal(w) PROVE MutexInv'
  <2>1. \A v \in Workers : InMutex(v) => v = w
    BY <1>5 DEF MutexInv, OneGoalAtATime, InMutex, EndGoal
  <2>2. waiters # <<>> => Head(waiters) \in Workers
    BY DEF TypeOK
  <2>3. \A v \in Workers : ~InMutex(v)'
    BY <1>5, <2>1, <2>2 DEF TypeOK, InMutex, EndGoal
  <2>4. QED
    BY <2>3 DEF MutexInv, OneGoalAtATime
<1>6. ASSUME NEW w \in Workers, Report(w) \/ GoalQueuesFix(w) PROVE MutexInv'
  <2>1. locked' = locked /\ OthersStay({w})
    BY <1>6, QueueSteps DEF Report, GoalQueuesFix
  <2>2. InMutex(w)' => InMutex(w)
    BY <1>6, QueueSteps DEF InMutex, GoalQueuesFix
  <2>3. QED
    BY <1>1, <2>1, <2>2 DEF OthersStay, InMutex
<1>7. CASE Reload \/ PostGoal
  <2>1. locked' = locked /\ OthersStay({})
    BY <1>7, QueueSteps DEF Reload, PostGoal
  <2>2. QED
    BY <1>1, <2>1 DEF OthersStay, InMutex
<1>8. CASE Close \/ EditGoals \/ Signal \/ Unpause \/ UNCHANGED vars
  BY <1>1, <1>8 DEF InMutex, Close, EditGoals, Signal, Unpause, vars
<1>9. QED
  BY <1>2, <1>3, <1>4, <1>5, <1>6, <1>7, <1>8
     DEF Next, DaemonStep, Environment, Worker

-----------------------------------------------------------------------------
(* Goals in hand *)

\* Every step keeps the goals in hand.
LEMMA NextHand ==
  ASSUME TypeOK, TypeOK', WaitersInv, HandInv, [Next]_vars
  PROVE  HandInv'
<1> USE DEF files, pool, mutex, work, proc, hist, Goto, Holding, InMutex
<1>1. ASSUME NEW w \in Workers, WorkerLoop(w) \/ NoGoalLeft(w) \/ WaitTimeout(w)
      PROVE  HandInv'
  BY SMTT(30), <1>1 DEF TypeOK, HandInv, WorkerLoop, NoGoalLeft, WaitTimeout
<1>2. ASSUME NEW w \in Workers, TakeGoal(w) PROVE HandInv'
  <2>1. Head(queue) \in Titles
    BY <1>2 DEF TypeOK, TakeGoal
  <2>2. QED
    BY <1>2, <2>1 DEF TypeOK, HandInv, TakeGoal
<1>3. ASSUME NEW w \in Workers, GiveBack(w) PROVE HandInv'
  BY <1>3 DEF TypeOK, HandInv, GiveBack
<1>4. ASSUME NEW w \in Workers, BeginGoal(w) \/ Retry(w) PROVE HandInv'
  <2>1. wgoal' = wgoal /\ wpc[w] \in {"taken", "woken"}
    BY <1>4 DEF BeginGoal, Retry
  <2>2. \/ wpc' = [wpc EXCEPT ![w] = "blocked"] /\ attempt' = attempt
        \/ wpc' = [wpc EXCEPT ![w] = "attempt"] /\ attempt' = [attempt EXCEPT ![w] = 1]
    BY <1>4 DEF BeginGoal, Retry, Acquire
  <2>3. QED
    BY <2>1, <2>2 DEF TypeOK, HandInv
<1>5. ASSUME NEW w \in Workers, GoalReturns(w) \/ LeavePause(w) PROVE HandInv'
  BY <1>5 DEF TypeOK, HandInv, GoalReturns, LeavePause
<1>6. ASSUME NEW w \in Workers, GoalThrows(w) PROVE HandInv'
  BY <1>6 DEF TypeOK, HandInv, GoalThrows
<1>7. ASSUME NEW w \in Workers, EndGoal(w) PROVE HandInv'
  <2>1. CASE waiters = <<>>
    BY <1>7, <2>1 DEF TypeOK, HandInv, EndGoal
  <2>2. CASE waiters # <<>>
    <3>1. PICK h \in Workers : h = Head(waiters)
      BY <2>2 DEF TypeOK
    <3>2. wpc[h] = "blocked"
      BY <2>2, <3>1 DEF TypeOK, WaitersInv
    <3>3. /\ wpc' = [wpc EXCEPT ![w] = "reporting", ![h] = "woken"]
          /\ wgoal' = [wgoal EXCEPT ![w] = NoGoal]
          /\ attempt' = [attempt EXCEPT ![w] = 0]
          /\ wpc[w] = "ended"
      BY <1>7, <2>2, <3>1 DEF EndGoal
    <3>4. QED
      BY <3>2, <3>3 DEF TypeOK, HandInv
  <2>3. QED
    BY <2>1, <2>2
<1>8. ASSUME NEW w \in Workers, Report(w) \/ GoalQueuesFix(w) PROVE HandInv'
  <2>1. OthersStay({w}) /\ wgoal' = wgoal /\ attempt' = attempt
    BY <1>8, QueueSteps DEF Report, GoalQueuesFix
  <2>2. \/ wpc[w] = "reporting" /\ wpc'[w] = "loop"
        \/ wpc[w] = "attempt" /\ wpc'[w] = "ended"
    BY <1>8, QueueSteps DEF Report, GoalQueuesFix
  <2>3. QED
    BY <2>1, <2>2 DEF OthersStay, HandInv
<1>9. CASE Reload \/ PostGoal
  <2>1. OthersStay({}) /\ wgoal' = wgoal /\ attempt' = attempt
    BY <1>9, QueueSteps DEF Reload, PostGoal
  <2>2. QED
    BY <2>1 DEF OthersStay, HandInv
<1>10. CASE Close \/ EditGoals \/ Signal \/ Unpause \/ UNCHANGED vars
  BY <1>10 DEF HandInv, Close, EditGoals, Signal, Unpause, vars
<1>11. QED
  BY <1>1, <1>2, <1>3, <1>4, <1>5, <1>6, <1>7, <1>8, <1>9, <1>10
     DEF Next, DaemonStep, Environment, Worker

-----------------------------------------------------------------------------
(* The queue *)

\* Every step keeps each goal in one place: one worker's hand, or the queue once.
LEMMA NextGoals ==
  ASSUME TypeOK, TypeOK', HandInv, GoalsInv, [Next]_vars
  PROVE  GoalsInv'
<1> USE DEF files, pool, mutex, work, proc, hist
<1>1. ASSUME UNCHANGED <<queue, running, wgoal>> PROVE GoalsInv'
  BY <1>1 DEF GoalsInv, NoGoalTwice
<1>2. ASSUME NEW w \in Workers, TakeGoal(w) PROVE GoalsInv'
  <2>1. /\ queue # <<>> /\ queue' = Tail(queue)
        /\ running' = running \cup {Head(queue)}
        /\ wgoal' = [wgoal EXCEPT ![w] = Head(queue)]
    BY <1>2 DEF TakeGoal
  <2>2. /\ Head(queue) = queue[1] /\ 1 \in DOMAIN queue
        /\ \A i \in DOMAIN queue' : i + 1 \in DOMAIN queue /\ queue'[i] = queue[i + 1]
        /\ \A i \in DOMAIN queue' : i \in Nat /\ i + 1 # 1
    BY <2>1 DEF TypeOK
  <2>3. \A v \in Workers : wgoal[v] # NoGoal => wgoal[v] # Head(queue)
    BY <2>2 DEF GoalsInv
  <2>4. NoGoalTwice' /\ \A v \in Workers : wgoal'[v] # NoGoal => wgoal'[v] \in running'
    BY <2>1, <2>3 DEF TypeOK, GoalsInv, NoGoalTwice
  <2>5. \A i \in DOMAIN queue' : queue'[i] \notin running'
    BY <2>1, <2>2 DEF GoalsInv
  <2>6. \A i, j \in DOMAIN queue' : queue'[i] = queue'[j] => i = j
    BY <2>2 DEF GoalsInv
  <2>7. QED
    BY <2>4, <2>5, <2>6 DEF GoalsInv
<1>3. ASSUME NEW w \in Workers, GiveBack(w) PROVE GoalsInv'
  <2>1. /\ queue' = <<wgoal[w]>> \o queue
        /\ running' = running \ {wgoal[w]}
        /\ wgoal' = [wgoal EXCEPT ![w] = NoGoal]
    BY <1>3 DEF GiveBack
  <2>2. wgoal[w] \in running /\ wgoal[w] \in Titles
    BY <1>3, QueueAssumption DEF GiveBack, HandInv, Holding, GoalsInv
  <2>3. /\ queue'[1] = wgoal[w]
        /\ \A i \in DOMAIN queue' :
              i = 1 \/ (i - 1 \in DOMAIN queue /\ queue'[i] = queue[i - 1])
        /\ \A i, j \in DOMAIN queue' : i - 1 = j - 1 => i = j
    BY SMTT(30), <2>1, <2>2 DEF TypeOK
  <2>4. NoGoalTwice' /\ \A v \in Workers : wgoal'[v] # NoGoal => wgoal'[v] \in running'
    BY <2>1, <2>2, QueueAssumption DEF TypeOK, GoalsInv, NoGoalTwice
  <2>5. \A i \in DOMAIN queue' : queue'[i] \notin running'
    BY <2>1, <2>3 DEF GoalsInv
  <2>6. \A i, j \in DOMAIN queue' : queue'[i] = queue'[j] => i = j
    BY <2>2, <2>3 DEF GoalsInv
  <2>7. QED
    BY <2>4, <2>5, <2>6 DEF GoalsInv
<1>4. ASSUME NEW w \in Workers, EndGoal(w) PROVE GoalsInv'
  <2>1. /\ queue' = queue /\ running' = running \ {wgoal[w]}
        /\ wgoal' = [wgoal EXCEPT ![w] = NoGoal]
    BY <1>4 DEF EndGoal
  <2>2. wgoal[w] # NoGoal
    BY <1>4, QueueAssumption DEF EndGoal, HandInv, Holding
  <2>3. QED
    BY <2>1, <2>2 DEF TypeOK, GoalsInv, NoGoalTwice
<1>5. ASSUME NEW ts \in Seq(Titles), queue' = queue \o ts, running' = running, wgoal' = wgoal,
             \A i \in DOMAIN ts : ts[i] \in NotQueued,
             \A i, j \in DOMAIN ts : ts[i] = ts[j] => i = j
      PROVE  GoalsInv'
  <2>1. /\ DOMAIN queue = 1..Len(queue) /\ DOMAIN ts = 1..Len(ts)
        /\ Len(queue) \in Nat /\ Len(ts) \in Nat
        /\ DOMAIN queue' = 1..(Len(queue) + Len(ts))
        /\ \A i \in DOMAIN queue' :
             queue'[i] = IF i \in DOMAIN queue THEN queue[i] ELSE ts[i - Len(queue)]
    BY <1>5 DEF TypeOK
  <2>2. \A i \in DOMAIN queue' : i \notin DOMAIN queue => i - Len(queue) \in DOMAIN ts
    BY <2>1
  <2>3. \A k \in DOMAIN ts : ts[k] \notin running /\ \A i \in DOMAIN queue : queue[i] # ts[k]
    BY <1>5 DEF NotQueued, Elements
  <2>4. \A i \in DOMAIN queue' : queue'[i] \notin running'
    BY <1>5, <2>1, <2>2, <2>3 DEF GoalsInv
  <2>5. ASSUME NEW i \in DOMAIN queue', NEW j \in DOMAIN queue', queue'[i] = queue'[j]
        PROVE  i = j
    <3>1. CASE i \in DOMAIN queue /\ j \in DOMAIN queue
      BY <2>1, <2>5, <3>1 DEF GoalsInv
    <3>2. CASE i \notin DOMAIN queue /\ j \notin DOMAIN queue
      <4>1. i - Len(queue) = j - Len(queue)
        BY <1>5, <2>1, <2>2, <2>5, <3>2
      <4>2. QED
        BY <2>1, <4>1
    <3>3. CASE (i \in DOMAIN queue) # (j \in DOMAIN queue)
      BY <2>1, <2>2, <2>3, <2>5, <3>3
    <3>4. QED
      BY <3>1, <3>2, <3>3
  <2>6. QED
    BY <1>5, <2>4, <2>5 DEF GoalsInv, NoGoalTwice
<1>6. ASSUME NEW w \in Workers, GoalQueuesFix(w) PROVE GoalsInv'
  <2>1. PICK t \in Titles : queue' = queue \o (IF t \in NotQueued THEN <<t>> ELSE <<>>)
    BY <1>6, QueueAssumption DEF GoalQueuesFix, AddToQueue
  <2>2. QED
    BY <1>5, <1>6, <2>1, OneTitleType DEF GoalQueuesFix
<1>7. CASE PostGoal
  <2>1. PICK t \in Titles : queue' = queue \o (IF t \in NotQueued THEN <<t>> ELSE <<>>)
    BY <1>7 DEF PostGoal, AddToQueue
  <2>2. QED
    BY <1>5, <1>7, <2>1, OneTitleType DEF PostGoal
<1>8. CASE Reload
  <2>1. PICK ts \in NewGoals : queue' = queue \o ts
    BY <1>8 DEF Reload, AddToQueue
  <2>2. QED
    BY <1>5, <1>8, <2>1, NewGoalsType DEF Reload
<1>9. ASSUME NEW w \in Workers,
             \/ WorkerLoop(w) \/ NoGoalLeft(w) \/ WaitTimeout(w) \/ BeginGoal(w)
             \/ Retry(w) \/ GoalReturns(w) \/ GoalThrows(w) \/ LeavePause(w) \/ Report(w)
      PROVE  GoalsInv'
  BY <1>1, <1>9
     DEF WorkerLoop, NoGoalLeft, WaitTimeout, BeginGoal, Retry, GoalReturns, GoalThrows,
         LeavePause, Report
<1>10. CASE Close \/ EditGoals \/ Signal \/ Unpause \/ UNCHANGED vars
  BY <1>1, <1>10 DEF Close, EditGoals, Signal, Unpause, vars
<1>11. QED
  BY <1>2, <1>3, <1>4, <1>6, <1>7, <1>8, <1>9, <1>10
     DEF Next, DaemonStep, Environment, Worker

-----------------------------------------------------------------------------
(* The pause *)

\* Every step keeps the pause: the flag appears only with a worker that waits in
\* the mutex, and while it stands no worker gets as far as a goal.
LEMMA NextPause ==
  ASSUME TypeOK, TypeOK', WaitersInv, PauseInv, [Next]_vars
  PROVE  PauseInv'
<1> USE DEF files, pool, mutex, work, proc, hist, Goto
<1> DEFINE Past == {"taken", "blocked", "woken", "attempt"}
<1>1. ASSUME pauseFlag' => pauseFlag, shuttingDown => shuttingDown',
             \A w \in Workers : wpc[w] = "paused" =>
                wpc'[w] = "paused" \/ ~pauseFlag \/ shuttingDown,
             \A w \in Workers : wpc'[w] \in Past => wpc[w] \in Past
      PROVE  PauseInv'
  BY <1>1 DEF PauseInv
<1>2. ASSUME NEW w \in Workers,
             WorkerLoop(w) \/ TakeGoal(w) \/ NoGoalLeft(w) \/ WaitTimeout(w)
      PROVE  PauseInv'
  BY <1>2 DEF TypeOK, PauseInv, WorkerLoop, TakeGoal, NoGoalLeft, WaitTimeout
<1>3. ASSUME NEW w \in Workers, GiveBack(w) \/ GoalReturns(w) \/ LeavePause(w)
      PROVE  PauseInv'
  BY <1>1, <1>3 DEF TypeOK, GiveBack, GoalReturns, LeavePause
<1>4. ASSUME NEW w \in Workers, BeginGoal(w) \/ Retry(w) PROVE PauseInv'
  <2>1. wpc[w] \in {"taken", "woken"} /\ UNCHANGED <<pauseFlag, shuttingDown>>
    BY <1>4 DEF BeginGoal, Retry
  <2>2. wpc' = [wpc EXCEPT ![w] = "blocked"] \/ wpc' = [wpc EXCEPT ![w] = "attempt"]
    BY <1>4 DEF BeginGoal, Retry, Acquire
  <2>3. QED
    BY <1>1, <2>1, <2>2 DEF TypeOK
<1>5. ASSUME NEW w \in Workers, GoalThrows(w) PROVE PauseInv'
  <2>1. CASE UNCHANGED <<wpc, pauseFlag, shuttingDown>>
    BY <1>1, <2>1
  <2>2. CASE wpc' = [wpc EXCEPT ![w] = "paused"]
    BY <2>2 DEF TypeOK, PauseInv
  <2>3. QED
    BY <1>5, <2>1, <2>2 DEF GoalThrows
<1>6. ASSUME NEW w \in Workers, EndGoal(w) PROVE PauseInv'
  <2>1. CASE waiters = <<>>
    BY <1>1, <1>6, <2>1 DEF TypeOK, EndGoal
  <2>2. CASE waiters # <<>>
    <3>1. PICK h \in Workers : h = Head(waiters)
      BY <2>2 DEF TypeOK
    <3>2. wpc[h] = "blocked"
      BY <2>2, <3>1 DEF TypeOK, WaitersInv
    <3>3. /\ wpc' = [wpc EXCEPT ![w] = "reporting", ![h] = "woken"]
          /\ wpc[w] = "ended" /\ UNCHANGED <<pauseFlag, shuttingDown>>
      BY <1>6, <2>2, <3>1 DEF EndGoal
    <3>4. QED
      BY <1>1, <3>2, <3>3 DEF TypeOK
  <2>3. QED
    BY <2>1, <2>2
<1>7. ASSUME NEW w \in Workers, Report(w) \/ GoalQueuesFix(w) PROVE PauseInv'
  <2>1. OthersStay({w}) /\ UNCHANGED <<pauseFlag, shuttingDown>>
    BY <1>7, QueueSteps DEF Report, GoalQueuesFix
  <2>2. wpc[w] \in {"reporting", "attempt"} /\ wpc'[w] \in {"loop", "ended"}
    BY <1>7, QueueSteps DEF Report, GoalQueuesFix
  <2>3. QED
    BY <1>1, <2>1, <2>2 DEF OthersStay
<1>8. CASE Reload \/ PostGoal
  <2>1. OthersStay({}) /\ UNCHANGED <<pauseFlag, shuttingDown>>
    BY <1>8, QueueSteps DEF Reload, PostGoal
  <2>2. QED
    BY <1>1, <2>1 DEF OthersStay
<1>9. CASE Close \/ EditGoals \/ Signal \/ Unpause \/ UNCHANGED vars
  BY <1>9 DEF PauseInv, Close, EditGoals, Signal, Unpause, vars
<1>10. QED
  BY <1>2, <1>3, <1>4, <1>5, <1>6, <1>7, <1>8, <1>9
     DEF Next, DaemonStep, Environment, Worker

-----------------------------------------------------------------------------
(* The resume pointer *)

\* Every step keeps the pointer with the goal it was computed for.
LEMMA NextPointer ==
  ASSUME TypeOK, TypeOK', WaitersInv, HandInv, PointerInv, [Next]_vars
  PROVE  PointerInv'
<1> USE DEF files, pool, mutex, work, proc, hist, Goto
<1> DEFINE PointerFits(w) ==
             /\ wpc[w] \in {"blocked", "woken", "attempt", "ended"}
             /\ wgoal[w] = InitialPending[1] /\ attempt[w] <= 1
<1> DEFINE Taken ==
             /\ completedCount = 0 =>
                  /\ \A w \in Workers : wgoal[w] = NoGoal
                  /\ InitialPending # <<>> => queue # <<>> /\ queue[1] = InitialPending[1]
             /\ completedCount = 1 /\ InitialPending # <<>> =>
                  \A w \in Workers : wgoal[w] # NoGoal => wgoal[w] = InitialPending[1]
<1>1. Taken /\ \A w \in Workers : pointer[w] => PointerFits(w)
  BY DEF PointerInv
<1>2. ASSUME Taken', \A w \in Workers : pointer'[w] => PointerFits(w)'
      PROVE  PointerInv'
  BY <1>2 DEF PointerInv
<1>3. ASSUME UNCHANGED <<completedCount, wgoal, queue>> PROVE Taken'
  BY <1>1, <1>3
<1>4. ASSUME NEW w \in Workers,
             \/ WorkerLoop(w) \/ NoGoalLeft(w) \/ WaitTimeout(w)
             \/ GoalReturns(w) \/ LeavePause(w)
      PROVE  PointerInv'
  <2>1. Taken'
    BY <1>3, <1>4 DEF WorkerLoop, NoGoalLeft, WaitTimeout, GoalReturns, LeavePause
  <2>2. \A v \in Workers : pointer'[v] => PointerFits(v)'
    BY <1>1, <1>4 DEF TypeOK, WorkerLoop, NoGoalLeft, WaitTimeout, GoalReturns, LeavePause
  <2>3. QED
    BY <1>2, <2>1, <2>2
<1>5. ASSUME NEW w \in Workers, TakeGoal(w) PROVE PointerInv'
  <2>1. /\ wpc[w] = "gate" /\ wpc' = [wpc EXCEPT ![w] = "taken"]
        /\ completedCount' = completedCount + 1
        /\ wgoal' = [wgoal EXCEPT ![w] = queue[1]]
        /\ UNCHANGED <<attempt, pointer>>
    BY <1>5 DEF TypeOK, TakeGoal
  <2>2. completedCount \in Nat
    BY DEF TypeOK
  <2>3. Taken'
    BY <1>1, <2>1, <2>2 DEF TypeOK
  <2>4. \A v \in Workers : pointer'[v] => PointerFits(v)'
    BY <1>1, <2>1 DEF TypeOK
  <2>5. QED
    BY <1>2, <2>3, <2>4
<1>6. ASSUME NEW w \in Workers, GiveBack(w) PROVE PointerInv'
  <2>1. /\ wpc[w] = "taken" /\ wpc' = [wpc EXCEPT ![w] = "done"]
        /\ wgoal' = [wgoal EXCEPT ![w] = NoGoal]
        /\ UNCHANGED <<completedCount, attempt, pointer>>
    BY <1>6 DEF GiveBack
  <2>2. wgoal[w] # NoGoal
    BY <2>1, QueueAssumption DEF HandInv, Holding
  <2>3. Taken'
    BY <1>1, <2>1, <2>2 DEF TypeOK
  <2>4. \A v \in Workers : pointer'[v] => PointerFits(v)'
    BY <1>1, <2>1 DEF TypeOK
  <2>5. QED
    BY <1>2, <2>3, <2>4
<1>7. ASSUME NEW w \in Workers, BeginGoal(w) \/ Retry(w) PROVE PointerInv'
  <2>1. Taken'
    BY <1>3, <1>7 DEF BeginGoal, Retry
  <2>2. /\ \/ wpc' = [wpc EXCEPT ![w] = "blocked"] /\ attempt' = attempt
           \/ wpc' = [wpc EXCEPT ![w] = "attempt"] /\ attempt' = [attempt EXCEPT ![w] = 1]
        /\ wgoal' = wgoal
    BY <1>7 DEF BeginGoal, Retry, Acquire
  <2>3. attempt[w] = 0 /\ wgoal[w] # NoGoal
    BY <1>7, QueueAssumption DEF BeginGoal, Retry, HandInv, InMutex, Holding
  <2>4. pointer'[w] => wgoal[w] = InitialPending[1]
    <3>1. CASE BeginGoal(w)
      <4>1. pointer'[w] => completedCount = 1 /\ Resuming
        BY <3>1 DEF TypeOK, BeginGoal
      <4>2. QED
        BY <1>1, <2>3, <4>1, PoolAssumption
    <3>2. CASE Retry(w)
      BY <1>1, <3>2 DEF Retry
    <3>3. QED
      BY <1>7, <3>1, <3>2
  <2>5. \A v \in Workers \ {w} : pointer'[v] = pointer[v]
    BY <1>7 DEF TypeOK, BeginGoal, Retry
  <2>6. \A v \in Workers : pointer'[v] => PointerFits(v)'
    BY <1>1, <2>2, <2>3, <2>4, <2>5 DEF TypeOK
  <2>7. QED
    BY <1>2, <2>1, <2>6
<1>8. ASSUME NEW w \in Workers, GoalThrows(w) PROVE PointerInv'
  <2>1. Taken'
    BY <1>3, <1>8 DEF GoalThrows
  <2>2. ~pointer'[w]
    BY <1>8 DEF TypeOK, GoalThrows
  <2>3. \A v \in Workers \ {w} :
          /\ pointer'[v] = pointer[v] /\ wpc'[v] = wpc[v]
          /\ wgoal'[v] = wgoal[v] /\ attempt'[v] = attempt[v]
    BY <1>8 DEF TypeOK, GoalThrows
  <2>4. QED
    BY <1>1, <1>2, <2>1, <2>2, <2>3
<1>9. ASSUME NEW w \in Workers, EndGoal(w) PROVE PointerInv'
  <2>1. Taken'
    BY <1>1, <1>9 DEF TypeOK, EndGoal
  <2>2. /\ pointer' = [pointer EXCEPT ![w] = FALSE]
        /\ wgoal' = [wgoal EXCEPT ![w] = NoGoal]
        /\ attempt' = [attempt EXCEPT ![w] = 0]
    BY <1>9 DEF EndGoal
  <2>3. \A v \in Workers \ {w} : wpc'[v] = wpc[v] \/ (wpc[v] = "blocked" /\ wpc'[v] = "woken")
    <3>1. CASE waiters = <<>>
      BY <1>9, <3>1 DEF TypeOK, EndGoal
    <3>2. CASE waiters # <<>>
      <4>1. PICK h \in Workers : h = Head(waiters)
        BY <3>2 DEF TypeOK
      <4>2. wpc[h] = "blocked"
        BY <3>2, <4>1 DEF TypeOK, WaitersInv
      <4>3. wpc' = [wpc EXCEPT ![w] = "reporting", ![h] = "woken"]
        BY <1>9, <3>2, <4>1 DEF EndGoal
      <4>4. QED
        BY <4>2, <4>3 DEF TypeOK
    <3>3. QED
      BY <3>1, <3>2
  <2>4. \A v \in Workers : pointer'[v] => PointerFits(v)'
    BY <1>1, <2>2, <2>3 DEF TypeOK
  <2>5. QED
    BY <1>2, <2>1, <2>4
<1>10. ASSUME NEW t, queue' = queue \o t, NEW acting \in SUBSET Workers, OthersStay(acting),
              \A v \in acting : pointer[v] => wpc'[v] = "ended",
              UNCHANGED <<completedCount, wgoal, attempt, pointer>>, t \in Seq(Titles)
       PROVE  PointerInv'
  <2>1. queue # <<>> => queue' # <<>> /\ queue'[1] = queue[1]
    BY <1>10 DEF TypeOK
  <2>2. Taken'
    BY <1>1, <1>10, <2>1
  <2>3. \A v \in Workers : pointer'[v] => PointerFits(v)'
    BY <1>1, <1>10 DEF OthersStay
  <2>4. QED
    BY <1>2, <2>2, <2>3
<1>11. ASSUME NEW w \in Workers, GoalQueuesFix(w) PROVE PointerInv'
  <2>1. PICK t \in Titles : queue' = queue \o (IF t \in NotQueued THEN <<t>> ELSE <<>>)
    BY <1>11, QueueAssumption DEF GoalQueuesFix, AddToQueue
  <2>2. OthersStay({w}) /\ wpc'[w] = "ended"
    BY <1>11, QueueSteps
  <2>3. QED
    BY ZenonT(60), <1>10, <1>11, <2>1, <2>2, OneTitleType DEF GoalQueuesFix
<1>12. CASE PostGoal
  <2>1. PICK t \in Titles : queue' = queue \o (IF t \in NotQueued THEN <<t>> ELSE <<>>)
    BY <1>12 DEF PostGoal, AddToQueue
  <2>2. QED
    BY <1>10, <1>12, <2>1, OneTitleType, QueueSteps DEF PostGoal
<1>13. CASE Reload
  <2>1. PICK ts \in NewGoals : queue' = queue \o ts
    BY <1>13 DEF Reload, AddToQueue
  <2>2. QED
    BY <1>10, <1>13, <2>1, NewGoalsType, QueueSteps DEF Reload
<1>14. ASSUME NEW w \in Workers, Report(w) PROVE PointerInv'
  <2>1. Taken'
    BY <1>3, <1>14 DEF Report
  <2>2. ~pointer[w] /\ OthersStay({w}) /\ UNCHANGED <<wgoal, attempt, pointer>>
    BY <1>1, <1>14, QueueSteps DEF Report
  <2>3. \A v \in Workers : pointer'[v] => PointerFits(v)'
    BY <1>1, <2>2 DEF OthersStay
  <2>4. QED
    BY <1>2, <2>1, <2>3
<1>15. CASE Close \/ EditGoals \/ Signal \/ Unpause \/ UNCHANGED vars
  BY <1>15 DEF PointerInv, Close, EditGoals, Signal, Unpause, vars
<1>16. QED
  BY <1>4, <1>5, <1>6, <1>7, <1>8, <1>9, <1>11, <1>12, <1>13, <1>14, <1>15
     DEF Next, DaemonStep, Environment, Worker

-----------------------------------------------------------------------------
(* The theorems *)

\* The invariant is inductive.
LEMMA NextIInv == IInv /\ [Next]_vars => IInv'
<1> SUFFICES ASSUME IInv, [Next]_vars PROVE IInv'
  OBVIOUS
<1>1. TypeOK'
  BY NextType DEF IInv
<1>2. WaitersInv' /\ MutexInv' /\ HandInv'
  BY <1>1, NextWaiters, NextMutex, NextHand DEF IInv
<1>3. GoalsInv' /\ PauseInv' /\ PointerInv'
  BY <1>1, NextGoals, NextPause, NextPointer DEF IInv
<1>4. QED
  BY <1>1, <1>2, <1>3 DEF IInv

\* It holds in every state of the daemon.
THEOREM IInvInvariant == Spec => []IInv
BY InitIInv, NextIInv, PTL DEF Spec

\* Every variable of the worker pool keeps its type.
THEOREM DaemonTyping == Spec => []TypeOK
<1>1. IInv => TypeOK
  BY DEF IInv
<1>2. QED
  BY <1>1, IInvInvariant, PTL

\* workspaceMutex works for any number of workers: one goal at a time.
THEOREM MutualExclusion == Spec => []OneGoalAtATime
<1>1. IInv => OneGoalAtATime
  BY DEF IInv, MutexInv
<1>2. QED
  BY <1>1, IInvInvariant, PTL

\* No reload, posted goal, fix or shutdown ever gives a goal to two workers.
THEOREM GoalsTakenOnce == Spec => []NoGoalTwice
<1>1. IInv => NoGoalTwice
  BY DEF IInv, GoalsInv
<1>2. QED
  BY <1>1, IInvInvariant, PTL

\* A pause stops every worker, because its writer keeps the mutex.
THEOREM PauseStopsAll == Spec => []PausedMeansIdle
<1>1. IInv => PausedMeansIdle
  BY DEF IInv, PauseInv, PausedMeansIdle, MutexInv, OneGoalAtATime, InMutex
<1>2. QED
  BY <1>1, IInvInvariant, PTL

\* The resume pointer reaches no goal but the one it was computed for.
THEOREM PointerStays == Spec => []PointerForHeadOnly
<1>1. IInv => PointerForHeadOnly
  BY QueueAssumption DEF IInv, PointerInv, PointerForHeadOnly
<1>2. QED
  BY <1>1, IInvInvariant, PTL
=============================================================================
