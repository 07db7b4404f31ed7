--------------------------- MODULE ThreadPoolProofs ---------------------------
(***************************************************************************)
(* Two results on the thread pool, for any threads, tasks and queue size.  *)
(* No notification is wasted: every step moves at most two threads, the one *)
(* that acts and the one it wakes (Stop() moves all that wait for tasks), so *)
(* the proof counts; a push takes one thread out of "lock" and puts one    *)
(* into "Take", a pop does the opposite.  And the queue keeps its limit and *)
(* every task is in one place: the argument of a caller, a place of the    *)
(* queue, or begun.                                                        *)
(***************************************************************************)
EXTENDS ThreadPool, FiniteSetTheorems, TLAPS

\* Zenon proves the leaves that do not name a prover.
USE ZenonT(30)

Places == {"idle", "test", "Take", "not_empty_", "task", "return", "Run", "lock",
           "not_full_", "ended"}

\* The threads that are at a place, for given pcs.
AtIn(p, place) == {t \in Threads : p[t] = place}

\* The inductive invariant: NoLostNotify with the types it counts with, and what
\* makes Take() notify: nobody waits for room in a queue without a limit.
Inv ==
  /\ pc \in [Threads -> Places]
  /\ max_queue_size_ \in Nat
  /\ \E S : task_queue_ \in Seq(S)
  /\ owner = "new" => \A t \in Threads : pc[t] = "idle"
  /\ At("not_full_") # {} => max_queue_size_ > 0
  /\ NoLostNotify

\* The threads of the program are finitely many, and so are those at a place.
LEMMA FiniteAt ==
  ASSUME NEW p, NEW place
  PROVE /\ IsFiniteSet(AtIn(p, place)) /\ Cardinality(AtIn(p, place)) \in Nat
<1>1. IsFiniteSet(Threads)
  BY PoolAssumption, FS_Union DEF Threads
<1>2. AtIn(p, place) \subseteq Threads
  BY DEF AtIn
<1>3. IsFiniteSet(AtIn(p, place))
  BY <1>1, <1>2, FS_Subset
<1> QED  BY <1>3, FS_CardinalityType

\* q is p with thread t moved from place a to place b.
IsMove(p, t, a, b, q) == p[t] = a /\ q = [p EXCEPT ![t] = b]

\* One thread that moves leaves one place and arrives at another: what a step of
\* one thread, or waking one, does to the numbers.
LEMMA Moves ==
  ASSUME NEW p \in [Threads -> Places], NEW t \in Threads, NEW a \in Places, NEW b \in Places,
         NEW q, IsMove(p, t, a, b, q), a # b
  PROVE /\ q \in [Threads -> Places]
        /\ Cardinality(AtIn(q, b)) = Cardinality(AtIn(p, b)) + 1
        /\ Cardinality(AtIn(q, a)) = Cardinality(AtIn(p, a)) - 1
        /\ \A c \in Places : c # b /\ c # a => AtIn(q, c) = AtIn(p, c)
        /\ AtIn(q, a) \subseteq AtIn(p, a)
<1>1. AtIn(q, b) = AtIn(p, b) \cup {t} /\ t \notin AtIn(p, b)
  BY DEF AtIn, IsMove
<1>2. AtIn(q, a) = AtIn(p, a) \ {t} /\ t \in AtIn(p, a)
  BY DEF AtIn, IsMove
<1>3. \A c \in Places : c # b /\ c # a => AtIn(q, c) = AtIn(p, c)
  BY DEF AtIn, IsMove
<1>4. q \in [Threads -> Places]
  BY DEF IsMove
<1>5. Cardinality(AtIn(q, b)) = Cardinality(AtIn(p, b)) + 1
  BY <1>1, FiniteAt, FS_AddElement
<1>6. Cardinality(AtIn(q, a)) = Cardinality(AtIn(p, a)) - 1
  BY <1>2, FiniteAt, FS_RemoveElement
<1> QED  BY <1>2, <1>3, <1>4, <1>5, <1>6

\* Every At() of the specification, and of the next state, is an AtIn().
LEMMA AtPlaces ==
  \A place : At(place) = AtIn(pc, place) /\ At(place)' = AtIn(pc', place)
BY DEF At, AtIn

\* What notify_one() does to the numbers: somebody waiting is moved to place, or
\* nobody waits.
LEMMA Notified ==
  ASSUME NEW p \in [Threads -> Places], NEW cv \in Places, NEW place \in Places, cv # place,
         NEW q \in NotifyOne(p, cv, place)
  PROVE /\ q \in [Threads -> Places]
        /\ \A c \in Places : c # cv /\ c # place => AtIn(q, c) = AtIn(p, c)
        /\ AtIn(q, cv) \subseteq AtIn(p, cv)
        /\ \/ AtIn(p, cv) = {} /\ AtIn(q, place) = AtIn(p, place)
           \/ Cardinality(AtIn(q, place)) = Cardinality(AtIn(p, place)) + 1
<1>1. CASE AtIn(p, cv) = {}
  <2>1. q = p
    BY <1>1 DEF NotifyOne, AtIn
  <2> QED  BY <1>1, <2>1
<1>2. CASE AtIn(p, cv) # {}
  <2>1. PICK t \in AtIn(p, cv) : q = [p EXCEPT ![t] = place]
    BY <1>2 DEF NotifyOne, AtIn
  <2>2. t \in Threads /\ IsMove(p, t, cv, place, q)
    BY <2>1 DEF AtIn, IsMove
  <2> QED  BY SMTT(30), <2>2, Moves
<1> QED  BY <1>1, <1>2

\* The heart of the argument, on pcs and lengths: the invariant after a step.
Counts(p, max, n) ==
  /\ AtIn(p, "not_empty_") # {} => n <= Cardinality(AtIn(p, "Take"))
  /\ AtIn(p, "not_full_") # {} => max - n <= Cardinality(AtIn(p, "lock"))

\* Run() pushes a task and notifies not_empty_.
LEMMA PushKeeps ==
  ASSUME Inv, NEW t \in Threads, RunQueues(t)
  PROVE pc' \in [Threads -> Places] /\ Counts(pc', max_queue_size_, Len(task_queue_'))
        /\ (AtIn(pc', "not_full_") # {} => max_queue_size_ > 0)
        /\ (\E S : task_queue_' \in Seq(S))
<1> DEFINE n == Len(task_queue_)
<1>0. PICK S : task_queue_ \in Seq(S)
  BY DEF Inv
<1>1. n \in Nat /\ max_queue_size_ \in Nat /\ pc \in [Threads -> Places] /\ pc[t] = "lock"
  BY SMTT(30), <1>0 DEF Inv, RunQueues
<1>2. Counts(pc, max_queue_size_, n) /\ (AtIn(pc, "not_full_") # {} => max_queue_size_ > 0)
  BY AtPlaces DEF Inv, NoLostNotify, Counts
<1>3. CASE IsFull /\ pc' = [pc EXCEPT ![t] = "not_full_"] /\ task_queue_' = task_queue_
  <2>0. IsMove(pc, t, "lock", "not_full_", pc')
    BY <1>1, <1>3 DEF IsMove
  <2>1. pc' \in [Threads -> Places] /\ AtIn(pc', "not_empty_") = AtIn(pc, "not_empty_")
        /\ AtIn(pc', "Take") = AtIn(pc, "Take")
    BY SMTT(30), <1>1, <2>0, Moves DEF Places
  <2>2. max_queue_size_ - n <= 0 /\ max_queue_size_ > 0
    BY SMTT(30), <1>1, <1>3 DEF IsFull
  <2>3. Cardinality(AtIn(pc', "lock")) \in Nat
    BY FiniteAt
  <2> QED  BY SMTT(30), <1>0, <1>1, <1>2, <1>3, <2>1, <2>2, <2>3 DEF Counts
<1>4. CASE /\ task_queue_' = Append(task_queue_, arg[t])
           /\ pc' \in NotifyTaker([pc EXCEPT ![t] = Returned(t)])
  <2>1. task_queue_ \in Seq(S \cup {arg[t]})
    BY SMTT(30), <1>0
  <2>2. task_queue_' \in Seq(S \cup {arg[t]}) /\ Len(task_queue_') = n + 1
    BY SMTT(30), <1>4, <2>1
  <2>3. PICK b \in {"idle", "return"} : b = Returned(t)
    BY DEF Returned
  <2>4. PICK p : p = [pc EXCEPT ![t] = b] /\ IsMove(pc, t, "lock", b, p)
    BY <1>1 DEF IsMove
  <2>5. /\ p \in [Threads -> Places]
        /\ Cardinality(AtIn(p, "lock")) = Cardinality(AtIn(pc, "lock")) - 1
        /\ AtIn(p, "Take") = AtIn(pc, "Take") /\ AtIn(p, "not_empty_") = AtIn(pc, "not_empty_")
        /\ AtIn(p, "not_full_") = AtIn(pc, "not_full_")
    <3>1. pc \in [Threads -> Places] /\ b \in Places /\ b \notin {"lock", "Take", "not_empty_", "not_full_"}
      BY <1>1 DEF Places
    <3>2. {"lock", "Take", "not_empty_", "not_full_"} \subseteq Places
      BY DEF Places
    <3>3. "lock" \in Places /\ b # "lock" /\ IsMove(pc, t, "lock", b, p)
      BY <2>4, <3>1, <3>2
    <3>4. /\ p \in [Threads -> Places]
          /\ Cardinality(AtIn(p, "lock")) = Cardinality(AtIn(pc, "lock")) - 1
          /\ \A c \in Places : c # b /\ c # "lock" => AtIn(p, c) = AtIn(pc, c)
      BY SMTT(30), <3>1, <3>3, Moves
    <3> QED  BY <3>1, <3>2, <3>4
  <2>6. pc' \in NotifyOne(p, "not_empty_", "Take")
    BY <1>4, <2>3, <2>4 DEF NotifyTaker
  <2>7. /\ pc' \in [Threads -> Places]
        /\ AtIn(pc', "lock") = AtIn(p, "lock") /\ AtIn(pc', "not_full_") = AtIn(p, "not_full_")
        /\ AtIn(pc', "not_empty_") \subseteq AtIn(p, "not_empty_")
        /\ \/ AtIn(p, "not_empty_") = {}
           \/ Cardinality(AtIn(pc', "Take")) = Cardinality(AtIn(p, "Take")) + 1
    BY SMTT(30), <2>5, <2>6, Notified DEF Places
  <2>8. Cardinality(AtIn(pc, "Take")) \in Nat /\ Cardinality(AtIn(pc, "lock")) \in Nat
    BY FiniteAt
  <2>9. Counts(pc', max_queue_size_, n + 1)
    BY SMTT(30), <1>1, <1>2, <2>5, <2>7, <2>8 DEF Counts
  <2> QED  BY <1>2, <2>2, <2>5, <2>7, <2>9
<1> QED  BY <1>3, <1>4 DEF RunQueues

\* Take() pops a task and notifies not_full_, waits, or comes back with nothing.
LEMMA PopKeeps ==
  ASSUME Inv, NEW t \in Threads, Take(t)
  PROVE pc' \in [Threads -> Places] /\ Counts(pc', max_queue_size_, Len(task_queue_'))
        /\ (AtIn(pc', "not_full_") # {} => max_queue_size_ > 0)
        /\ (\E S : task_queue_' \in Seq(S))
<1> DEFINE n == Len(task_queue_)
<1>0. PICK S : task_queue_ \in Seq(S)
  BY DEF Inv
<1>1. n \in Nat /\ max_queue_size_ \in Nat /\ pc \in [Threads -> Places] /\ pc[t] = "Take"
  BY SMTT(30), <1>0 DEF Inv, Take
<1>2. Counts(pc, max_queue_size_, n) /\ (AtIn(pc, "not_full_") # {} => max_queue_size_ > 0)
  BY AtPlaces DEF Inv, NoLostNotify, Counts
<1>3. ASSUME NEW b \in {"not_empty_", "test"}, task_queue_ = <<>>,
             pc' = [pc EXCEPT ![t] = b], task_queue_' = task_queue_
      PROVE  pc' \in [Threads -> Places] /\ Counts(pc', max_queue_size_, n)
             /\ (AtIn(pc', "not_full_") # {} => max_queue_size_ > 0)
  <2>1. IsMove(pc, t, "Take", b, pc')
    BY <1>1, <1>3 DEF IsMove
  <2>2. /\ pc' \in [Threads -> Places]
        /\ AtIn(pc', "not_full_") = AtIn(pc, "not_full_") /\ AtIn(pc', "lock") = AtIn(pc, "lock")
    BY SMTT(30), <1>1, <2>1, Moves DEF Places
  <2>3. n = 0 /\ Cardinality(AtIn(pc', "Take")) \in Nat
    BY <1>3, FiniteAt
  <2> QED  BY SMTT(30), <1>2, <2>2, <2>3 DEF Counts
<1>4. CASE /\ task_queue_ # <<>> /\ task_queue_' = Tail(task_queue_)
           /\ pc' \in NotifyCaller([pc EXCEPT ![t] = "task"])
  <2>1. task_queue_' \in Seq(S) /\ Len(task_queue_') = n - 1
    BY SMTT(30), <1>0, <1>4
  <2>2. PICK p : p = [pc EXCEPT ![t] = "task"] /\ IsMove(pc, t, "Take", "task", p)
    BY <1>1 DEF IsMove
  <2>3. /\ p \in [Threads -> Places]
        /\ Cardinality(AtIn(p, "Take")) = Cardinality(AtIn(pc, "Take")) - 1
        /\ AtIn(p, "lock") = AtIn(pc, "lock") /\ AtIn(p, "not_empty_") = AtIn(pc, "not_empty_")
        /\ AtIn(p, "not_full_") = AtIn(pc, "not_full_")
    BY SMTT(30), <1>1, <2>2, Moves DEF Places
  <2>4. Cardinality(AtIn(pc, "Take")) \in Nat /\ Cardinality(AtIn(pc, "lock")) \in Nat
    BY FiniteAt
  <2>5. CASE max_queue_size_ > 0
    <3>1. pc' \in NotifyOne(p, "not_full_", "lock")
      BY <1>4, <2>2, <2>5 DEF NotifyCaller
    <3>2. /\ pc' \in [Threads -> Places]
          /\ AtIn(pc', "Take") = AtIn(p, "Take")
          /\ AtIn(pc', "not_empty_") = AtIn(p, "not_empty_")
          /\ AtIn(pc', "not_full_") \subseteq AtIn(p, "not_full_")
          /\ \/ AtIn(p, "not_full_") = {}
             \/ Cardinality(AtIn(pc', "lock")) = Cardinality(AtIn(p, "lock")) + 1
      BY SMTT(30), <2>3, <3>1, Notified DEF Places
    <3>3. Counts(pc', max_queue_size_, n - 1)
      BY SMTT(30), <1>1, <1>2, <2>3, <2>4, <3>2 DEF Counts
    <3> QED  BY <2>1, <2>5, <3>2, <3>3
  <2>6. CASE ~(max_queue_size_ > 0)
    <3>1. pc' = p
      BY <1>4, <2>2, <2>6 DEF NotifyCaller
    <3>2. AtIn(pc', "not_full_") = {}
      BY <1>2, <2>3, <2>6, <3>1
    <3>3. Counts(pc', max_queue_size_, n - 1)
      BY SMTT(30), <1>1, <1>2, <2>3, <2>4, <3>1, <3>2 DEF Counts
    <3> QED  BY <2>1, <2>3, <3>1, <3>2, <3>3
  <2> QED  BY <2>5, <2>6
<1> QED  BY <1>0, <1>3, <1>4 DEF Take

\* The steps that leave the queue alone: nobody starts waiting, and nobody on the
\* way to the queue turns back.
LEMMA QuietKeeps ==
  ASSUME Inv, NEW t \in Threads, NEW a \in Places \ {"Take", "lock"},
         NEW b \in Places \ {"not_empty_", "not_full_"}, IsMove(pc, t, a, b, pc'), a # b
  PROVE pc' \in [Threads -> Places] /\ Counts(pc', max_queue_size_, Len(task_queue_))
        /\ (AtIn(pc', "not_full_") # {} => max_queue_size_ > 0)
<1> DEFINE n == Len(task_queue_)
<1>1. n \in Nat /\ max_queue_size_ \in Nat /\ pc \in [Threads -> Places]
  BY SMTT(30) DEF Inv
<1>2. Counts(pc, max_queue_size_, n) /\ (AtIn(pc, "not_full_") # {} => max_queue_size_ > 0)
  BY AtPlaces DEF Inv, NoLostNotify, Counts
<1>3. pc' \in [Threads -> Places]
  BY <1>1, Moves
<1>4. \A c \in {"not_empty_", "not_full_"} : AtIn(pc', c) \subseteq AtIn(pc, c)
  <2>1. {"not_empty_", "not_full_"} \subseteq Places
    BY DEF Places
  <2>2. /\ AtIn(pc', a) \subseteq AtIn(pc, a)
        /\ \A c \in Places : c # b /\ c # a => AtIn(pc', c) = AtIn(pc, c)
    BY SMTT(30), <1>1, Moves
  <2> QED  BY <2>1, <2>2
<1>5. \A c \in {"Take", "lock"} : AtIn(pc', c) = AtIn(pc, c)
         \/ Cardinality(AtIn(pc', c)) = Cardinality(AtIn(pc, c)) + 1
  BY SMTT(30), <1>1, Moves DEF Places
<1>6. Cardinality(AtIn(pc, "Take")) \in Nat /\ Cardinality(AtIn(pc, "lock")) \in Nat
  BY FiniteAt
<1>7. Counts(pc', max_queue_size_, n)
  BY SMTT(30), <1>1, <1>2, <1>4, <1>5, <1>6 DEF Counts
<1> QED  BY <1>2, <1>3, <1>4, <1>7

\* Every step of every thread keeps the invariant.
LEMMA StepKeeps == Inv /\ [Next]_vars => Inv'
<1> SUFFICES ASSUME Inv, [Next]_vars PROVE Inv'
  OBVIOUS
<1> USE DEF vars, shared
<1>0. ASSUME pc' \in [Threads -> Places], max_queue_size_' \in Nat, \E S : task_queue_' \in Seq(S),
             owner' = "new" => \A t \in Threads : pc'[t] = "idle",
             AtIn(pc', "not_full_") # {} => max_queue_size_' > 0,
             Counts(pc', max_queue_size_', Len(task_queue_'))
      PROVE  Inv'
  BY <1>0, AtPlaces DEF Inv, NoLostNotify, Counts
<1>1. /\ pc \in [Threads -> Places] /\ max_queue_size_ \in Nat /\ \E S : task_queue_ \in Seq(S)
      /\ Counts(pc, max_queue_size_, Len(task_queue_))
      /\ AtIn(pc, "not_full_") # {} => max_queue_size_ > 0
      /\ owner = "new" => \A t \in Threads : pc[t] = "idle"
  BY AtPlaces DEF Inv, NoLostNotify, Counts
<1>2. ASSUME NEW t \in Threads, NEW a \in Places \ {"Take", "lock"},
             NEW b \in Places \ {"not_empty_", "not_full_"}, IsMove(pc, t, a, b, pc'), a # b,
             UNCHANGED <<max_queue_size_, task_queue_, owner>>, owner # "new"
      PROVE  Inv'
  BY <1>0, <1>1, <1>2, QuietKeeps
<1>3. ASSUME NEW size \in 0 .. MaxQueueSize, set_max_queue_size(size) PROVE Inv'
  <2>1. pc' = pc /\ task_queue_' = task_queue_ /\ owner' = "new" /\ max_queue_size_' \in Nat
    BY SMTT(30), <1>3, PoolAssumption DEF set_max_queue_size
  <2>2. \A t \in Threads : pc[t] = "idle"
    BY <1>1, <1>3 DEF set_max_queue_size
  <2>3. AtIn(pc', "not_full_") = {} /\ AtIn(pc', "not_empty_") = {}
    BY <2>1, <2>2 DEF AtIn
  <2> QED  BY <1>0, <1>1, <2>1, <2>2, <2>3 DEF Counts
<1>4. ASSUME NEW S \in SUBSET Workers, Start(S) PROVE Inv'
  <2>1. /\ max_queue_size_' = max_queue_size_ /\ task_queue_' = task_queue_
        /\ owner' = "started" /\ \A t \in Threads : pc[t] = "idle"
    BY <1>1, <1>4 DEF Start
  <2>2. pc' \in [Threads -> Places] /\ \A t \in Threads : pc'[t] \in {"idle", "test"}
    BY <1>1, <1>4, <2>1 DEF Start, Places
  <2>3. AtIn(pc', "not_full_") = {} /\ AtIn(pc', "not_empty_") = {}
    BY <2>2 DEF AtIn
  <2> QED  BY <1>0, <1>1, <2>1, <2>2, <2>3 DEF Counts
<1>5. CASE Stop
  <2>1. /\ max_queue_size_' = max_queue_size_ /\ task_queue_' = task_queue_
        /\ owner' = "joining"
        /\ pc' = [t \in Threads |-> IF pc[t] = "not_empty_" THEN "Take" ELSE pc[t]]
    BY <1>5 DEF Stop, WakeForStop, NotifyAll
  <2>2. /\ pc' \in [Threads -> Places] /\ AtIn(pc', "not_empty_") = {}
        /\ AtIn(pc', "not_full_") = AtIn(pc, "not_full_") /\ AtIn(pc', "lock") = AtIn(pc, "lock")
    BY <1>1, <2>1 DEF AtIn, Places
  <2> QED  BY <1>0, <1>1, <2>1, <2>2 DEF Counts
<1>6. CASE Join
  <2>1. UNCHANGED <<pc, max_queue_size_, task_queue_>> /\ owner' = "stopped"
    BY <1>6 DEF Join
  <2> QED  BY <1>0, <1>1, <2>1
<1>7. ASSUME NEW p \in Producers, Run(p) PROVE Inv'
  <2>1. p \in Threads /\ IsMove(pc, p, "idle", "Run", pc')
    BY <1>7 DEF Run, Threads, IsMove
  <2> QED  BY <1>2, <1>7, <2>1 DEF Run, Places
<1>8. ASSUME NEW t \in Threads, RunTests(t) PROVE Inv'
  <2>1. PICK b \in {"idle", "return", "task", "lock"} : IsMove(pc, t, "Run", b, pc')
    BY <1>8 DEF RunTests, Returned, IsMove
  <2>2. owner # "new" /\ UNCHANGED <<max_queue_size_, task_queue_, owner>>
    BY <1>1, <1>8 DEF RunTests
  <2> QED  BY <1>2, <2>1, <2>2 DEF Places
<1>9. ASSUME NEW t \in Threads, RunQueues(t) PROVE Inv'
  <2>1. owner # "new" /\ UNCHANGED <<max_queue_size_, owner>>
    BY <1>1, <1>9 DEF RunQueues
  <2> QED  BY <1>0, <1>1, <1>9, <2>1, PushKeeps
<1>10. ASSUME NEW t \in Threads, RunInThread(t) PROVE Inv'
  <2>1. PICK b \in {"Take", "ended"} : IsMove(pc, t, "test", b, pc')
    BY <1>10 DEF RunInThread, IsMove
  <2>2. owner # "new" /\ UNCHANGED <<max_queue_size_, task_queue_, owner>>
    BY <1>1, <1>10 DEF RunInThread
  <2> QED  BY <1>2, <2>1, <2>2 DEF Places
<1>11. ASSUME NEW t \in Threads, Take(t) PROVE Inv'
  <2>1. owner # "new" /\ UNCHANGED <<max_queue_size_, owner>>
    BY <1>1, <1>11 DEF Take
  <2> QED  BY <1>0, <1>1, <1>11, <2>1, PopKeeps
<1>12. ASSUME NEW t \in Threads, InTask(t) PROVE Inv'
  <2>1. PICK b \in {"Run", "return"} : IsMove(pc, t, "task", b, pc')
    BY <1>12 DEF InTask, IsMove
  <2>2. owner # "new" /\ UNCHANGED <<max_queue_size_, task_queue_, owner>>
    BY <1>1, <1>12 DEF InTask
  <2> QED  BY <1>2, <2>1, <2>2 DEF Places
<1>13. ASSUME NEW t \in Threads, TaskReturns(t) PROVE Inv'
  <2>1. PICK b \in {"test", "idle"} : IsMove(pc, t, "return", b, pc')
    BY <1>13 DEF TaskReturns, IsMove
  <2>2. owner # "new" /\ UNCHANGED <<max_queue_size_, task_queue_, owner>>
    BY <1>1, <1>13 DEF TaskReturns
  <2> QED  BY <1>2, <2>1, <2>2 DEF Places
<1>14. ASSUME NEW t \in Threads, SpuriousWakeup(t) PROVE Inv'
  <2>1. \/ IsMove(pc, t, "not_empty_", "Take", pc') \/ IsMove(pc, t, "not_full_", "lock", pc')
    BY <1>14 DEF SpuriousWakeup, IsMove
  <2>2. owner # "new" /\ UNCHANGED <<max_queue_size_, task_queue_, owner>>
    BY <1>1, <1>14 DEF SpuriousWakeup
  <2> QED  BY <1>2, <2>1, <2>2 DEF Places
<1>15. CASE UNCHANGED vars
  <2>1. UNCHANGED <<pc, max_queue_size_, task_queue_, owner>>
    BY <1>15
  <2> QED  BY <1>0, <1>1, <2>1
<1> QED
  BY <1>3, <1>4, <1>5, <1>6, <1>7, <1>8, <1>9, <1>10, <1>11, <1>12, <1>13, <1>14, <1>15
  DEF Next, ThreadStep

\* Nobody waits before Start().
LEMMA InitEstablishes == Init => Inv
<1> SUFFICES ASSUME Init PROVE Inv
  OBVIOUS
<1>1. pc \in [Threads -> Places] /\ \A t \in Threads : pc[t] = "idle"
  BY DEF Init, Places
<1>2. At("not_full_") = {} /\ At("not_empty_") = {}
  BY <1>1 DEF At
<1>3. \E S : task_queue_ \in Seq(S)
  BY SMTT(30) DEF Init
<1> QED  BY <1>1, <1>2, <1>3 DEF Init, Inv, NoLostNotify

\* No notify_one() of Run() and Take() is wasted, for any producers, pool threads,
\* tasks that call Run() and queue size, and with spurious wakeups.
THEOREM NotifyNeverLost == Spec => []NoLostNotify
<1>1. Inv => NoLostNotify
  BY DEF Inv
<1> QED  BY <1>1, InitEstablishes, StepKeeps, PTL DEF Spec
-----------------------------------------------------------------------------
(* The tasks.                                                                *)

\* Inside Run(), before the task is queued.
InCall(t) == pc[t] \in {"Run", "lock", "not_full_"}

\* A task and the one it gives to Run().
Child(task) == [task EXCEPT !.child = TRUE]
Parent(task) == [task EXCEPT !.child = FALSE]

Enqueued == {task_queue_[i] : i \in DOMAIN task_queue_}
Issued(task) == task \in begun \/ task \in Enqueued \/ \E t \in Threads : InCall(t) /\ arg[t] = task

\* Which threads can be where.
ThreadInv ==
  /\ threads_ \subseteq Workers
  /\ \A t \in Workers : pc[t] # "idle" => t \in threads_
  /\ \A t \in Producers : pc[t] \notin {"test", "Take", "not_empty_", "ended"}

\* The queue against its limit: nothing is queued before Start(), so that it finds
\* the queue within the limit that set_max_queue_size() has set.
LimitInv ==
  /\ owner = "new" => task_queue_ = <<>> /\ ~running_
  /\ running_ => max_queue_size_ > 0 /\ Len(task_queue_) <= max_queue_size_

TaskTypes ==
  /\ task_queue_ \in Seq(Tasks) /\ begun \subseteq Tasks /\ calls \in [Producers -> Nat]
  /\ job \in [Threads -> Tasks \cup {NoTask}] /\ arg \in [Threads -> Tasks \cup {NoTask}]

\* A task is in one place: the argument of one caller, one place of the queue, or
\* begun ...
QueueInv ==
  /\ \A i, j \in DOMAIN task_queue_ : task_queue_[i] = task_queue_[j] => i = j
  /\ Enqueued \cap begun = {}
ArgInv ==
  /\ \A t \in Threads : InCall(t) => arg[t] \in Tasks /\ arg[t] \notin begun /\ arg[t] \notin Enqueued
  /\ \A t, u \in Threads : InCall(t) /\ InCall(u) /\ arg[t] = arg[u] => t = u

\* ... and a task being called is in one thread.
JobInv ==
  /\ \A t \in Threads : pc[t] = "task" => job[t] \in begun
  /\ \A t, u \in Threads : pc[t] = "task" /\ pc[u] = "task" /\ job[t] = job[u] => t = u

\* What makes a new task new: tasks are numbered, and there is no child of a task
\* before it has begun and made it.
NewInv ==
  /\ \A task \in Tasks : Issued(task) =>
       task.n <= calls[task.of] /\ (task.child => Parent(task) \in begun)
  /\ \A t \in Threads : pc[t] = "task" /\ ~job[t].child => ~Issued(Child(job[t]))

TaskInv == TaskTypes /\ QueueInv /\ ArgInv /\ JobInv /\ NewInv

\* InTask() gives Run() a task of its own.
LEMMA Children ==
  \A task \in Tasks :
    /\ Child(task) \in Tasks /\ Child(task).child
    /\ Child(task).n = task.n /\ Child(task).of = task.of
    /\ ~task.child => Parent(Child(task)) = task
<1> SUFFICES ASSUME NEW task \in Tasks
             PROVE  /\ Child(task) \in Tasks /\ Child(task).child
                    /\ Child(task).n = task.n /\ Child(task).of = task.of
                    /\ ~task.child => Parent(Child(task)) = task
  OBVIOUS
<1>1. /\ task.of \in Producers /\ task.n \in 1 .. MaxTasks /\ task.child \in BOOLEAN
      /\ task = [of |-> task.of, n |-> task.n, child |-> task.child]
  BY SMTT(30) DEF Tasks
<1>2. ASSUME NEW b
      PROVE  /\ [task EXCEPT !.child = b] = [of |-> task.of, n |-> task.n, child |-> b]
             /\ [[of |-> task.of, n |-> task.n, child |-> TRUE] EXCEPT !.child = b]
                  = [of |-> task.of, n |-> task.n, child |-> b]
  <2>1. ASSUME NEW c
        PROVE  [[of |-> task.of, n |-> task.n, child |-> c] EXCEPT !.child = b]
                  = [of |-> task.of, n |-> task.n, child |-> b]
    BY SMTT(30)
  <2> QED  BY <1>1, <2>1
<1>3. /\ Child(task) = [of |-> task.of, n |-> task.n, child |-> TRUE]
      /\ Parent(Child(task)) = [of |-> task.of, n |-> task.n, child |-> FALSE]
  BY <1>2 DEF Child, Parent
<1>4. ~task.child => task.child = FALSE
  BY <1>1
<1>5. [of |-> task.of, n |-> task.n, child |-> TRUE] \in Tasks
  BY <1>1 DEF Tasks
<1>6. Child(task).child /\ Child(task).n = task.n /\ Child(task).of = task.of
  <2> DEFINE c == [of |-> task.of, n |-> task.n, child |-> TRUE]
  <2>1. c.child /\ c.n = task.n /\ c.of = task.of
    OBVIOUS
  <2>2. Child(task) = c
    BY <1>3
  <2> HIDE DEF c
  <2> QED  BY <2>1, <2>2
<1>7. Child(task) \in Tasks
  BY <1>3, <1>5
<1>8. ~task.child => Parent(Child(task)) = task
  BY <1>1, <1>3, <1>4
<1> QED  BY <1>6, <1>7, <1>8

\* The steps that hand no task on: a thread waits, is woken, or comes back.
LEMMA TasksStay ==
  ASSUME TaskInv, UNCHANGED <<task_queue_, begun, calls, arg>>,
         job' \in [Threads -> Tasks \cup {NoTask}],
         \A t \in Threads : InCall(t)' => InCall(t),
         \A t \in Threads : pc'[t] = "task" => pc[t] = "task" /\ job'[t] = job[t]
  PROVE  TaskInv'
<1>1. Enqueued' = Enqueued /\ \A task : Issued(task)' => Issued(task)
  BY DEF Enqueued, Issued
<1>2. TaskTypes'
  BY DEF TaskInv, TaskTypes
<1>3. QueueInv' /\ ArgInv'
  BY <1>1 DEF TaskInv, QueueInv, ArgInv
<1>4. JobInv'
  BY DEF TaskInv, JobInv
<1>5. NewInv'
  BY <1>1 DEF TaskInv, NewInv
<1> QED  BY <1>2, <1>3, <1>4, <1>5 DEF TaskInv

\* A task that is its caller's argument, or the head of the queue, is called.
LEMMA TaskBegins ==
  ASSUME TaskInv, NEW t \in Threads, NEW x \in Tasks, x \notin begun, Issued(x),
         begun' = begun \cup {x}, job' = [job EXCEPT ![t] = x], UNCHANGED <<calls, arg>>,
         pc'[t] = "task", \A u \in Threads : InCall(u)' => InCall(u) /\ arg[u] # x,
         \A u \in Threads : u # t /\ pc'[u] = "task" => pc[u] = "task",
         task_queue_' \in Seq(Tasks), Enqueued' \subseteq Enqueued \ {x},
         \A i, j \in DOMAIN task_queue_' : task_queue_'[i] = task_queue_'[j] => i = j
  PROVE  TaskInv'
<1>1. TaskTypes' /\ \A v \in Threads : job'[v] = IF v = t THEN x ELSE job[v]
  BY DEF TaskInv, TaskTypes
<1>2. \A task : Issued(task)' => Issued(task)
  BY DEF Issued
<1>3. QueueInv'
  BY DEF TaskInv, QueueInv
<1>4. ArgInv'
  BY DEF TaskInv, ArgInv
<1>5. JobInv'
  <2>1. \A v \in Threads : v # t /\ pc'[v] = "task" => job'[v] = job[v] /\ job[v] \in begun
    BY <1>1 DEF TaskInv, JobInv
  <2>2. \A v \in Threads : v # t /\ pc'[v] = "task" => job'[v] # x
    BY <2>1
  <2>3. \A v \in Threads : pc'[v] = "task" => job'[v] \in begun'
    <3>1. job'[t] = x /\ x \in begun'
      BY <1>1
    <3> QED  BY SMTT(30), <2>1, <3>1
  <2>4. ASSUME NEW u \in Threads, NEW v \in Threads, pc'[u] = "task", pc'[v] = "task",
               job'[u] = job'[v]
        PROVE  u = v
    <3>1. CASE u # t /\ v # t
      BY <2>1, <2>4, <3>1 DEF TaskInv, JobInv
    <3>2. CASE u = t \/ v = t
      BY <1>1, <2>2, <2>4, <3>2
    <3> QED  BY <3>1, <3>2
  <2> QED  BY <2>3, <2>4 DEF JobInv
<1>6. NewInv'
  <2>1. ~x.child => ~Issued(Child(x))
    <3>1. Child(x) \in Tasks /\ Child(x).child /\ (~x.child => Parent(Child(x)) = x)
      BY Children
    <3>2. Issued(Child(x)) => Parent(Child(x)) \in begun
      BY <3>1 DEF TaskInv, NewInv
    <3> QED  BY <3>1, <3>2
  <2>2. \A task \in Tasks : Issued(task)' =>
          task.n <= calls'[task.of] /\ (task.child => Parent(task) \in begun')
    BY <1>2 DEF TaskInv, NewInv
  <2>3. \A u \in Threads : pc'[u] = "task" /\ ~job'[u].child => ~Issued(Child(job'[u]))
    BY <1>1, <2>1 DEF TaskInv, NewInv
  <2> QED  BY <1>2, <2>2, <2>3 DEF NewInv
<1> QED  BY <1>1, <1>3, <1>4, <1>5, <1>6 DEF TaskInv

\* A new task is given to Run() by a producer or by a task.
LEMMA TaskIssued ==
  ASSUME TaskInv, NEW t \in Threads, NEW x \in Tasks, ~Issued(x),
         arg' = [arg EXCEPT ![t] = x], UNCHANGED <<task_queue_, begun, job>>,
         \A u \in Threads : u # t /\ InCall(u)' => InCall(u),
         \A u \in Threads : pc'[u] = "task" => pc[u] = "task" /\ (~job[u].child => x # Child(job[u])),
         calls' \in [Producers -> Nat], \A p \in Producers : calls[p] <= calls'[p],
         x.n <= calls'[x.of], x.child => Parent(x) \in begun
  PROVE  TaskInv'
<1>1. TaskTypes' /\ \A u \in Threads : arg'[u] = IF u = t THEN x ELSE arg[u]
  BY DEF TaskInv, TaskTypes
<1>2. Enqueued' = Enqueued /\ \A task : Issued(task)' => Issued(task) \/ task = x
  BY <1>1 DEF Enqueued, Issued
<1>3. x \notin begun /\ x \notin Enqueued /\ \A u \in Threads : InCall(u) => arg[u] # x
  BY DEF Issued
<1>4. QueueInv' /\ JobInv'
  BY <1>2 DEF TaskInv, QueueInv, JobInv
<1>5. ArgInv'
  <2>1. \A u \in Threads : InCall(u)' =>
          arg'[u] \in Tasks /\ arg'[u] \notin begun' /\ arg'[u] \notin Enqueued'
    <3>1. \A u \in Threads : u # t /\ InCall(u)' =>
            arg'[u] = arg[u] /\ arg[u] \in Tasks /\ arg[u] \notin begun /\ arg[u] \notin Enqueued
      BY <1>1 DEF TaskInv, ArgInv
    <3>2. arg'[t] = x
      BY <1>1
    <3>3. arg'[t] \in Tasks /\ arg'[t] \notin begun' /\ arg'[t] \notin Enqueued'
      BY SMTT(30), <1>2, <1>3, <3>2
    <3>4. \A u \in Threads : u # t /\ InCall(u)' =>
            arg'[u] \in Tasks /\ arg'[u] \notin begun' /\ arg'[u] \notin Enqueued'
      BY SMTT(30), <1>2, <3>1
    <3> QED  BY <3>3, <3>4
  <2>2. ASSUME NEW u \in Threads, NEW v \in Threads, InCall(u)', InCall(v)', arg'[u] = arg'[v]
        PROVE  u = v
    <3>1. u # t => InCall(u) /\ arg'[u] = arg[u] /\ arg[u] # x
      BY <1>1, <1>3, <2>2
    <3>2. v # t => InCall(v) /\ arg'[v] = arg[v] /\ arg[v] # x
      BY <1>1, <1>3, <2>2
    <3>3. arg'[t] = x
      BY <1>1
    <3> QED  BY <2>2, <3>1, <3>2, <3>3 DEF TaskInv, ArgInv
  <2> QED  BY <2>1, <2>2 DEF ArgInv
<1>6. NewInv'
  <2>1. ASSUME NEW task \in Tasks, Issued(task)'
        PROVE  task.n <= calls'[task.of] /\ (task.child => Parent(task) \in begun')
    <3>1. CASE task = x
      BY <3>1
    <3>2. CASE Issued(task)
      <4>1. task.n <= calls[task.of] /\ (task.child => Parent(task) \in begun)
        BY <3>2 DEF TaskInv, NewInv
      <4>2. /\ task.n \in Int /\ task.of \in Producers
            /\ calls[task.of] \in Nat /\ calls'[task.of] \in Nat
        BY SMTT(30) DEF TaskInv, TaskTypes, Tasks
      <4>3. task.n <= calls'[task.of]
        BY SMTT(30), <4>1, <4>2
      <4> QED  BY <4>1, <4>3
    <3> QED  BY <1>2, <2>1, <3>1, <3>2
  <2>2. \A u \in Threads : pc'[u] = "task" /\ ~job'[u].child => ~(Issued(Child(job[u]))')
    BY <1>2 DEF TaskInv, NewInv
  <2> QED  BY <2>1, <2>2 DEF NewInv
<1> QED  BY <1>1, <1>4, <1>5, <1>6 DEF TaskInv

\* Run() puts its argument into the queue.
LEMMA TaskQueued ==
  ASSUME TaskInv, NEW t \in Threads, InCall(t), UNCHANGED <<begun, calls, arg, job>>,
         \A u \in Threads : InCall(u)' => InCall(u) /\ u # t,
         \A u \in Threads : pc'[u] = "task" => pc[u] = "task",
         task_queue_' \in Seq(Tasks), Enqueued' \subseteq Enqueued \cup {arg[t]},
         \A i, j \in DOMAIN task_queue_' : task_queue_'[i] = task_queue_'[j] => i = j
  PROVE  TaskInv'
<1>1. TaskTypes'
  BY DEF TaskInv, TaskTypes
<1>2. \A task : Issued(task)' => Issued(task)
  BY DEF Issued
<1>3. arg[t] \notin begun /\ arg[t] \notin Enqueued /\ \A u \in Threads : InCall(u)' => arg[u] # arg[t]
  BY DEF TaskInv, ArgInv
<1>4. QueueInv'
  BY <1>3 DEF TaskInv, QueueInv
<1>5. ArgInv'
  BY <1>3 DEF TaskInv, ArgInv
<1>6. JobInv'
  BY DEF TaskInv, JobInv
<1>7. NewInv'
  BY <1>2 DEF TaskInv, NewInv
<1> QED  BY <1>1, <1>4, <1>5, <1>6, <1>7 DEF TaskInv

\* notify_one() moves nobody but a waiter.
LEMMA NotifiedOnly ==
  ASSUME NEW p \in [Threads -> Places], NEW cv, NEW place, NEW q \in NotifyOne(p, cv, place)
  PROVE  \A u \in Threads : q[u] = p[u] \/ (p[u] = cv /\ q[u] = place)
BY DEF NotifyOne

\* Where a step of Next can take the threads: pool threads only go on from where
\* Start() put them, and producers never enter RunInThread().
LEMMA ThreadsKept ==
  ASSUME Inv, ThreadInv, [Next]_vars
  PROVE  ThreadInv'
<1> USE DEF vars, shared
<1> DEFINE Inside == {"test", "Take", "not_empty_", "ended"}
<1>0. pc \in [Threads -> Places] /\ Producers \subseteq Threads /\ Workers \subseteq Threads
      /\ \A p \in Producers : p \notin Workers
  BY PoolAssumption DEF Inv, Threads
<1>1. ASSUME threads_' = threads_,
             \A u \in Workers : pc'[u] # "idle" => pc[u] # "idle",
             \A u \in Producers : pc'[u] \in Inside => pc[u] \in Inside
      PROVE  ThreadInv'
  BY <1>1 DEF ThreadInv
<1>2. ASSUME NEW t \in Threads, threads_' = threads_, NEW b, pc' = [pc EXCEPT ![t] = b],
             t \in Workers => pc[t] # "idle", t \in Producers => b \notin Inside
      PROVE  ThreadInv'
  <2>1. \A u \in Threads : pc'[u] = IF u = t THEN b ELSE pc[u]
    BY <1>0, <1>2
  <2> QED  BY <1>0, <1>1, <1>2, <2>1
<1>3. ASSUME NEW t \in Threads, threads_' = threads_, NEW b, NEW cv, NEW place,
             pc[t] # "idle", b \notin Inside, b \in Places, cv # "idle",
             place \in Inside => cv \in Inside,
             pc' \in NotifyOne([pc EXCEPT ![t] = b], cv, place)
      PROVE  ThreadInv'
  <2> DEFINE p == [pc EXCEPT ![t] = b]
  <2>1. p \in [Threads -> Places] /\ \A u \in Threads : p[u] = IF u = t THEN b ELSE pc[u]
    BY <1>0, <1>3
  <2> HIDE DEF p
  <2>2. \A u \in Threads : pc'[u] = p[u] \/ (p[u] = cv /\ pc'[u] = place)
    <3>1. pc' \in NotifyOne(p, cv, place)
      BY <1>3 DEF p
    <3> QED  BY SMTT(30), <2>1, <3>1, NotifiedOnly
  <2>3. \A u \in Workers : pc'[u] # "idle" => pc[u] # "idle"
    BY <1>0, <1>3, <2>1, <2>2
  <2>4. \A u \in Producers : pc'[u] \in Inside => pc[u] \in Inside
    BY <1>0, <1>3, <2>1, <2>2
  <2> QED  BY <1>1, <1>3, <2>3, <2>4
<1>4. ASSUME NEW S \in SUBSET Workers, Start(S) PROVE ThreadInv'
  <2>1. \A t \in Threads : pc[t] = "idle"
    BY <1>4 DEF Start, Inv
  <2>2. CASE UNCHANGED <<threads_, pc>>
    BY <1>1, <2>2
  <2>3. CASE threads_' = S /\ pc' = [t \in Threads |-> IF t \in S THEN "test" ELSE pc[t]]
    BY <1>0, <2>1, <2>3 DEF ThreadInv
  <2> QED  BY <1>4, <2>2, <2>3 DEF Start
<1>5. CASE Stop
  <2>1. threads_' = threads_ /\ pc' = [t \in Threads |-> IF pc[t] = "not_empty_" THEN "Take" ELSE pc[t]]
    BY <1>5 DEF Stop, WakeForStop, NotifyAll
  <2> QED  BY <1>0, <1>1, <2>1
<1>6. CASE UNCHANGED <<threads_, pc>>
  BY <1>1, <1>6
<1>7. ASSUME NEW p \in Producers, Run(p) PROVE ThreadInv'
  <2>1. p \in Threads /\ threads_' = threads_ /\ pc' = [pc EXCEPT ![p] = "Run"]
    BY <1>0, <1>7 DEF Run
  <2> QED  BY <1>0, <1>2, <2>1
<1>8. ASSUME NEW t \in Threads, RunTests(t) \/ InTask(t) \/ RunInThread(t) \/ TaskReturns(t)
                                  \/ SpuriousWakeup(t)
      PROVE  ThreadInv'
  <2>1. threads_' = threads_ /\ pc[t] # "idle"
    BY <1>8 DEF RunTests, InTask, RunInThread, TaskReturns, SpuriousWakeup
  <2>2. t \in Producers => pc[t] \notin Inside /\ t \notin Workers
    BY <1>0 DEF ThreadInv
  <2>3. PICK b : pc' = [pc EXCEPT ![t] = b] /\ (t \in Producers => b \notin Inside)
    BY <1>8, <2>2 DEF RunTests, Returned, InTask, RunInThread, TaskReturns, SpuriousWakeup
  <2> QED  BY <1>2, <2>1, <2>3
<1>9. ASSUME NEW t \in Threads, RunQueues(t) PROVE ThreadInv'
  <2>1. threads_' = threads_ /\ pc[t] = "lock"
    BY <1>9 DEF RunQueues
  <2>2. Returned(t) \in {"idle", "return"}
    BY DEF Returned
  <2>3. Returned(t) \in Places /\ Returned(t) \notin Inside
    BY <2>2 DEF Places
  <2>4. CASE pc' = [pc EXCEPT ![t] = "not_full_"]
    BY <1>2, <2>1, <2>4
  <2>5. CASE pc' \in NotifyTaker([pc EXCEPT ![t] = Returned(t)])
    BY <1>3, <2>1, <2>3, <2>5 DEF NotifyTaker
  <2> QED  BY <1>9, <2>4, <2>5 DEF RunQueues
<1>10. ASSUME NEW t \in Threads, Take(t) PROVE ThreadInv'
  <2>1. threads_' = threads_ /\ pc[t] = "Take"
    BY <1>10 DEF Take
  <2>2. t \notin Producers
    BY <2>1 DEF ThreadInv
  <2>3. CASE \E b : pc' = [pc EXCEPT ![t] = b]
    BY <1>2, <2>1, <2>2, <2>3
  <2>4. CASE pc' \in NotifyCaller([pc EXCEPT ![t] = "task"])
    <3>1. "task" \in Places /\ "task" \notin Inside
      BY DEF Places
    <3>2. CASE max_queue_size_ > 0
      BY <1>3, <2>1, <2>4, <3>1, <3>2 DEF NotifyCaller
    <3>3. CASE ~(max_queue_size_ > 0)
      BY <1>2, <2>1, <2>2, <2>4, <3>3 DEF NotifyCaller
    <3> QED  BY <3>2, <3>3
  <2> QED  BY <1>10, <2>3, <2>4 DEF Take
<1>11. ASSUME NEW size \in 0 .. MaxQueueSize, set_max_queue_size(size) PROVE ThreadInv'
  BY <1>6, <1>11 DEF set_max_queue_size
<1>12. CASE Join
  BY <1>6, <1>12 DEF Join
<1>13. CASE UNCHANGED vars
  BY <1>6, <1>13
<1> QED
  BY <1>4, <1>5, <1>7, <1>8, <1>9, <1>10, <1>11, <1>12, <1>13 DEF Next, ThreadStep

\* Run() queues only below the limit, Take() makes the queue shorter, and a limit is
\* set only while the queue is empty.
LEMMA LimitKept ==
  ASSUME Inv, TaskTypes, LimitInv, [Next]_vars
  PROVE  LimitInv'
<1> USE DEF vars, shared
<1>0. Len(task_queue_) \in Nat /\ max_queue_size_ \in Nat
  BY SMTT(30) DEF TaskTypes, Inv
<1>1. CASE UNCHANGED <<owner, running_, max_queue_size_, task_queue_>>
  BY <1>1 DEF LimitInv
<1>2. ASSUME NEW size \in 0 .. MaxQueueSize, set_max_queue_size(size) PROVE LimitInv'
  BY <1>2 DEF set_max_queue_size, LimitInv
<1>3. ASSUME NEW S \in SUBSET Workers, Start(S) PROVE LimitInv'
  <2>1. task_queue_' = <<>> /\ ~running_ /\ owner' = "started"
    BY <1>3 DEF Start, LimitInv
  <2>2. CASE max_queue_size_ <= 0
    BY <1>3, <2>1, <2>2 DEF Start, LimitInv
  <2>3. CASE ~(max_queue_size_ <= 0)
    <3>1. max_queue_size_' > 0 /\ Len(task_queue_') <= max_queue_size_'
      BY SMTT(30), <1>0, <1>3, <2>1, <2>3 DEF Start
    <3> QED  BY <2>1, <3>1 DEF LimitInv
  <2> QED  BY <2>2, <2>3
<1>4. CASE Stop \/ Join
  <2>1. CASE Stop
    <3>1. ~running_' /\ owner' = "joining"
      BY <2>1 DEF Stop
    <3> QED  BY <3>1 DEF LimitInv
  <2>2. CASE Join
    <3>1. owner' = "stopped" /\ UNCHANGED <<running_, max_queue_size_, task_queue_>>
      BY <2>2 DEF Join
    <3> QED  BY <3>1 DEF LimitInv
  <2> QED  BY <1>4, <2>1, <2>2
<1>5. ASSUME NEW t \in Threads, RunQueues(t) PROVE LimitInv'
  <2>1. owner' # "new" /\ UNCHANGED <<running_, max_queue_size_>>
    BY <1>5 DEF RunQueues, Inv
  <2>2. CASE IsFull /\ UNCHANGED task_queue_
    BY <2>1, <2>2 DEF LimitInv
  <2>3. CASE ~IsFull /\ task_queue_' = Append(task_queue_, arg[t])
    <3>1. Len(task_queue_') = Len(task_queue_) + 1
      BY SMTT(30), <2>3 DEF TaskTypes
    <3>2. running_ => max_queue_size_ > 0 /\ Len(task_queue_) < max_queue_size_
      BY SMTT(30), <1>0, <2>3 DEF IsFull, LimitInv
    <3>3. running_' => max_queue_size_' > 0 /\ Len(task_queue_') <= max_queue_size_'
      BY SMTT(30), <1>0, <2>1, <3>1, <3>2
    <3> QED  BY <2>1, <3>3 DEF LimitInv
  <2> QED  BY <1>5, <2>2, <2>3 DEF RunQueues
<1>6. ASSUME NEW t \in Threads, Take(t) PROVE LimitInv'
  <2>1. owner' # "new" /\ UNCHANGED <<running_, max_queue_size_>>
    BY <1>6 DEF Take, Inv
  <2>2. CASE UNCHANGED task_queue_
    BY <2>1, <2>2 DEF LimitInv
  <2>3. CASE task_queue_ # <<>> /\ task_queue_' = Tail(task_queue_)
    <3>1. Len(task_queue_') = Len(task_queue_) - 1
      BY SMTT(30), <2>3 DEF TaskTypes
    <3>2. running_' => max_queue_size_' > 0 /\ Len(task_queue_') <= max_queue_size_'
      BY SMTT(30), <1>0, <2>1, <3>1 DEF LimitInv
    <3> QED  BY <2>1, <3>2 DEF LimitInv
  <2> QED  BY <1>6, <2>2, <2>3 DEF Take
<1>7. ASSUME NEW t \in Threads, RunTests(t) \/ InTask(t) \/ RunInThread(t) \/ TaskReturns(t)
                                  \/ SpuriousWakeup(t)
      PROVE  LimitInv'
  BY <1>1, <1>7 DEF RunTests, InTask, RunInThread, TaskReturns, SpuriousWakeup
<1>8. ASSUME NEW p \in Producers, Run(p) PROVE LimitInv'
  BY <1>1, <1>8 DEF Run
<1> QED
  BY <1>1, <1>2, <1>3, <1>4, <1>5, <1>6, <1>7, <1>8 DEF Next, ThreadStep

\* What the head and the tail of the queue hold.
LEMMA Popped ==
  ASSUME NEW q \in Seq(Tasks), q # <<>>, \A i, j \in DOMAIN q : q[i] = q[j] => i = j
  PROVE  /\ Head(q) \in Tasks /\ Tail(q) \in Seq(Tasks) /\ \E i \in DOMAIN q : q[i] = Head(q)
         /\ \A i, j \in DOMAIN Tail(q) : Tail(q)[i] = Tail(q)[j] => i = j
         /\ \A i \in DOMAIN Tail(q) : Tail(q)[i] # Head(q) /\ \E k \in DOMAIN q : q[k] = Tail(q)[i]
<1>1. /\ Len(q) \in Nat \ {0} /\ DOMAIN q = 1 .. Len(q) /\ Tail(q) \in Seq(Tasks)
      /\ DOMAIN Tail(q) = 1 .. Len(q) - 1 /\ Head(q) = q[1] /\ Head(q) \in Tasks
  BY SMTT(30)
<1>2. \A i \in 1 .. Len(q) - 1 : Tail(q)[i] = q[i + 1] /\ i + 1 \in DOMAIN q /\ i + 1 # 1 /\ i \in Nat
  BY SMTT(30), <1>1
<1>3. 1 \in DOMAIN q
  BY SMTT(30), <1>1
<1>4. \A i, j \in DOMAIN Tail(q) : Tail(q)[i] = Tail(q)[j] => i = j
  <2>1. \A i, j \in Nat : i + 1 = j + 1 => i = j
    BY SMTT(30)
  <2> QED  BY <1>1, <1>2, <2>1
<1> QED  BY <1>1, <1>2, <1>3, <1>4

\* What Append() does to the queue.
LEMMA Pushed ==
  ASSUME NEW q \in Seq(Tasks), NEW x \in Tasks, \A i, j \in DOMAIN q : q[i] = q[j] => i = j,
         \A i \in DOMAIN q : q[i] # x
  PROVE  /\ Append(q, x) \in Seq(Tasks)
         /\ \A i, j \in DOMAIN Append(q, x) : Append(q, x)[i] = Append(q, x)[j] => i = j
         /\ \A i \in DOMAIN Append(q, x) : Append(q, x)[i] = x \/ \E k \in DOMAIN q : q[k] = Append(q, x)[i]
BY SMTT(30)

\* Every step keeps each task in its one place.
LEMMA TasksKept ==
  ASSUME Inv, TaskInv, [Next]_vars
  PROVE  TaskInv'
<1> USE DEF vars, shared
<1>0. /\ pc \in [Threads -> Places] /\ job \in [Threads -> Tasks \cup {NoTask}]
      /\ arg \in [Threads -> Tasks \cup {NoTask}]
      /\ task_queue_ \in Seq(Tasks) /\ calls \in [Producers -> Nat] /\ begun \subseteq Tasks
  BY DEF Inv, TaskInv, TaskTypes
<1>1. ASSUME UNCHANGED <<task_queue_, begun, calls, arg, job>>,
             \A u \in Threads : InCall(u)' => InCall(u),
             \A u \in Threads : pc'[u] = "task" => pc[u] = "task"
      PROVE  TaskInv'
  BY <1>0, <1>1, TasksStay
<1>2. ASSUME NEW t \in Threads, NEW b, pc' = [pc EXCEPT ![t] = b]
      PROVE  \A u \in Threads : pc'[u] = IF u = t THEN b ELSE pc[u]
  BY <1>0, <1>2
<1>3. ASSUME NEW t \in Threads, NEW b \in Places, NEW cv, NEW place,
             pc' \in NotifyOne([pc EXCEPT ![t] = b], cv, place)
      PROVE  \A u \in Threads :
               \/ pc'[u] = IF u = t THEN b ELSE pc[u]
               \/ (IF u = t THEN b ELSE pc[u]) = cv /\ pc'[u] = place
  <2> DEFINE p == [pc EXCEPT ![t] = b]
  <2>1. p \in [Threads -> Places] /\ \A u \in Threads : p[u] = IF u = t THEN b ELSE pc[u]
    BY <1>0, <1>3
  <2>2. pc' \in NotifyOne(p, cv, place)
    BY <1>3
  <2> HIDE DEF p
  <2>3. \A u \in Threads : pc'[u] = p[u] \/ (p[u] = cv /\ pc'[u] = place)
    BY SMTT(30), <2>1, <2>2, NotifiedOnly
  <2> QED  BY <2>1, <2>3
<1>4. CASE UNCHANGED <<task_queue_, begun, calls, arg, job, pc>>
  BY <1>1, <1>4 DEF InCall
<1>5. ASSUME NEW S \in SUBSET Workers, Start(S) PROVE TaskInv'
  <2>1. UNCHANGED <<task_queue_, begun, calls, arg, job>> /\ \A u \in Threads : pc'[u] \in {"test", pc[u]}
    BY <1>0, <1>5 DEF Start
  <2> QED  BY <1>1, <2>1 DEF InCall
<1>6. CASE Stop
  <2>1. UNCHANGED <<task_queue_, begun, calls, arg, job>> /\ \A u \in Threads : pc'[u] \in {"Take", pc[u]}
    BY <1>0, <1>6 DEF Stop, WakeForStop, NotifyAll
  <2> QED  BY <1>1, <2>1 DEF InCall
<1>7. ASSUME NEW p \in Producers, Run(p) PROVE TaskInv'
  <2> DEFINE x == [of |-> p, n |-> calls[p] + 1, child |-> FALSE]
  <2>1. calls[p] \in Nat /\ calls[p] < MaxTasks /\ p \in Threads /\ pc[p] = "idle"
    BY <1>0, <1>7 DEF Run, Threads
  <2>2. calls[p] + 1 \in 1 .. MaxTasks
    BY SMTT(30), <2>1, PoolAssumption
  <2>3. x \in Tasks /\ x.of = p /\ x.n = calls[p] + 1 /\ ~x.child
    BY <2>2 DEF Tasks
  <2>4. ~Issued(x)
    <3>1. ~(calls[p] + 1 <= calls[p])
      BY SMTT(30), <2>1
    <3> QED  BY <2>3, <3>1 DEF TaskInv, NewInv
  <2>5. /\ calls' = [calls EXCEPT ![p] = @ + 1] /\ arg' = [arg EXCEPT ![p] = x]
        /\ UNCHANGED <<task_queue_, begun, job>> /\ pc' = [pc EXCEPT ![p] = "Run"]
    BY <1>7 DEF Run
  <2>6. calls' \in [Producers -> Nat] /\ (\A r \in Producers : calls[r] <= calls'[r])
        /\ x.n <= calls'[x.of]
    BY SMTT(30), <1>0, <2>1, <2>3, <2>5
  <2>7. \A u \in Threads : pc'[u] = IF u = p THEN "Run" ELSE pc[u]
    BY <1>2, <2>1, <2>5
  <2>8. \A u \in Threads : u # p /\ InCall(u)' => InCall(u)
    BY <2>7 DEF InCall
  <2>9. \A u \in Threads : pc'[u] = "task" => pc[u] = "task" /\ (~job[u].child => x # Child(job[u]))
    <3>1. ASSUME NEW u \in Threads, pc'[u] = "task" PROVE pc[u] = "task" /\ x # Child(job[u])
      <4>1. pc[u] = "task"
        BY <2>7, <3>1
      <4>2. job[u] \in Tasks
        BY <1>0, <4>1 DEF TaskInv, JobInv
      <4>3. Child(job[u]).child
        BY <4>2, Children
      <4> QED  BY <2>3, <4>1, <4>3
    <3> QED  BY <3>1
  <2> HIDE DEF x
  <2> QED  BY <2>1, <2>3, <2>4, <2>5, <2>6, <2>8, <2>9, TaskIssued
<1>8. ASSUME NEW t \in Threads, RunTests(t) PROVE TaskInv'
  <2>1. pc[t] = "Run" /\ UNCHANGED <<task_queue_, calls, arg>> /\ InCall(t)
    BY <1>8 DEF RunTests, InCall
  <2>2. CASE \E b \in {"idle", "return", "lock"} : pc' = [pc EXCEPT ![t] = b] /\ UNCHANGED <<job, begun>>
    <3>1. PICK b \in {"idle", "return", "lock"} : pc' = [pc EXCEPT ![t] = b] /\ UNCHANGED <<job, begun>>
      BY <2>2
    <3>2. \A u \in Threads : pc'[u] = IF u = t THEN b ELSE pc[u]
      BY <1>2, <3>1
    <3>3. \A u \in Threads : InCall(u)' => InCall(u)
      BY <2>1, <3>2 DEF InCall
    <3> QED  BY <1>1, <2>1, <3>1, <3>2, <3>3
  <2>3. CASE /\ pc' = [pc EXCEPT ![t] = "task"] /\ job' = [job EXCEPT ![t] = arg[t]]
             /\ begun' = begun \cup {arg[t]}
    <3>1. \A u \in Threads : pc'[u] = IF u = t THEN "task" ELSE pc[u]
      BY <1>2, <2>3
    <3>2. arg[t] \in Tasks /\ arg[t] \notin begun /\ arg[t] \notin Enqueued /\ Issued(arg[t])
      BY <2>1 DEF TaskInv, ArgInv, Issued
    <3>3. \A u \in Threads : InCall(u)' => InCall(u) /\ u # t
      BY <3>1 DEF InCall
    <3>4. \A u \in Threads : InCall(u)' => InCall(u) /\ arg[u] # arg[t]
      BY <2>1, <3>3 DEF TaskInv, ArgInv
    <3>5. Enqueued' \subseteq Enqueued \ {arg[t]}
      BY <2>1, <3>2 DEF Enqueued
    <3>6. /\ task_queue_' \in Seq(Tasks)
          /\ \A i, j \in DOMAIN task_queue_' : task_queue_'[i] = task_queue_'[j] => i = j
      BY <1>0, <2>1 DEF TaskInv, QueueInv
    <3>7. pc'[t] = "task" /\ \A u \in Threads : u # t /\ pc'[u] = "task" => pc[u] = "task"
      BY <3>1
    <3> DEFINE x == arg[t]
    <3>8. /\ x \in Tasks /\ x \notin begun /\ Issued(x) /\ begun' = begun \cup {x}
          /\ job' = [job EXCEPT ![t] = x] /\ Enqueued' \subseteq Enqueued \ {x}
          /\ \A u \in Threads : InCall(u)' => InCall(u) /\ arg[u] # x
      BY <2>3, <3>2, <3>4, <3>5
    <3> HIDE DEF x
    <3> QED  BY <2>1, <3>6, <3>7, <3>8, TaskBegins
  <2> QED  BY <1>8, <2>2, <2>3 DEF RunTests, Returned
<1>9. ASSUME NEW t \in Threads, RunQueues(t) PROVE TaskInv'
  <2>1. pc[t] = "lock" /\ UNCHANGED <<begun, calls, arg, job>> /\ InCall(t)
    BY <1>9 DEF RunQueues, InCall
  <2>2. CASE pc' = [pc EXCEPT ![t] = "not_full_"] /\ UNCHANGED task_queue_
    <3>1. \A u \in Threads : pc'[u] = IF u = t THEN "not_full_" ELSE pc[u]
      BY <1>2, <2>2
    <3>2. \A u \in Threads : InCall(u)' => InCall(u)
      BY <2>1, <3>1 DEF InCall
    <3>3. \A u \in Threads : pc'[u] = "task" => pc[u] = "task"
      BY <3>1
    <3> QED  BY <1>1, <2>1, <2>2, <3>2, <3>3
  <2>3. CASE /\ task_queue_' = Append(task_queue_, arg[t])
             /\ pc' \in NotifyTaker([pc EXCEPT ![t] = Returned(t)])
    <3>1. Returned(t) \in {"idle", "return"} /\ Returned(t) \in Places
      BY DEF Returned, Places
    <3>2. \A u \in Threads :
            \/ pc'[u] = IF u = t THEN Returned(t) ELSE pc[u]
            \/ pc'[u] = "Take"
      <4>1. pc' \in NotifyOne([pc EXCEPT ![t] = Returned(t)], "not_empty_", "Take")
        BY <2>3 DEF NotifyTaker
      <4> QED  BY SMTT(30), <1>3, <3>1, <4>1
    <3>3. \A u \in Threads : InCall(u)' => InCall(u) /\ u # t
      BY <3>1, <3>2 DEF InCall
    <3>4. \A u \in Threads : pc'[u] = "task" => pc[u] = "task"
      BY <3>1, <3>2
    <3>5. arg[t] \in Tasks /\ arg[t] \notin begun /\ arg[t] \notin Enqueued
      BY <2>1 DEF TaskInv, ArgInv
    <3> DEFINE q == task_queue_'
    <3>6. /\ q \in Seq(Tasks)
          /\ \A i, j \in DOMAIN q : q[i] = q[j] => i = j
          /\ \A i \in DOMAIN q : q[i] = arg[t] \/ \E k \in DOMAIN task_queue_ : task_queue_[k] = q[i]
      <4>1. \A i \in DOMAIN task_queue_ : task_queue_[i] # arg[t]
        BY <3>5 DEF Enqueued
      <4>2. \A i, j \in DOMAIN task_queue_ : task_queue_[i] = task_queue_[j] => i = j
        BY DEF TaskInv, QueueInv
      <4>3. q = Append(task_queue_, arg[t])
        BY <2>3
      <4> HIDE DEF q
      <4> QED  BY SMTT(30), <1>0, <3>5, <4>1, <4>2, <4>3, Pushed
    <3>7. Enqueued' \subseteq Enqueued \cup {arg[t]}
      <4>1. \A i \in DOMAIN q : q[i] = arg[t] \/ q[i] \in Enqueued
        BY <3>6 DEF Enqueued
      <4>2. \A x \in Enqueued' : \E i \in DOMAIN q : q[i] = x
        BY DEF Enqueued
      <4> HIDE DEF q
      <4> QED  BY <4>1, <4>2
    <3> QED  BY <2>1, <3>3, <3>4, <3>5, <3>6, <3>7, TaskQueued
  <2> QED  BY <1>9, <2>2, <2>3 DEF RunQueues
<1>10. ASSUME NEW t \in Threads, Take(t) PROVE TaskInv'
  <2>1. pc[t] = "Take" /\ UNCHANGED <<calls, arg>>
    BY <1>10 DEF Take
  <2>2. CASE \E b \in {"not_empty_", "test"} :
               pc' = [pc EXCEPT ![t] = b] /\ UNCHANGED <<task_queue_, job, begun>>
    <3>1. PICK b \in {"not_empty_", "test"} :
            pc' = [pc EXCEPT ![t] = b] /\ UNCHANGED <<task_queue_, job, begun>>
      BY <2>2
    <3>2. \A u \in Threads : pc'[u] = IF u = t THEN b ELSE pc[u]
      BY <1>2, <3>1
    <3>3. \A u \in Threads : InCall(u)' => InCall(u)
      BY <3>2 DEF InCall
    <3> QED  BY <1>1, <2>1, <3>1, <3>2, <3>3
  <2>3. CASE /\ task_queue_ # <<>> /\ task_queue_' = Tail(task_queue_)
             /\ job' = [job EXCEPT ![t] = Head(task_queue_)]
             /\ begun' = begun \cup {Head(task_queue_)}
             /\ pc' \in NotifyCaller([pc EXCEPT ![t] = "task"])
    <3> DEFINE x == Head(task_queue_)
               q == Tail(task_queue_)
    <3>1. /\ x \in Tasks /\ q \in Seq(Tasks) /\ \E i \in DOMAIN task_queue_ : task_queue_[i] = x
          /\ \A i, j \in DOMAIN q : q[i] = q[j] => i = j
          /\ \A i \in DOMAIN q : q[i] # x /\ \E k \in DOMAIN task_queue_ : task_queue_[k] = q[i]
      BY <1>0, <2>3, Popped DEF TaskInv, QueueInv
    <3> HIDE DEF x, q
    <3>2. x \in Enqueued /\ Enqueued' \subseteq Enqueued \ {x}
      <4>1. Enqueued' = {q[i] : i \in DOMAIN q}
        BY <2>3 DEF Enqueued, q
      <4> QED  BY <3>1, <4>1 DEF Enqueued
    <3>3. x \notin begun /\ Issued(x)
      BY <3>2 DEF TaskInv, QueueInv, Issued
    <3>4. \A u \in Threads :
            \/ pc'[u] = IF u = t THEN "task" ELSE pc[u]
            \/ u # t /\ pc[u] = "not_full_" /\ pc'[u] = "lock"
      <4>1. "task" \in Places
        BY DEF Places
      <4>2. CASE max_queue_size_ > 0
        <5>1. pc' \in NotifyOne([pc EXCEPT ![t] = "task"], "not_full_", "lock")
          BY <2>3, <4>2 DEF NotifyCaller
        <5> QED  BY SMTT(30), <1>3, <4>1, <5>1
      <4>3. CASE ~(max_queue_size_ > 0)
        BY <1>2, <2>3, <4>3 DEF NotifyCaller
      <4> QED  BY <4>2, <4>3
    <3>5. pc'[t] = "task" /\ \A u \in Threads : u # t /\ pc'[u] = "task" => pc[u] = "task"
      BY <3>4
    <3>6. \A u \in Threads : InCall(u)' => InCall(u) /\ arg[u] # x
      <4>1. \A u \in Threads : InCall(u)' => InCall(u)
        BY <3>4 DEF InCall
      <4> QED  BY <3>2, <4>1 DEF TaskInv, ArgInv
    <3>7. job' = [job EXCEPT ![t] = x] /\ begun' = begun \cup {x} /\ task_queue_' = q
      BY <2>3 DEF x, q
    <3> QED  BY <2>1, <3>1, <3>2, <3>3, <3>5, <3>6, <3>7, TaskBegins
  <2> QED  BY <1>10, <2>2, <2>3 DEF Take
<1>11. ASSUME NEW t \in Threads, InTask(t) PROVE TaskInv'
  <2>1. pc[t] = "task" /\ UNCHANGED <<task_queue_, begun, calls, job>>
    BY <1>11 DEF InTask
  <2>2. CASE pc' = [pc EXCEPT ![t] = "return"] /\ UNCHANGED arg
    <3>1. \A u \in Threads : pc'[u] = IF u = t THEN "return" ELSE pc[u]
      BY <1>2, <2>2
    <3>2. \A u \in Threads : InCall(u)' => InCall(u)
      BY <3>1 DEF InCall
    <3> QED  BY <1>1, <2>1, <2>2, <3>1, <3>2
  <2>3. CASE /\ Calls(job[t]) /\ arg' = [arg EXCEPT ![t] = [job[t] EXCEPT !.child = TRUE]]
             /\ pc' = [pc EXCEPT ![t] = "Run"]
    <3> DEFINE x == Child(job[t])
    <3>1. job[t] \in begun /\ job[t] \in Tasks /\ ~job[t].child
      BY <1>0, <2>1, <2>3 DEF TaskInv, JobInv, Calls
    <3>2. x \in Tasks /\ x.n = job[t].n /\ x.of = job[t].of /\ Parent(x) = job[t]
      BY <3>1, Children
    <3>3. ~Issued(x)
      BY <2>1, <3>1 DEF TaskInv, NewInv
    <3>4. arg' = [arg EXCEPT ![t] = x]
      BY <2>3 DEF Child
    <3>5. job[t].n <= calls[job[t].of]
      BY <3>1 DEF TaskInv, NewInv, Issued
    <3>6. \A u \in Threads : pc'[u] = IF u = t THEN "Run" ELSE pc[u]
      BY <1>2, <2>3
    <3>7. \A u \in Threads : u # t /\ InCall(u)' => InCall(u)
      BY <3>6 DEF InCall
    <3>8. \A u \in Threads : pc'[u] = "task" => pc[u] = "task" /\ (~job[u].child => x # Child(job[u]))
      <4>1. ASSUME NEW u \in Threads, pc'[u] = "task"
            PROVE  pc[u] = "task" /\ (~job[u].child => x # Child(job[u]))
        <5>1. u # t /\ pc[u] = "task"
          BY <3>6, <4>1
        <5>2. job[u] # job[t] /\ job[u] \in Tasks
          BY <1>0, <2>1, <5>1 DEF TaskInv, JobInv
        <5>3. ~job[u].child => Parent(Child(job[u])) = job[u]
          BY <5>2, Children
        <5>4. ~job[u].child /\ x = Child(job[u]) => job[u] = job[t]
          BY <3>2, <5>3
        <5> QED  BY <5>1, <5>2, <5>4
      <4> QED  BY <4>1
    <3>9. \A p \in Producers : calls[p] <= calls'[p]
      BY SMTT(30), <1>0, <2>1
    <3>10. x.n <= calls'[x.of] /\ calls' \in [Producers -> Nat] /\ Parent(x) \in begun
      BY <1>0, <2>1, <3>1, <3>2, <3>5
    <3> HIDE DEF x
    <3> QED  BY <2>1, <3>2, <3>3, <3>4, <3>7, <3>8, <3>9, <3>10, TaskIssued
  <2> QED  BY <1>11, <2>2, <2>3 DEF InTask
<1>12. ASSUME NEW t \in Threads, TaskReturns(t) PROVE TaskInv'
  <2>1. /\ UNCHANGED <<task_queue_, begun, calls, arg>> /\ job' = [job EXCEPT ![t] = NoTask]
        /\ pc[t] = "return"
    BY <1>12 DEF TaskReturns
  <2>2. PICK b \in {"test", "idle"} : pc' = [pc EXCEPT ![t] = b]
    BY <1>12 DEF TaskReturns
  <2>3. \A u \in Threads : pc'[u] = IF u = t THEN b ELSE pc[u]
    BY <1>2, <2>2
  <2>4. \A u \in Threads : InCall(u)' => InCall(u)
    BY <2>3 DEF InCall
  <2>5. \A u \in Threads : pc'[u] = "task" => pc[u] = "task" /\ job'[u] = job[u]
    BY <1>0, <2>1, <2>3
  <2>6. job' \in [Threads -> Tasks \cup {NoTask}]
    BY <1>0, <2>1
  <2> QED  BY <2>1, <2>4, <2>5, <2>6, TasksStay
<1>13. ASSUME NEW t \in Threads, RunInThread(t) \/ SpuriousWakeup(t) PROVE TaskInv'
  <2>1. UNCHANGED <<task_queue_, begun, calls, arg, job>>
    BY <1>13 DEF RunInThread, SpuriousWakeup
  <2>2. PICK b \in {"Take", "ended", "lock"} :
          pc' = [pc EXCEPT ![t] = b] /\ (b = "lock" => pc[t] = "not_full_")
    BY <1>13 DEF RunInThread, SpuriousWakeup
  <2>3. \A u \in Threads : pc'[u] = IF u = t THEN b ELSE pc[u]
    BY <1>2, <2>2
  <2>4. \A u \in Threads : InCall(u)' => InCall(u)
    BY <2>2, <2>3 DEF InCall
  <2>5. \A u \in Threads : pc'[u] = "task" => pc[u] = "task"
    BY <2>3
  <2> QED  BY <1>1, <2>1, <2>4, <2>5
<1>14. ASSUME NEW size \in 0 .. MaxQueueSize, set_max_queue_size(size) PROVE TaskInv'
  BY <1>4, <1>14 DEF set_max_queue_size
<1>15. CASE Join
  BY <1>4, <1>15 DEF Join
<1>16. CASE UNCHANGED vars
  BY <1>4, <1>16
<1> QED
  BY <1>5, <1>6, <1>7, <1>8, <1>9, <1>10, <1>11, <1>12, <1>13, <1>14, <1>15, <1>16 DEF Next, ThreadStep

\* The queue stays within max_queue_size_ while the pool runs, no task is in it
\* twice or after it was called, and only threads of the pool take tasks: for any
\* producers, pool threads, tasks that call Run() and queue size.
THEOREM QueueNeverExceeded == Spec => []QueueBounded
<1> DEFINE All == Inv /\ ThreadInv /\ LimitInv /\ TaskInv
<1>1. Init => ThreadInv /\ LimitInv /\ TaskInv
  <2> SUFFICES ASSUME Init PROVE ThreadInv /\ LimitInv /\ TaskInv
    OBVIOUS
  <2>1. /\ \A t \in Threads : pc[t] = "idle"
        /\ task_queue_ = <<>> /\ begun = {} /\ threads_ = {} /\ ~running_
        /\ Producers \subseteq Threads /\ Workers \subseteq Threads
    BY DEF Init, Threads
  <2>2. task_queue_ \in Seq(Tasks) /\ DOMAIN task_queue_ = {} /\ calls \in [Producers -> Nat]
    BY SMTT(30), <2>1 DEF Init
  <2>3. TaskTypes
    BY <2>1, <2>2 DEF Init, TaskTypes
  <2>4. Enqueued = {} /\ \A task : ~Issued(task)
    BY <2>1, <2>2 DEF Enqueued, Issued, InCall
  <2>5. QueueInv /\ ArgInv /\ JobInv /\ NewInv
    BY <2>1, <2>2, <2>4 DEF QueueInv, ArgInv, JobInv, NewInv, InCall
  <2> QED  BY <2>1, <2>3, <2>5 DEF ThreadInv, LimitInv, TaskInv
<1>2. All /\ [Next]_vars => All'
  <2> SUFFICES ASSUME All, [Next]_vars PROVE All'
    OBVIOUS
  <2>1. Inv'
    BY StepKeeps
  <2>2. ThreadInv' /\ TaskInv'
    BY ThreadsKept, TasksKept
  <2>3. LimitInv'
    BY LimitKept DEF TaskInv
  <2> QED  BY <2>1, <2>2, <2>3
<1>3. All => QueueBounded
  <2> SUFFICES ASSUME All PROVE QueueBounded
    OBVIOUS
  <2>1. \A task \in begun : ~Queued(task)
    BY DEF TaskInv, QueueInv, Enqueued, Queued
  <2>2. At("not_empty_") \cup At("Take") \subseteq threads_
    BY DEF ThreadInv, At, Threads
  <2> QED  BY <2>1, <2>2 DEF QueueBounded, LimitInv, TaskInv, QueueInv
<1>4. Init => Inv
  BY InitEstablishes
<1> HIDE DEF All
<1> QED  BY <1>1, <1>2, <1>3, <1>4, PTL DEF Spec, All
=============================================================================
