----------------------------- MODULE TaskProofs -----------------------------
(***************************************************************************)
(* Theorems about the tasks of the translation server: the pool of threads *)
(* that executes them, for every set of tasks, every finite set of workers *)
(* and every sequence of resizes, and the job they belong to, for every    *)
(* finite set of sentences.                                                *)
(*                                                                         *)
(* The pool.  TaskInOnePlace counts; what a step preserves is easier seen  *)
(* from OnePlaceInv, which names the place.  Both rest on HandsInv (a      *)
(* worker holds a task between popping it and the end of execute(), and is *)
(* busy in the second half of that only), and ResizeSafe on the index and  *)
(* the target of the shrinking loop (LoopInv).                             *)
(*                                                                         *)
(* The job.  The properties speak of the counters and of what was          *)
(* notified; they are inductive together with who holds m_tasks_lock       *)
(* (LockInv), when exactly the job pool was told (NotifyInv), and what a   *)
(* task's code and text can be before and after its end (TextInv).         *)
(***************************************************************************)
EXTENDS TaskPool, TransJob, FiniteSetTheorems, TLAPS

-----------------------------------------------------------------------------
(* The pool of working threads                                               *)

MutexInv == \A w \in Workers : mutex = w <=> wpc[w] \in {"locked", "empty"}

HandsInv ==
  \A w \in Workers : /\ taskOf[w] # NoTask <=> wpc[w] \in {"popped", "exec"}
                     /\ isBusy[w] <=> wpc[w] = "exec"

Queued(t) == t \in tasks /\ executed[t] = 0 /\ \A w \in Workers : taskOf[w] # t
HeldBy(w, t) == t \notin tasks /\ executed[t] = 0 /\ \A v \in Workers : taskOf[v] = t <=> v = w
Executed(t) == t \notin tasks /\ executed[t] = 1 /\ \A w \in Workers : taskOf[w] # t
Unknown(t) == t \notin tasks /\ executed[t] = 0 /\ \A w \in Workers : taskOf[w] # t

OnePlaceInv ==
  \A t \in Tasks : IF plan[t] = "new" THEN Unknown(t)
                   ELSE Queued(t) \/ Executed(t) \/ \E w \in Workers : HeldBy(w, t)

LoopInv ==
  apc \in {"scan", "notifyAll", "join"} => idx < Len(workers) /\ target < Len(workers) /\ target > 0

ListInv ==
  /\ apc # "gone" => Range(workers) = {w \in Workers : wpc[w] \notin {"none", "deleted"}}
  /\ IsInjective(workers)

IInv == TypeOK /\ MutexInv /\ HandsInv /\ OnePlaceInv /\ LoopInv /\ ListInv

-----------------------------------------------------------------------------
(* What appending to and removing from m_workers does to the list. *)

LEMMA RangeIs ==
  ASSUME NEW S, NEW s \in Seq(S)
  PROVE  \A x : x \in Range(s) <=> \E k \in 1..Len(s) : s[k] = x
BY DEF Range

LEMMA AppendList ==
  ASSUME NEW S, NEW s \in Seq(S), NEW x \in S, x \notin Range(s), IsInjective(s)
  PROVE  /\ Append(s, x) \in Seq(S) /\ IsInjective(Append(s, x))
         /\ Range(Append(s, x)) = Range(s) \cup {x}
<1> DEFINE a == Append(s, x)
<1>1. a \in Seq(S) /\ Len(a) = Len(s) + 1
  OBVIOUS
<1>2. \A k \in 1..Len(a) : a[k] = IF k = Len(s) + 1 THEN x ELSE s[k]
  OBVIOUS
<1>3. \A k \in 1..Len(s) : s[k] # x
  BY RangeIs
<1>4. IsInjective(a)
  <2>1. DOMAIN a = 1..Len(s) + 1 /\ DOMAIN s = 1..Len(s)
    BY <1>1
  <2>2. QED
    BY <1>1, <1>2, <1>3, <2>1 DEF IsInjective
<1>5. ASSUME NEW y PROVE y \in Range(a) <=> y \in Range(s) \cup {x}
  <2>1. y \in Range(a) <=> \E k \in 1..Len(a) : a[k] = y
    BY <1>1, RangeIs
  <2>2. y \in Range(s) <=> \E k \in 1..Len(s) : s[k] = y
    BY RangeIs
  <2>3. a[Len(s) + 1] = x /\ Len(s) + 1 \in 1..Len(a) /\ \A k \in 1..Len(s) : k \in 1..Len(a) /\ a[k] = s[k]
    BY <1>1, <1>2
  <2>4. QED
    BY <1>1, <1>2, <2>1, <2>2, <2>3
<1>6. QED
  BY <1>1, <1>4, <1>5

LEMMA RemoveList ==
  ASSUME NEW S, NEW s \in Seq(S), NEW i \in 1..Len(s), IsInjective(s)
  PROVE  /\ RemoveAt(s, i) \in Seq(S) /\ Len(RemoveAt(s, i)) = Len(s) - 1
         /\ IsInjective(RemoveAt(s, i))
         /\ Range(RemoveAt(s, i)) = Range(s) \ {s[i]}
<1> DEFINE p == SubSeq(s, 1, i - 1)
           q == SubSeq(s, i + 1, Len(s))
           r == RemoveAt(s, i)
<1>a. p \in Seq(S) /\ Len(p) = i - 1 /\ \A k \in 1..i - 1 : p[k] = s[k]
  OBVIOUS
<1>b. q \in Seq(S) /\ Len(q) = Len(s) - i /\ \A k \in 1..Len(s) - i : q[k] = s[k + i]
  OBVIOUS
<1>c. r = p \o q
  BY DEF RemoveAt
<1> HIDE DEF p, q, r
<1>1. r \in Seq(S) /\ Len(r) = Len(s) - 1
  BY <1>a, <1>b, <1>c
<1>2. ASSUME NEW k \in 1..Len(s) - 1 PROVE r[k] = IF k < i THEN s[k] ELSE s[k + 1]
  <2>1. CASE k < i
    <3>1. k \in 1..i - 1 /\ k \in 1..Len(p)
      BY <1>a, <2>1
    <3>2. (p \o q)[k] = p[k]
      BY <1>a, <1>b, <3>1
    <3>3. QED
      BY <1>a, <1>c, <2>1, <3>1, <3>2
  <2>2. CASE k >= i
    <3>1. k - (i - 1) \in 1..Len(s) - i /\ k - (i - 1) + i = k + 1 /\ k \in Len(p) + 1..Len(p) + Len(q)
      BY <1>a, <1>b, <2>2
    <3>2. (p \o q)[k] = q[k - (i - 1)]
      BY <1>a, <1>b, <3>1
    <3>3. q[k - (i - 1)] = s[k + 1]
      BY <1>b, <3>1
    <3>4. QED
      BY <1>c, <2>2, <3>2, <3>3
  <2>3. QED
    BY <2>1, <2>2
<1>3. DOMAIN r = 1..Len(s) - 1 /\ DOMAIN s = 1..Len(s) /\ Len(s) \in Nat
  BY <1>1
<1>4. IsInjective(r)
  <2>1. ASSUME NEW k \in 1..Len(s) - 1, NEW l \in 1..Len(s) - 1, r[k] = r[l] PROVE k = l
    <3> DEFINE m == IF k < i THEN k ELSE k + 1
               n == IF l < i THEN l ELSE l + 1
    <3>1. m \in 1..Len(s) /\ n \in 1..Len(s) /\ (m = n => k = l)
      BY <1>3
    <3>2. r[k] = s[m] /\ r[l] = s[n]
      BY <1>2
    <3> HIDE DEF m, n
    <3>3. m = n
      BY <1>3, <2>1, <3>1, <3>2 DEF IsInjective
    <3>4. QED
      BY <3>1, <3>3
  <2>2. QED
    BY <1>3, <2>1 DEF IsInjective
<1>5. ASSUME NEW y PROVE y \in Range(r) <=> y \in Range(s) /\ y # s[i]
  <2>1. ASSUME y \in Range(r) PROVE y \in Range(s) /\ y # s[i]
    <3>1. PICK k \in 1..Len(s) - 1 : r[k] = y
      BY <1>1, <2>1, RangeIs
    <3>2. CASE k < i
      BY <1>2, <1>3, <3>1, <3>2, RangeIs DEF IsInjective
    <3>3. CASE k >= i
      BY <1>2, <1>3, <3>1, <3>3, RangeIs DEF IsInjective
    <3>4. QED
      BY <3>2, <3>3
  <2>2. ASSUME y \in Range(s), y # s[i] PROVE y \in Range(r)
    <3>1. PICK k \in 1..Len(s) : s[k] = y
      BY <2>2, RangeIs
    <3>2. CASE k < i
      <4>1. k \in 1..Len(r) /\ r[k] = y
        BY <1>1, <1>2, <1>3, <3>1, <3>2
      <4>2. QED
        BY <1>1, <4>1, RangeIs
    <3>3. CASE k > i
      <4>1. k - 1 \in 1..Len(r) /\ r[k - 1] = y
        BY <1>1, <1>2, <1>3, <3>1, <3>3
      <4>2. QED
        BY <1>1, <4>1, RangeIs
    <3>4. QED
      BY <2>2, <3>1, <3>2, <3>3
  <2>3. QED
    BY <2>1, <2>2
<1>6. QED
  BY <1>1, <1>4, <1>5 DEF r

-----------------------------------------------------------------------------
LEMMA InitIInv == Init => IInv
<1> SUFFICES ASSUME Init PROVE IInv
  OBVIOUS
<1> USE WorkersEnough, SizesType DEF Init
<1>1. TypeOK
  <2>1. /\ workers \in Seq(Workers) /\ resizes \in 0..MaxResizes
        /\ taskOf \in [Workers -> Tasks \cup {NoTask}]
    OBVIOUS
  <2>2. wpc \in [Workers -> WorkerPC]
    BY DEF WorkerPC
  <2>3. QED
    BY <2>1, <2>2 DEF TypeOK, AdminPC
<1>2. MutexInv /\ HandsInv /\ LoopInv
  BY DEF MutexInv, HandsInv, LoopInv
<1>3. OnePlaceInv
  BY DEF OnePlaceInv, Unknown
<1>4. ListInv
  <2>1. Range(FirstWorkers) \subseteq Workers
    BY RangeIs
  <2>2. QED
    BY <2>1 DEF ListInv
<1>5. QED
  BY <1>1, <1>2, <1>3, <1>4 DEF IInv

\* In the shrinking loop the position looked at is one of the list.
LEMMA LoopPosition ==
  ASSUME IInv, apc \in {"scan", "notifyAll", "join"}
  PROVE  /\ idx + 1 \in 1..Len(workers) /\ workers[idx + 1] \in Workers
         /\ workers[idx + 1] \in Range(workers) /\ Len(workers) \in Nat
<1>1. workers \in Seq(Workers) /\ idx \in Nat /\ idx < Len(workers)
  BY DEF IInv, TypeOK, LoopInv
<1>2. idx + 1 \in 1..Len(workers)
  BY <1>1
<1>3. QED
  BY <1>1, <1>2, RangeIs

LEMMA TypeStep ==
  ASSUME IInv, [Next]_vars
  PROVE  TypeOK'
<1> USE SizesType DEF IInv, TypeOK, WorkerPC, AdminPC, WGoto, WakeAll, pool, threads, adminVars
<1>1. ASSUME NEW t \in Tasks, PushTask(t) \/ NotifyOne(t) PROVE TypeOK'
  BY <1>1 DEF PushTask, NotifyOne
<1>2. ASSUME NEW w \in Workers, SpuriousWakeup(w) PROVE TypeOK'
  BY <1>2 DEF SpuriousWakeup
<1>3. ASSUME NEW w \in Workers, WorkerStep(w) PROVE TypeOK'
  <2>1. CASE WorkerLeaves(w) \/ WorkerLocks(w) \/ WorkerFindsEmpty(w) \/ WorkerWaits(w)
             \/ WorkerEnds(w)
    BY <2>1 DEF WorkerLeaves, WorkerLocks, WorkerFindsEmpty, WorkerWaits, WorkerEnds
  <2>2. ASSUME NEW t \in Tasks, WorkerPops(w, t) PROVE TypeOK'
    BY <2>2 DEF WorkerPops
  <2>3. CASE WorkerBusy(w)
    BY <2>3 DEF WorkerBusy
  <2>4. CASE WorkerExecutes(w)
    <3>1. taskOf[w] \in Tasks
      BY <2>4 DEF WorkerExecutes, HandsInv
    <3>2. QED
      BY <2>4, <3>1 DEF WorkerExecutes
  <2>5. QED
    BY <1>3, <2>1, <2>2, <2>3, <2>4 DEF WorkerStep
<1>4. ASSUME NEW n \in Sizes, SetNumThreads(n) PROVE TypeOK'
  BY <1>4 DEF SetNumThreads
<1>5. CASE AdminStep
  <2>1. ASSUME NEW w \in Workers, AddWorker(w) PROVE TypeOK'
    BY <2>1 DEF AddWorker
  <2>2. CASE SkipBusy
    <3>1. (idx + 1) % Len(workers) \in Nat
      BY <2>2, LoopPosition DEF SkipBusy
    <3>2. QED
      BY <2>2, <3>1 DEF SkipBusy
  <2>3. CASE StopIdle
    BY <2>3 DEF StopIdle
  <2>4. CASE NotifyAll
    BY <2>4 DEF NotifyAll
  <2>5. CASE JoinAndErase
    <3>1. (idx + 1) % (Len(workers) - 1) \in Nat
      BY <2>5, LoopPosition DEF JoinAndErase, Joined, LoopInv
    <3>2. RemoveAt(workers, idx + 1) \in Seq(Workers)
      BY <2>5, LoopPosition, RemoveList DEF JoinAndErase, Joined, ListInv
    <3>3. QED
      BY <2>5, <3>1, <3>2 DEF JoinAndErase, Joined, Erase
  <2>6. CASE DestroyNotify
    BY <2>6 DEF DestroyNotify
  <2>7. CASE DestroyJoin
    BY <2>7 DEF DestroyJoin
  <2>8. QED
    BY <1>5, <2>1, <2>2, <2>3, <2>4, <2>5, <2>6, <2>7 DEF AdminStep
<1>6. CASE Destroy
  BY <1>6 DEF Destroy
<1>7. CASE UNCHANGED vars
  BY <1>7 DEF vars
<1>8. QED
  BY <1>1, <1>2, <1>3, <1>4, <1>5, <1>6, <1>7 DEF Next

-----------------------------------------------------------------------------
LEMMA HandsStep ==
  ASSUME IInv, [Next]_vars
  PROVE  MutexInv' /\ HandsInv'
<1> USE WorkersEnough DEF IInv, TypeOK, MutexInv, HandsInv, WGoto, WakeAll, pool, threads, adminVars
<1>1. ASSUME NEW t \in Tasks, PushTask(t) \/ NotifyOne(t) PROVE MutexInv' /\ HandsInv'
  BY <1>1 DEF PushTask, NotifyOne, Free
<1>2. ASSUME NEW w \in Workers, SpuriousWakeup(w) PROVE MutexInv' /\ HandsInv'
  BY <1>2 DEF SpuriousWakeup
<1>3. ASSUME NEW w \in Workers, WorkerStep(w) PROVE MutexInv' /\ HandsInv'
  <2>1. CASE WorkerLeaves(w)
    BY <2>1 DEF WorkerLeaves
  <2>2. CASE WorkerLocks(w)
    BY <2>2 DEF WorkerLocks, Free
  <2>3. CASE WorkerFindsEmpty(w)
    BY <2>3 DEF WorkerFindsEmpty
  <2>4. CASE WorkerWaits(w)
    BY <2>4 DEF WorkerWaits
  <2>5. CASE WorkerEnds(w)
    BY <2>5 DEF WorkerEnds
  <2>6. ASSUME NEW t \in Tasks, WorkerPops(w, t) PROVE MutexInv' /\ HandsInv'
    BY <2>6 DEF WorkerPops
  <2>7. CASE WorkerBusy(w)
    BY <2>7 DEF WorkerBusy
  <2>8. CASE WorkerExecutes(w)
    BY <2>8 DEF WorkerExecutes
  <2>9. QED
    BY <1>3, <2>1, <2>2, <2>3, <2>4, <2>5, <2>6, <2>7, <2>8 DEF WorkerStep
<1>4. ASSUME NEW n \in Sizes, SetNumThreads(n) PROVE MutexInv' /\ HandsInv'
  BY <1>4 DEF SetNumThreads
<1>5. CASE AdminStep
  <2>1. ASSUME NEW w \in Workers, AddWorker(w) PROVE MutexInv' /\ HandsInv'
    BY <2>1 DEF AddWorker
  <2>2. CASE SkipBusy \/ StopIdle
    BY <2>2 DEF SkipBusy, StopIdle
  <2>3. CASE NotifyAll \/ DestroyNotify
    BY <2>3, SMTT(30) DEF NotifyAll, DestroyNotify
  <2>4. CASE JoinAndErase
    BY <2>4, LoopPosition DEF JoinAndErase, Joined, Erase
  <2>5. CASE DestroyJoin
    BY <2>5 DEF DestroyJoin
  <2>6. QED
    BY <1>5, <2>1, <2>2, <2>3, <2>4, <2>5 DEF AdminStep
<1>6. CASE Destroy
  BY <1>6 DEF Destroy
<1>7. CASE UNCHANGED vars
  BY <1>7 DEF vars
<1>8. QED
  BY <1>1, <1>2, <1>3, <1>4, <1>5, <1>6, <1>7 DEF Next

-----------------------------------------------------------------------------
\* Only planning, popping and executing move a task.
LEMMA PlacesSame ==
  ASSUME OnePlaceInv, UNCHANGED <<tasks, taskOf, executed>>,
         \A t \in Tasks : plan'[t] = "new" <=> plan[t] = "new"
  PROVE  OnePlaceInv'
BY DEF OnePlaceInv, Queued, HeldBy, Executed, Unknown

LEMMA PlacesStep ==
  ASSUME IInv, [Next]_vars
  PROVE  OnePlaceInv'
<1> USE DEF IInv
<1> DEFINE Same == UNCHANGED <<tasks, taskOf, executed, plan>>
<1>1. ASSUME Same PROVE OnePlaceInv'
  BY <1>1, PlacesSame
<1>2. ASSUME NEW t \in Tasks, PushTask(t) PROVE OnePlaceInv'
  <2>1. \A u \in Tasks : u # t => plan'[u] = plan[u]
    BY <1>2 DEF PushTask, TypeOK
  <2>2. plan'[t] = "pushed" /\ Queued(t)'
    BY <1>2 DEF PushTask, TypeOK, threads, OnePlaceInv, Unknown, Queued
  <2>3. \A u \in Tasks : u # t => (u \in tasks' <=> u \in tasks)
    BY <1>2 DEF PushTask
  <2>4. UNCHANGED <<taskOf, executed>>
    BY <1>2 DEF PushTask, threads
  <2>5. QED
    BY <2>1, <2>2, <2>3, <2>4 DEF OnePlaceInv, Queued, HeldBy, Executed, Unknown
<1>3. ASSUME NEW t \in Tasks, NotifyOne(t) PROVE OnePlaceInv'
  BY <1>3, PlacesSame DEF NotifyOne, pool, TypeOK
<1>4. ASSUME NEW w \in Workers, SpuriousWakeup(w) PROVE OnePlaceInv'
  BY <1>1, <1>4 DEF SpuriousWakeup, pool
<1>5. ASSUME NEW w \in Workers, WorkerStep(w) PROVE OnePlaceInv'
  <2>1. CASE WorkerLeaves(w) \/ WorkerLocks(w) \/ WorkerFindsEmpty(w) \/ WorkerWaits(w)
             \/ WorkerEnds(w) \/ WorkerBusy(w)
    BY <1>1, <2>1 DEF WorkerLeaves, WorkerLocks, WorkerFindsEmpty, WorkerWaits, WorkerEnds,
                      WorkerBusy, pool
  <2>2. ASSUME NEW t \in Tasks, WorkerPops(w, t) PROVE OnePlaceInv'
    <3>1. /\ t \in tasks /\ tasks' = tasks \ {t} /\ UNCHANGED <<executed, plan>>
          /\ taskOf[w] = NoTask /\ taskOf' = [taskOf EXCEPT ![w] = t]
      BY <2>2 DEF WorkerPops, HandsInv
    <3>2. Queued(t) /\ plan[t] # "new"
      BY <3>1 DEF OnePlaceInv, Queued, HeldBy, Executed, Unknown
    <3>3. HeldBy(w, t)'
      BY <3>1, <3>2 DEF Queued, HeldBy, TypeOK
    <3>4. ASSUME NEW u \in Tasks, u # t
          PROVE  /\ u \in tasks' <=> u \in tasks
                 /\ \A v \in Workers : taskOf'[v] = u <=> taskOf[v] = u
      BY <3>1, <3>4, WorkersEnough DEF TypeOK
    <3>5. QED
      BY <3>1, <3>2, <3>3, <3>4 DEF OnePlaceInv, Queued, HeldBy, Executed, Unknown
  <2>3. CASE WorkerExecutes(w)
    <3>1. PICK t \in Tasks : /\ t = taskOf[w] /\ UNCHANGED <<tasks, plan>>
                             /\ taskOf' = [taskOf EXCEPT ![w] = NoTask]
                             /\ executed' = [executed EXCEPT ![t] = @ + 1]
      BY <2>3 DEF WorkerExecutes, HandsInv, TypeOK, pool
    <3>2. HeldBy(w, t) /\ plan[t] # "new"
      BY <3>1 DEF OnePlaceInv, Queued, HeldBy, Executed, Unknown
    <3>3. Executed(t)'
      <4>1. executed[t] = 0 /\ executed'[t] = executed[t] + 1 /\ t \notin tasks'
        BY <3>1, <3>2 DEF HeldBy, TypeOK
      <4>2. \A v \in Workers : taskOf'[v] # t
        BY <3>1, <3>2, WorkersEnough DEF HeldBy, TypeOK
      <4>3. QED
        BY <4>1, <4>2 DEF Executed
    <3>4. ASSUME NEW u \in Tasks, u # t
          PROVE  /\ executed'[u] = executed[u]
                 /\ \A v \in Workers : taskOf'[v] = u <=> taskOf[v] = u
      BY <3>1, <3>4, WorkersEnough DEF TypeOK
    <3>5. QED
      BY <3>1, <3>2, <3>3, <3>4 DEF OnePlaceInv, Queued, HeldBy, Executed, Unknown
  <2>4. QED
    BY <1>5, <2>1, <2>2, <2>3 DEF WorkerStep
<1>6. ASSUME NEW n \in Sizes, SetNumThreads(n) PROVE OnePlaceInv'
  BY <1>1, <1>6 DEF SetNumThreads, pool, threads
<1>7. CASE AdminStep
  <2>1. Same
    BY <1>7 DEF AdminStep, AddWorker, SkipBusy, StopIdle, NotifyAll, JoinAndErase, Erase,
                DestroyNotify, DestroyJoin, pool, threads
  <2>2. QED
    BY <1>1, <2>1
<1>8. CASE Destroy
  BY <1>1, <1>8 DEF Destroy, threads
<1>9. CASE UNCHANGED vars
  BY <1>1, <1>9 DEF vars, pool, threads
<1>10. QED
  BY <1>2, <1>3, <1>4, <1>5, <1>6, <1>7, <1>8, <1>9 DEF Next

\* OnePlaceInv is TaskInOnePlace without the counting.
LEMMA PlacesCounted ==
  ASSUME IInv
  PROVE  TaskInOnePlace
<1> SUFFICES ASSUME NEW t \in Tasks, plan[t] # "new"
             PROVE (IF t \in tasks THEN 1 ELSE 0) + Cardinality(Holders(t)) + executed[t] = 1
  BY DEF TaskInOnePlace
<1>1. CASE Queued(t) \/ Executed(t)
  <2>1. Holders(t) = {}
    BY <1>1 DEF Holders, Queued, Executed
  <2>2. Cardinality(Holders(t)) = 0
    BY <2>1, FS_EmptySet
  <2>3. QED
    BY <1>1, <2>2 DEF Queued, Executed
<1>2. ASSUME NEW w \in Workers, HeldBy(w, t)
      PROVE (IF t \in tasks THEN 1 ELSE 0) + Cardinality(Holders(t)) + executed[t] = 1
  <2>1. Holders(t) = {w}
    BY <1>2 DEF Holders, HeldBy
  <2>2. Cardinality(Holders(t)) = 1
    BY <2>1, FS_Singleton
  <2>3. QED
    BY <1>2, <2>2 DEF HeldBy
<1>3. QED
  BY <1>1, <1>2 DEF IInv, OnePlaceInv

-----------------------------------------------------------------------------
\* The list is untouched and no thread begins or is deleted.
LEMMA ListSame ==
  ASSUME ListInv, UNCHANGED workers, apc' # "gone" => apc # "gone",
         \A w \in Workers : wpc'[w] \in {"none", "deleted"} <=> wpc[w] \in {"none", "deleted"}
  PROVE  ListInv'
BY DEF ListInv

LEMMA ListStep ==
  ASSUME IInv, [Next]_vars
  PROVE  ListInv' /\ LoopInv'
<1> USE DEF IInv
<1>1. ASSUME UNCHANGED <<workers, apc, target, idx>>,
             \A w \in Workers : wpc'[w] \in {"none", "deleted"} <=> wpc[w] \in {"none", "deleted"}
      PROVE  ListInv' /\ LoopInv'
  BY <1>1, ListSame DEF LoopInv
<1>2. ASSUME NEW t \in Tasks, PushTask(t) \/ NotifyOne(t) PROVE ListInv' /\ LoopInv'
  BY <1>1, <1>2 DEF PushTask, NotifyOne, WGoto, TypeOK, threads, adminVars
<1>3. ASSUME NEW w \in Workers, SpuriousWakeup(w) PROVE ListInv' /\ LoopInv'
  BY <1>1, <1>3 DEF SpuriousWakeup, WGoto, TypeOK, adminVars
<1>4. ASSUME NEW w \in Workers, WorkerStep(w) PROVE ListInv' /\ LoopInv'
  <2>1. UNCHANGED <<workers, apc, target, idx>>
    BY <1>4 DEF WorkerStep, WorkerLeaves, WorkerLocks, WorkerFindsEmpty, WorkerWaits, WorkerEnds,
                WorkerPops, WorkerBusy, WorkerExecutes, adminVars
  <2>2. \E l \in WorkerPC \ {"none", "deleted"} : WGoto(w, l)
    BY <1>4 DEF WorkerStep, WorkerLeaves, WorkerLocks, WorkerFindsEmpty, WorkerWaits, WorkerEnds,
                WorkerPops, WorkerBusy, WorkerExecutes, WorkerPC
  <2>3. wpc[w] \notin {"none", "deleted"}
    BY <1>4 DEF WorkerStep, WorkerLeaves, WorkerLocks, WorkerFindsEmpty, WorkerWaits, WorkerEnds,
                WorkerPops, WorkerBusy, WorkerExecutes
  <2>4. QED
    BY <1>1, <2>1, <2>2, <2>3 DEF WGoto, TypeOK
<1>5. ASSUME NEW n \in Sizes, SetNumThreads(n) PROVE ListInv' /\ LoopInv'
  <2>1. ListInv'
    BY <1>5, ListSame DEF SetNumThreads, threads
  <2>2. LoopInv'
    BY <1>5, SizesType DEF SetNumThreads, LoopInv, TypeOK
  <2>3. QED
    BY <2>1, <2>2
<1>6. CASE AdminStep
  <2>1. ASSUME NEW w \in Workers, AddWorker(w) PROVE ListInv' /\ LoopInv'
    <3>1. /\ apc = "grow" /\ wpc[w] = "none" /\ workers' = Append(workers, w)
          /\ wpc' = [wpc EXCEPT ![w] = "loop"] /\ apc' \in {"grow", "idle"}
      BY <2>1 DEF AddWorker, WGoto
    <3>2. w \notin Range(workers)
      BY <3>1 DEF ListInv
    <3>3. Range(workers') = Range(workers) \cup {w} /\ IsInjective(workers')
      BY <3>1, <3>2, AppendList DEF ListInv, TypeOK
    <3>4. Range(workers') = {v \in Workers : wpc'[v] \notin {"none", "deleted"}}
      BY <3>1, <3>3 DEF ListInv, TypeOK
    <3>5. QED
      BY <3>1, <3>3, <3>4 DEF ListInv, LoopInv
  <2>2. CASE SkipBusy
    <3>1. (idx + 1) % Len(workers) < Len(workers)
      BY <2>2, LoopPosition DEF SkipBusy
    <3>2. QED
      BY <2>2, <3>1, ListSame DEF SkipBusy, LoopInv, threads
  <2>3. CASE StopIdle
    BY <2>3, ListSame DEF StopIdle, LoopInv
  <2>4. CASE NotifyAll \/ DestroyNotify
    BY <2>4, ListSame DEF NotifyAll, DestroyNotify, WakeAll, LoopInv
  <2>5. CASE JoinAndErase
    <3> DEFINE w == workers[idx + 1]
    <3>1. /\ apc = "join" /\ workers' = RemoveAt(workers, idx + 1)
          /\ wpc' = [wpc EXCEPT ![w] = "deleted"]
          /\ idx' = (idx + 1) % (Len(workers) - 1)
          /\ apc' = IF Len(workers) - 1 = target THEN "idle" ELSE "scan"
          /\ target' = target
      BY <2>5 DEF JoinAndErase, Joined, Erase
    <3>2. /\ Len(workers') = Len(workers) - 1
          /\ IsInjective(workers') /\ Range(workers') = Range(workers) \ {w}
      BY <3>1, LoopPosition, RemoveList DEF TypeOK, ListInv
    <3>3. Range(workers') = {v \in Workers : wpc'[v] \notin {"none", "deleted"}}
      BY <3>1, <3>2, LoopPosition DEF ListInv, TypeOK
    <3>4. LoopInv'
      <4>1. /\ target < Len(workers) /\ target > 0 /\ target \in Nat /\ idx \in Nat
            /\ Len(workers) \in Nat
        BY <3>1, LoopPosition DEF LoopInv, TypeOK
      <4>2. ASSUME NEW n \in Nat, NEW m \in Nat, m > 0 PROVE n % m < m
        BY <4>2
      <4>3. (idx + 1) % (Len(workers) - 1) < Len(workers) - 1
        BY <4>1, <4>2
      <4>4. QED
        BY <3>1, <3>2, <4>1, <4>3 DEF LoopInv
    <3>5. QED
      BY <3>2, <3>3, <3>4 DEF ListInv
  <2>6. CASE DestroyJoin
    BY <2>6 DEF DestroyJoin, ListInv, LoopInv
  <2>7. QED
    BY <1>6, <2>1, <2>2, <2>3, <2>4, <2>5, <2>6 DEF AdminStep
<1>7. CASE Destroy
  BY <1>7, ListSame DEF Destroy, LoopInv, threads
<1>8. CASE UNCHANGED vars
  BY <1>1, <1>8 DEF vars, threads, adminVars
<1>9. QED
  BY <1>2, <1>3, <1>4, <1>5, <1>6, <1>7, <1>8 DEF Next

LEMMA ResizeIsSafe ==
  ASSUME IInv
  PROVE  ResizeSafe
BY DEF IInv, ResizeSafe, MutexInv, HandsInv, LoopInv, ListInv

-----------------------------------------------------------------------------
LEMMA Inductive == Spec => []IInv
<1>1. IInv /\ [Next]_vars => IInv'
  BY TypeStep, HandsStep, PlacesStep, ListStep DEF IInv
<1>2. QED
  BY InitIInv, <1>1, PTL DEF Spec

\* The variables keep their types: every index the loops compute is one, and a
\* worker executes only tasks.
THEOREM TypeAlways == Spec => []TypeOK
<1>1. IInv => TypeOK
  BY DEF IInv
<1>2. QED
  BY Inductive, <1>1, PTL

\* A planned task is queued, held by one worker or executed once, whatever the
\* console does to the pool meanwhile.
THEOREM TaskInOnePlaceAlways == Spec => []TaskInOnePlace
<1>1. IInv => TaskInOnePlace
  BY PlacesCounted
<1>2. QED
  BY Inductive, <1>1, PTL

\* Resizing deletes only workers whose threads ended with empty hands, loses
\* track of none and never leaves the list's bounds.
THEOREM ResizeSafeAlways == Spec => []ResizeSafe
<1>1. IInv => ResizeSafe
  BY ResizeIsSafe
<1>2. QED
  BY Inductive, <1>1, PTL

-----------------------------------------------------------------------------
(* A job and its tasks                                                       *)

LockInv == \A t \in Tasks : tasksLock = t <=> tpc[t] \in {"counted", "told"}

NotifyInv ==
  notified = IF Counted = Tasks /\ \A t \in Tasks : tpc[t] # "counted" THEN 1 ELSE 0

TextInv ==
  \A t \in Tasks :
    /\ tpc[t] \in {"new", "planned", "translating"} => code[t] = "UNDEFINED"
    /\ tpc[t] = "over" => /\ code[t] \in {"UNDEFINED", "ERROR"}
                          /\ code[t] = "ERROR" \/ isStop[t] \/ text[t] = "target"
    /\ t \in Settled => /\ code[t] \in {"OK", "CANCELED", "ERROR"}
                        /\ text[t] = IF code[t] = "OK" THEN "target" ELSE "source"

RespInv ==
  /\ collected # {} \/ jobStatus # "none" => notified = 1
  /\ \A t \in collected : response[t] = code[t]
  /\ jobStatus = "OK" => With("OK") = Tasks
  /\ jobStatus = "CANCELED" => With("CANCELED") = Tasks
  /\ jobStatus = "PARTIAL" => With("OK") # Tasks /\ With("CANCELED") # Tasks

JIInv == JTypeOK /\ LockInv /\ CountsMatchResults /\ NotifyInv /\ TextInv /\ RespInv

-----------------------------------------------------------------------------
LEMMA InitJIInv == JInit => JIInv
<1> SUFFICES ASSUME JInit PROVE JIInv
  OBVIOUS
<1> USE TasksFinite, CancelsType DEF JInit
<1>1. Cardinality({}) = 0
  BY FS_EmptySet
<1>2. Counted = {} /\ Cardinality(Tasks) \in Nat
  BY FS_CardinalityType DEF Counted
<1>3. JTypeOK
  BY <1>2 DEF JTypeOK, Codes, TaskPC
<1>4. LockInv /\ NotifyInv /\ TextInv /\ RespInv
  BY <1>2 DEF LockInv, NotifyInv, TextInv, RespInv, Settled
<1>5. CountsMatchResults
  <2>1. Counted \cap With("ERROR") = {} /\ Counted \cap With("CANCELED") = {}
    BY <1>2
  <2>2. QED
    BY <1>1, <1>2, <2>1 DEF CountsMatchResults
<1>6. QED
  BY <1>3, <1>4, <1>5 DEF JIInv

\* Once the job pool was told, all tasks reported and none holds the lock's
\* counting section.
LEMMA AllReported ==
  ASSUME JTypeOK, NotifyInv, notified > 0
  PROVE  notified = 1 /\ \A t \in Tasks : tpc[t] \in {"told", "done"}
BY DEF NotifyInv, Counted

\* A task that reports adds itself, and nothing else, to those that reported.
LEMMA CountedGrows ==
  ASSUME NEW t \in Tasks, CountTask(t), JTypeOK, CountsMatchResults
  PROVE  CountsMatchResults' /\ numDone' \in 0..Cardinality(Tasks)
<1>1. t \notin Counted /\ Counted' = Counted \cup {t} /\ code' = code
  BY DEF CountTask, Counted, TGoto, JTypeOK
<1>2. IsFiniteSet(Counted) /\ IsFiniteSet(Counted')
  BY TasksFinite, FS_Subset DEF Counted
<1>3. Cardinality(Counted') = Cardinality(Counted) + 1
  BY <1>1, <1>2, FS_AddElement
<1>4. ASSUME NEW c
      PROVE  Cardinality((Counted \cap With(c))')
               = Cardinality(Counted \cap With(c)) + (IF code[t] = c THEN 1 ELSE 0)
  <2>1. IsFiniteSet(Counted \cap With(c)) /\ t \notin Counted \cap With(c)
    BY <1>1, <1>2, FS_Subset
  <2>2. (Counted \cap With(c))'
          = IF code[t] = c THEN (Counted \cap With(c)) \cup {t} ELSE Counted \cap With(c)
    BY <1>1 DEF With, Counted
  <2>3. Cardinality(Counted \cap With(c)) \in Nat
    BY <2>1, FS_CardinalityType
  <2>4. Cardinality((Counted \cap With(c)) \cup {t}) = Cardinality(Counted \cap With(c)) + 1
    BY <2>1, FS_AddElement
  <2>5. CASE code[t] = c
    BY <2>2, <2>4, <2>5
  <2>6. CASE code[t] # c
    <3>1. Cardinality((Counted \cap With(c))') = Cardinality(Counted \cap With(c))
      BY <2>2, <2>6, Zenon
    <3>2. Cardinality(Counted \cap With(c)) + 0 = Cardinality(Counted \cap With(c))
      BY <2>3
    <3>3. QED
      BY <2>6, <3>1, <3>2, Zenon
  <2>7. QED
    BY <2>5, <2>6
<1>5. CountsMatchResults'
  BY <1>3, <1>4 DEF CountTask, CountsMatchResults, JTypeOK
<1>6. Cardinality(Counted') <= Cardinality(Tasks)
  BY TasksFinite, FS_Subset DEF Counted
<1>7. numDone' \in 0..Cardinality(Tasks)
  BY <1>2, <1>5, <1>6, TasksFinite, FS_CardinalityType DEF CountsMatchResults
<1>8. QED
  BY <1>5, <1>7

\* The counters stay right as long as nobody reports and no result changes of
\* a task that has.
LEMMA CountedSame ==
  ASSUME CountsMatchResults, UNCHANGED counts, Counted' = Counted,
         \A t \in Counted : code'[t] = code[t]
  PROVE  CountsMatchResults'
<1>1. \A c : (Counted \cap With(c))' = Counted \cap With(c)
  BY DEF Counted, With
<1>2. QED
  BY <1>1 DEF CountsMatchResults, counts

\* What set_job_status concludes from the counters holds of the sentences.
LEMMA StatusRight ==
  ASSUME JIInv, SetJobStatus
  PROVE  RespInv'
<1> USE DEF JIInv
<1>1. Counted = Tasks /\ \A t \in Tasks : code[t] \in {"OK", "CANCELED", "ERROR"}
  BY AllReported DEF SetJobStatus, TextInv, Settled, Counted
<1>2. /\ numDone = Cardinality(Tasks) /\ numError = Cardinality(With("ERROR"))
      /\ numCancel = Cardinality(With("CANCELED"))
  BY <1>1 DEF CountsMatchResults, With
<1>3. /\ IsFiniteSet(With("ERROR")) /\ IsFiniteSet(With("CANCELED"))
      /\ With("ERROR") \subseteq Tasks /\ With("CANCELED") \subseteq Tasks
  BY TasksFinite, FS_Subset DEF With
<1>4. (numError = 0 <=> With("ERROR") = {}) /\ (numCancel = 0 <=> With("CANCELED") = {})
  BY <1>2, <1>3, FS_EmptySet
<1>5. numCancel = numDone <=> With("CANCELED") = Tasks
  BY <1>2, <1>3, TasksFinite, FS_Subset
<1>6. With("OK") = Tasks <=> With("ERROR") = {} /\ With("CANCELED") = {}
  BY <1>1 DEF With
<1>7. Tasks # {} /\ numCancel \in Nat /\ numError \in Nat
  BY TasksFinite DEF JTypeOK
<1>8. /\ StatusOfCounts = "OK" => With("OK") = Tasks
      /\ StatusOfCounts = "CANCELED" => With("CANCELED") = Tasks
      /\ StatusOfCounts = "PARTIAL" => With("OK") # Tasks /\ With("CANCELED") # Tasks
  BY <1>4, <1>5, <1>6, <1>7 DEF StatusOfCounts
<1>9. QED
  BY <1>8, AllReported DEF SetJobStatus, RespInv, tasksVars, With

-----------------------------------------------------------------------------
LEMMA JTypeStep ==
  ASSUME JIInv, [JNext]_jvars
  PROVE  JTypeOK'
<1> USE DEF JIInv, JTypeOK, Codes, TaskPC, TGoto, counts, tasksVars, cancelVars, respVars
<1>1. ASSUME NEW t \in Tasks, PlanTask(t) PROVE JTypeOK'
  BY <1>1 DEF PlanTask
<1>2. ASSUME NEW t \in Tasks, Execute(t) PROVE JTypeOK'
  BY <1>2 DEF Execute
<1>3. ASSUME NEW t \in Tasks, Translate(t) PROVE JTypeOK'
  BY <1>3 DEF Translate
<1>4. ASSUME NEW t \in Tasks, ProcessTaskResult(t) PROVE JTypeOK'
  BY <1>4 DEF ProcessTaskResult, ResultCode
<1>5. ASSUME NEW t \in Tasks, CountTask(t) PROVE JTypeOK'
  <2>1. numDone' \in 0..Cardinality(Tasks)
    BY <1>5, CountedGrows
  <2>2. QED
    BY <1>5, <2>1 DEF CountTask
<1>6. ASSUME NEW t \in Tasks, NotifyJobDone(t) PROVE JTypeOK'
  BY <1>6 DEF NotifyJobDone
<1>7. ASSUME NEW t \in Tasks, LeaveJob(t) PROVE JTypeOK'
  BY <1>7 DEF LeaveJob
<1>8. ASSUME CancelJob PROVE JTypeOK'
  BY <1>8, CancelsType DEF CancelJob
<1>9. ASSUME NEW t \in Tasks, CancelTask(t) PROVE JTypeOK'
  BY <1>9 DEF CancelTask
<1>10. ASSUME NEW t \in Tasks, CollectTask(t) PROVE JTypeOK'
  BY <1>10 DEF CollectTask
<1>11. ASSUME SetJobStatus PROVE JTypeOK'
  BY <1>11 DEF SetJobStatus, StatusOfCounts
<1>12. CASE UNCHANGED jvars
  BY <1>12 DEF jvars
<1>13. QED
  BY <1>1, <1>2, <1>3, <1>4, <1>5, <1>6, <1>7, <1>8, <1>9, <1>10, <1>11, <1>12
     DEF JNext, TaskStep, PoolStep, Finished

LEMMA LockStep ==
  ASSUME JIInv, [JNext]_jvars
  PROVE  LockInv'
<1> USE TasksFinite DEF JIInv, JTypeOK, LockInv, TGoto
<1>1. ASSUME NEW t \in Tasks, PlanTask(t) PROVE LockInv'
  BY <1>1 DEF PlanTask
<1>2. ASSUME NEW t \in Tasks, Execute(t) PROVE LockInv'
  BY <1>2 DEF Execute
<1>3. ASSUME NEW t \in Tasks, Translate(t) PROVE LockInv'
  BY <1>3 DEF Translate
<1>4. ASSUME NEW t \in Tasks, ProcessTaskResult(t) PROVE LockInv'
  BY <1>4 DEF ProcessTaskResult
<1>5. ASSUME NEW t \in Tasks, CountTask(t) PROVE LockInv'
  BY <1>5 DEF CountTask
<1>6. ASSUME NEW t \in Tasks, NotifyJobDone(t) PROVE LockInv'
  BY <1>6 DEF NotifyJobDone
<1>7. ASSUME NEW t \in Tasks, LeaveJob(t) PROVE LockInv'
  BY <1>7 DEF LeaveJob
<1>8. CASE CancelJob \/ PoolStep \/ UNCHANGED jvars \/ \E t \in Tasks : CancelTask(t)
  BY <1>8 DEF CancelJob, PoolStep, SetJobStatus, CollectTask, CancelTask, tasksVars, jvars
<1>9. QED
  BY <1>1, <1>2, <1>3, <1>4, <1>5, <1>6, <1>7, <1>8 DEF JNext, TaskStep, Finished

LEMMA CountStep ==
  ASSUME JIInv, [JNext]_jvars
  PROVE  CountsMatchResults'
<1> USE DEF JIInv
<1>1. ASSUME NEW t \in Tasks, CountTask(t) PROVE CountsMatchResults'
  BY <1>1, CountedGrows
<1>2. ASSUME NEW t \in Tasks,
             \/ PlanTask(t) \/ Execute(t) \/ Translate(t) \/ ProcessTaskResult(t)
             \/ NotifyJobDone(t) \/ LeaveJob(t)
      PROVE  CountsMatchResults'
  <2>1. Counted' = Counted /\ UNCHANGED counts
    BY <1>2 DEF PlanTask, Execute, Translate, ProcessTaskResult, NotifyJobDone, LeaveJob,
                TGoto, Counted, JTypeOK
  <2>2. \A u \in Counted : code'[u] = code[u]
    BY <1>2 DEF PlanTask, Execute, Translate, ProcessTaskResult, NotifyJobDone, LeaveJob,
                Counted, JTypeOK
  <2>3. QED
    BY <2>1, <2>2, CountedSame
<1>3. CASE CancelJob \/ PoolStep \/ UNCHANGED jvars \/ \E t \in Tasks : CancelTask(t)
  <2>1. UNCHANGED <<tpc, code, counts>>
    BY <1>3 DEF CancelJob, PoolStep, SetJobStatus, CollectTask, CancelTask, tasksVars, jvars
  <2>2. QED
    BY <2>1, CountedSame DEF Counted
<1>4. QED
  BY <1>1, <1>2, <1>3 DEF JNext, TaskStep, Finished

LEMMA NotifyStep ==
  ASSUME JIInv, [JNext]_jvars
  PROVE  NotifyInv'
<1> USE DEF JIInv, JTypeOK, NotifyInv, TGoto
<1>1. ASSUME NEW t \in Tasks,
             PlanTask(t) \/ Execute(t) \/ Translate(t) \/ ProcessTaskResult(t) \/ LeaveJob(t)
      PROVE  NotifyInv'
  BY <1>1 DEF PlanTask, Execute, Translate, ProcessTaskResult, LeaveJob, Counted
<1>2. ASSUME NEW t \in Tasks, CountTask(t) PROVE NotifyInv'
  <2>1. notified = 0 /\ tpc'[t] = "counted" /\ notified' = notified
    BY <1>2 DEF CountTask, Counted
  <2>2. QED
    BY <2>1
<1>3. ASSUME NEW t \in Tasks, NotifyJobDone(t) PROVE NotifyInv'
  <2>1. Counted' = Counted /\ tpc'[t] = "told" /\ \A u \in Tasks : tpc'[u] # "counted"
    BY <1>3, TasksFinite DEF NotifyJobDone, Counted, LockInv
  <2>2. notified = 0
    BY <1>3 DEF NotifyJobDone
  <2>3. IsJobFinished <=> Counted = Tasks
    <3>1. Counted \subseteq Tasks
      BY DEF Counted
    <3>2. QED
      BY <3>1, TasksFinite, FS_Subset DEF IsJobFinished, CountsMatchResults
  <2>4. QED
    BY <1>3, <2>1, <2>2, <2>3 DEF NotifyJobDone
<1>4. CASE CancelJob \/ PoolStep \/ UNCHANGED jvars \/ \E t \in Tasks : CancelTask(t)
  BY <1>4 DEF CancelJob, PoolStep, SetJobStatus, CollectTask, CancelTask, tasksVars, jvars, Counted
<1>5. QED
  BY <1>1, <1>2, <1>3, <1>4 DEF JNext, TaskStep, Finished

LEMMA TextStep ==
  ASSUME JIInv, [JNext]_jvars
  PROVE  TextInv'
<1> USE DEF JIInv, JTypeOK, TextInv, Settled, TGoto
<1>1. ASSUME NEW t \in Tasks, PlanTask(t) PROVE TextInv'
  BY <1>1 DEF PlanTask
<1>2. ASSUME NEW t \in Tasks, Execute(t) PROVE TextInv'
  BY <1>2 DEF Execute
<1>3. ASSUME NEW t \in Tasks, Translate(t) PROVE TextInv'
  BY <1>3 DEF Translate
<1>4. ASSUME NEW t \in Tasks, ProcessTaskResult(t) PROVE TextInv'
  BY <1>4 DEF ProcessTaskResult, ResultCode
<1>5. ASSUME NEW t \in Tasks, CountTask(t) \/ NotifyJobDone(t) \/ LeaveJob(t) PROVE TextInv'
  BY <1>5 DEF CountTask, NotifyJobDone, LeaveJob
<1>6. ASSUME NEW t \in Tasks, CancelTask(t) PROVE TextInv'
  BY <1>6 DEF CancelTask
<1>7. CASE CancelJob \/ PoolStep \/ UNCHANGED jvars
  BY <1>7 DEF CancelJob, PoolStep, SetJobStatus, CollectTask, tasksVars, jvars
<1>8. QED
  BY <1>1, <1>2, <1>3, <1>4, <1>5, <1>6, <1>7 DEF JNext, TaskStep, Finished

\* The results are final: nothing that set_job_status reads changes any more.
LEMMA FinalStep ==
  ASSUME JIInv, [JNext]_jvars, notified > 0
  PROVE  UNCHANGED <<code, text, counts, notified>>
<1>1. \A t \in Tasks : tpc[t] \in {"told", "done"}
  BY AllReported DEF JIInv
<1>2. QED
  BY <1>1 DEF JNext, TaskStep, PoolStep, Finished, PlanTask, Execute, Translate,
              ProcessTaskResult, CountTask, NotifyJobDone, LeaveJob, CancelJob, CancelTask,
              CollectTask, SetJobStatus, tasksVars, jvars

LEMMA RespStep ==
  ASSUME JIInv, [JNext]_jvars
  PROVE  RespInv'
<1> USE DEF JIInv
<1>1. ASSUME SetJobStatus PROVE RespInv'
  BY <1>1, StatusRight
<1>2. ASSUME NEW t \in Tasks, CollectTask(t) PROVE RespInv'
  <2>1. notified = 1
    BY <1>2, AllReported DEF CollectTask
  <2>2. QED
    BY <1>2, <2>1 DEF CollectTask, RespInv, JTypeOK, tasksVars, With
<1>3. ASSUME UNCHANGED respVars PROVE RespInv'
  <2>1. CASE notified > 0
    <3>1. UNCHANGED <<code, notified>>
      BY <2>1, FinalStep
    <3>2. QED
      BY <1>3, <3>1 DEF RespInv, respVars, With
  <2>2. CASE notified = 0
    <3>1. collected = {} /\ jobStatus = "none"
      BY <2>2 DEF RespInv
    <3>2. QED
      BY <1>3, <3>1 DEF RespInv, respVars
  <2>3. QED
    BY <2>1, <2>2 DEF JTypeOK
<1>4. UNCHANGED respVars \/ SetJobStatus \/ \E t \in Tasks : CollectTask(t)
  BY DEF JNext, TaskStep, PoolStep, Finished, PlanTask, Execute, Translate, ProcessTaskResult,
         CountTask, NotifyJobDone, LeaveJob, CancelJob, CancelTask, jvars
<1>5. QED
  BY <1>1, <1>2, <1>3, <1>4

LEMMA NextJIInv == JIInv /\ [JNext]_jvars => JIInv'
  BY JTypeStep, LockStep, CountStep, NotifyStep, TextStep, RespStep DEF JIInv

THEOREM JIInvAlways == JSpec => []JIInv
  BY InitJIInv, NextJIInv, PTL DEF JSpec

-----------------------------------------------------------------------------
\* Every variable of the job keeps its type; in particular no task is counted
\* twice.
THEOREM JTypeAlways == JSpec => []JTypeOK
  BY JIInvAlways, PTL DEF JIInv

\* The job pool is told exactly when the last of the tasks reported, once, by
\* counters that are right.
THEOREM NotifiedWhenAllDoneAlways == JSpec => []NotifiedWhenAllDone
<1>1. JIInv => NotifiedWhenAllDone
  BY TasksFinite DEF JIInv, JTypeOK, LockInv, NotifyInv, NotifiedWhenAllDone, Counted
<1>2. QED
  BY <1>1, JIInvAlways, PTL

\* A cancel() that arrives after the job pool was told changes no result.
THEOREM ResultsFinalAlways == JSpec => ResultsFinalOnceNotified
<1>1. JIInv /\ [JNext]_jvars => [notified > 0 => UNCHANGED <<code, text, counts, notified>>]_jvars
  BY FinalStep
<1>2. QED
  BY <1>1, JIInvAlways, PTL DEF JSpec, ResultsFinalOnceNotified

\* The response agrees with the sentences, and its status with their codes.
THEOREM ResponseMatchesSentencesAlways == JSpec => []ResponseMatchesSentences
<1>1. ASSUME JIInv PROVE ResponseMatchesSentences
  <2>1. \A t \in collected : t \in Settled
    BY <1>1, AllReported DEF JIInv, JTypeOK, RespInv, Settled
  <2>2. \A t \in Settled : code[t] # "UNDEFINED" /\ text[t] = IF code[t] = "OK" THEN "target" ELSE "source"
    BY <1>1 DEF JIInv, TextInv, Settled
  <2>3. QED
    BY <1>1, <2>1, <2>2 DEF JIInv, RespInv, ResponseMatchesSentences
<1>2. QED
  BY <1>1, JIInvAlways, PTL
=============================================================================
