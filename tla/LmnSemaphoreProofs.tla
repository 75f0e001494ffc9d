------------------------- MODULE LmnSemaphoreProofs -------------------------
(***************************************************************************)
(* The counter of the semaphore never wraps and never passes its maximum,  *)
(* for any number of threads and any counts, the two counters together     *)
(* implement a counting semaphore, and a timed take that gives up has      *)
(* waited the whole seconds of its wait, unless the code made a time that  *)
(* sem_timedwait refuses.                                                  *)
(***************************************************************************)
EXTENDS LmnSemaphore, FiniteSetTheorems, TLAPS

(* Arithmetic in a DWORD that does not wrap. *)
LEMMA NoWrap ==
  ASSUME NEW x \in Nat, x < WordSize
  PROVE  x % WordSize = x
BY SemaphoreAssumption, SMT DEF SemaphoreAssumption

(* The inductive invariant: the counters agree because every thread between *)
(* sem_wait and m_lock accounts for one unit of the difference.             *)
Inv == TypeOK /\ CountsAgree

(* The threads past sem_wait form a finite set. *)
LEMMA PassedFinite == IsFiniteSet(Passed) /\ Cardinality(Passed) \in Nat
<1>1. Passed \subseteq Threads
  BY DEF Passed
<1>2. IsFiniteSet(Passed)
  BY <1>1, SemaphoreAssumption, FS_Subset DEF SemaphoreAssumption
<1> QED
  BY <1>2, FS_CardinalityType

(* Where the clock may start. *)
LEMMA StartClock == Init => now \in TimeSpec /\ now.nsec \in Nat /\ now.nsec < NsPerSec
<1> SUFFICES ASSUME Init
             PROVE  now \in TimeSpec /\ now.nsec \in Nat /\ now.nsec < NsPerSec
  OBVIOUS
<1>1. PICK ns \in StartNsecs : now = [sec |-> 0, nsec |-> ns]
  BY DEF Init
<1>2. ns \in 0 .. NsPerSec - 1
  BY SemaphoreAssumption DEF SemaphoreAssumption
<1>3. ns \in Nat /\ ns < NsPerSec
  <2>1. NsPerSec \in Nat
    BY SMT DEF NsPerSec
  <2> QED
    BY <1>2, <2>1, SMT
<1>4. now.nsec = ns
  BY <1>1
<1>5. now \in TimeSpec
  BY <1>1, <1>3 DEF TimeSpec
<1> QED
  BY <1>3, <1>4, <1>5

(* At the start the counters are equal. *)
LEMMA InitInv == Init => Inv
<1> SUFFICES ASSUME Init PROVE Inv
  OBVIOUS
<1>1. TypeOK
  <2>1. now \in TimeSpec
    BY StartClock
  <2> QED
    BY <2>1, SemaphoreAssumption DEF SemaphoreAssumption, Init, TypeOK, NoTime, TimeSpec
<1>2. Passed = {}
  BY DEF Init, Passed
<1>3. Cardinality(Passed) = 0
  BY <1>2, FS_EmptySet
<1> QED
  BY <1>1, <1>3, SemaphoreAssumption
  DEF SemaphoreAssumption, Init, Inv, CountsAgree

(* A step that changes neither counter nor the set of threads in between. *)
LEMMA SameCounts ==
  ASSUME CountsAgree, UNCHANGED <<cur, sem>>, Passed' = Passed
  PROVE  CountsAgree'
BY DEF CountsAgree

(* Every call and every return preserves the invariant. *)
LEMMA StepInv ==
  ASSUME Inv, NEW t \in Threads, Step(t)
  PROVE  Inv'
<1> USE DEF Inv
<1>0. Cardinality(Passed) \in Nat /\ IsFiniteSet(Passed)
  BY PassedFinite
<1>1. CASE LmnSemTake(t)
  <2>1. TypeOK'
    BY <1>1 DEF LmnSemTake, TypeOK, time
  <2>2. Passed' = Passed
    BY <1>1 DEF LmnSemTake, Passed, TypeOK
  <2> QED
    BY <1>1, <2>1, <2>2, SameCounts DEF LmnSemTake
<1>2. ASSUME NEW ms \in WaitTimes, LmnSemTakeByTime(t, ms)
      PROVE  Inv'
  <2>1. Deadline(ms) \in TimeSpec
    BY SemaphoreAssumption DEF SemaphoreAssumption, Deadline, TimeSpec, TypeOK
  <2>2. TypeOK'
    BY <1>2, <2>1, SemaphoreAssumption
    DEF SemaphoreAssumption, LmnSemTakeByTime, TypeOK
  <2>3. Passed' = Passed
    BY <1>2 DEF LmnSemTakeByTime, Passed, TypeOK
  <2> QED
    BY <1>2, <2>2, <2>3, SameCounts DEF LmnSemTakeByTime
<1>3. CASE SemWaitReturns(t)
  <2>1. TypeOK'
    BY <1>3 DEF SemWaitReturns, Forget, NoTime, TimeSpec, TypeOK
  <2>2. t \notin Passed /\ Passed' = Passed \cup {t}
    BY <1>3 DEF SemWaitReturns, Passed, TypeOK
  <2>3. Cardinality(Passed') = Cardinality(Passed) + 1
    BY <2>2, <1>0, FS_AddElement
  <2> QED
    BY <1>3, <1>0, <2>1, <2>3 DEF SemWaitReturns, CountsAgree, TypeOK
<1>4. CASE TimedWaitFails(t) \/ WaitInterrupted(t)
  <2>1. TypeOK'
    <3>1. /\ UNCHANGED <<cur, sem>> /\ Forget(t) /\ pc' = [pc EXCEPT ![t] = "out"]
          /\ \/ res' = [res EXCEPT ![t] = "timeout"]
             \/ res' = [res EXCEPT ![t] = "interrupted"]
      BY <1>4 DEF TimedWaitFails, WaitInterrupted
    <3> QED
      BY <3>1 DEF Forget, NoTime, TimeSpec, TypeOK
  <2>2. Passed' = Passed
    BY <1>4 DEF TimedWaitFails, WaitInterrupted, Passed, TypeOK
  <2> QED
    BY <1>4, <2>1, <2>2, SameCounts DEF TimedWaitFails, WaitInterrupted
<1>5. CASE Decrement(t)
  <2>1. t \in Passed /\ Passed' = Passed \ {t}
    BY <1>5 DEF Decrement, Passed, TypeOK
  <2>2. Cardinality(Passed') = Cardinality(Passed) - 1
    BY <2>1, <1>0, FS_RemoveElement
  <2>3. Cardinality(Passed) > 0
    BY <2>1, <1>0, FS_EmptySet
  <2>4. cur - 1 \in Nat /\ cur - 1 < WordSize
    BY <2>3, <1>0, SemaphoreAssumption
    DEF SemaphoreAssumption, TypeOK, CountsAgree
  <2>5. cur' = cur - 1
    BY <1>5, <2>4, NoWrap DEF Decrement
  <2>6. /\ sem' = sem /\ UNCHANGED time
        /\ pc' = [pc EXCEPT ![t] = "out"] /\ res' = [res EXCEPT ![t] = "taken"]
    BY <1>5 DEF Decrement
  <2>7. cur' \in 0 .. WordSize - 1
    BY <2>4, <2>5, SemaphoreAssumption DEF SemaphoreAssumption
  <2>8. TypeOK'
    BY <2>6, <2>7 DEF TypeOK, time
  <2>9. cur' = sem' + Cardinality(Passed')
    BY <1>0, <2>2, <2>5, <2>6 DEF CountsAgree, TypeOK
  <2>10. cur' <= MaxCnt
    BY <2>4, <2>5, SemaphoreAssumption
    DEF SemaphoreAssumption, CountsAgree, TypeOK
  <2> QED
    BY <2>8, <2>9, <2>10 DEF CountsAgree
<1>6. CASE LmnSemGive(t)
  <2>1. cur + 1 \in Nat /\ cur + 1 < WordSize /\ cur + 1 <= MaxCnt
    BY <1>6, SemaphoreAssumption
    DEF SemaphoreAssumption, LmnSemGive, TypeOK, CountsAgree
  <2>2. cur' = cur + 1
    BY <1>6, <2>1, NoWrap DEF LmnSemGive
  <2>3. Passed' = Passed
    BY <1>6 DEF LmnSemGive, Passed
  <2>4. sem' = sem + 1 /\ UNCHANGED <<pc, time>> /\ res' = [res EXCEPT ![t] = "given"]
    BY <1>6 DEF LmnSemGive
  <2>5. cur' \in 0 .. WordSize - 1
    BY <2>1, <2>2, SemaphoreAssumption DEF SemaphoreAssumption
  <2>6. TypeOK'
    BY <2>4, <2>5 DEF TypeOK, time
  <2>7. cur' = sem' + Cardinality(Passed')
    BY <1>0, <2>2, <2>3, <2>4 DEF CountsAgree, TypeOK
  <2> QED
    BY <2>1, <2>2, <2>6, <2>7 DEF CountsAgree
<1>7. CASE LmnSemGiveRefused(t)
  <2>1. TypeOK'
    BY <1>7 DEF LmnSemGiveRefused, TypeOK, time
  <2>2. Passed' = Passed
    BY <1>7 DEF LmnSemGiveRefused, Passed
  <2> QED
    BY <1>7, <2>1, <2>2, SameCounts DEF LmnSemGiveRefused
<1> QED
  BY <1>1, <1>2, <1>3, <1>4, <1>5, <1>6, <1>7 DEF Step

(* So does the clock. *)
LEMMA TickInv == Inv /\ Tick => Inv'
<1> SUFFICES ASSUME Inv, Tick PROVE Inv'
  OBVIOUS
<1>1. now' \in TimeSpec
  <2> DEFINE ns == now.nsec + StepMs * NsPerMs
  <2>1. now \in TimeSpec /\ now.sec \in Nat /\ now.nsec \in Nat
    BY DEF Inv, TypeOK, TimeSpec
  <2>2. ns \in Nat
    BY <2>1, SemaphoreAssumption DEF SemaphoreAssumption, NsPerMs
  <2>3. now' = IF ns >= NsPerSec
               THEN [sec |-> now.sec + 1, nsec |-> ns - NsPerSec]
               ELSE [now EXCEPT !.nsec = ns]
    BY DEF Tick
  <2> HIDE DEF ns
  <2>4. CASE ns >= NsPerSec
    <3>1. ns - NsPerSec \in Nat
      BY <2>2, <2>4 DEF NsPerSec
    <3> QED
      BY <2>1, <2>3, <2>4, <3>1 DEF TimeSpec
  <2>5. CASE ~(ns >= NsPerSec)
    BY <2>1, <2>2, <2>3, <2>5 DEF TimeSpec
  <2> QED
    BY <2>4, <2>5
<1>2. waited' \in [Threads -> Nat]
  <2>1. \A t \in Threads :
          waited[t] + (IF pc[t] = "timed" THEN StepMs ELSE 0) \in Nat
    BY SemaphoreAssumption DEF SemaphoreAssumption, Inv, TypeOK
  <2> QED
    BY <2>1 DEF Tick
<1>3. UNCHANGED <<cur, sem, pc, deadline, asked, res>>
  BY DEF Tick
<1>4. TypeOK'
  BY <1>1, <1>2, <1>3 DEF Inv, TypeOK
<1>5. Passed' = Passed
  BY <1>3 DEF Passed
<1> QED
  BY <1>3, <1>4, <1>5, SameCounts DEF Inv

(* The step of the invariance proof. *)
LEMMA NextInv == Inv /\ [Next]_vars => Inv'
<1> SUFFICES ASSUME Inv, [Next]_vars PROVE Inv'
  OBVIOUS
<1>1. CASE UNCHANGED vars
  <2>1. Passed' = Passed
    BY <1>1 DEF Passed, vars
  <2> QED
    BY <1>1, <2>1, SameCounts DEF Inv, TypeOK, vars
<1> QED
  BY <1>1, StepInv, TickInv DEF Next

(* assert( p->m_dwCurCnt <= p->m_dwMaxCnt ) never fails, and the DWORD      *)
(* never wraps, whatever the threads do between sem_wait and m_lock.        *)
THEOREM CountersAgree == Spec => [](TypeOK /\ CountsAgree)
<1>1. Spec => []Inv
  BY InitInv, NextInv, PTL DEF Spec
<1> QED
  BY <1>1, PTL DEF Inv

-----------------------------------------------------------------------------
(* What a step of the code is to the callers: one step of the abstract      *)
(* semaphore, or none.                                                      *)
LEMMA StepRefines ==
  ASSUME Inv, NEW t \in Threads, Step(t)
  PROVE  [Counting!Next]_<<cur, res>>
<1> USE DEF Inv
<1>0. /\ {cur, MaxCnt, WordSize} \subseteq Nat
      /\ MaxCnt < WordSize /\ cur <= MaxCnt
  BY SemaphoreAssumption DEF SemaphoreAssumption, TypeOK, CountsAgree
<1>1. CASE LmnSemTake(t) \/ \E ms \in WaitTimes : LmnSemTakeByTime(t, ms)
  <2>1. Counting!Begin(t)
    BY <1>1 DEF LmnSemTake, LmnSemTakeByTime, Counting!Begin
  <2> QED
    BY <2>1 DEF Counting!Next
<1>2. CASE SemWaitReturns(t)
  BY <1>2 DEF SemWaitReturns
<1>3. CASE TimedWaitFails(t) \/ WaitInterrupted(t)
  <2>1. Counting!GiveUp(t)
    BY <1>3 DEF TimedWaitFails, WaitInterrupted, Counting!GiveUp
  <2> QED
    BY <2>1 DEF Counting!Next
<1>4. CASE Decrement(t)
  <2>1. IsFiniteSet(Passed) /\ Cardinality(Passed) \in Nat
    BY PassedFinite
  <2>2. t \in Passed
    BY <1>4 DEF Decrement, Passed
  <2>3. cur > 0
    BY <2>1, <2>2, FS_EmptySet DEF CountsAgree, TypeOK
  <2>4. cur - 1 \in Nat /\ cur - 1 < WordSize
    BY <2>3, <1>0
  <2>5. cur' = cur - 1
    BY <1>4, <2>4, NoWrap DEF Decrement
  <2>6. Counting!Take(t)
    BY <1>4, <2>3, <2>5 DEF Decrement, Counting!Take
  <2> QED
    BY <2>6 DEF Counting!Next
<1>5. CASE LmnSemGive(t)
  <2>1. cur < MaxCnt /\ cur + 1 \in Nat /\ cur + 1 < WordSize
    BY <1>0, <1>5, SemaphoreAssumption DEF SemaphoreAssumption, LmnSemGive
  <2>2. cur' = cur + 1
    BY <1>5, <2>1, NoWrap DEF LmnSemGive
  <2>3. Counting!Give(t)
    BY <1>5, <2>1, <2>2 DEF LmnSemGive, Counting!Give
  <2> QED
    BY <2>3 DEF Counting!Next
<1>6. CASE LmnSemGiveRefused(t)
  <2>1. Counting!Refuse(t)
    BY <1>6 DEF LmnSemGiveRefused, Counting!Refuse
  <2> QED
    BY <2>1 DEF Counting!Next
<1> QED
  BY <1>1, <1>2, <1>3, <1>4, <1>5, <1>6 DEF Step

(* The semaphore implements the counting semaphore: although a take lowers  *)
(* m_dwCurCnt only after sem_wait has returned, no give is refused below    *)
(* the maximum that callers can observe and no take returns without a unit. *)
THEOREM Refinement == Spec => ImplementsCounting
<1>1. Init => Counting!Init
  BY DEF Init, Counting!Init
<1>2. Inv /\ [Next]_vars => [Counting!Next]_<<cur, res>>
  <2> SUFFICES ASSUME Inv, [Next]_vars PROVE [Counting!Next]_<<cur, res>>
    OBVIOUS
  <2>1. CASE Tick
    BY <2>1 DEF Tick
  <2>2. CASE UNCHANGED vars
    BY <2>2 DEF vars
  <2> QED
    BY <2>1, <2>2, StepRefines DEF Next
<1>3. Spec => [](TypeOK /\ CountsAgree)
  BY CountersAgree
<1> QED
  BY <1>1, <1>2, <1>3, PTL DEF Spec, ImplementsCounting, Counting!Spec, Inv

(* Type correctness: the count stays within a word of the counter's width,  *)
(* also while a take has not lowered it yet.                                *)
THEOREM SemaphoreTypeCorrect == Spec => []TypeOK
BY CountersAgree, PTL

-----------------------------------------------------------------------------
(* Time.  The milliseconds of a wait beyond its whole seconds reach the     *)
(* deadline a thousand times too small; the four numbers that describe a    *)
(* wait stay in step with the clock.                                        *)

(* The nanoseconds by which Deadline exceeds the time of the call.          *)
Counted(ms) == (ms \div 1000) * NsPerSec + (ms % 1000) * 1000

Ns(ts) == ts.sec * NsPerSec + ts.nsec

TimeInv ==
  /\ now.nsec < NsPerSec
  /\ \A t \in Threads : pc[t] = "timed" =>
       Ns(deadline[t]) + waited[t] * NsPerMs = Ns(now) + Counted(asked[t])

(* The parts of a wait. *)
LEMMA Parts ==
  ASSUME NEW ms \in Nat
  PROVE  /\ ms \div 1000 \in Nat /\ ms % 1000 \in 0 .. 999
         /\ Counted(ms) \in Nat /\ Counted(ms) >= (ms \div 1000) * NsPerSec
<1>1. ms \div 1000 \in Nat /\ ms % 1000 \in 0 .. 999
  OBVIOUS
<1> DEFINE s == ms \div 1000
           r == ms % 1000
<1>2. s \in Nat /\ r \in Nat /\ Counted(ms) = s * NsPerSec + r * 1000
  BY <1>1 DEF Counted
<1> HIDE DEF s, r
<1>3. Counted(ms) \in Nat /\ Counted(ms) >= s * NsPerSec
  BY <1>2, SMT DEF NsPerSec
<1> QED
  BY <1>1, <1>3 DEF s

(* The deadline is the present and what is counted of the wait.             *)
LEMMA DeadlineCounted ==
  ASSUME TypeOK, NEW ms \in WaitTimes
  PROVE  Ns(Deadline(ms)) = Ns(now) + Counted(ms)
<1>1. ms \in Nat /\ now.sec \in Nat /\ now.nsec \in Nat
  BY SemaphoreAssumption DEF SemaphoreAssumption, TypeOK, TimeSpec
<1> DEFINE s == ms \div 1000
           r == ms % 1000
<1>2. s \in Nat /\ r \in Nat
  BY <1>1, Parts
<1>3. /\ Deadline(ms).sec = now.sec + s /\ Deadline(ms).nsec = now.nsec + r * 1000
      /\ Counted(ms) = s * NsPerSec + r * 1000
  BY DEF Deadline, Counted
<1> HIDE DEF s, r
<1> QED
  BY <1>1, <1>2, <1>3, SMT DEF Ns, NsPerSec

(* The calls and returns of a thread keep the time of every other.          *)
LEMMA StepTime ==
  ASSUME TypeOK, TimeInv, NEW t \in Threads, Step(t)
  PROVE  TimeInv'
<1>1. CASE LmnSemTake(t)
  BY <1>1 DEF LmnSemTake, time, TimeInv, TypeOK
<1>2. ASSUME NEW ms \in WaitTimes, LmnSemTakeByTime(t, ms)
      PROVE  TimeInv'
  <2> SUFFICES ASSUME NEW u \in Threads, pc'[u] = "timed"
               PROVE  Ns(deadline'[u]) + waited'[u] * NsPerMs = Ns(now) + Counted(asked'[u])
    BY <1>2 DEF LmnSemTakeByTime, TimeInv
  <2>1. CASE u = t
    <3>1. deadline'[u] = Deadline(ms) /\ asked'[u] = ms /\ waited'[u] = 0
      BY <1>2, <2>1 DEF LmnSemTakeByTime, TypeOK
    <3>2. Ns(Deadline(ms)) = Ns(now) + Counted(ms)
      BY DeadlineCounted
    <3>3. Ns(now) \in Nat /\ Counted(ms) \in Nat
      <4>1. ms \in Nat /\ now.sec \in Nat /\ now.nsec \in Nat
        BY SemaphoreAssumption DEF SemaphoreAssumption, TypeOK, TimeSpec
      <4>2. Ns(now) \in Nat
        BY <4>1, SMT DEF Ns, NsPerSec
      <4> QED
        BY <4>1, <4>2, Parts
    <3> QED
      BY <3>1, <3>2, <3>3, SMT DEF NsPerMs
  <2>2. CASE u # t
    <3>1. /\ deadline'[u] = deadline[u] /\ asked'[u] = asked[u] /\ waited'[u] = waited[u]
          /\ pc[u] = "timed"
      BY <1>2, <2>2 DEF LmnSemTakeByTime, TypeOK
    <3> QED
      BY <3>1 DEF TimeInv
  <2> QED
    BY <2>1, <2>2
<1>3. CASE SemWaitReturns(t) \/ TimedWaitFails(t) \/ WaitInterrupted(t)
  <2>1. /\ now' = now /\ pc'[t] # "timed"
        /\ \A u \in Threads : u # t =>
             /\ deadline'[u] = deadline[u] /\ asked'[u] = asked[u] /\ waited'[u] = waited[u]
             /\ pc'[u] = pc[u]
    BY <1>3 DEF SemWaitReturns, TimedWaitFails, WaitInterrupted, Forget, TypeOK
  <2> QED
    BY <2>1 DEF TimeInv
<1>4. CASE Decrement(t)
  BY <1>4 DEF Decrement, time, TimeInv, TypeOK
<1>5. CASE LmnSemGive(t) \/ LmnSemGiveRefused(t)
  BY <1>5 DEF LmnSemGive, LmnSemGiveRefused, time, TimeInv, TypeOK
<1> QED
  BY <1>1, <1>2, <1>3, <1>4, <1>5 DEF Step

(* The clock moves all waits by the same amount.                            *)
LEMMA TickTime == TypeOK /\ TimeInv /\ Tick => TimeInv'
<1> SUFFICES ASSUME TypeOK, TimeInv, Tick PROVE TimeInv'
  OBVIOUS
<1>1. now.sec \in Nat /\ now.nsec \in Nat /\ now.nsec < NsPerSec /\ StepMs \in 1 .. 999
  BY SemaphoreAssumption DEF SemaphoreAssumption, TypeOK, TimeSpec, TimeInv
<1>2. now'.nsec < NsPerSec /\ Ns(now') = Ns(now) + StepMs * NsPerMs
  <2> DEFINE ns == now.nsec + StepMs * NsPerMs
  <2>1. now' = IF ns >= NsPerSec THEN [sec |-> now.sec + 1, nsec |-> ns - NsPerSec]
                                 ELSE [now EXCEPT !.nsec = ns]
    BY DEF Tick
  <2>2. ns \in Nat /\ ns < 2 * NsPerSec
    BY <1>1, SMT DEF NsPerSec, NsPerMs
  <2>3. CASE ns >= NsPerSec
    <3>1. now'.sec = now.sec + 1 /\ now'.nsec = ns - NsPerSec
      BY <2>1, <2>3
    <3> QED
      BY <1>1, <2>2, <3>1, SMT DEF Ns, NsPerSec, NsPerMs
  <2>4. CASE ~(ns >= NsPerSec)
    <3>1. now'.sec = now.sec /\ now'.nsec = ns
      BY <2>1, <2>4 DEF TypeOK, TimeSpec
    <3> QED
      BY <1>1, <2>2, <2>4, <3>1, SMT DEF Ns, NsPerSec, NsPerMs
  <2> QED
    BY <2>3, <2>4
<1> SUFFICES ASSUME NEW t \in Threads, pc[t] = "timed"
             PROVE  Ns(deadline[t]) + waited'[t] * NsPerMs = Ns(now') + Counted(asked[t])
  BY <1>2 DEF Tick, TimeInv
<1>3. waited'[t] = waited[t] + StepMs
  BY DEF Tick
<1>4. Ns(deadline[t]) + waited[t] * NsPerMs = Ns(now) + Counted(asked[t])
  BY DEF TimeInv
<1>5. Ns(deadline[t]) \in Nat /\ Ns(now) \in Nat /\ waited[t] \in Nat /\ Counted(asked[t]) \in Nat
  <2>1. /\ deadline[t].sec \in Nat /\ deadline[t].nsec \in Nat
        /\ waited[t] \in Nat /\ asked[t] \in Nat
    BY DEF TypeOK, TimeSpec
  <2>2. Ns(deadline[t]) \in Nat /\ Ns(now) \in Nat
    BY <1>1, <2>1, SMT DEF Ns, NsPerSec
  <2>3. \A ms \in Nat : Counted(ms) \in Nat
    BY Parts
  <2> QED
    BY <2>1, <2>2, <2>3
<1> QED
  BY <1>1, <1>2, <1>3, <1>4, <1>5, SMT DEF NsPerMs

(* A wait that is over has lasted its whole seconds.                        *)
LEMMA ExpiredWaited ==
  ASSUME TypeOK, TimeInv, NEW t \in Threads, pc[t] = "timed", Expired(deadline[t]),
         ~Refused(deadline[t])
  PROVE  waited[t] >= 1000 * (asked[t] \div 1000)
<1>1. /\ {deadline[t].sec, deadline[t].nsec, now.sec, now.nsec, waited[t], asked[t]} \subseteq Nat
      /\ now.nsec < NsPerSec
  BY DEF TypeOK, TimeSpec, TimeInv
<1>2. Ns(now) >= Ns(deadline[t])
  BY <1>1, SMT DEF Expired, Refused, Ns, NsPerSec
<1>3. Ns(deadline[t]) + waited[t] * NsPerMs = Ns(now) + Counted(asked[t])
  BY DEF TimeInv
<1>4. Ns(deadline[t]) \in Nat /\ Ns(now) \in Nat
  BY <1>1, SMT DEF Ns, NsPerSec
<1> DEFINE s == asked[t] \div 1000
           c == Counted(asked[t])
<1>5. s \in Nat /\ c \in Nat /\ c >= s * NsPerSec
  <2>1. asked[t] \in Nat
    BY <1>1
  <2>2. \A ms \in Nat : /\ ms \div 1000 \in Nat /\ Counted(ms) \in Nat
                        /\ Counted(ms) >= (ms \div 1000) * NsPerSec
    BY Parts
  <2> QED
    BY <2>1, <2>2
<1>6. waited[t] * NsPerMs >= c
  BY <1>1, <1>2, <1>3, <1>4, <1>5, SMT DEF NsPerMs
<1> HIDE DEF s, c
<1>7. waited[t] >= 1000 * s
  BY <1>1, <1>5, <1>6, SMT DEF NsPerMs, NsPerSec
<1> QED
  BY <1>7 DEF s

(* Only a fraction of a second makes a deadline that is refused.            *)
RefusedFraction == \A t \in Threads : Refused(deadline[t]) => asked[t] % 1000 # 0

(* A call computes its deadline from its own wait; nothing else makes one.  *)
LEMMA RefusedFractionKept ==
  ASSUME TypeOK, TimeInv, RefusedFraction, [Next]_vars
  PROVE  RefusedFraction'
<1>1. \A ms \in WaitTimes : Refused(Deadline(ms)) => ms % 1000 # 0
  <2> SUFFICES ASSUME NEW ms \in WaitTimes, ms % 1000 = 0 PROVE ~Refused(Deadline(ms))
    OBVIOUS
  <2>1. now.nsec \in Nat /\ now.nsec < NsPerSec /\ Deadline(ms).nsec = now.nsec
    BY DEF TypeOK, TimeSpec, TimeInv, Deadline
  <2> QED
    BY <2>1 DEF Refused, NsPerSec
<1>2. ~Refused(NoTime)
  BY SMT DEF Refused, NoTime, NsPerSec
<1>3. ASSUME NEW t \in Threads, Step(t) PROVE RefusedFraction'
  <2>1. CASE \E ms \in WaitTimes : LmnSemTakeByTime(t, ms)
    <3>1. PICK ms \in WaitTimes : /\ deadline' = [deadline EXCEPT ![t] = Deadline(ms)]
                                  /\ asked' = [asked EXCEPT ![t] = ms]
      BY <2>1 DEF LmnSemTakeByTime
    <3> QED
      BY <1>1, <3>1 DEF RefusedFraction, TypeOK
  <2>2. CASE SemWaitReturns(t) \/ TimedWaitFails(t) \/ WaitInterrupted(t)
    <3>1. /\ deadline' = [deadline EXCEPT ![t] = NoTime]
          /\ asked' = [asked EXCEPT ![t] = 0]
      BY <2>2 DEF SemWaitReturns, TimedWaitFails, WaitInterrupted, Forget
    <3> QED
      BY <1>2, <3>1 DEF RefusedFraction, TypeOK
  <2>3. CASE LmnSemTake(t) \/ Decrement(t) \/ LmnSemGive(t) \/ LmnSemGiveRefused(t)
    <3>1. deadline' = deadline /\ asked' = asked
      BY <2>3 DEF LmnSemTake, Decrement, LmnSemGive, LmnSemGiveRefused, time
    <3> QED
      BY <3>1 DEF RefusedFraction
  <2> QED
    BY <1>3, <2>1, <2>2, <2>3 DEF Step
<1>4. CASE Tick \/ UNCHANGED vars
  BY <1>4 DEF Tick, vars, RefusedFraction
<1> QED
  BY <1>3, <1>4 DEF Next

(* A timed take that gives up has waited at least the whole seconds of its  *)
(* wait, whatever the wait, the number of threads and the pace of the       *)
(* clock; only a wait with a fraction of a second can be refused instead.   *)
THEOREM TimedTakesWait == Spec => WaitsWholeSeconds
<1> DEFINE Late == \A t \in Threads :
                     res[t] # "timeout" /\ res'[t] = "timeout" =>
                       \/ waited[t] >= 1000 * (asked[t] \div 1000)
                       \/ asked[t] % 1000 # 0 /\ Refused(deadline[t])
<1>1. Init => TimeInv /\ RefusedFraction
  <2> SUFFICES ASSUME Init PROVE TimeInv /\ RefusedFraction
    OBVIOUS
  <2>1. now.nsec < NsPerSec
    BY StartClock
  <2>2. \A t \in Threads : pc[t] # "timed" /\ ~Refused(deadline[t])
    BY SMT DEF Init, Refused, NoTime, NsPerSec
  <2> QED
    BY <2>1, <2>2 DEF TimeInv, RefusedFraction
<1>2. TypeOK /\ TimeInv /\ RefusedFraction /\ [Next]_vars => TimeInv' /\ RefusedFraction'
  <2> SUFFICES ASSUME TypeOK, TimeInv, RefusedFraction, [Next]_vars
               PROVE  TimeInv' /\ RefusedFraction'
    OBVIOUS
  <2>1. RefusedFraction'
    BY RefusedFractionKept
  <2>2. CASE UNCHANGED vars
    BY <2>1, <2>2 DEF vars, TimeInv
  <2> QED
    BY <2>1, <2>2, StepTime, TickTime DEF Next
<1>3. TypeOK /\ TimeInv /\ RefusedFraction /\ [Next]_vars => [Late]_vars
  <2> SUFFICES ASSUME TypeOK, TimeInv, RefusedFraction, [Next]_vars,
                      NEW t \in Threads, res[t] # "timeout", res'[t] = "timeout",
                      ~(asked[t] % 1000 # 0 /\ Refused(deadline[t]))
               PROVE  waited[t] >= 1000 * (asked[t] \div 1000)
    OBVIOUS
  <2>1. TimedWaitFails(t)
    <3>1. PICK u \in Threads : Step(u)
      BY DEF Next, Tick, vars
    <3>2. CASE TimedWaitFails(u)
      BY <3>2 DEF TimedWaitFails, TypeOK
    <3>3. CASE LmnSemTake(u) \/ \E ms \in WaitTimes : LmnSemTakeByTime(u, ms)
      <4>1. res' = [res EXCEPT ![u] = "none"]
        BY <3>3 DEF LmnSemTake, LmnSemTakeByTime
      <4> QED
        BY <4>1 DEF TypeOK
    <3>4. CASE SemWaitReturns(u) \/ WaitInterrupted(u) \/ Decrement(u)
      <4>1. \/ res' = res
            \/ res' = [res EXCEPT ![u] = "interrupted"] \/ res' = [res EXCEPT ![u] = "taken"]
        BY <3>4 DEF SemWaitReturns, WaitInterrupted, Decrement
      <4> QED
        BY <4>1 DEF TypeOK
    <3>5. CASE LmnSemGive(u) \/ LmnSemGiveRefused(u)
      <4>1. res' = [res EXCEPT ![u] = "given"] \/ res' = [res EXCEPT ![u] = "refused"]
        BY <3>5 DEF LmnSemGive, LmnSemGiveRefused
      <4> QED
        BY <4>1 DEF TypeOK
    <3> QED
      BY <3>1, <3>2, <3>3, <3>4, <3>5 DEF Step
  <2> QED
    BY <2>1, ExpiredWaited DEF TimedWaitFails, RefusedFraction
<1> QED
  BY <1>1, <1>2, <1>3, SemaphoreTypeCorrect, PTL DEF Spec, WaitsWholeSeconds

=============================================================================
