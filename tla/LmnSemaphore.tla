---------------------------- MODULE LmnSemaphore ----------------------------
(***************************************************************************)
(* The semaphore of src/Common/LmnMisc.cpp (POSIX build): a sem_t, which   *)
(* threads block on, and beside it m_dwCurCnt, guarded by m_lock, which    *)
(* LmnSemGive compares with m_dwMaxCnt because sem_t has no maximum.  A    *)
(* take is two steps: sem_wait returns, and only then, under m_lock, does  *)
(* m_dwCurCnt go down.  A give is one step, under m_lock.                  *)
(*                                                                         *)
(* m_dwCurCnt is a DWORD: WordSize is 2^32 in the code, and any number     *)
(* above the maximum shows the same wrap-around.  Time is a timespec, so   *)
(* that the deadline of LmnSemTakeByTime is computed as the code does, and *)
(* the program may start anywhere in a second of the clock.                *)
(*                                                                         *)
(* Abstraction, by name: LmnSemDestroy is not an action; its callers       *)
(* destroy a semaphore that nobody uses any more.                          *)
(***************************************************************************)
EXTENDS Integers, FiniteSets

CONSTANTS
  Threads,    (* the threads that share the semaphore                       *)
  InitCnt,    (* dwInitCnt                                                  *)
  MaxCnt,     (* dwMaxCnt                                                   *)
  WordSize,   (* the number of values of a DWORD                            *)
  WaitTimes,  (* dwWaitMiniSeconds of the timed takes                       *)
  StartNsecs, (* where in its second the clock may be at the start          *)
  StepMs,     (* how far one tick moves the clock, in milliseconds          *)
  MaxSec      (* bound on the clock, in seconds                             *)

NsPerSec == 1000000000
NsPerMs == 1000000

ASSUME SemaphoreAssumption ==
  /\ IsFiniteSet(Threads)
  /\ InitCnt \in Nat /\ MaxCnt \in Nat \ {0} /\ InitCnt <= MaxCnt
  /\ WordSize \in Nat /\ WordSize > MaxCnt
  /\ StartNsecs \subseteq 0 .. NsPerSec - 1
  /\ WaitTimes \subseteq Nat /\ StepMs \in 1 .. 999 /\ MaxSec \in Nat

VARIABLES
  cur,       (* m_dwCurCnt                                                  *)
  sem,       (* the value of m_semphore                                     *)
  pc,        (* out; waiting in sem_wait or sem_timedwait; past it, before m_lock *)
  now,       (* CLOCK_REALTIME                                              *)
  deadline,  (* ts, of the threads in sem_timedwait                         *)
  asked,     (* history: dwWaitMiniSeconds of the call a thread is in       *)
  waited,    (* history: the milliseconds it has been in the call           *)
  res        (* history: what its last call returned                        *)

vars == <<cur, sem, pc, now, deadline, asked, waited, res>>
time == <<now, deadline, asked, waited>>

TimeSpec == [sec: Nat, nsec: Nat]
NoTime == [sec |-> 0, nsec |-> 0]

Init ==
  /\ cur = InitCnt /\ sem = InitCnt
  /\ pc = [t \in Threads |-> "out"]
  /\ now \in [sec: {0}, nsec: StartNsecs]
  /\ deadline = [t \in Threads |-> NoTime]
  /\ asked = [t \in Threads |-> 0] /\ waited = [t \in Threads |-> 0]
  /\ res = [t \in Threads |-> "none"]

-----------------------------------------------------------------------------
LmnSemTake(t) ==
  /\ pc[t] = "out"
  /\ pc' = [pc EXCEPT ![t] = "waiting"] /\ res' = [res EXCEPT ![t] = "none"]
  /\ UNCHANGED <<cur, sem, time>>

(* Mutants of Deadline: the whole seconds of the wait are forgotten; its    *)
(* milliseconds are taken for seconds.                                      *)
Deadline_NoSeconds(ms) ==
  [sec |-> now.sec, nsec |-> now.nsec + (ms % 1000) * 1000]

Deadline_MsAsSeconds(ms) == [sec |-> now.sec + ms, nsec |-> now.nsec]

(* The wait is added to the time of day.  The milliseconds beyond the whole *)
(* seconds count as microseconds, and nothing carries from nsec to sec.     *)
Deadline(ms) ==
  [sec |-> now.sec + ms \div 1000, nsec |-> now.nsec + (ms % 1000) * 1000]

LmnSemTakeByTime(t, ms) ==
  /\ pc[t] = "out"
  /\ pc' = [pc EXCEPT ![t] = "timed"] /\ res' = [res EXCEPT ![t] = "none"]
  /\ deadline' = [deadline EXCEPT ![t] = Deadline(ms)]
  /\ asked' = [asked EXCEPT ![t] = ms] /\ waited' = [waited EXCEPT ![t] = 0]
  /\ UNCHANGED <<cur, sem, now>>

(* The locals of a call that is over. *)
Forget(t) ==
  /\ deadline' = [deadline EXCEPT ![t] = NoTime]
  /\ asked' = [asked EXCEPT ![t] = 0] /\ waited' = [waited EXCEPT ![t] = 0]
  /\ UNCHANGED now

(* sem_wait or sem_timedwait has lowered the sem_t and returned. *)
SemWaitReturns(t) ==
  /\ pc[t] \in {"waiting", "timed"} /\ sem > 0
  /\ sem' = sem - 1 /\ pc' = [pc EXCEPT ![t] = "passed"]
  /\ Forget(t) /\ UNCHANGED <<cur, res>>

(* A timespec whose nsec is not below one second: EINVAL of sem_timedwait. *)
Refused(ts) == ts.nsec >= NsPerSec

Expired(ts) ==
  \/ Refused(ts)
  \/ now.sec > ts.sec
  \/ now.sec = ts.sec /\ now.nsec >= ts.nsec

TimedWaitFails(t) ==
  /\ pc[t] = "timed" /\ sem = 0 /\ Expired(deadline[t])
  /\ pc' = [pc EXCEPT ![t] = "out"] /\ res' = [res EXCEPT ![t] = "timeout"]
  /\ Forget(t) /\ UNCHANGED <<cur, sem>>

(* A signal handler has run while the thread was blocked: EINTR. *)
WaitInterrupted(t) ==
  /\ pc[t] \in {"waiting", "timed"}
  /\ pc' = [pc EXCEPT ![t] = "out"] /\ res' = [res EXCEPT ![t] = "interrupted"]
  /\ Forget(t) /\ UNCHANGED <<cur, sem>>

(* The second half of a take, under m_lock. *)
Decrement(t) ==
  /\ pc[t] = "passed"
  /\ cur' = (cur - 1) % WordSize
  /\ pc' = [pc EXCEPT ![t] = "out"] /\ res' = [res EXCEPT ![t] = "taken"]
  /\ UNCHANGED <<sem, time>>

(* Mutant of LmnSemGiveRefused: the last unit is refused as well. *)
LmnSemGiveRefused_OffByOne(t) ==
  /\ pc[t] = "out" /\ cur + 1 >= MaxCnt
  /\ res' = [res EXCEPT ![t] = "refused"]
  /\ UNCHANGED <<cur, sem, pc, time>>

LmnSemGiveRefused(t) ==
  /\ pc[t] = "out" /\ cur = MaxCnt
  /\ res' = [res EXCEPT ![t] = "refused"]
  /\ UNCHANGED <<cur, sem, pc, time>>

(* Mutant of LmnSemGive: the counter is not raised. *)
LmnSemGive_NoCount(t) ==
  /\ pc[t] = "out" /\ cur # MaxCnt
  /\ sem' = sem + 1
  /\ res' = [res EXCEPT ![t] = "given"]
  /\ UNCHANGED <<cur, pc, time>>

LmnSemGive(t) ==
  /\ pc[t] = "out" /\ cur # MaxCnt
  /\ sem' = sem + 1 /\ cur' = (cur + 1) % WordSize
  /\ res' = [res EXCEPT ![t] = "given"]
  /\ UNCHANGED <<pc, time>>

(* The clock of the machine. *)
Tick ==
  LET ns == now.nsec + StepMs * NsPerMs IN
  /\ now.sec < MaxSec
  /\ now' = IF ns >= NsPerSec THEN [sec |-> now.sec + 1, nsec |-> ns - NsPerSec]
                              ELSE [now EXCEPT !.nsec = ns]
  /\ waited' = [t \in Threads |-> waited[t] + IF pc[t] = "timed" THEN StepMs ELSE 0]
  /\ UNCHANGED <<cur, sem, pc, deadline, asked, res>>

-----------------------------------------------------------------------------
Step(t) ==
  \/ LmnSemTake(t) \/ (\E ms \in WaitTimes : LmnSemTakeByTime(t, ms))
  \/ SemWaitReturns(t) \/ TimedWaitFails(t) \/ WaitInterrupted(t) \/ Decrement(t)
  \/ LmnSemGive(t) \/ LmnSemGiveRefused(t)

Next == Tick \/ \E t \in Threads : Step(t)

Spec == Init /\ [][Next]_vars

(* The kernel wakes a thread when the sem_t is positive, and a thread that  *)
(* was woken runs on; nothing makes a thread call give or take.             *)
Fairness ==
  \A t \in Threads : /\ SF_vars(SemWaitReturns(t)) /\ WF_vars(Decrement(t))
                     /\ WF_vars(TimedWaitFails(t))

FairSpec == Spec /\ Fairness /\ WF_vars(Tick)

-----------------------------------------------------------------------------
(* The type of every variable. *)
TypeOK ==
  /\ cur \in 0 .. WordSize - 1 /\ sem \in Nat
  /\ pc \in [Threads -> {"out", "waiting", "timed", "passed"}]
  /\ now \in TimeSpec /\ deadline \in [Threads -> TimeSpec]
  /\ asked \in [Threads -> Nat] /\ waited \in [Threads -> Nat]
  /\ res \in [Threads -> {"none", "taken", "timeout", "interrupted", "given", "refused"}]

Passed == {t \in Threads : pc[t] = "passed"}

(* assert( p->m_dwCurCnt <= p->m_dwMaxCnt ): the counter is the sem_t plus  *)
(* the takes that are past sem_wait and have not lowered it yet, so it      *)
(* neither wraps below 0 nor exceeds the maximum, and the sem_t never       *)
(* exceeds the maximum either.                                              *)
CountsAgree ==
  /\ cur = sem + Cardinality(Passed)
  /\ cur <= MaxCnt

(* The two counters together are a counting semaphore: a give is refused    *)
(* only at the maximum, and every take that returns had a unit.             *)
Counting == INSTANCE CountingSemaphore WITH count <- cur
ImplementsCounting == Counting!Spec

(* What remains of a timed take's promise: when it gives up it has waited   *)
(* at least the whole seconds of its wait, unless the wait has a fraction   *)
(* of a second that carried tv_nsec past one second, so that sem_timedwait  *)
(* refused it.                                                              *)
WaitsWholeSeconds ==
  [][\A t \in Threads :
       res[t] # "timeout" /\ res'[t] = "timeout" =>
         \/ waited[t] >= 1000 * (asked[t] \div 1000)
         \/ asked[t] % 1000 # 0 /\ Refused(deadline[t])]_vars

(* "Add the nanoseconds of the wait" (LmnMisc.cpp:1150): a timed take that  *)
(* gives up has waited the time it was asked to wait.                       *)
WaitsItsTime ==
  [][\A t \in Threads :
       res[t] # "timeout" /\ res'[t] = "timeout" => waited[t] >= asked[t]]_vars

(* A timed take comes back: with a unit, or because its time is over.       *)
TimedTakeReturns ==
  \A t \in Threads :
    pc[t] = "timed" /\ now.sec + asked[t] \div 1000 + 1 < MaxSec ~> pc[t] = "out"

=============================================================================
