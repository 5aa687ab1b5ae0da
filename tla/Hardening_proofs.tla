-------------------------- MODULE Hardening_proofs --------------------------
(***************************************************************************)
(* Proofs about Hardening: they show on which layer, and on which state of *)
(* the kernel, each field of HardeningResult rests.                        *)
(***************************************************************************)
EXTENDS Hardening, TLAPS

-----------------------------------------------------------------------------
(***************************************************************************)
(* The order of the layers.                                                *)
(***************************************************************************)
PastMemory == {"tracerpid", "maps", "traceme", "done"}
PastPtrace == {"memlimit", "mlockall"} \union PastMemory
PastDumps  == {"corelimit", "ptracer"} \union PastPtrace

\* harden_process goes on with the first layer from the n-th on that is asked for,
\* and is done only if there is none.
LEMMA NextLayer ==
    ASSUME NEW o \in SUBSET Measures
    PROVE  /\ "dumps" \in o => Layer(1, o) = "dumpable"
           /\ Layer(1, o) = "dumpable" \/ Layer(1, o) = Layer(2, o)
           /\ "ptrace" \in o => Layer(2, o) = "ptracer"
           /\ Layer(2, o) = "ptracer" \/ Layer(2, o) = Layer(3, o)
           /\ "memory" \in o => Layer(3, o) = "memlimit"
           /\ Layer(3, o) = "memlimit" \/ Layer(3, o) = Layer(4, o)
           /\ Layer(4, o) = IF "antidebug" \in o THEN "tracerpid" ELSE "done"
BY DEF Layer

-----------------------------------------------------------------------------
(***************************************************************************)
(* The invariant.                                                          *)
(***************************************************************************)
\* Who traces the process has done so by attaching or by PTRACE_TRACEME.
TracerKnown ==
    /\ tracer = "debugger" => debugged
    /\ tracer = "parent" => traceme

\* Past a layer that was asked for its protection is in place, or the failure is
\* noted.
Noted ==
    /\ pc \in PastDumps /\ "dumps" \in opts /\ dumpable => "dumps" \in errors
    /\ pc \in PastDumps \ {"corelimit"} /\ "dumps" \in opts /\ ~coreOff => "dumps" \in errors
    /\ pc \in PastPtrace /\ "ptrace" \in opts /\ yama /\ "ptrace_disabled" \notin result =>
          "ptrace" \in errors
    /\ pc \in PastMemory /\ "memory" \in opts /\ "memory_locked" \notin result =>
          "memory" \in errors
    /\ pc = "done" /\ "antidebug" \in opts /\ "anti_debug_active" \notin result =>
          "antidebug" \in errors

\* A call that has made the parent the tracer keeps it until the parent exits.
\* anti_debug_active is not set before the last step.
Guarded ==
    /\ pc \notin {"idle"} /\ "anti_debug_active" \in result => tracer = "parent" \/ orphaned
    /\ pc \in Steps => "anti_debug_active" \notin result

\* Between raising the limit and mlockall a high limit says nothing about the lock.
LimitExplained == limit => generous \/ mlocked \/ lockFailed \/ pc = "mlockall"

IInv ==
    /\ TypeOK
    /\ ReportedProtectionHolds /\ LimitExplained
    /\ TracerKnown /\ FalseAlarmOnlyAfterTraceme
    /\ Noted
    /\ Guarded

\* Nothing has been called yet.
LEMMA InitHolds == Init => IInv
<1> SUFFICES ASSUME Init
             PROVE  IInv
  OBVIOUS
<1>1. TypeOK
  BY DEF Init, TypeOK, Steps
<1>2. ReportedProtectionHolds /\ LimitExplained
  BY DEF Init, ReportedProtectionHolds, LimitExplained
<1>3. TracerKnown /\ FalseAlarmOnlyAfterTraceme
  BY DEF Init, TracerKnown, FalseAlarmOnlyAfterTraceme
<1>4. Noted /\ Guarded
  BY DEF Init, Noted, Guarded, PastDumps, PastPtrace, PastMemory, Steps
<1> QED
  BY <1>1, <1>2, <1>3, <1>4 DEF IInv

-----------------------------------------------------------------------------
(***************************************************************************)
(* harden_process.                                                         *)
(***************************************************************************)
\* A call begins with nothing reported.
LEMMA HardenHolds ==
    ASSUME IInv, NEW o \in SUBSET Measures, Harden(o)
    PROVE  IInv'
<1>1. pc' \in {"dumpable", "ptracer", "memlimit", "tracerpid", "done"}
  BY NextLayer DEF Harden, Goto
<1>2. /\ "dumps" \in o => pc' = "dumpable"
      /\ "ptrace" \in o => pc' \in {"dumpable", "ptracer"}
      /\ "memory" \in o => pc' \in {"dumpable", "ptracer", "memlimit"}
      /\ "antidebug" \in o => pc' # "done"
  BY NextLayer DEF Harden, Goto
<1> USE DEF IInv, TypeOK, Harden, Goto, kernel, fixed
<1>3. TypeOK'
  BY <1>1 DEF Steps, Measures, Flags
<1>4. ReportedProtectionHolds' /\ LimitExplained'
  BY <1>1 DEF ReportedProtectionHolds, LimitExplained
<1>5. TracerKnown' /\ FalseAlarmOnlyAfterTraceme'
  BY DEF TracerKnown, FalseAlarmOnlyAfterTraceme
<1>6. Noted'
  BY <1>1, <1>2 DEF Noted, PastDumps, PastPtrace, PastMemory
<1>7. Guarded'
  BY <1>1 DEF Guarded, Steps
<1> QED
  BY <1>3, <1>4, <1>5, <1>6, <1>7

\* The first half of layer 1: the flag is set if PR_SET_DUMPABLE was.
LEMMA SetDumpableHolds ==
    ASSUME IInv, SetDumpable
    PROVE  IInv'
<1> USE DEF IInv, TypeOK, SetDumpable, Goto, Report, Note, InCall, InLocking, fixed
<1>1. TypeOK'
  BY DEF Steps, Measures, Flags
<1>2. ReportedProtectionHolds' /\ LimitExplained'
  BY DEF ReportedProtectionHolds, LimitExplained
<1>3. TracerKnown' /\ FalseAlarmOnlyAfterTraceme'
  BY DEF TracerKnown, FalseAlarmOnlyAfterTraceme
<1>4. Noted'
  BY DEF Noted, PastDumps, PastPtrace, PastMemory
<1>5. Guarded'
  BY DEF Guarded, Steps
<1> QED
  BY <1>1, <1>2, <1>3, <1>4, <1>5

\* The second half does not depend on the first.
LEMMA SetCoreLimitHolds ==
    ASSUME IInv, SetCoreLimit
    PROVE  IInv'
<1>1. pc' \in {"ptracer", "memlimit", "tracerpid", "done"}
  BY NextLayer DEF IInv, TypeOK, SetCoreLimit, Goto
<1>2. /\ "ptrace" \in opts => pc' = "ptracer"
      /\ "memory" \in opts => pc' \in {"ptracer", "memlimit"}
      /\ "antidebug" \in opts => pc' # "done"
  BY NextLayer DEF IInv, TypeOK, SetCoreLimit, Goto
<1> USE DEF IInv, TypeOK, SetCoreLimit, Goto, Note, InCall, InLocking, fixed
<1>3. TypeOK'
  BY <1>1 DEF Steps, Measures, Flags
<1>4. ReportedProtectionHolds' /\ LimitExplained'
  BY <1>1 DEF ReportedProtectionHolds, LimitExplained
<1>5. TracerKnown' /\ FalseAlarmOnlyAfterTraceme'
  BY DEF TracerKnown, FalseAlarmOnlyAfterTraceme
<1>6. Noted'
  BY <1>1, <1>2 DEF Noted, PastDumps, PastPtrace, PastMemory
<1>7. Guarded'
  BY <1>1 DEF Guarded, Steps
<1> QED
  BY <1>3, <1>4, <1>5, <1>6, <1>7

\* Layer 2, with layer 1 in its place where there is no Yama.
LEMMA SetPtracerHolds ==
    ASSUME IInv, SetPtracer
    PROVE  IInv'
<1>1. pc' \in {"memlimit", "tracerpid", "done"}
  BY NextLayer DEF IInv, TypeOK, SetPtracer, Goto
<1>2. /\ "memory" \in opts => pc' = "memlimit"
      /\ "antidebug" \in opts => pc' # "done"
  BY NextLayer DEF IInv, TypeOK, SetPtracer, Goto
<1> USE DEF IInv, TypeOK, SetPtracer, Goto, Report, Note, InCall, InLocking, fixed
<1>3. TypeOK'
  BY <1>1 DEF Steps, Measures, Flags
<1>4. ReportedProtectionHolds' /\ LimitExplained'
  BY <1>1 DEF ReportedProtectionHolds, LimitExplained
<1>5. TracerKnown' /\ FalseAlarmOnlyAfterTraceme'
  BY DEF TracerKnown, FalseAlarmOnlyAfterTraceme
<1>6. Noted'
  BY <1>1, <1>2 DEF Noted, PastDumps, PastPtrace, PastMemory
<1>7. Guarded'
  BY <1>1 DEF Guarded, Steps
<1> QED
  BY <1>3, <1>4, <1>5, <1>6, <1>7

\* Best effort.
LEMMA RaiseMemlockHolds ==
    ASSUME IInv, RaiseMemlock
    PROVE  IInv'
<1> USE DEF IInv, TypeOK, RaiseMemlock, Goto, InCall, InLocking, fixed
<1>1. TypeOK'
  BY DEF Steps, Measures, Flags
<1>2. ReportedProtectionHolds' /\ LimitExplained'
  BY DEF ReportedProtectionHolds, LimitExplained
<1>3. TracerKnown' /\ FalseAlarmOnlyAfterTraceme'
  BY DEF TracerKnown, FalseAlarmOnlyAfterTraceme
<1>4. Noted'
  BY DEF Noted, PastDumps, PastPtrace, PastMemory
<1>5. Guarded'
  BY DEF Guarded, Steps
<1> QED
  BY <1>1, <1>2, <1>3, <1>4, <1>5

\* Layer 3: the flag is set if mlockall locked.
LEMMA LockMemoryHolds ==
    ASSUME IInv, LockMemory
    PROVE  IInv'
<1>1. pc' \in {"tracerpid", "done"}
  BY NextLayer DEF IInv, TypeOK, LockMemory, Goto
<1>2. "antidebug" \in opts => pc' # "done"
  BY NextLayer DEF IInv, TypeOK, LockMemory, Goto
<1> USE DEF IInv, TypeOK, LockMemory, Goto, Report, Note, InCall, InLocking, fixed
<1>3. TypeOK'
  BY <1>1 DEF Steps, Measures, Flags
<1>4. ReportedProtectionHolds' /\ LimitExplained'
  BY <1>1 DEF ReportedProtectionHolds, LimitExplained
<1>5. TracerKnown' /\ FalseAlarmOnlyAfterTraceme'
  BY DEF TracerKnown, FalseAlarmOnlyAfterTraceme
<1>6. Noted'
  BY <1>1, <1>2 DEF Noted, PastDumps, PastPtrace, PastMemory
<1>7. Guarded'
  BY <1>1 DEF Guarded, Steps
<1> QED
  BY <1>3, <1>4, <1>5, <1>6, <1>7

\* Layer 4 finds a tracer that has attached, or the parent.
LEMMA CheckTracerHolds ==
    ASSUME IInv, CheckTracer
    PROVE  IInv'
<1> USE DEF IInv, TypeOK, CheckTracer, Goto, Report, Note, InCall, InLocking, kernel, fixed, TracerFound
<1>1. TypeOK'
  BY DEF Steps, Measures, Flags
<1>2. ReportedProtectionHolds' /\ LimitExplained'
  BY DEF ReportedProtectionHolds, LimitExplained
<1>3. TracerKnown' /\ FalseAlarmOnlyAfterTraceme'
  BY DEF TracerKnown, FalseAlarmOnlyAfterTraceme
<1>4. Noted'
  BY DEF Noted, PastDumps, PastPtrace, PastMemory
<1>5. Guarded'
  BY DEF Guarded, Steps
<1> QED
  BY <1>1, <1>2, <1>3, <1>4, <1>5

\* Valgrind says nothing about tracers.
LEMMA CheckValgrindHolds ==
    ASSUME IInv, CheckValgrind
    PROVE  IInv'
<1> USE DEF IInv, TypeOK, CheckValgrind, Goto, Report, Note, InCall, InLocking, kernel, fixed
<1>1. TypeOK'
  BY DEF Steps, Measures, Flags
<1>2. ReportedProtectionHolds' /\ LimitExplained'
  BY DEF ReportedProtectionHolds, LimitExplained
<1>3. TracerKnown' /\ FalseAlarmOnlyAfterTraceme'
  BY DEF TracerKnown, FalseAlarmOnlyAfterTraceme
<1>4. Noted'
  BY DEF Noted, PastDumps, PastPtrace, PastMemory
<1>5. Guarded'
  BY DEF Guarded, Steps
<1> QED
  BY <1>1, <1>2, <1>3, <1>4, <1>5

\* PTRACE_TRACEME makes the parent the tracer, or there is one, or it is noted.
LEMMA TracemeHolds ==
    ASSUME IInv, Traceme
    PROVE  IInv'
<1> USE DEF IInv, TypeOK, Traceme, Goto, Report, Note, kernel, fixed
<1>1. TypeOK'
  BY DEF Steps, Measures, Flags
<1>2. ReportedProtectionHolds' /\ LimitExplained'
  BY DEF ReportedProtectionHolds, LimitExplained
<1>3. TracerKnown' /\ FalseAlarmOnlyAfterTraceme'
  BY DEF TracerKnown, FalseAlarmOnlyAfterTraceme
<1>4. Noted'
  BY DEF Noted, PastDumps, PastPtrace, PastMemory
<1>5. Guarded'
  BY DEF Guarded, Steps
<1> QED
  BY <1>1, <1>2, <1>3, <1>4, <1>5

-----------------------------------------------------------------------------
(***************************************************************************)
(* The queries and the surroundings.                                       *)
(***************************************************************************)
\* The status is not a report of harden_process.
LEMMA CheckStatusHolds ==
    ASSUME IInv, CheckStatus
    PROVE  IInv'
<1> USE DEF IInv, TypeOK, CheckStatus, Goto, kernel, fixed, TracerFound
<1>1. TypeOK'
  BY DEF Steps, Measures, Flags
<1>2. ReportedProtectionHolds' /\ LimitExplained'
  BY DEF ReportedProtectionHolds, LimitExplained
<1>3. TracerKnown' /\ FalseAlarmOnlyAfterTraceme'
  BY DEF TracerKnown, FalseAlarmOnlyAfterTraceme
<1>4. Noted'
  BY DEF Noted, PastDumps, PastPtrace, PastMemory
<1>5. Guarded'
  BY DEF Guarded, Steps
<1> QED
  BY <1>1, <1>2, <1>3, <1>4, <1>5

\* It throws only for a tracer.
LEMMA AssertNoDebuggerHolds ==
    ASSUME IInv, AssertNoDebugger
    PROVE  IInv'
<1> USE DEF IInv, TypeOK, AssertNoDebugger, kernel, fixed, TracerFound
<1>1. TypeOK'
  BY DEF Steps, Measures, Flags
<1>2. ReportedProtectionHolds' /\ LimitExplained'
  BY DEF ReportedProtectionHolds, LimitExplained
<1>3. TracerKnown' /\ FalseAlarmOnlyAfterTraceme'
  BY DEF TracerKnown, FalseAlarmOnlyAfterTraceme
<1>4. Noted'
  BY DEF Noted, PastDumps, PastPtrace, PastMemory
<1>5. Guarded'
  BY DEF Guarded, Steps
<1> QED
  BY <1>1, <1>2, <1>3, <1>4, <1>5

\* Tracers come and go without touching a protection.
LEMMA SurroundingsHolds ==
    ASSUME IInv, Attach \/ Detach \/ ParentExits
    PROVE  IInv'
<1> USE DEF IInv, TypeOK, Attach, Detach, ParentExits, kernel, fixed
<1>1. TypeOK'
  BY DEF Steps, Measures, Flags
<1>2. ReportedProtectionHolds' /\ LimitExplained'
  BY DEF ReportedProtectionHolds, LimitExplained
<1>3. TracerKnown' /\ FalseAlarmOnlyAfterTraceme'
  BY DEF TracerKnown, FalseAlarmOnlyAfterTraceme
<1>4. Noted'
  BY DEF Noted, PastDumps, PastPtrace, PastMemory
<1>5. Guarded'
  BY DEF Guarded, Steps
<1> QED
  BY <1>1, <1>2, <1>3, <1>4, <1>5

-----------------------------------------------------------------------------
(***************************************************************************)
(* The theorems.                                                           *)
(***************************************************************************)
\* The invariant holds in every reachable state.
THEOREM InvariantHolds == Spec => []IInv
<1>1. IInv /\ [Next]_vars => IInv'
  <2> SUFFICES ASSUME IInv, [Next]_vars
               PROVE  IInv'
    OBVIOUS
  <2>1. CASE HardenStep
    BY <2>1, SetDumpableHolds, SetCoreLimitHolds, SetPtracerHolds, RaiseMemlockHolds,
       LockMemoryHolds, CheckTracerHolds, CheckValgrindHolds, TracemeHolds DEF HardenStep
  <2>2. CASE \E o \in SUBSET Measures : Harden(o)
    BY <2>2, HardenHolds
  <2>3. CASE CheckStatus \/ AssertNoDebugger \/ Attach \/ Detach \/ ParentExits
    BY <2>3, CheckStatusHolds, AssertNoDebuggerHolds, SurroundingsHolds
  <2>4. CASE UNCHANGED vars
    BY <2>4 DEF vars, kernel, fixed, IInv, TypeOK, ReportedProtectionHolds,
       LimitExplained, TracerKnown, FalseAlarmOnlyAfterTraceme, Noted, Guarded
  <2> QED
    BY <2>1, <2>2, <2>3, <2>4 DEF Next
<1> QED
  BY <1>1, InitHolds, PTL DEF Spec

\* Every variable keeps its type.
THEOREM TypeCorrect == Spec => []TypeOK
<1>1. IInv => TypeOK
  BY DEF IInv
<1> QED
  BY <1>1, InvariantHolds, PTL

\* What harden_process has reported is in force and stays so.
THEOREM ReportsHold == Spec => []ReportedProtectionHolds
<1>1. IInv => ReportedProtectionHolds
  BY DEF IInv
<1> QED
  BY <1>1, InvariantHolds, PTL

\* No debugger is there unnoticed when harden_process returns: if PTRACE_TRACEME
\* succeeded the parent is the tracer still, and if not it is in the message.
THEOREM DebuggersNoticed == Spec => []DebuggerNotMissed
<1>1. IInv => DebuggerNotMissed
  BY DEF IInv, Noted, Guarded, DebuggerNotMissed
<1> QED
  BY <1>1, InvariantHolds, PTL

\* A debugger is reported only if there was one, or the parent was made the tracer.
THEOREM AlarmsExplained == Spec => []FalseAlarmOnlyAfterTraceme
<1>1. IInv => FalseAlarmOnlyAfterTraceme
  BY DEF IInv
<1> QED
  BY <1>1, InvariantHolds, PTL

\* A measure that was asked for is in place when harden_process returns, or in the
\* message.
THEOREM FailuresAreNoted == Spec => []FailuresNoted
<1>1. IInv => FailuresNoted
  BY DEF IInv, Noted, FailuresNoted, PastDumps, PastPtrace, PastMemory
<1> QED
  BY <1>1, InvariantHolds, PTL
=============================================================================
