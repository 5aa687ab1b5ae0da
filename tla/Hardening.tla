----------------------------- MODULE Hardening -----------------------------
(***************************************************************************)
(* process_hardening.cpp: harden_process, check_hardening_status and       *)
(* assert_no_debugger of one process, the kernel state they change and     *)
(* read, and a debugger and a parent process that act between their system *)
(* calls.                                                                  *)
(*                                                                         *)
(* Covered: any sequence of calls with any options, every failure branch.  *)
(* Not covered: the wording of messages, print_hardening_status.  The      *)
(* kernel (prctl, setrlimit, mlockall, ptrace, /proc) is modelled from the *)
(* way the code uses it: PTRACE_TRACEME makes the parent the tracer.       *)
(***************************************************************************)
EXTENDS Naturals

\* HardeningOptions: disable_dumps, disable_ptrace, lock_memory, anti_debug.
Measures == {"dumps", "ptrace", "memory", "antidebug"}

\* The fields of HardeningResult that are true.
Flags == {"dumps_disabled", "ptrace_disabled", "memory_locked", "anti_debug_active",
          "debugger_detected", "valgrind_detected"}

VARIABLES
    \* the kernel's view of the process
    dumpable,  \* PR_GET_DUMPABLE
    coreOff,   \* RLIMIT_CORE is 0
    ptracer,   \* PR_SET_PTRACER 0 accepted
    yama,      \* the kernel has Yama; never changes
    limit,     \* RLIMIT_MEMLOCK above 64 MiB or unlimited
    mlocked,   \* mlockall in effect
    tracer,    \* who traces the process
    valgrind,  \* the process runs under Valgrind; never changes
    \* the call in progress and the last results
    pc, opts,
    result,    \* HardeningResult of the call in progress or of the last one
    errors,    \* measures with a part in error_message
    asserted,  \* what the last assert_no_debugger did
    \* history
    debugged,  \* a debugger has been attached at some time
    traceme,   \* PTRACE_TRACEME has succeeded at some time
    orphaned,  \* a tracing parent has exited during the call
    generous,  \* limit at the start; never changes
    lockFailed \* an mlockall has failed

kernel == <<dumpable, coreOff, ptracer, limit, mlocked>>
fixed  == <<yama, valgrind, generous>>
vars   == <<kernel, fixed, tracer, pc, opts, result, errors, asserted, debugged, traceme, orphaned, lockFailed>>

Steps == {"dumpable", "corelimit", "ptracer", "memlimit", "mlockall", "tracerpid", "maps", "traceme"}

TypeOK ==
    /\ {dumpable, coreOff, ptracer, yama, limit, mlocked, valgrind} \subseteq BOOLEAN
    /\ {debugged, traceme, orphaned, generous, lockFailed} \subseteq BOOLEAN
    /\ tracer \in {"none", "debugger", "parent"}
    /\ pc \in {"idle", "done"} \union Steps
    /\ opts \subseteq Measures
    /\ result \subseteq Flags
    /\ errors \subseteq Measures \union {"valgrind"}
    /\ asserted \in {"none", "passed", "threw"}

Init ==
    /\ dumpable = TRUE /\ coreOff = FALSE /\ ptracer = FALSE /\ mlocked = FALSE
    /\ yama \in BOOLEAN /\ limit \in BOOLEAN /\ valgrind \in BOOLEAN
    /\ tracer \in {"none", "debugger"}
    /\ pc = "idle" /\ opts = {} /\ result = {} /\ errors = {} /\ asserted = "none"
    /\ debugged = (tracer = "debugger")
    /\ traceme = FALSE /\ orphaned = FALSE
    /\ generous = limit /\ lockFailed = FALSE

\* Slip: no way out past the last layer that is asked for.
LayerUnended(n, o) ==
    IF n <= 1 /\ "dumps" \in o THEN "dumpable"
    ELSE IF n <= 2 /\ "ptrace" \in o THEN "ptracer"
    ELSE IF n <= 3 /\ "memory" \in o THEN "memlimit"
    ELSE IF n <= 4 /\ "antidebug" \in o THEN "tracerpid" ELSE "layer5"

\* The first step of the first layer from the n-th on that is asked for.
Layer(n, o) ==
    IF n <= 1 /\ "dumps" \in o THEN "dumpable"
    ELSE IF n <= 2 /\ "ptrace" \in o THEN "ptracer"
    ELSE IF n <= 3 /\ "memory" \in o THEN "memlimit"
    ELSE IF n <= 4 /\ "antidebug" \in o THEN "tracerpid" ELSE "done"

Goto(l) == pc' = l
Report(fs) == result' = result \union fs
Note(m, noted) == errors' = IF noted THEN errors \union {m} ELSE errors

-----------------------------------------------------------------------------
(***************************************************************************)
(* harden_process                                                          *)
(***************************************************************************)
Harden(o) ==
    /\ pc \in {"idle", "done"}
    /\ opts' = o
    /\ result' = {}
    /\ errors' = {}
    /\ orphaned' = FALSE
    /\ Goto(Layer(1, o))
    /\ UNCHANGED <<kernel, fixed, tracer, asserted, debugged, traceme, lockFailed>>

\* What a step of harden_process other than PTRACE_TRACEME leaves alone, and what
\* all but PTRACE_TRACEME and mlockall do.
InLocking == UNCHANGED <<fixed, tracer, opts, asserted, debugged, traceme, orphaned>>
InCall == InLocking /\ UNCHANGED lockFailed

SetDumpable ==
    /\ pc = "dumpable"
    /\ \/ dumpable' = FALSE /\ Report({"dumps_disabled"}) /\ UNCHANGED errors
       \/ UNCHANGED <<dumpable, result>> /\ Note("dumps", TRUE)
    /\ Goto("corelimit")
    /\ InCall /\ UNCHANGED <<coreOff, ptracer, limit, mlocked>>

SetCoreLimit ==
    /\ pc = "corelimit"
    /\ \/ coreOff' = TRUE /\ UNCHANGED errors
       \/ UNCHANGED coreOff /\ Note("dumps", TRUE)
    /\ Goto(Layer(2, opts))
    /\ InCall /\ UNCHANGED <<dumpable, ptracer, limit, mlocked, result>>

\* Without Yama prctl fails with EINVAL, which is no error: PR_SET_DUMPABLE takes
\* its place if that was set in this call.
SetPtracer ==
    /\ pc = "ptracer"
    /\ \/ /\ yama /\ ptracer' = TRUE
          /\ Report({"ptrace_disabled"})
          /\ UNCHANGED errors
       \/ /\ yama /\ UNCHANGED <<ptracer, result>>
          /\ Note("ptrace", TRUE)
       \/ /\ ~yama /\ UNCHANGED <<ptracer, errors>>
          /\ Report(IF "dumps_disabled" \in result THEN {"ptrace_disabled"} ELSE {})
    /\ Goto(Layer(3, opts))
    /\ InCall /\ UNCHANGED <<dumpable, coreOff, limit, mlocked>>

\* Best effort: a failure is ignored.
RaiseMemlock ==
    /\ pc = "memlimit"
    /\ limit' \in {limit, TRUE}
    /\ Goto("mlockall")
    /\ InCall /\ UNCHANGED <<dumpable, coreOff, ptracer, mlocked, result, errors>>

\* Slip: the flag is set from the limit, as check_hardening_status does.
LockMemoryByLimit ==
    /\ pc = "mlockall"
    /\ mlocked' \in {mlocked, TRUE}
    /\ Report(IF limit THEN {"memory_locked"} ELSE {})
    /\ Note("memory", ~limit)
    /\ lockFailed' \in {lockFailed, TRUE}
    /\ Goto(Layer(4, opts))
    /\ InLocking /\ UNCHANGED <<dumpable, coreOff, ptracer, limit>>

\* Slip: a failing mlockall is silent.
LockMemoryQuiet ==
    /\ pc = "mlockall"
    /\ mlocked' \in {mlocked, TRUE}
    /\ Report(IF mlocked' THEN {"memory_locked"} ELSE {})
    /\ lockFailed' = (lockFailed \/ ~mlocked')
    /\ Goto(Layer(4, opts))
    /\ InLocking /\ UNCHANGED <<dumpable, coreOff, ptracer, limit, errors>>

LockMemory ==
    /\ pc = "mlockall"
    /\ \/ mlocked' = TRUE /\ Report({"memory_locked"}) /\ UNCHANGED <<errors, lockFailed>>
       \/ UNCHANGED <<mlocked, result>> /\ Note("memory", TRUE) /\ lockFailed' = TRUE
    /\ Goto(Layer(4, opts))
    /\ InLocking /\ UNCHANGED <<dumpable, coreOff, ptracer, limit>>

\* Slip: an unreadable /proc/self/status is taken for a debugger.
TracerFoundUnlessRead(readable) == readable => tracer # "none"

\* is_debugger_attached: false if /proc/self/status cannot be read.
TracerFound(readable) == readable /\ tracer # "none"

CheckTracer ==
    /\ pc = "tracerpid"
    /\ \E readable \in BOOLEAN :
          /\ Report(IF TracerFound(readable) THEN {"debugger_detected"} ELSE {})
          /\ Note("antidebug", TracerFound(readable))
    /\ Goto("maps")
    /\ InCall /\ UNCHANGED kernel

CheckValgrind ==
    /\ pc = "maps"
    /\ \E readable \in BOOLEAN :
          /\ Report(IF readable /\ valgrind THEN {"valgrind_detected"} ELSE {})
          /\ Note("valgrind", readable /\ valgrind)
    /\ Goto("traceme")
    /\ InCall /\ UNCHANGED kernel

\* Slip: only the first check reports, a failing PTRACE_TRACEME is silent.
TracemeSilent ==
    /\ pc = "traceme"
    /\ \/ /\ tracer = "none" /\ tracer' = "parent" /\ traceme' = TRUE
          /\ Report({"anti_debug_active"})
       \/ tracer # "none" /\ UNCHANGED <<tracer, traceme, result>>
    /\ Goto("done")
    /\ UNCHANGED <<kernel, fixed, opts, errors, asserted, debugged, orphaned, lockFailed>>

\* EPERM if there is a tracer; any other refusal (a seccomp filter) is only noted.
Traceme ==
    /\ pc = "traceme"
    /\ \/ /\ tracer = "none" /\ tracer' = "parent" /\ traceme' = TRUE
          /\ Report({"anti_debug_active"})
          /\ UNCHANGED errors
       \/ /\ tracer # "none" /\ UNCHANGED <<tracer, traceme>>
          /\ Report({"debugger_detected"})
          /\ Note("antidebug", TRUE)
       \/ /\ UNCHANGED <<tracer, traceme, result>>
          /\ Note("antidebug", TRUE)
    /\ Goto("done")
    /\ UNCHANGED <<kernel, fixed, opts, asserted, debugged, orphaned, lockFailed>>

HardenStep ==
    \/ SetDumpable \/ SetCoreLimit \/ SetPtracer \/ RaiseMemlock \/ LockMemory
    \/ CheckTracer \/ CheckValgrind \/ Traceme

-----------------------------------------------------------------------------
(***************************************************************************)
(* The queries.                                                            *)
(***************************************************************************)
CheckStatus ==
    /\ pc \in {"idle", "done"}
    /\ \E statusRead, mapsRead, limitRead \in BOOLEAN :
          result' = (IF ~dumpable THEN {"dumps_disabled", "ptrace_disabled"} ELSE {})
             \union (IF limitRead /\ limit THEN {"memory_locked"} ELSE {})
             \union (IF TracerFound(statusRead) THEN {"debugger_detected"} ELSE {})
             \union (IF mapsRead /\ valgrind THEN {"valgrind_detected"} ELSE {})
    /\ errors' = {}
    /\ opts' = {}
    /\ Goto("idle")
    /\ UNCHANGED <<kernel, fixed, tracer, asserted, debugged, traceme, orphaned, lockFailed>>

AssertNoDebugger ==
    /\ pc \in {"idle", "done"}
    /\ \E readable \in BOOLEAN : asserted' = IF TracerFound(readable) THEN "threw" ELSE "passed"
    /\ UNCHANGED <<kernel, fixed, tracer, pc, opts, result, errors, debugged, traceme, orphaned, lockFailed>>

-----------------------------------------------------------------------------
(***************************************************************************)
(* The surroundings.  A process has one tracer.                            *)
(***************************************************************************)
Attach ==
    /\ tracer = "none"
    /\ tracer' = "debugger" /\ debugged' = TRUE
    /\ UNCHANGED <<kernel, fixed, pc, opts, result, errors, asserted, traceme, orphaned, lockFailed>>

Detach ==
    /\ tracer = "debugger"
    /\ tracer' = "none"
    /\ UNCHANGED <<kernel, fixed, pc, opts, result, errors, asserted, debugged, traceme, orphaned, lockFailed>>

ParentExits ==
    /\ tracer = "parent"
    /\ tracer' = "none" /\ orphaned' = TRUE
    /\ UNCHANGED <<kernel, fixed, pc, opts, result, errors, asserted, debugged, traceme, lockFailed>>

Next ==
    \/ \E o \in SUBSET Measures : Harden(o)
    \/ HardenStep
    \/ CheckStatus \/ AssertNoDebugger
    \/ Attach \/ Detach \/ ParentExits

Spec == Init /\ [][Next]_vars

-----------------------------------------------------------------------------
(***************************************************************************)
(* Properties.                                                             *)
(***************************************************************************)
\* A flag that is reported is true and stays so: whatever is called later, and with
\* whichever options, nothing undoes a protection.  check_hardening_status reads the
\* limit for memory_locked: it is wrong only for a process that was given a high
\* limit, or whose mlockall has failed once, by harden_process itself raising it.
ReportedProtectionHolds ==
    /\ "dumps_disabled" \in result => ~dumpable
    /\ "ptrace_disabled" \in result => ptracer \/ ~dumpable
    /\ "memory_locked" \in result => mlocked \/ (pc = "idle" /\ (generous \/ lockFailed))

\* The two tracer checks leave no gap: a debugger that is there when
\* harden_process returns, attached at whichever step, has been noticed, or
\* PTRACE_TRACEME was refused for another reason and the message says so; only a
\* parent that exits lets one in afterwards.
DebuggerNotMissed ==
    pc = "done" /\ "antidebug" \in opts /\ tracer = "debugger" /\ ~orphaned =>
        "debugger_detected" \in result \/ "antidebug" \in errors

\* A debugger is reported, by any of the calls, only if one has been attached or
\* the process has made its parent its tracer.
FalseAlarmOnlyAfterTraceme ==
    "debugger_detected" \in result \/ asserted = "threw" => debugged \/ traceme

\* A measure that was asked for and is not in place when harden_process returns
\* has a part in the message, but for a ptrace restriction refused with EINVAL.
FailuresNoted ==
    pc = "done" =>
        /\ "dumps" \in opts /\ (dumpable \/ ~coreOff) => "dumps" \in errors
        /\ "memory" \in opts /\ "memory_locked" \notin result => "memory" \in errors
        /\ "ptrace" \in opts /\ yama /\ "ptrace_disabled" \notin result => "ptrace" \in errors
        /\ "antidebug" \in opts /\ "anti_debug_active" \notin result => "antidebug" \in errors

-----------------------------------------------------------------------------
(***************************************************************************)
(* What the header says, and the code does not do.                         *)
(***************************************************************************)
\* process_hardening.h of assert_no_debugger: throws if a debugger is detected.
\* After PTRACE_TRACEME the tracer it finds is the parent.
AssertThrowsForDebugger == asserted = "threw" => debugged
=============================================================================
