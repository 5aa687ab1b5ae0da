SPECIFICATION Spec
INVARIANTS TypeOK ReportedProtectionHolds DebuggerNotMissed  FailuresNoted
