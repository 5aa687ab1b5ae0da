SPECIFICATION Spec
INVARIANTS AssertThrowsForDebugger
