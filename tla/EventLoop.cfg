SPECIFICATION Spec
CONSTANT NumCommands = 3
INVARIANTS AllJoined FailuresReported
PROPERTIES ImplementsSupervisor CancelledForAReason EndOfOneEndsRun
