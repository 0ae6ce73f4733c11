SPECIFICATION FairLockSpec
CONSTANT AsyncCalls = {c1, c2, c3}
INVARIANTS OneAtATime SyncCallsAlone NoForgottenWaiter
PROPERTIES NoOvertaking EveryCallAnswered
CHECK_DEADLOCK FALSE
