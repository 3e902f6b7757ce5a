SPECIFICATION ForwardFairSpec
INVARIANT StableOutcome
INVARIANT NothingAfterReturn
INVARIANT DeadlineReaches
PROPERTY ForwardEnds
