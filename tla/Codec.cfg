SPECIFICATION Spec
CONSTANT Width <- ScaledWidth
INVARIANTS RoundTrip WellFormed
CHECK_DEADLOCK FALSE
