SPECIFICATION Spec
INVARIANT PeriodStartAsDocumented
CHECK_DEADLOCK FALSE
