SPECIFICATION Spec
CONSTANT Exclusive = {}
INVARIANT NoUseAfterFree
\* A call ends once its references are released.
CHECK_DEADLOCK FALSE
