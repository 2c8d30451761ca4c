CONSTANTS
    Scripts <- MCScripts
    MaxFrames = 2
SPECIFICATION Spec
INVARIANT KeepAliveAfterFlush
CHECK_DEADLOCK FALSE
