\* At most four windows are opened; after the last one has closed, a wait
\* for an open window sleeps for ever, so the system may stop.
CONSTANT MaxWindows = 4
SPECIFICATION Spec
INVARIANT NoMissedChange
PROPERTY ImplementsWait
CHECK_DEADLOCK FALSE
