\* Five windows, so that windows of both kinds follow each other in any order.
\* After the last one the loop sleeps for ever.
CONSTANT MaxWindows = 5
SPECIFICATION Spec
INVARIANT SettledAgrees
PROPERTIES StopsWithWindow StartsForOwn
CHECK_DEADLOCK FALSE
