\* Two networks, so that a replayed connect can be for the wrong one; three
\* windows: the one the device is commissioned through, the one reopened
\* later, and one more that races with a phase switch. The networks are not
\* declared symmetric because the run also checks liveness.
CONSTANTS
  MaxWindows = 3
  Nets = {n1, n2}
  None = None
SPECIFICATION FairSpec
INVARIANTS CredentialsKept VerdictOfThisAttempt ReplayedFirst NoBounce NeverStuck
PROPERTIES BleStopsWithoutWindow HandOverHappens AwaitedWindowHandsBack ImplementsHandOver
