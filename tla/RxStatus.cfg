\* The receiver status panel beside a receiver that counts and restarts.
SPECIFICATION Spec
CONSTANTS
  N = 2
  MaxPackets <- MCMaxPackets
  MaxRestarts = 1
INVARIANTS
  NothingCountedTwice
  HealthIsARatio
  SampledTogether
PROPERTY
  SilenceTurnsRed
