\* Three requests, so that two registrations can race and a login can follow them.
SPECIFICATION RegistrationSpec
CONSTANTS
  ann = ann
  Ann = Ann
  good = good
  other = other
  weak = weak
  Addresses <- MCAddresses
  Folded <- MCFolded
  Passwords <- MCPasswords
  Weak <- MCWeak
  MaxCallers = 3
  DeathBound = 1
CHECK_DEADLOCK FALSE
INVARIANT TwinsOverlapped
INVARIANT AllOrNothing
INVARIANT SignedInAsSelf
INVARIANT RefusedForCause
PROPERTY EveryoneAnswered
