SPECIFICATION FairSpec
CONSTANTS
  Login = {l1, l2}
  Changer = {x1}
  Uid = {u1}
  Email = {e1, e2}
  Password = {p1, p2}
  LoginEmail = {e1}
  MaxAttempts = 2
  CountMax = 2
  Window = 2
  MaxChanges = 1
  None = None
INVARIANTS
  AttemptsBounded
  CounterExpires
  PasswordChangesLogged
PROPERTY
  LockoutEnds
