SPECIFICATION Spec
CONSTANTS
  People = {p1, p2, p3}
  Workers = {w1, w2}
  TeamMin = 1
  TeamMax = 2
  OnboardRoleCycle <- RoleCycle
  Cook = "cook"
  MaxInvitations = 3
  NoRow = NoRow
  NoView = NoView
  NoRotation = NoRotation
SYMMETRY Symmetry
INVARIANTS
  TypeOK
  RowsAndViewFollowLog
  TeamWithinCapacity
  OneSeatPerPerson
  SetupViewCurrent
  StatusMatchesHistory
  ControlsHonestUntilLapse
PROPERTIES
  TeamFrozenAfterRotation
  StartsWithPlannedTeam
