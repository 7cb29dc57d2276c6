SPECIFICATION FairSpec
CONSTANTS
  People = {p1, p2}
  Workers = {w1}
  TeamMin = 2
  TeamMax = 2
  OnboardRoleCycle <- RoleCycle
  Cook = "cook"
  MaxInvitations = 2
  NoRow = NoRow
  NoView = NoView
  NoRotation = NoRotation
PROPERTIES
  ExpiredInvitationsBecomeTerminal
