CONSTANTS
  Databases = {d}
  System = ruanko
  Tables = {t}
  Paths = {}
  None = None
  root = root
  ann = ann
  Users <- MCUsers
  Root = root
  Order <- MCOrder
  Pieces <- MCPieces
  Passwords <- MCPasswords
  RootPassword <- MCRootPassword
  Sessions <- MCSessions
  s1 = s1
  s2 = s2
  NoOne = NoOne
  MaxPackets <- MCMaxPackets
SPECIFICATION Spec
INVARIANTS
  UsersDurable
  NoPromotion
PROPERTIES
  OnlyAdminsChange
  Answered
