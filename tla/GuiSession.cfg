CONSTANTS
  p1 = p1
  p2 = p2
  p3 = p3
  a = a
  b = b
  Path <- const_Path
  Address <- const_Address
  Pass <- const_Pass
  Files <- const_Files
  NoFile = NoFile
  NoId = NoId
  NoPromise = NoPromise
  MaxOps = 4
  MaxSessions = 2
SPECIFICATION Spec
INVARIANTS TypeOK PasswordsAgree WalletsListed QuitSaves
PROPERTY QuitCompletes
CHECK_DEADLOCK FALSE
