CONSTANTS
  Pool = {p}
  NoPool = NoPool
  Password = {w}
  NoPassword = NoPassword
  Omitted = Omitted
  MaxSaves = 2
  MaxBoots = 1
  None = None
SPECIFICATION ConfigSpec
INVARIANT PasswordPreserved
