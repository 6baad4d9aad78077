CONSTANTS
  Value = {a, b, bad}
  Valid = {a, b}
  NumPages = 2
  SeqMod = 4
  None = None
  Torn = Torn
SPECIFICATION Spec
PROPERTIES ImplementsRegister
