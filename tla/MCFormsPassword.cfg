SPECIFICATION FormsSpec
CONSTANTS
  Texts <- MCPlain
  Numbers <- MCNumbers
  CellValues = 11
  PassLimit = 10
  TextLimit = 10
  Factory <- MCFactory
INVARIANT PasswordAsTyped
