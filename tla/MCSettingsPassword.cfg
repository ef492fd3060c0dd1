CONSTANTS
  Byte = 2
  NumAnalog = 2
  NumDigital = 2
  Layouts <- OneLayout
  Passwords <- MCPasswords
  Types <- OneType
  Readings <- OneReading
  MaxPulses = 0
SPECIFICATION SettingsSpec
INVARIANT
  PasswordKept
