CONSTANTS
  Byte = 2
  NumAnalog = 1
  NumDigital = 1
  Layouts <- MCLayouts
  Passwords <- MCPasswords
  Types <- OneType
  Readings <- OneReading
  MaxPulses = 0
SPECIFICATION SettingsSpec
INVARIANT
  WebPortSet
