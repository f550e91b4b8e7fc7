SPECIFICATION ControlsSpec
CONSTANTS
  Key <- MCKey
  Unparsable = {"shift"}
  Taken = {"taken"}
  NoConfig = NoConfig
  Settings <- MCSettings
  NoTrack = NoTrack
  MaxEffects = 2
  MaxInbox = 1
PROPERTY SessionsCarryTheMicrophone
