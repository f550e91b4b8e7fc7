SPECIFICATION ControlsSpec
CONSTANTS
  Key <- MCKey
  Unparsable = {"shift"}
  Taken = {"taken"}
  NoConfig = NoConfig
  Settings <- MCSettings
  NoTrack = NoTrack
  MaxEffects = 3
  MaxInbox = 1
INVARIANTS
  ControlsTypeOK
  MicrophoneIsReleased
  MuteIsHonoured
  BindingHolds
  OnlyLateListenersMishear
PROPERTY LeavingGivesTheKeysBack
