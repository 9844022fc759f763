\* Clears after an unknown code that interrupted a recovery.
SPECIFICATION Spec
CONSTANTS
  Messages <- MCMessages
  LightctlCodes <- MCLightctlCodes
  MaxErrors = 2
PROPERTY
  ClearsReachNormal
