SPECIFICATION PatientSpec
CONSTANTS
  p = p
  q = q
  Requests = {r1}
  Passwords <- MCPasswords
  Token = Token
  Calls <- MCCalls
  MaxFaults = 1
  NoHash = NoHash
  Torn = Torn
  NoCall = NoCall
  NoWriter = NoWriter
PROPERTY
  PasswordAnswered
