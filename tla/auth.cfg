SPECIFICATION Spec
CONSTANTS
  p = p
  q = q
  Requests = {r1, r2, r3}
  Passwords <- MCPasswords
  Token = Token
  Calls <- MCCalls
  MaxFaults = 1
  NoHash = NoHash
  Torn = Torn
  NoCall = NoCall
  NoWriter = NoWriter
INVARIANTS
  TypeOK
  StaysSecured
  Durable
  VerdictStillTrue
PROPERTY
  Answered
