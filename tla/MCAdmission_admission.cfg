SPECIFICATION AdmissionSpec
CONSTANTS
  owner = owner
  OWNER = OWNER
  app = app
  lib = lib
  guest = guest
  odd = odd
  Star = Star
  Unset = Unset
  Malformed = Malformed
  Idle = Idle
  Names = {owner, OWNER, app, lib, guest}
  Handlers = {h1, h2}
  Lower <- MCLower
  Keys <- MCKeys
  Requests <- MCRequests
  Payloads <- MCPayloads
  Envs <- MCEnvs
  Rate = 2
  Window = 1
  MaxTime = 4
  MaxJobs = 4
CHECK_DEADLOCK FALSE
INVARIANTS
  AdmissionTypeOK
  SlidingBound
  DenialJustified
  JobsArePaid
  OnlyAllowed
PROPERTIES
  ExpiredIsReclaimed
