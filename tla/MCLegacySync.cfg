SPECIFICATION LegacySpec
CONSTANTS
  Accounts = {a1, a2, a3}
  Students = {s1, s2}
  Versions = {v1, v2}
  Anonymous = Anonymous
  None = None
SYMMETRY Symmetry
INVARIANTS
  LegacyTypeOK
  HistoryOfOneAccount
  SessionOfBoundAccount
  ReadsOwnAccount
  CredentialsSubmittedOnce
  LegacyOfOneAccount
  ChangesReachSnapshot
PROPERTIES
  NewSessionIsBound
