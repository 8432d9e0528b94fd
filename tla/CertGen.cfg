SPECIFICATION Spec
CONSTANTS
  Profiles <- MCProfiles
  Short = 4
  Wide = 512
  MaxBookmarks = 3
CHECK_DEADLOCK FALSE
INVARIANTS
  TypeOK
  BookmarksMatch
  KeysAreKept
  SelfSignedVerifies
  ReadBack
PROPERTY
  SignedStays
