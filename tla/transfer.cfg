SPECIFICATION FairSpec
CONSTANTS
  Urls <- MCUrls
  Origin <- MCOrigin
  Allowed <- MCAllowed
  Lookups <- MCLookups
  HookUrls <- MCHookUrls
  Names <- MCNames
  Sensitive <- MCSensitive
  Own = "own"
  Absent = "absent"
  Rules <- MCRules
  Commands <- MCCommands
  Clients <- MCClients
  MaxResponse = 1
  MaxRedirects = 2
  DefaultTimeout = 2
  MaxTimeout = 2
  None = None
INVARIANTS
  TypeOK
  RequestsAreAllowed
  SecretsStayWhereDue
PROPERTY
  TransferEnds
