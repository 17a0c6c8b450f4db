SPECIFICATION Spec
CONSTANTS
  PartCount = 3
  BlockCount <- BlocksOfThree
  MaxFailures = 2
INVARIANTS
  AssetState
  RequestOutlivesItsUsers
PROPERTIES
  LoadCompletes
