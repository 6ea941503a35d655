SPECIFICATION Spec
CONSTANTS
  PublisherSources = {1, 2}
  AutomatedSources = {1}
  VendorRowSet <- MCVendorRows
  IssuerSets <- MCIssuerSets
  CuratedSet <- MCCurated
  StructuralSet <- MCStructural
  OwnerSet <- MCOwner
  Options <- MCOptions
  Vendor = 3
  Now = 5
  MaxRuns = 1
  MaxEdits = 1
INVARIANTS
  StoredWasSigned
  NothingDropped
  ReconciledIsIngestable
  TwoSourcesAgree
CHECK_DEADLOCK FALSE
