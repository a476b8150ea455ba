CONSTANTS
  u1 = u1
  u2 = u2
  Uris <- Two
  Tokens <- Few
  Messages = 5
  Folders = {1}
  Values = {"d", "w"}
  Default = "d"
  Roots = {"r"}
  Notices = 2
  Edits = 1
  Importer = "importer"
  Source = "source"
  Destination = "destination"
  Operations <- AllOperations
  Openable <- Imported
  Arrivals = 1
  DiskChanges = 1
  Parts = {"files"}
SPECIFICATION FeatureSpec
INVARIANT OpenBuffersIndexed
SYMMETRY Symmetric
CHECK_DEADLOCK FALSE
