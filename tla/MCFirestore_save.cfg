\* The Save beside a field of the console, while another client writes.
SPECIFICATION Spec
CONSTANTS
  da = da
  db = db
  f1 = f1
  f2 = f2
  v1 = v1
  v2 = v2
  c1 = c1
  c2 = c2
  None = None
  Databases = {da, db}
  Names <- AllDocuments
  Fields = {f1, f2}
  Values = {v1, v2}
  AutoNames <- AutoName
  Calls = {c1, c2}
  Setups <- OnlyConsole
  MaxClock = 3
  MaxCrashes = 0
SYMMETRY Symmetry
CHECK_DEADLOCK FALSE
PROPERTY
  SaveSeesChanges
