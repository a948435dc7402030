\* The same instance, asked for the restore guarantee of archive.
SPECIFICATION MCSpec
CONSTANTS
  a1 = a1  k1 = k1  k2 = k2  d1 = d1
  Artifact = {a1}
  Content = {k1, k2}
  None = None
  NoRec = NoRec
  Large = {k2}
  Commands <- AllCommands
  EditsDuringTx = FALSE
  Desk = {d1}
  Key <- Keys
  MaxRows = 2
PROPERTIES
  ArchivedContentKept
