\* One review process over the store it works on, or the store alone with
\* whatever its commands and its editors do.
SPECIFICATION MCSpec
CONSTANTS
  a1 = a1  k1 = k1  k2 = k2  d1 = d1
  Artifact = {a1}
  Content = {k1, k2}
  None = None
  NoRec = NoRec
  Large = {k2}
  Commands <- AllCommands
  EditsDuringTx = FALSE
  Desk = {d1}
  Key <- Keys
  MaxRows = 2
INVARIANTS
  StoreTypeOK
  SnapshotsLoad
  RestorableIsTrue
  OverwrittenIsSavedOrTorn
  QueueIsTrue
PROPERTIES
  MovesKeepContents
  DecisionsAreReal
