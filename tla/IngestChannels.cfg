SPECIFICATION Spec
CONSTANTS
  s1 = s1  s2 = s2  p1 = p1  p2 = p2  r1 = r1  r2 = r2
  Session = {s1, s2}
  Path = {p1, p2}
  Root = {r1, r2}
  NoPath = NoPath
  NoRoot = NoRoot
  NoKey = NoKey
  Cwd <- CwdOf
  RootOf <- Roots
  FileOrder <- Files
  Lines <- AgentLines
  Scanned = {r2}
  Seeds = {p2}
  Bucket = 2
  MaxLog = 3
INVARIANTS
  OneEventPerCall
  TelemetryIsTrue
  IngestIsIdempotent
PROPERTIES
  IngestIsComplete
