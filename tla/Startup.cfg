\* Two values of the environment variable, three generated keys, a schema of
\* two columns, kills at every step.
CONSTANTS
  EnvKeys = {e1, e2}
  FileKeys = {g1, g2, g3}
  Columns = {a, b}
  e1 = e1
  e2 = e2
  g1 = g1
  g2 = g2
  g3 = g3
  a = a
  b = b
SPECIFICATION Spec
INVARIANTS TypeOK KeptOnDisk AllReadable Migrated LoopHasResources
