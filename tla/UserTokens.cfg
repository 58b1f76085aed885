\* One row id that two tokens may have in turn, a request (requests see each
\* other in nothing but the table) and two PATCHes.
CONSTANTS
  Tokens = {t1, t2}
  MaxRows = 1
  Requests = {r1}
  Admins = {a1, a2}
  t1 = t1
  t2 = t2
  r1 = r1
  a1 = a1
  a2 = a2
SPECIFICATION Spec
SYMMETRY Interchangeable
INVARIANTS TypeOK AdmittedWasValid
PROPERTY NoLostPatch
