\* Two tabs, a session that lasts two ticks, two session ids and three tokens
\* in use at once.
CONSTANTS
  Tabs = {t1, t2}
  Sids = {1, 2}
  Nonces = {1, 2, 3}
  Ttl = 1
  t1 = t1
  t2 = t2
SPECIFICATION Spec
SYMMETRY Interchangeable
INVARIANTS TypeOK FreshFormAccepted NewKeyShown
PROPERTIES SignedOutOnlyBy
