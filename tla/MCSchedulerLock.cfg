SPECIFICATION FairSpec
CONSTANTS
  Instances = {i1, i2}
  Slots = {s1, s2}
  Tokens = {t1, t2, t3, t4}
  NoToken = NoToken
INVARIANTS TypeOK SingleFlight TokenOwnership MutualExclusion
PROPERTIES ReleaseOnlyOwnKey EveryTickEnds LeaseSpec
