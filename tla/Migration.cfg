\* Two migrators at once, two failures anywhere, and an app that comes and goes.
CONSTANTS
  m1 = m1  m2 = m2  a1 = a1  basic = basic  advanced = advanced  admin = admin
  Migrators = {m1, m2}
  Apps = {a1}
  DefaultRoles = {basic, advanced, admin}
  MaxFailures = 2
SPECIFICATION FairSpec
INVARIANTS DoneMeansComplete ServingMeansMigrated
PROPERTIES LateStartKnowsRoles MigrationCompletes
