SPECIFICATION FairSpec
CONSTANTS
  Slugs = {s1, s2, s3}
  Cooldown = 2
  MaxSlips = 2
INVARIANTS
  TypeOK
  NameTellsWhoServed
  PrimaryServedMeansAnswered
  OneLinePerOutage
PROPERTIES
  ReturnsToPrimary
