CONSTANTS
  Installer = installer  Operator = operator  Daemon = daemon
  Migrators = {installer, operator}
  Collectors = {daemon}
  Majors = {12, 18}
  Expectations = {18, Any}
  MinSupported = 13
  Any = Any
  MaxFaults = 1
SPECIFICATION FairSpec
INVARIANTS UpgradeInv NoSchemaSurprise CyclesSurviveMigrations OneMigrationGetsThrough VettedServiceCollects
PROPERTIES KeepsCollecting CollectionResumes
