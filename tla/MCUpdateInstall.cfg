SPECIFICATION FairSpec
CONSTANTS
  r1 = r1
  r2 = r2
  NoFile = NoFile
  NoOffer = NoOffer
  MaxSchema = 2
  Migrations = {2}
  Releases <- MCReleases
  Schemas <- MCSchemas
  Offers <- MCOffers
  FirstLive <- FreshOrInstalled
  BackupSettings = {TRUE, FALSE}
  MaxEntries = 2
INVARIANT HandlerKeepsPrevious
PROPERTY ImplementsAtomicUpdate
PROPERTY RecoversAfterStop
PROPERTY InstallEnds
