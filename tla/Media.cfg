SPECIFICATION Spec
CONSTANTS
  Floppies <- MCFloppies
  Disks <- MCDisks
  Cds <- MCCds
  Media <- MCMedia
  NoMedium = NoMedium
  Images <- MCImages
  Models <- MCModels
INVARIANTS
  TypeOK
  DrivesMatchProfile
  GuestHearsOfCd
PROPERTIES
  EjectSticks
  ProfileFollowsEjects
