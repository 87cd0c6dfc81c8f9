SPECIFICATION SettingsSpec
CONSTANTS
  Tab = {A, B}
  MaxTroubles = 2
  Place = {profile, logo, mark}
  Brand = {logo, mark}
  Unchecked = {profile, logo}
  MaxUploads = 2
INVARIANTS
  PictureIsThere
PROPERTIES
  VerifiedInTheEnd
\* A tab may be left alone when its uploads are used up.
CHECK_DEADLOCK FALSE
