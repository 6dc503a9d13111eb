SPECIFICATION Spec
CONSTANTS
  NPorts = 3
  Hosts = {h1, h2}
  Lease = 3
INVARIANTS TypeOK NoStrayMapping LeaseBoundsExposure OpenPortStays
PROPERTIES SetupsDisturbNobody
