\* A Deezer cookie is submitted again.
SPECIFICATION Spec
CONSTANTS
  Services = {"deezer"}
  Checks = {}
  Submits = {2}
  Healers = {}
  MaxRotations = 0
  MaxHarm = 2
PROPERTIES SavedWorks
