\* One descriptor for the library, one to spare.
CONSTANTS
  Descriptors = {3, 4}
  none = none
SPECIFICATION Spec
PROPERTIES ConnectedMeansAccepted
