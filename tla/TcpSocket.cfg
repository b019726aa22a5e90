\* A descriptor for the library, one for the rest of the program and one to spare.
CONSTANTS
  Descriptors = {3, 4, 5}
  none = none
SPECIFICATION Spec
INVARIANTS DescriptorOwned
PROPERTIES ForeignUntouched
