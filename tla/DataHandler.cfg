\* Five kinds of descriptions, three blobs with two changes among them.
CONSTANTS
  small = small
  other = other
  large = large
  noState = noState
  noDepthMap = noDepthMap
  none = none
  Descriptions = {small, other, large, noState, noDepthMap}
  Pixels <- MCPixels
  Present <- MCPresent
  FieldValues = 128
  Blobs <- MCBlobs
  FirstCounter = 1
  MaxBlobs = 3
  MaxChanges = 2
SPECIFICATION Spec
INVARIANTS TypeOK TableIsCurrent FrameIsOneBlob CloudInBounds
PROPERTIES DecodedAsDescribed AcceptsGoodBlob CutBlobIsRefused
