\* The class doc promises a reconnect: refuted.
CONSTANTS
  Consumers = {c1}
  Handlers = {h1, h2, h3}
  NoHandler = NoHandler
  Patient = {}
  MaxFrames = 1
SPECIFICATION ReachableSpec
PROPERTIES
  Reconnects
