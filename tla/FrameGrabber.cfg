\* One caller with deadlines, one that depends on the notification alone; as many
\* handlers as they, the stream and the offer need.
CONSTANTS
  Consumers = {c1, c2}
  Patient = {c1}
  Handlers = {h1, h2, h3, h4}
  NoHandler = NoHandler
  MaxFrames = 2
SPECIFICATION LiveSpec
INVARIANTS
  HandlersExclusive
  NoTornFrame
  WakeupNotLost
PROPERTIES
  NewerThanCall
  MailboxSpec
  DestructorReturns
  WaiterServed
