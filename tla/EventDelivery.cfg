SPECIFICATION Spec
CONSTANTS
  Dispatchers = {d}
  Consumers = {c}
  Registrars = {c, r}
  NoThread = none
  Names = {x, y}
  QueueSize = 2
  MaxEvents = 3
  MaxHandlers = 2
INVARIANTS HandledInOrder KnownHandlersRan
PROPERTY QueueDrains
