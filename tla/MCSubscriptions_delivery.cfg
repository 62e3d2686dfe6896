SPECIFICATION FollowSpec
CONSTANTS
  i1 = i1
  Clients = {i1}
  Spare = 2
  MaxWaiting = 2
  MaxLog = 6
INVARIANTS
  DeliveryInv
PROPERTIES
  EventsArrive
