SPECIFICATION TransportSpec
CONSTANTS
  Request = {q1, q2, q3}
  MaxInFlight = 2
  MaxWaiting = 1
  None = None
INVARIANTS SlotsExact
PROPERTIES SlotOutlivesAnswer ReachFailsCall SlotsComeBack
CHECK_DEADLOCK FALSE
