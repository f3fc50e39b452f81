SPECIFICATION FairSpec
CONSTANTS
  left = left
  right = right
  MaxDeliveries = 2
  Pages = {left, right}
  Options <- Automatic
  Budgets <- Mixed
INVARIANTS TypeOK PauseIsRecorded
PROPERTIES DeliveryIsServed SensorSettles KeepsThePromise
