SPECIFICATION Spec
CONSTANTS
  left = left
  right = right
  MaxDeliveries = 2
  Pages = {left}
  Options <- ApplyingOrDry
  Budgets <- OneRollback
PROPERTY OvertakenIsDropped
