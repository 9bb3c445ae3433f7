SPECIFICATION Spec
CONSTANTS
  Deliveries = {d1, d2}
  Repos = {k1, k2}
  MaxSends = 2
  MaxEvictions = 1
  QueueCapacity = 1
  BOUNDED_RETRY_ATTEMPTS = 2
SYMMETRY WebhookSymmetry
CHECK_DEADLOCK FALSE
INVARIANTS
  TypeOK
  CarriedOutOnce
  LossIsVisible
