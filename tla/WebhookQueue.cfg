SPECIFICATION Spec
CONSTANTS
  t1 = t1
  t2 = t2
  t3 = t3
  Tasks <- ThreeTasks
  Workers = 2
  MaxRetries = 1
  MaxRedirects = 1
  MayStop = TRUE
INVARIANTS
  TypeOK
  AtMostWorkers
  PermitsConserved
  MetricsAddUp
  SomeDeliveryGoesOn
PROPERTIES
  ImplementsDelivery
  StepsRunOut
  EveryDeliveryEnds
