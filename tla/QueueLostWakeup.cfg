CONSTANTS
  a1 = a1
  a2 = a2
  pr1 = pr1
  co1 = co1
  QProducers = {pr1}
  QConsumers = {co1}
  QKinds = {"sliding"}
  QCapacity = 1
  QOffers <- MCOffers
  QDemands <- MCDemands
  QCalls = 1
SPECIFICATION QueueSpec
PROPERTIES NoSleepBesideValues
CHECK_DEADLOCK FALSE
