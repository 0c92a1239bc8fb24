SPECIFICATION Spec
CONSTANTS
  Classes = {"mail"}
  Customers = {"cus_main", "cus_other"}
  Pools = {"own", "foreign", "shared"}
  CustomerOf <- MainCustomer
  ProviderOf <- AllGmail
  DomainOf <- AllGmailCom
  Schedule <- WarmupSchedule
  Settings <- AllSettings
  Workers = {w1, w2}
  None = None
  TicksPerDay = 2
  Horizon = 3
  MaxFaults = 1
SYMMETRY WorkerSymmetry
INVARIANTS TypeOK CountersSelfClean
PROPERTIES ImplementsCustomerQuota ImplementsPoolQuota ImplementsWarmupQuota ImplementsScopeQuota HeldByAFullMinute DedicatedPoolIsPrivate
CHECK_DEADLOCK FALSE
