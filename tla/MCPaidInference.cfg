SPECIFICATION FairSpec
CONSTANTS
  k1 = k1
  k2 = k2
  a1 = a1
  a2 = a2
  Keys = {k1, k2}
  Auths = {a1, a2}
  Namings <- OneOrTwo
  Requests = {r1, r2}
  Sweepers = {s1, s2}
  alice = alice
  Agents = {alice}
  Payer <- OnePayer
  Funds = 1
  MaxCrashes = 1
  MaxShares = 1
  NoKey = NoKey
INVARIANTS OneCompletion DebitedOnce NothingStranded ForfeitedUnpaid
PROPERTIES KeepsPromise OrphansSettle
CHECK_DEADLOCK FALSE
