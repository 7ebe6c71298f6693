\* Each service alone, under every sequence of commands or requests.
SPECIFICATION MCSpec
CONSTANTS
  t1 = t1
  t2 = t2
  t3 = t3
  t4 = t4
  r1 = r1
  r2 = r2
  r3 = r3
  alice = alice
  bob = bob
  carol = carol
  book = book
  song = song
  FromTheTop = FromTheTop
  NoMore = NoMore
  Txn = {t1, t2, t3, t4}
  Steps = {"purchase_debit", "purchase_compensation"}
  UserOf <- MCUserOf
  AmountOf <- MCAmountOf
  Opening <- MCOpening
  OfferingOf <- MCOfferingOf
  OriginalOf <- MCOriginalOf
  Ids = {1, 2, 3, 4, 5}
  Times = {1, 2}
  DefaultPageLimit = 1
  MaxPageLimit = 2
  AskedLimits = {0, 5}
INVARIANTS
  TypeOK
  MovedOnce
  JournalExplainsBalance
  OneActiveAccess
  PagesAreOneList
  NothingIsSkipped
PROPERTIES
  RevokedStaysRevoked
