CONSTANTS
  k1 = k1
  k2 = k2
  k3 = k3
  Keys = {k1, k2, k3}
  LongKeys = {}
  Stored <- MCShortStored
  NoKey = NoKey
  Values = {v1, v2}
  Zero = Zero
  Capacity = 2
  MaxTxKeys = 3
  IndexRange = 2
  Missing = Missing
  Void = Void
  SectorUnits = 4
  CountRange = 2
  MaxRecords = 1
SPECIFICATION DiskSpec
INVARIANTS TypeOK UniqueKeys LocksAreJournalled UndoneIsTheLoop DiskIsOldThenNew
PROPERTIES ImplementsAtomicStore MarshalReturns
