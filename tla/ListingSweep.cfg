\* Every page of tables of up to three rows that are written meanwhile, and sweeps.
CONSTANTS
  MaxInt = 7
  Writes = {"insert", "update", "delete"}
  MaxRows = 3
  MaxMoved = 2
  Pages = {0, 1, 2, 3, 4}
  Sizes = {0, 1, 2, 3, 5}
SPECIFICATION SweepSpec
INVARIANTS SweepMissesFew
PROPERTIES PageExact
