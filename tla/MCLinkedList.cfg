SPECIFICATION Spec
CONSTANTS
  Value = {0, 1}
  Zero = Zero
  PoolSize = 3
INVARIANTS TypeOK ChainsLinked NodesConserved
PROPERTY FifoSpec
CHECK_DEADLOCK FALSE
