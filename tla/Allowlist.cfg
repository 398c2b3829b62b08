SPECIFICATION Spec
CONSTANTS
  Addrs = {a1, a2, a3}
  MaxAllowlist = 2
  Zero = Zero
INVARIANTS
  ListPersists
