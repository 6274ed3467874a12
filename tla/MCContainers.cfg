\* Arenas, a pool, a sparse set, a string, a list and the profiler, one part at a time.
SPECIFICATION Spec
CONSTANTS
  \* Four pages reserved and three committed; blocks of two and three cache lines.
  CacheLine = 2
  PageSize = 4
  Reserve = 15
  Commit = 11
  Min = 0
  Sizes = {3, 5}
  ArenaDepth = 3
  null = null
  User = User
  PoolSize = 4
  EMPTY = EMPTY
  Zero = Zero
  Values = {v1, v2}
  SetSize = 3
  Chars = {" ", "a"}
  Blank = " "
  NUL = "0"
  Junk = "?"
  HeaderSize = 2
  StringLine = 4
  MaxLength = 3
  MaxCapacity = 3
  Anchors = {1, 2}
  W = 4
  MaxTime = 5
  ScopeDepth = 3
INVARIANTS
  TypeOK
  BlocksApart
  LiveCommitted
  OneOwner
  HeldFound
  TextInside
  Spells
  ListExact
  SelfExact
  ChildrenExact
PROPERTY
  StaysCommitted
