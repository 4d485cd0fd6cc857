\* Two handlers at a time: each takes an administrator away.
SPECIFICATION AccountsSpec
CONSTANTS
  Ids = {ann, bob, cat}
  Threads = {one, two}
INVARIANT SomeAdmin
