SPECIFICATION Spec
CONSTANTS
  shared = shared  mine = mine  proxy = proxy  key1 = key1  key2 = key2
  Slots = {a1, a2, a3}
  Cells = {m1, m2, m3, m4}
  Free = Free
  Null = Null
  NoObject = NoObject
  CallerProviders = {shared}
  CallerProvider <- MCCallerProvider
  Names <- MCNames
  Urls = {NoUrl, proxy, mine}
  NoUrl = NoUrl
  Keys = {key1, key2}
  Options <- MCOptions
SYMMETRY CellSymmetry
INVARIANT TypeOK
INVARIANT PartsOwned
INVARIANT RunsReachTheirBackend
