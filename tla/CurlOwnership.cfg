SPECIFICATION FairSpec
CONSTANTS
  Clients = {x, y}
  Tasks = {t, u}
  Handles = {h1, h2, h3}
  Null = Null
  NoObject = NoObject
  Timeouts = {1}
  MaxChunks = 2
INVARIANT TypeOK
INVARIANT HandlesOwned
INVARIANT ExchangesApart
INVARIANT ResponsesWhole
PROPERTY StopsWhenTold
PROPERTY FuturesReady
