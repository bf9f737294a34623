CONSTANTS
  Src = {s1, s2}
  Key = {k1, k2}
  Txid = {t1}
  NoSrc = NoSrc
  EndpointIdle = 1
  TxnIdle = 1
  SessionIdle = 2
  ReapEvery = 1
  MaxInbox = 1
SPECIFICATION FairSpec
INVARIANTS TypeOK TablesAgree
PROPERTIES OwnerKept SilentEndpointFreed
