CONSTANTS
  Clients = {c1, c2}
  Nobody = Nobody
  MaxBackoff = 3
SPECIFICATION KindExchange
INVARIANT Persistent
