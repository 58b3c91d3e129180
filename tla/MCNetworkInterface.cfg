\* A hop that two neighbours claim in turn, another one, and datagrams enough to
\* be sent, to wait, to be dropped and to wait again.  Times of 3 and 2 ticks, so
\* that a cooldown ends before the cache entry that answers it.
CONSTANTS
  IPs = {me, a, b}
  Eths = {meEth, x, y}
  Broadcast = Broadcast
  Datagrams <- MCDatagrams
  CacheTime = 3
  CooldownTime = 2
  MyEth = meEth
  MyIp = me
  Milliseconds = {1, 2}
  MaxDatagrams = 3
SYMMETRY Neighbours
SPECIFICATION Spec
INVARIANTS TypeOK NoneWaitsForKnown SentOnFreshWord InOrderAndOnce
PROPERTIES RequestsSpaced
CHECK_DEADLOCK FALSE
