CONSTANTS
    u = u  q = q  r = r  t1 = t1  t2 = t2
    Children <- Three
    Order <- ThreeOrder
    Serial = {u}
    Threads = {t1, t2}
    NoChild = NoChild
    Packets = {k1, z1}
    ZeroIds = {z1}
    MaxForget = 1
    Senders = {s1}
CHECK_DEADLOCK FALSE
SPECIFICATION ScenarioSpec
INVARIANTS AggregateExact SendTruthful DeliveredOnce
PROPERTIES EventsWitnessed Delivered
