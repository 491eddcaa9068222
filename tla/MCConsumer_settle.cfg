CONSTANTS
    BookingFeeIDR = 1
    HourlyRateIDR = 2
    OvernightFlatIDR = 4
    CancelFeeIDR = 8
    NoShowFeeIDR = 16
    CancelGrace = 2
    HourTicks = 3
    DayTicks = 8
    ZoneOffset = 0
    MaxDuration = 1000
    NoTime = NoTime
    None = None
    c1 = c1
    c2 = c2
    g1 = g1
    k1 = k1
    k2 = k2
    r1 = r1
    m1 = m1
    m2 = m2
    m3 = m3
    Consumers = {c1, c2}
    Procs = {c1, c2}
    InvoiceIds = {i1}
    Reservations = {r1}
    Keys = {k1}
    KeysOf <- OneKey
    OwnKey <- ReservationKey
    CheckoutSessions <- OneStay
    Cancellations <- TwoCancels
    Messages = {m1, m2, m3}
    Scenarios <- Replay
    Parties <- TwoAtATime
    Prefetch = 2
    MaxFaults = 0
SPECIFICATION FairConsumerSpec
PROPERTY FeeEventsSettle
CHECK_DEADLOCK FALSE
