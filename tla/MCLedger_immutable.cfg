CONSTANTS
    BookingFeeIDR = 1
    HourlyRateIDR = 2
    OvernightFlatIDR = 4
    CancelFeeIDR = 8
    NoShowFeeIDR = 16
    CancelGrace = 2
    HourTicks = 3
    DayTicks = 8
    ZoneOffset = 0
    MaxDuration = 1000
    NoTime = NoTime
    None = None
    k1 = k1
    r1 = r1
    Procs = {p1, p2}
    InvoiceIds = {i1}
    Reservations = {r1}
    Keys = {k1}
    KeysOf <- OneKey
    CheckoutSessions <- OneSession
    Cancellations <- LateOnly
SPECIFICATION FairSpec
PROPERTY ClosedIsImmutable
