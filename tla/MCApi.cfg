CONSTANTS
    BookingFeeIDR = 1
    HourlyRateIDR = 2
    OvernightFlatIDR = 4
    CancelFeeIDR = 8
    NoShowFeeIDR = 16
    CancelGrace = 2
    HourTicks = 3
    DayTicks = 8
    ZoneOffset = 0
    MaxDuration = 1000
    NoTime = NoTime
    None = None
    k1 = k1
    k2 = k2
    r1 = r1
    r2 = r2
    Procs = {p1, p2}
    InvoiceIds = {i1, i2}
    Reservations = {r1, r2}
    Keys = {k1, k2}
    KeysOf <- SharedKey
    CheckoutSessions <- OneSession
    Cancellations <- NoCancellation
    TTL = 86400
SPECIFICATION ApiSpec
SYMMETRY Symmetry
INVARIANTS
    ApiTypeOK
    OneInvoicePerReservation
    SameKeySameInvoice
    NotFoundMeansTaken
