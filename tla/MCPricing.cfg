CONSTANTS
    BookingFeeIDR = 1
    HourlyRateIDR = 2
    OvernightFlatIDR = 32
    CancelFeeIDR = 64
    NoShowFeeIDR = 128
    CancelGrace = 2
    HourTicks = 3
    DayTicks = 8
    ZoneOffset = 3
    MaxDuration = 1000
    NoTime = NoTime
    Horizon = 11
SPECIFICATION Spec
INVARIANT ChainChargesTariff
PROPERTY StayPricedByStartedHour
CHECK_DEADLOCK FALSE
