SPECIFICATION MCSpec
CONSTANTS
    RefClk = 400
    Modulus = 16
    TuneNum = 100
    TuneDen = 1269
    ProfileLow = 9820
    ProfileHigh = 9840
    Narrow = 15
    Middle = 35
    Wide = 180
    WideStep = 10
    Ohms = 1
    Target = 59600000
    Wrap = 12
    Offered <- Wire
    MaxEdges = 1
INVARIANT StaysFinite
