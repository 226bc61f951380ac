CONSTANTS
    a1 = a1  a2 = a2  a3 = a3  c1 = c1  c2 = c2
    NoIp = NoIp
    Ip = {a1, a2, a3}
    Answers <- GivenAnswers
    Attempt = {c1, c2}
    IpTtl = 4
    DnsTtl = 2
    HostTtl = 4
SPECIFICATION Spec
INVARIANT TypeOK
PROPERTIES AlwaysServed NextIsAnother EveryAddressReturns OrderReturns
CHECK_DEADLOCK FALSE
