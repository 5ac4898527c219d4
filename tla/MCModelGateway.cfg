CONSTANTS
    p1 = p1
    r1 = r1
    r2 = r2
    d1 = d1
    Processes = {p1}
    Calls = 2
    Requests = {r1, r2}
    Devices = {d1}
    ProcessOf <- OneProcess
    DeviceOf <- OneDevice
    RequestMaps <- RetryOrNext
    Capacity = 2
    Duration = 2
    Attempts <- TwoThenOne
    MaxDisruptions = 1
SPECIFICATION Spec
INVARIANTS TypeOK UpstreamWithinCapacity SentCallsAreCounted OneSenderPerRequest FinalOutputIsRecorded
PROPERTIES NothingAfterStop EventuallySettled
