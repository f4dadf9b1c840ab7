CONSTANTS
    c1 = c1  c2 = c2  c3 = c3  checklist = checklist
    NoConn = NoConn
    Ids = {c1, c2, c3}
    MaxDns = 3
    Lists = {checklist}
    ConnectResults = {"error", "ok", "fail"}
    LoginReplies = {"cookie", "nocookie"}
    DnsResults = {"ip", "fail"}
    TimerReturns = {TRUE, FALSE}
SPECIFICATION Spec
CHECK_DEADLOCK FALSE
INVARIANTS TypeOK CallbacksTargetLive
PROPERTIES RequestsComplete
