CONSTANTS
    a = a   b = b   d = d   dx = dx   me = me   b1 = b1   b2 = b2   u = u   c1 = c1   q1 = q1
    o1 = o1  v1 = v1  c2 = c2
    None = None   NoView = NoView   NoArg = NoArg
    Chans = {c1}
    Names = {a, b, d}
    Me = me
    UserH = u
    BuddyNick <- MCBuddyNick
    Handles <- MCHandles
    Roles = {o1, v1}
    Bases <- MCBases
    UserStem = u
    UserNicks = {q1}
    MaxSuffix = 3
    MaxCb = 3
    Nickize <- MCNickize
    ValidStems <- MCBases
SPECIFICATION Spec
SYMMETRY MCSymmetry
INVARIANTS TypeOK NickUnique MembershipBackRefs BridgeMirrorsIM ClientViewExact

