\* Two rows and two calls of every page; two openings; two users, two referral codes.
SPECIFICATION WebSpec
CONSTANTS
    People = {ann, bob}
    Users = {ann}
    Bootstrap = {ann}
    Roles = {"USER"}
    Holds = {"NONE"}
    Codes = {x1, x2}
    NoCode = NoCode
    NoUser = NoUser
    Uploads = {}
    Cases = {k1}
    Manual = TRUE
    RealKyc = TRUE
    Requests = {c1, c2}
    Rows = {r1, r2}
    Form = Form
    NoRow = NoRow
    Openings = {o1, o2}
    NoOpening = NoOpening
SYMMETRY WebInterchangeable
INVARIANTS SerialCurrentOrError SerialOneCallPerLock NoButtonLeftLocked SerialDrawnIsTaken SerialDbUserIsSession
PROPERTY SerialCodeKept
CHECK_DEADLOCK FALSE
