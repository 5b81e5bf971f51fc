\* Two requests of three users in flight, or two KYC calls, each of which may die.
SPECIFICATION MCSpec
CONSTANTS
    People = {ann, bob, cat}
    Users = {ann}
    Bootstrap = {ann}
    Roles = {"USER", "OPS", "ADMIN"}
    Holds = {"NONE", "SUSPENDED"}
    Codes = {c1, c2, c3}
    NoCode = NoCode
    NoUser = NoUser
    Uploads <- MCUploads
    Cases = {k1, k2}
    Manual = TRUE
    RealKyc = TRUE
    Requests = {r1, r2}
    Rows = {row}
    Form = Form
    NoRow = NoRow
    Openings = {o1}
    NoOpening = NoOpening
SYMMETRY Interchangeable
INVARIANTS SerialAdminRemains DocumentsAreComplete SerialOneCaseInReview
PROPERTIES SerialStaffDecide SerialReferralIsFinal SerialOwnCallsKeepApproval
CHECK_DEADLOCK FALSE
