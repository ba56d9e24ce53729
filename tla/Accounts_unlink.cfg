SPECIFICATION Spec
CONSTANTS
    Users = {u1}
    Emails = {mail}
    Codes = {}
    Links = {}
    Requests = {p1, p2}
    google = google
    facebook = facebook
    hidden = hidden
    mail = mail
    Profiles <- MCProfiles
    Provider <- MCProvider
    MailOf <- MCMailOf
    Vouches <- MCVouches
    NoUser = NoUser
    NoMail = NoMail
    NoProfile = NoProfile
PROPERTIES
    WayInIsNeverTaken
CHECK_DEADLOCK FALSE
