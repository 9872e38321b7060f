SPECIFICATION Spec
CONSTANTS
    login = login
    tab = tab
    app = app
    dev = dev
    sub = sub
    Client = {login, tab, app}
    PathOf <- MCPathOf
    Window = 2
    PerWindow <- MCPerWindow
    Id = {dev, sub}
    DevRole <- MCDevRole
    Mail <- MCMail
    MailOf <- MCMailOf
    IdsOf <- MCIdsOf
    ClaimedMail <- MCMails
    ClaimedRole <- MCRoles
    Stray = {app}
    AllowDevAuth = TRUE
    None = None
INVARIANTS TypeOK WindowKept 
 
