------------------------------ MODULE MCAccess ------------------------------
EXTENDS Access, TLC

CONSTANTS login, tab, app, dev, sub

MCPathOf    == (login :> "login") @@ (tab :> "read") @@ (app :> "submit")
MCPerWindow == ("login" :> 2) @@ ("sessions" :> 1) @@ ("submissions" :> 2)
MCDevRole   == dev :> "learner"
MCMail      == {"learner@lab.dev", "oidc.invalid"}
MCMailOf    == (dev :> "learner@lab.dev") @@ (sub :> "oidc.invalid")
MCIdsOf     == (login :> {dev}) @@ (tab :> {dev, sub}) @@ (app :> {sub})
MCMails     == {"learner@lab.dev", None}
MCRoles     == {"instructor", "visitor"}

=============================================================================
