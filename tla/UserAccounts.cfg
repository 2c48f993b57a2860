\* Two requests on two emails and two rows, every operation.  No symmetry: a liveness
\* property is checked.
CONSTANTS
  r1 = r1  r2 = r2  e1 = e1  e2 = e2  advanced = advanced
  Requests = {r1, r2}
  Emails = {e1, e2}
  Roles = {Admin, advanced}
  Admin = Admin
  Advanced = advanced
  Invalid = Invalid
  Null = Null
  MaxUserId = 2
  MaxTokens = 1
SPECIFICATION FairSpec
INVARIANTS TypeOK EmailsUnique TemporaryFlagExact
PROPERTIES DeletedStaysDeleted ImplementsAccounts NoPowerFromNothing StaleTokensLapse
