SPECIFICATION Spec
CONSTANTS
  Requests = {r1, r2}
  Emails = {a, b}
  ShortEmails = {s}
  KeyIsSet = FALSE
  None = None
SYMMETRY Same
INVARIANTS
  ShownUserOwnsToken
  MessagesAreTrue
  RefusedLoginsCostOne
