\* The sessions of two users who authorise within five minutes of each other.
CONSTANTS
  Users = {u1, u2}
  NoUser = NoUser
SPECIFICATION KeySpec
INVARIANT StoredIsReadable
