------------------------------ MODULE MasterKey ------------------------------
(***************************************************************************)
(* The keys with which users' sessions are encrypted in the database.      *)
(* User.getMasterKey (telegram/telegram.go) keeps one key for the process; *)
(* behind it app/master_key.go keeps one per user, and behind that is the  *)
(* service that has them, which fails for a user who has not logged in.    *)
(* HandlerAuthWS encrypts a new session, parseTgUserBotToken               *)
(* (telegram/token.go) decrypts a stored one.  A key is named by its user. *)
(***************************************************************************)
EXTENDS Integers

CONSTANTS Users, \* users, who also name their keys
          NoUser \* no key

VARIABLES masterKey,  \* u.masterKey
          fresh,      \* u.masterKeyAt is less than 5 minutes old
          items,      \* users whose key cachedMasterKeyClient has and will return
          task,       \* what is being done for each user
          stored      \* what a user's session is encrypted with, "plain" or "none"

keyVars == <<masterKey, fresh, items, task, stored>>

KeyInit == /\ masterKey = NoUser /\ fresh = FALSE
           /\ items = {}
           /\ task = [u \in Users |-> "idle"]
           /\ stored \in [Users -> {"none", "plain"}]

Go(u, t) == task' = [task EXCEPT ![u] = t]

\* A user has authorised, and his session is to be saved.
BeginSave(u) == /\ task[u] = "idle"
                /\ Go(u, "save")
                /\ UNCHANGED <<masterKey, fresh, items, stored>>

\* A bot starts.  A session stored in the open needs no key.
BeginRead(u) == /\ task[u] = "idle"
                /\ stored[u] \in Users
                /\ Go(u, "read")
                /\ UNCHANGED <<masterKey, fresh, items, stored>>

\* SaveChannelData, which may fail.
Save(u, how) == stored' \in {stored, [stored EXCEPT ![u] = how]}

\* What getMasterKey's caller does with a key; one that does not decrypt the session is
\* reported and stays where it is.
UseKey(u, key, purpose) ==
  /\ Go(u, "idle")
  /\ \/ /\ purpose \in {"save", "saveFetching"}
        /\ Save(u, key) \/ Save(u, "plain")
     \/ /\ purpose \in {"read", "readFetching"}
        /\ UNCHANGED stored

\* The key of the process is returned to anybody while it is fresh.
TakeFresh(u) == /\ task[u] \in {"save", "read"}
                /\ fresh
                /\ UseKey(u, masterKey, task[u])
                /\ UNCHANGED <<masterKey, fresh, items>>

\* It is not, and the lock is let go.
BeginFetch(u) == /\ task[u] \in {"save", "read"}
                 /\ ~fresh
                 /\ Go(u, IF task[u] = "save" THEN "saveFetching" ELSE "readFetching")
                 /\ UNCHANGED <<masterKey, fresh, items, stored>>

Fetching(u) == task[u] \in {"saveFetching", "readFetching"}

\* cachedMasterKeyClient has the user's key, or gets it.
FetchKey(u) == /\ Fetching(u)
               /\ masterKey' = u /\ fresh' = TRUE
               /\ items' = items \cup {u}
               /\ UseKey(u, u, task[u])

\* The key cannot be had: a session is saved in the open; a bot does not start, its user
\* is asked to log in, and the key of the process is invalidated.
FetchFails(u) == /\ Fetching(u)
                 /\ u \notin items
                 /\ Go(u, "idle")
                 /\ \/ /\ task[u] = "saveFetching"
                       /\ Save(u, "plain")
                       /\ UNCHANGED fresh
                    \/ /\ task[u] = "readFetching"
                       /\ fresh' = FALSE
                       /\ UNCHANGED stored
                 /\ UNCHANGED <<masterKey, items>>

\* Five minutes pass.  InvalidateMasterKey of the per-user cache is never called.
Expire == /\ \/ fresh' = FALSE /\ UNCHANGED items
             \/ \E u \in items : items' = items \ {u} /\ UNCHANGED fresh
          /\ UNCHANGED <<masterKey, task, stored>>

KeyNext == \/ \E u \in Users : \/ BeginSave(u) \/ BeginRead(u) \/ TakeFresh(u)
                               \/ BeginFetch(u) \/ FetchKey(u) \/ FetchFails(u)
           \/ Expire

KeySpec == KeyInit /\ [][KeyNext]_keyVars

-----------------------------------------------------------------------------
\* "The channel's data are encrypted with the user's key if it is available": a stored
\* session is in the open or readable with its own user's key (HandlerAuthWS).
StoredIsReadable == \A u \in Users : stored[u] \in {"none", "plain", u}
=============================================================================
