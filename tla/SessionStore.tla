---------------------------- MODULE SessionStore ----------------------------
(***************************************************************************)
(* The allowed-users session store (auth.rs): a map from access tokens to  *)
(* sessions in memory, the secret that signs resource URLs, and the state  *)
(* file both are saved to.  Every operation that writes holds the store's  *)
(* write lock from the change in memory to the end of the save, and the    *)
(* file is replaced by a rename, so an operation is one step and a crash   *)
(* leaves the old file or the new one.  A save may fail; the change in     *)
(* memory then stays.                                                      *)
(*                                                                         *)
(* Access tokens, routes and users are opaque.  created_at is left out: no *)
(* code reads it.  Secrets are numbered in the order they are drawn from   *)
(* the random source, which never repeats one; NoSecret is the empty one.  *)
(***************************************************************************)
EXTENDS Naturals

CONSTANTS
  Tokens,       \* access tokens of the upstream server
  Routes,       \* route keys: lower-cased public host names
  Users,        \* upstream users
  StateFile,    \* whether PROXEMBY_AUTH_STATE_FILE is set
  MaxSecrets,   \* bound on the secrets drawn (one per start without a file)
  NoSession     \* a token the store does not know

Session == [route : Routes, user : Users]

ASSUME StoreAssumption ==
  /\ StateFile \in BOOLEAN
  /\ MaxSecrets \in Nat \ {0}
  /\ NoSession \notin Session

NoSecret == 0
Secrets == 0 .. MaxSecrets
SessionMap == [Tokens -> Session \cup {NoSession}]
EmptyMap == [t \in Tokens |-> NoSession]

VARIABLES
  up,           \* the process runs: Store::open has returned
  sessions,     \* the map in memory
  secret,       \* the secret in memory
  file,         \* the state file; an empty secret stands for no file
  drawn         \* number of secrets drawn so far

storeVars == <<up, sessions, secret, file, drawn>>

StoreTypeOK ==
  /\ up \in BOOLEAN
  /\ sessions \in SessionMap
  /\ secret \in Secrets
  /\ file \in [secret : Secrets, sessions : SessionMap]
  /\ drawn \in Secrets

StoreInit ==
  /\ up = FALSE
  /\ sessions = EmptyMap
  /\ secret = NoSecret
  /\ file = [secret |-> NoSecret, sessions |-> EmptyMap]
  /\ drawn = 0

\* write_private_file: a new file is written, synced and renamed over the old
\* one, or the old one stays.
ReplaceFile(new, ok) == file' = IF ok THEN new ELSE file

(***************************************************************************)
(* Store::save.  Without a path it does nothing and succeeds; otherwise it *)
(* replaces the whole file, or fails and leaves the old one in place.      *)
(***************************************************************************)
Save(map, key, ok) ==
  /\ ok \/ StateFile
  /\ ReplaceFile([secret |-> key, sessions |-> map], StateFile /\ ok)

(***************************************************************************)
(* Store::open: load the file if there is one; a missing or empty secret   *)
(* is drawn afresh and saved before the store is used.  When that save     *)
(* fails the process does not start, which changes nothing.                *)
(***************************************************************************)
OpenDrawingUnsaved ==
  /\ ~up
  /\ drawn < MaxSecrets
  /\ up' = TRUE
  /\ sessions' = file.sessions
  /\ drawn' = drawn + 1
  /\ secret' = drawn'
  /\ UNCHANGED file

OpenDrawing ==
  /\ ~up
  /\ drawn < MaxSecrets
  /\ up' = TRUE
  /\ sessions' = file.sessions
  /\ drawn' = drawn + 1
  /\ secret' = drawn'
  /\ Save(sessions', secret', TRUE)

Open ==
  /\ ~up
  /\ \/ /\ file.secret # NoSecret
        /\ up' = TRUE
        /\ sessions' = file.sessions
        /\ secret' = file.secret
        /\ UNCHANGED <<file, drawn>>
     \/ /\ file.secret = NoSecret
        /\ OpenDrawing

(***************************************************************************)
(* Store::add: insert in memory, then save.  ok is the result returned.    *)
(***************************************************************************)
AddSavingFirst(t, s, ok) ==
  /\ up
  /\ sessions' = [sessions EXCEPT ![t] = s]
  /\ Save(sessions, secret, ok)
  /\ UNCHANGED <<up, secret, drawn>>

Add(t, s, ok) ==
  /\ up
  /\ sessions' = [sessions EXCEPT ![t] = s]
  /\ Save(sessions', secret, ok)
  /\ UNCHANGED <<up, secret, drawn>>

(***************************************************************************)
(* Store::remove.  An unknown token is no change and no save; otherwise    *)
(* the entry leaves memory first and the save follows.                     *)
(***************************************************************************)
RemoveWithoutSave(t, ok) ==
  /\ up
  /\ ok
  /\ sessions' = [sessions EXCEPT ![t] = NoSession]
  /\ UNCHANGED <<up, secret, file, drawn>>

Remove(t, ok) ==
  /\ up
  /\ \/ /\ sessions[t] = NoSession
        /\ ok
        /\ UNCHANGED <<sessions, file>>
     \/ /\ sessions[t] # NoSession
        /\ sessions' = [sessions EXCEPT ![t] = NoSession]
        /\ Save(sessions', secret, ok)
  /\ UNCHANGED <<up, secret, drawn>>

\* Store::is_valid: the token belongs to a session of this route.
IsKnown(t, route) == t \in Tokens /\ sessions[t] # NoSession

IsValid(t, route) ==
  /\ t \in Tokens
  /\ sessions[t] # NoSession
  /\ sessions[t].route = route

(***************************************************************************)
(* Store::sign and verify: a keyed MAC over the route, the scheme and the  *)
(* host.  A MAC is as good as the key and the parts it was computed from.  *)
(***************************************************************************)
Sign(route, scheme, host) ==
  [route |-> route, scheme |-> scheme, host |-> host, key |-> secret]

VerifyWithoutRoute(sig, route, scheme, host) == sig = Sign(sig.route, scheme, host)

Verify(sig, route, scheme, host) == sig = Sign(route, scheme, host)

(***************************************************************************)
(* The process ends (crash, kill or exit): memory is lost.  The guard      *)
(* keeps one secret to draw for the next start.                            *)
(***************************************************************************)
Stop ==
  /\ up
  /\ file.secret # NoSecret \/ drawn < MaxSecrets
  /\ up' = FALSE
  /\ sessions' = EmptyMap
  /\ secret' = NoSecret
  /\ UNCHANGED <<file, drawn>>
=============================================================================
