-------------------------------- MODULE Auth --------------------------------
(***************************************************************************)
(* Users, sessions and API tokens (tumult-lake/src/auth.rs), the handlers  *)
(* that change them (tumult-api/src/auth/) and the middleware in front of  *)
(* them; the limiter is in LoginLimiter.  A request reads the store, spends its      *)
(* argon2 time, and only then writes, so that the writes of two requests   *)
(* about one user come in any order.  The passwords of a user are          *)
(* numbered in the order they were set, and 0 is none of them.                    *)
(***************************************************************************)
EXTENDS Naturals, FiniteSets

CONSTANTS
    Accounts,        \* user ids
    Requests,        \* requests the server works on at once
    AuthMaxPasswords, \* bound: passwords one user is ever given
    AuthMaxCredentials  \* bound: sessions and tokens at one time

ASSUME AuthAssumption ==
    AuthMaxPasswords \in Nat /\ AuthMaxCredentials \in Nat

VARIABLES
    authUser,     \* users; admin: that role, and no environment scopes
    authCreds,    \* sessions and the tokens that are not revoked
    authReq       \* the requests in flight

authVars == <<authUser, authCreds, authReq>>

NoUser == [made |-> FALSE, pw |-> 0, admin |-> FALSE, must |-> FALSE,
           disabled |-> FALSE, resetPw |-> 0, kept |-> TRUE]

\* raced: history, a password was written while the request was between its
\* read of the user and its own write.
NoRequest == [pc |-> "idle"]

\* The store is new, or holds an administrator and others.
AuthInit ==
    /\ \/ authUser = [u \in Accounts |-> NoUser]
       \/ \E admin \in Accounts : authUser = [u \in Accounts |->
            [NoUser EXCEPT !.made = TRUE, !.pw = 1, !.admin = (u = admin)]]
    /\ authCreds = {}
    /\ authReq = [r \in Requests |-> NoRequest]

Idle(r) == authReq[r].pc = "idle"
Done(r) == authReq' = [authReq EXCEPT ![r] = NoRequest]

-----------------------------------------------------------------------------
(* POST /api/auth/login.                                                   *)

\* The row as it is now, whose hash verifies the password it was made from; a
\* login that fails touches nothing but the limiter.
Login(r, u) ==
    /\ Idle(r) /\ authUser[u].made /\ ~authUser[u].disabled
    /\ authReq' = [authReq EXCEPT ![r] =
         [pc |-> "login", user |-> u, given |-> authUser[u].pw, raced |-> FALSE]]
    /\ UNCHANGED <<authUser, authCreds>>

Credential(kind, u, pw, raced) ==
    [kind |-> kind, user |-> u, pw |-> pw, raced |-> raced]

CreateSession(r) ==
    /\ authReq[r].pc = "login"
    /\ Cardinality(authCreds) < AuthMaxCredentials
    /\ authCreds' = authCreds \cup {Credential("session", authReq[r].user,
         authReq[r].given, authReq[r].raced)}
    /\ Done(r) /\ UNCHANGED authUser

\* POST /api/auth/logout, and the expiry of a session or a token, from which
\* no query finds it again.
LogoutOrExpire(c) ==
    /\ authCreds' = authCreds \ {c}
    /\ UNCHANGED <<authUser, authReq>>

-----------------------------------------------------------------------------
(* The middleware.                                                         *)

RealUsersExist == \E u \in Accounts : authUser[u].made

\* session_with_user and token_with_user, then resolve's own checks.
Authenticated(c) == ~authUser[c.user].disabled

\* A principal that must change its password reaches nothing but the change;
\* the routes of users and tokens ask for an unscoped administrator.
Administers(c) ==
    LET u == authUser[c.user] IN
    Authenticated(c) /\ ~u.must /\ u.admin

\* An administrator's request passes the middleware; with no user in the
\* store everyone is one.  What it writes, it writes later.
AdminRequest(r, op, u, caller) ==
    /\ Idle(r)
    /\ \/ ~RealUsersExist /\ caller = u
       \/ \E c \in authCreds : Administers(c) /\ c.user = caller
    /\ op = "disable" /\ RealUsersExist => caller # u
    /\ op = "create" <=> ~authUser[u].made
    /\ authReq' = [authReq EXCEPT ![r] =
         [pc |-> op, user |-> u, given |-> authUser[u].pw, raced |-> FALSE]]
    /\ UNCHANGED <<authUser, authCreds>>

\* POST /api/auth/change-password.
ChangePassword(r, c) ==
    /\ Idle(r) /\ Authenticated(c)
    /\ authReq' = [authReq EXCEPT ![r] = [pc |-> "change", user |-> c.user,
                     given |-> authUser[c.user].pw, raced |-> FALSE]]
    /\ UNCHANGED <<authUser, authCreds>>

-----------------------------------------------------------------------------
(* The writer's closures.                                                  *)

\* delete_sessions_for_user and revoke_tokens_for_user.
DropCredentials(u) == authCreds' = {c \in authCreds : c.user # u}

\* Every other request about the user that has read its row is overtaken.
Overtake(r, u) ==
    authReq' = [q \in Requests |->
      IF q = r THEN NoRequest
      ELSE IF ~Idle(q) /\ authReq[q].user = u
             THEN [authReq[q] EXCEPT !.raced = TRUE] ELSE authReq[q]]

MayChange(u) == authUser[u].pw < AuthMaxPasswords

\* set_user_password clears must_change.
WriteChange(r) ==
    LET u == authReq[r].user IN
    /\ authReq[r].pc = "change" /\ MayChange(u)
    /\ authUser' = [authUser EXCEPT ![u].pw = @ + 1, ![u].must = FALSE,
                      ![u].kept = authReq[r].raced
                        \/ authReq[r].given >= authUser[u].resetPw]
    /\ DropCredentials(u) /\ Overtake(r, u)

\* Mutant: a reset leaves the user's sessions and tokens.
WriteReset_KeepsSessions(r) ==
    LET u == authReq[r].user IN
    /\ authReq[r].pc = "reset" /\ MayChange(u)
    /\ authUser' = [authUser EXCEPT ![u].pw = @ + 1, ![u].must = TRUE,
                      ![u].resetPw = authUser[u].pw + 1]
    /\ Overtake(r, u) /\ UNCHANGED authCreds

\* reset_user_password sets must_change.
WriteReset(r) ==
    LET u == authReq[r].user IN
    /\ authReq[r].pc = "reset" /\ MayChange(u)
    /\ authUser' = [authUser EXCEPT ![u].pw = @ + 1, ![u].must = TRUE,
                      ![u].resetPw = authUser[u].pw + 1]
    /\ DropCredentials(u) /\ Overtake(r, u)

\* create_user always asks for a change of the first password.
WriteCreate(r, admin) ==
    LET u == authReq[r].user IN
    /\ authReq[r].pc = "create" /\ ~authUser[u].made
    /\ MayChange(u)
    /\ authUser' = [authUser EXCEPT ![u] =
         [NoUser EXCEPT !.made = TRUE, !.pw = 1, !.admin = admin,
            !.must = TRUE, !.resetPw = 1]]
    /\ Done(r) /\ UNCHANGED authCreds

\* set_user_role, set_user_env_scopes and set_user_disabled.
WriteUser(r, flag) ==
    LET u == authReq[r].user IN
    /\ \/ authReq[r].pc = "role" /\ authUser' = [authUser EXCEPT ![u].admin = flag]
       \/ authReq[r].pc = "disable"
          /\ authUser' = [authUser EXCEPT ![u].disabled = flag]
    /\ Done(r) /\ UNCHANGED authCreds

\* create_token.
WriteToken(r) ==
    LET u == authReq[r].user IN
    /\ authReq[r].pc = "token"
    /\ Cardinality(authCreds) < AuthMaxCredentials
    /\ authCreds' = authCreds \cup
         {Credential("token", u, authReq[r].given, authReq[r].raced)}
    /\ Done(r) /\ UNCHANGED authUser

RevokeToken(r, c) ==
    /\ authReq[r].pc = "revoke"
    /\ c.kind = "token" /\ authCreds' = authCreds \ {c}
    /\ Done(r) /\ UNCHANGED authUser

\* A request the store refuses, or that names nothing, ends without a write.
AuthRefused(r) ==
    /\ ~Idle(r)
    /\ Done(r) /\ UNCHANGED <<authUser, authCreds>>

AdminOps == {"create", "reset", "role", "disable", "token", "revoke"}

AuthNext ==
    \/ \E r \in Requests :
         \/ (\E u \in Accounts : Login(r, u)) \/ CreateSession(r)
         \/ \E op \in AdminOps, u, caller \in Accounts : AdminRequest(r, op, u, caller)
         \/ \E c \in authCreds : ChangePassword(r, c)
         \/ WriteChange(r) \/ WriteReset(r)
         \/ \E flag \in BOOLEAN : WriteCreate(r, flag) \/ WriteUser(r, flag)
         \/ WriteToken(r)
         \/ \E c \in authCreds : RevokeToken(r, c)
         \/ AuthRefused(r)
    \/ \E c \in authCreds : LogoutOrExpire(c)

-----------------------------------------------------------------------------
AuthTypeOK ==
    /\ \A u \in Accounts : authUser[u].pw \in 0 .. AuthMaxPasswords
    /\ \A c \in authCreds : authUser[c.user].made

AuthCredentialCurrent ==
    \A c \in authCreds : c.raced \/ c.pw = authUser[c.user].pw

AuthResetStands ==
    \A u \in Accounts : authUser[u].made /\ ~authUser[u].must =>
        authUser[u].kept

(* users.rs, "a compromised credential must not survive the reset": a session
   or token that still authenticates stems from the password its user has now.
   The one other kind belongs to a request that had read the user before the
   password was written and wrote its credential after it.  And a reset stands
   until the person who was given its password replaces it: the flag that
   forces the change is cleared by a request that verified that password or a
   later one, or that was between its read and its write when the reset was
   written. *)
AuthPasswordsRule == AuthCredentialCurrent /\ AuthResetStands

=============================================================================
