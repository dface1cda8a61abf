------------------------------ MODULE Sessions ------------------------------
(***************************************************************************)
(* Signing in and out: AuthenticationService and IdentityService behind    *)
(* SessionGuard, and the AuthContext of every tab of one browser.          *)
(*                                                                         *)
(* A tab keeps its session in memory and all tabs share one session in     *)
(* localStorage.  A tab signs out of the session it finds in the storage,  *)
(* which another tab may have replaced, and clears the storage when the    *)
(* answer arrives, whatever is there by then.  Answers get lost, sessions  *)
(* expire, tabs are closed and reloaded.                                   *)
(***************************************************************************)
EXTENDS FiniteSets

CONSTANTS
  BrowserTabs,
  Tokens,      \* random tokens: one per login, so they bound the logins
  NoToken

ASSUME SessionConstants == NoToken \notin Tokens

VARIABLES
  account,   \* the email has a row of User
  sess,      \* rows of Session: "none", "live", or "ended" (revoked or expired)
  stored,    \* what localStorage holds under sofo.session
  tab,       \* every tab: the session in its memory and the call it waits for
  adrift,    \* the sign-in the server still works on for a tab that was closed
  abandoned  \* history: tokens whose login was never answered, or that another
             \* tab's login or logout took out of the storage

sessionsVars == <<account, sess, stored, tab, adrift, abandoned>>

TabPlaces == {"closed", "idle",
              "find",    \* register waits for createIdentity's findUnique
              "create",  \* and for user.create
              "login",   \* login waits for the server
              "answer",  \* the session exists, its token is on its way
              "logout",  \* logout waits for the server
              "revoked"} \* the session is revoked, the answer on its way

SignInPlaces == {"find", "create", "login"}

SessionsTypeOK ==
  /\ account \in BOOLEAN
  /\ sess \in [Tokens -> {"none", "live", "ended"}]
  /\ stored \in Tokens \cup {NoToken}
  /\ tab \in [BrowserTabs -> [at : TabPlaces, token : Tokens \cup {NoToken},
                              sent : Tokens \cup {NoToken}]]
  /\ adrift \in [BrowserTabs -> SignInPlaces \cup {"none"}]
  /\ abandoned \subseteq Tokens

Closed == [at |-> "closed", token |-> NoToken, sent |-> NoToken]

SessionsInit ==
  /\ account = FALSE
  /\ sess = [k \in Tokens |-> "none"]
  /\ stored = NoToken
  /\ tab = [t \in BrowserTabs |-> Closed]
  /\ adrift = [t \in BrowserTabs |-> "none"]
  /\ abandoned = {}

-----------------------------------------------------------------------------

TabAt(t, place) == tab[t].at = place
TabTo(t, place) == tab' = [tab EXCEPT ![t].at = place]
SignedIn(t) == tab[t].token # NoToken

\* validateSession
Valid(k) == sess[k] = "live"

\* Taken out of the storage while it could still be used.
Abandon(k) == IF k # NoToken /\ Valid(k) THEN abandoned \cup {k} ELSE abandoned

TabOpened(t) ==
  /\ TabAt(t, "closed")
  /\ tab' = [tab EXCEPT ![t] = [at |-> "idle", token |-> stored, sent |-> NoToken]]
  /\ UNCHANGED <<account, sess, stored, adrift, abandoned>>

\* The session of a tab that was the last to know of it stays on the server, and
\* so does the one on its way to it; a sign-in the server works on goes on without
\* the tab.  (One for each tab: that bounds them.)
TabClosed(t) ==
  /\ ~TabAt(t, "closed")
  /\ tab[t].at \in SignInPlaces => adrift[t] = "none"
  /\ tab' = [tab EXCEPT ![t] = Closed]
  /\ adrift' = IF tab[t].at \in SignInPlaces THEN [adrift EXCEPT ![t] = tab[t].at] ELSE adrift
  /\ abandoned' = IF TabAt(t, "answer") THEN abandoned \cup {tab[t].sent} ELSE abandoned
  /\ UNCHANGED <<account, sess, stored>>

\* What the server does of a sign-in nobody waits for: the next query, or it fails.
\* The account is created, but it was the tab that would have asked for the login.
AdriftGoesOn(t) ==
  /\ \/ /\ adrift[t] = "find" /\ ~account
        /\ adrift' = [adrift EXCEPT ![t] = "create"]
        /\ UNCHANGED account
     \/ /\ adrift[t] = "create" /\ ~account
        /\ adrift' = [adrift EXCEPT ![t] = "none"]
        /\ account' = TRUE
     \/ /\ adrift[t] # "none"
        /\ adrift' = [adrift EXCEPT ![t] = "none"]
        /\ UNCHANGED account
  /\ UNCHANGED <<sess, stored, tab, abandoned>>

\* Its session is created and nobody ever learns the token.
AdriftSession(t, k) ==
  /\ adrift[t] = "login" /\ account
  /\ sess[k] = "none"
  /\ sess' = [sess EXCEPT ![k] = "live"]
  /\ adrift' = [adrift EXCEPT ![t] = "none"]
  /\ abandoned' = abandoned \cup {k}
  /\ UNCHANGED <<account, stored, tab>>

RegisterSent(t) ==
  /\ TabAt(t, "idle") /\ ~SignedIn(t)
  /\ TabTo(t, "find")
  /\ UNCHANGED <<account, sess, stored, abandoned, adrift>>

EmailFree(t) ==
  /\ TabAt(t, "find") /\ ~account
  /\ TabTo(t, "create")
  /\ UNCHANGED <<account, sess, stored, abandoned, adrift>>

\* The unique key of the email refuses the second of two.  register goes on
\* with login.
AccountCreated(t) ==
  /\ TabAt(t, "create") /\ ~account
  /\ account' = TRUE
  /\ TabTo(t, "login")
  /\ UNCHANGED <<sess, stored, abandoned, adrift>>

LoginSent(t) ==
  /\ TabAt(t, "idle") /\ ~SignedIn(t)
  /\ TabTo(t, "login")
  /\ UNCHANGED <<account, sess, stored, abandoned, adrift>>

\* The email is taken or unknown, the password wrong, a query fails.
SignInFailed(t) ==
  /\ tab[t].at \in SignInPlaces
  /\ TabTo(t, "idle")
  /\ UNCHANGED <<account, sess, stored, abandoned, adrift>>

SessionCreated(t, k) ==
  /\ TabAt(t, "login") /\ account
  /\ sess[k] = "none"
  /\ sess' = [sess EXCEPT ![k] = "live"]
  /\ tab' = [tab EXCEPT ![t].at = "answer", ![t].sent = k]
  /\ UNCHANGED <<account, stored, abandoned, adrift>>

LoginAnswered(t) ==
  /\ TabAt(t, "answer")
  /\ abandoned' = Abandon(stored)
  /\ stored' = tab[t].sent
  /\ tab' = [tab EXCEPT ![t] = [at |-> "idle", token |-> tab[t].sent, sent |-> NoToken]]
  /\ UNCHANGED <<account, sess, adrift>>

LoginAnswerLost(t) ==
  /\ TabAt(t, "answer")
  /\ abandoned' = abandoned \cup {tab[t].sent}
  /\ tab' = [tab EXCEPT ![t].at = "idle", ![t].sent = NoToken]
  /\ UNCHANGED <<account, sess, stored, adrift>>

\* loadSession: the token of the storage, not of this tab's memory.
LogoutSent(t) ==
  /\ TabAt(t, "idle") /\ SignedIn(t) /\ stored # NoToken
  /\ tab' = [tab EXCEPT ![t].at = "logout", ![t].sent = stored]
  /\ UNCHANGED <<account, sess, stored, abandoned, adrift>>

\* SessionGuard lets the call through and the session is revoked; or it is not
\* valid any more, and logout takes the 401 for an answer.
Revoked(t) ==
  /\ TabAt(t, "logout")
  /\ sess' = [sess EXCEPT ![tab[t].sent] = "ended"]
  /\ TabTo(t, "revoked")
  /\ UNCHANGED <<account, stored, abandoned, adrift>>

\* clearSession and setSession(null).
SignedOut(t) ==
  /\ stored' = NoToken
  /\ tab' = [tab EXCEPT ![t] = [at |-> "idle", token |-> NoToken, sent |-> NoToken]]

LogoutAnswered(t) ==
  /\ TabAt(t, "revoked")
  /\ SignedOut(t)
  /\ abandoned' = IF stored = tab[t].sent THEN abandoned ELSE Abandon(stored)
  /\ UNCHANGED <<account, sess, adrift>>

\* Nothing in the storage: the server is not called.
LogoutOffline(t) ==
  /\ TabAt(t, "idle") /\ SignedIn(t) /\ stored = NoToken
  /\ SignedOut(t)
  /\ UNCHANGED <<account, sess, abandoned, adrift>>

\* Every error would be taken for an answer.
LogoutFailedQuietly(t) ==
  /\ tab[t].at \in {"logout", "revoked"}
  /\ SignedOut(t)
  /\ UNCHANGED <<account, sess, abandoned, adrift>>
\* The call or its answer is lost: logout throws and the tab stays signed in.
LogoutFailed(t) ==
  /\ tab[t].at \in {"logout", "revoked"}
  /\ tab' = [tab EXCEPT ![t].at = "idle", ![t].sent = NoToken]
  /\ UNCHANGED <<account, sess, stored, abandoned, adrift>>

Expired(k) ==
  /\ Valid(k)
  /\ sess' = [sess EXCEPT ![k] = "ended"]
  /\ UNCHANGED <<account, stored, tab, abandoned, adrift>>

SessionsNext ==
  \/ \E t \in BrowserTabs :
       \/ TabOpened(t) \/ TabClosed(t)
       \/ RegisterSent(t) \/ EmailFree(t) \/ AccountCreated(t)
       \/ LoginSent(t) \/ SignInFailed(t) \/ LoginAnswered(t) \/ LoginAnswerLost(t)
       \/ \E k \in Tokens : SessionCreated(t, k)
       \/ AdriftGoesOn(t)
       \/ \E k \in Tokens : AdriftSession(t, k)
       \/ LogoutSent(t) \/ Revoked(t) \/ LogoutAnswered(t) \/ LogoutOffline(t)
       \/ LogoutFailed(t)
  \/ \E k \in Tokens : Expired(k)

SessionsSpec == SessionsInit /\ [][SessionsNext]_sessionsVars

-----------------------------------------------------------------------------

\* No session is left open by mistake: one that can still be used is in the
\* storage or on its way there, or its login was never answered, or a login or
\* logout of another tab took it out of the storage.  Whatever else is lost,
\* repeated or closed, signing out of a browser's only session ends it.
NoSessionForgotten ==
  \A k \in Tokens : Valid(k) =>
    \/ k = stored \/ k \in abandoned
    \/ \E t \in BrowserTabs : TabAt(t, "answer") /\ tab[t].sent = k
=============================================================================
