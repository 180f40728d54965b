----------------------------- MODULE AdminShell -----------------------------
(***************************************************************************)
(* The frame of the admin console (App.tsx, auth.ts): signing in with      *)
(* Keycloak, asking who the user is, and the two tabs, of which one is     *)
(* mounted at a time.  Dashboard and Configuration extend this module,     *)
(* AdminConsole puts the three together.                                   *)
(***************************************************************************)
EXTENDS Integers, Sequences, FiniteSets

CONSTANT
    Role    \* the users there are: "editor" (kb_editor), "admin" (kb_admin, who may publish)

ASSUME RoleAssumption == Role \subseteq {"editor", "admin"}

VARIABLE
    app     \* the state of App; Keycloak has a token when it is ready

Tab == {"dashboard", "configuration"}
NoOne == "none"

Booting ==
    [ ready |-> FALSE, error |-> FALSE, me |-> NoOne, tab |-> "dashboard" ]

AppType ==
    app \in [ ready : BOOLEAN, error : BOOLEAN, me : Role \cup {NoOne}, tab : Tab ]

\* The boot screen gives way to the tabs when the user is signed in, and also
\* when signing in has failed.
Settled == app.ready \/ app.error

Shows(tab) == Settled /\ app.tab = tab

\* authHeaders throws without a token, so that a request can only fail.  It also
\* throws when the token cannot be renewed, like any request that fails.
AuthHeaders == app.ready

\* initKeycloak resolves to TRUE, and loadMe asks who the user is.  Until that
\* is known, or when it fails, only buttons are missing; so it is known at once
\* here, or never.
SignedIn ==
    /\ ~Settled
    /\ \/ \E role \in Role : app' = [app EXCEPT !.ready = TRUE, !.me = role]
       \/ app' = [app EXCEPT !.ready = TRUE, !.error = TRUE]

\* initKeycloak resolves to FALSE or rejects.
SignInFailed ==
    /\ ~Settled
    /\ app' = [app EXCEPT !.error = TRUE]

SelectTab(tab) ==
    /\ Shows(app.tab)
    /\ tab # app.tab
    /\ app' = [app EXCEPT !.tab = tab]

\* The browser leaves the page, and comes back to it.
SignOut ==
    /\ Shows(app.tab)
    /\ app.me # NoOne
    /\ app' = Booting
=============================================================================
