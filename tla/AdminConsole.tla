---------------------------- MODULE AdminConsole ----------------------------
(***************************************************************************)
(* The admin console: the frame, and the tab that is mounted in it.        *)
(* Changing the tab ends the other one; answers it was waiting for find no *)
(* component to change, and what they have done at the API is then one of  *)
(* the changes made elsewhere.                                             *)
(***************************************************************************)
EXTENDS Dashboard, Configuration

vars == <<app, dashVars, configVars>>

Init ==
    /\ app = Booting
    /\ DashboardUnmounted
    /\ ConfigurationUnmounted

\* The first effects of the dashboard run when the boot screen gives way to it.
Boot ==
    /\ SignedIn \/ SignInFailed
    /\ MountDashboard
    /\ UNCHANGED configVars

ToConfiguration ==
    /\ SelectTab("configuration")
    /\ UnmountDashboard
    /\ \E o \in Op : MountConfiguration(o)

ToDashboard ==
    /\ SelectTab("dashboard")
    /\ MountDashboard
    /\ UnmountConfiguration

LeavePage ==
    /\ SignOut
    /\ UnmountDashboard
    /\ UnmountConfiguration

Next ==
    \/ Boot
    \/ ToConfiguration
    \/ ToDashboard
    \/ LeavePage
    \/ Shows("dashboard") /\ DashboardNext /\ UNCHANGED <<app, configVars>>
    \/ Shows("configuration") /\ ConfigurationNext /\ UNCHANGED <<app, dashVars>>

Spec == Init /\ [][Next]_vars

-----------------------------------------------------------------------------
(***************************************************************************)
(* Properties                                                              *)
(***************************************************************************)
TypeOK == AppType /\ DashboardType /\ ConfigurationType

\* What a drawer shows is what its title says, or was on its way already when the
\* drawer was opened.
DrawersAreHonest == TranscriptIsOfDrawer /\ PreviewIsOfDrawer

\* What is on the screen belongs to the title, selector or page over it, however
\* the answers to several requests cross each other and wherever they fail, but
\* for what the parts except: the figures of a torn load, the selector over a
\* period that could not be loaded, an answer overtaken by another drawer.
ScreenIsHonest == DashboardAgrees /\ DrawersAreHonest
=============================================================================
