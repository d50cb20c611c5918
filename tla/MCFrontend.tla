---------------------------- MODULE MCFrontend ----------------------------
(***************************************************************************)
(* Four parts of the desktop app that share no state, checked in one run:  *)
(* which of them a behaviour is about is chosen at its start, and only     *)
(* that part moves.                                                        *)
(***************************************************************************)
EXTENDS ThreadFeed, LocalBackend, ComputerUse, ThreadComposer

localVars == <<session, child, pidFile, start, backend, signalled, awaited, erased>>

VARIABLE focus
Parts == {"feed", "composer", "computer", "local"}
appVars == <<focus, feedVars, composerVars, computerVars, localVars>>

AppInit ==
  /\ focus \in Parts
  /\ FeedInit /\ ComposerInit /\ ComputerInit /\ Init

\* Only the part in focus moves.
OnlyFeed == focus = "feed" /\ UNCHANGED <<focus, composerVars, computerVars, localVars>>
OnlyComposer == focus = "composer" /\ UNCHANGED <<focus, feedVars, computerVars, localVars>>
OnlyComputer == focus = "computer" /\ UNCHANGED <<focus, feedVars, composerVars, localVars>>
OnlyLocal == focus = "local" /\ UNCHANGED <<focus, feedVars, composerVars, computerVars>>

AppNext ==
  \/ FeedNext /\ OnlyFeed
  \/ ComposerNext /\ OnlyComposer
  \/ ComputerNext /\ OnlyComputer
  \/ Next /\ OnlyLocal

AppSystem ==
  \/ FeedSystem /\ OnlyFeed
  \/ ComposerSystem /\ OnlyComposer
  \/ ComputerSystem /\ OnlyComputer

AppSpec == AppInit /\ [][AppNext]_appVars /\ WF_appVars(AppSystem)

-----------------------------------------------------------------------------
\* The state of every part is well formed.
AppTypeOK == FeedTypeOK /\ ComposerTypeOK /\ ComputerTypeOK /\ TypeOK
=============================================================================
