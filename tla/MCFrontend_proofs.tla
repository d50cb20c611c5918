-------------------------- MODULE MCFrontend_proofs --------------------------
(***************************************************************************)
(* The four parts of the desktop app checked in one run (MCFrontend) are    *)
(* themselves there: whichever part a behaviour is about, each of the four  *)
(* moves by its own steps alone.  What is proved of a part in its own       *)
(* module therefore holds of the whole.                                     *)
(***************************************************************************)
EXTENDS MCFrontend, ThreadFeed_proofs, ThreadComposer_proofs, ComputerUse_proofs, LocalBackend_proofs

\* A step of the app moves the thread's feed by a step of its own, or not at all.
LEMMA FeedMoves == [AppNext]_appVars => [FeedNext]_feedVars
BY DEF AppNext, appVars, OnlyFeed, OnlyComposer, OnlyComputer, OnlyLocal

\* So it does the composer.
LEMMA ComposerMoves == [AppNext]_appVars => [ComposerNext]_composerVars
BY DEF AppNext, appVars, OnlyFeed, OnlyComposer, OnlyComputer, OnlyLocal

\* So it does the computer's scripts.
LEMMA ComputerMoves == [AppNext]_appVars => [ComputerNext]_computerVars
BY DEF AppNext, appVars, OnlyFeed, OnlyComposer, OnlyComputer, OnlyLocal

\* So it does the local backend.
LEMMA LocalMoves == [AppNext]_appVars => [Next]_vars
BY DEF AppNext, appVars, OnlyFeed, OnlyComposer, OnlyComputer, OnlyLocal, localVars, vars, ghostVars

\* Each part of the app keeps to its own specification.
THEOREM PartsKeepToThemselves == AppSpec => FeedSpec /\ ComposerSpec /\ ComputerSpec /\ Spec
<1>1. AppInit => FeedInit /\ ComposerInit /\ ComputerInit /\ Init
    BY DEF AppInit
<1> QED
    BY <1>1, FeedMoves, ComposerMoves, ComputerMoves, LocalMoves, PTL
       DEF AppSpec, FeedSpec, ComposerSpec, ComputerSpec, Spec

\* The state of every part of the app is well formed, for any numbers of events,
\* messages, pages, scripts, callers and sessions.
THEOREM AppTypes == AppSpec => []AppTypeOK
<1>1. FeedTypeOK /\ ComposerTypeOK /\ ComputerTypeOK /\ TypeOK => AppTypeOK
    BY DEF AppTypeOK
<1> QED
    BY <1>1, PartsKeepToThemselves, FeedTypes, ComposerTypes, MachineTypes, BackendTypes, PTL

\* What the run of the app checks of its parts holds of all of them: a run of text
\* reads as it was written, the stream resumes without a gap, no message is lost,
\* one script has the machine and keeps the terms of its lease, and no backend is
\* lost sight of or taken for one that serves.
THEOREM PartsAreSafe ==
    AppSpec => [](/\ ReadsAsWritten /\ ResumesWithoutGap
                  /\ NoMessageLost
                  /\ OneScriptControls
                  /\ NoBackendLeaks) /\ NoStaleBackend /\ KeepsLease
BY PartsKeepToThemselves, TextReadsAsWritten, StreamResumesWithoutGap, MessagesAreKept, OneControls, LeaseIsKept,
   BackendsAreKnown, AnswersAreFresh, PTL
=============================================================================
