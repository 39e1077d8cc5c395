-------------------------- MODULE MCDonationSpool --------------------------
(***************************************************************************)
(* DonationSpool for TLC.  Of everybody else who uses the journal, each    *)
(* specification keeps the steps its question is about.                    *)
(***************************************************************************)
EXTENDS DonationSpool, TLC

SpoolEventSymmetry == Permutations(Events)

Quiet == UNCHANGED <<spoolVars, sessionVars, spoolHistory>>

\* Crashes, lost replies, refusals after a rotation: does a donation that was
\* accepted survive, and in its place?
DurabilityNext ==
    \/ BeginAcquire \/ Acquired \/ SaveNext \/ DrainNext \/ LoopNext \/ Crash
    \/ (SetAssignment(Self) \/ RotateJournal(generation)) /\ Quiet
DurabilitySpec == SpoolInit /\ [][DurabilityNext]_svars
FairDurabilitySpec == DurabilitySpec /\ SpoolFairness

\* Slow calls, slow writes, renewals and ends of sessions against the clock.
AuthorityNext ==
    \/ SessionNext \/ SaveNext \/ DrainNext
    \/ (Tick \/ SetAssignment(Self) \/ PruneCollection) /\ Quiet
AuthoritySpec == SpoolInit /\ [][AuthorityNext]_svars

=============================================================================
