------------------------- MODULE MCCollectorJournal -------------------------
(***************************************************************************)
(* CollectorJournal for TLC.  The whole next-state relation multiplies     *)
(* ownership, subscription, retention and recovery; each specification     *)
(* here keeps the actions one question is about and leaves the others out, *)
(* so that its instance can be exhausted.  All of them are sub-relations   *)
(* of CollectorJournal's Next.                                             *)
(***************************************************************************)
EXTENDS CollectorJournal, TLC

EventSymmetry == Permutations(Events)
WorkerSymmetry == Permutations(Workers)

\* Donations are journaled as they are accepted, under a grant that lasts.
Collect ==
    \/ \E w \in Workers : SetAssignment(w) \/ AcquireCollection(w)
    \/ \E e \in Events, content \in Contents, t \in 1..issued :
         /\ acceptedAt[e] = Null
         /\ AppendDonation(e, content, t, generation, now, now)

\* Delivery to several consumers while retention drops payloads.
DeliveryNext == Tick \/ Collect \/ ReadNext \/ MaintenanceNext
DeliverySpec == Init /\ [][DeliveryNext]_vars

\* Recovery decisions, also across a rotation of the journal.
RecoveryRunNext ==
    \/ Tick \/ Collect \/ ReadNext \/ RecoveryNext
    \/ ExpireDonations(now) \/ PruneCollection \/ RotateJournal(generation)
RecoverySpec == Init /\ [][RecoveryRunNext]_vars

\* Spool replays against tombstones and their deletion.
ReplayNext ==
    \/ Tick \/ \E w \in Workers : SetAssignment(w) \/ AcquireCollection(w)
    \/ AppendNext \/ MaintenanceNext
ReplaySpec == Init /\ [][ReplayNext]_vars

\* Workers that take the channel from each other, and the subscription.
OwnershipNext ==
    \/ OwnerNext \/ RuntimeNext \/ SubscriptionNext \/ EnvironmentNext
    \/ PruneCollection \/ RotateJournal(generation)
OwnershipSpec == Init /\ [][OwnershipNext]_vars

=============================================================================
