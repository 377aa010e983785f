-------------------------- MODULE CanaryProperties --------------------------
(***************************************************************************)
(* What the canary promises about the receipt it commits.                 *)
(***************************************************************************)
EXTENDS Canary, Sequences

ProofRecords ==
    [tag : Seq(Int), attempt : 1..MaxAttempts, tier : {"TIER_A", "EXCLUDED"},
     bindings : SUBSET [start : Starts, id : Nat]]

\* The variables have the types the comments in Canary give them.
TypeOK ==
    /\ world.status \in [Assets \X Starts -> Statuses]
    /\ main \in [head : Nat, tree : Nat] /\ base \in [head : Nat, tree : Nat]
    /\ production \in Nat /\ before \in Nat
    /\ run \in 0..MaxAttempts /\ attempt \in 0..MaxAttempts
    /\ pc \in PcStates
    /\ round \in Rounds
    /\ uncovered \subseteq Assets /\ built \subseteq uncovered
    /\ candidates \subseteq CandidateStarts(round)
    /\ seen \subseteq Nat
    /\ usable \in [Starts -> SUBSET Assets]
    /\ qualified \subseteq Starts
    /\ \A a \in Assets : proofs[a] = None \/ proofs[a] \in ProofRecords
    /\ \A d \in drafts : d.asset \in Assets /\ d.attempt \in 1..MaxAttempts
    /\ gamma \in Nat /\ heads \in Nat
    /\ late \in BOOLEAN
    /\ faults \in 0..MaxFaults

\* The receipt a canary writes is one its consumers accept: what
\* command_canary collects over several rounds agrees with what
\* _require_canary_receipt asks of bindings, cover, tags and budgets.
ReceiptAuthorizes ==
    receipt # None => Authorizes(receipt, base.tree)

\* The selected starts are the fewest that cover all assets and the latest
\* such, by the definition and not by the recurrence that computes them.
CoverIsMinimum ==
    receipt # None => IsMinimumCover(receipt.selected, UsableByStart(receipt), Assets)

\* The evidence of a receipt was published by the attempt that wrote it: no
\* partition of an earlier, killed attempt stands in for it.
EvidenceIsOwn ==
    receipt # None =>
        \A a \in Assets : /\ receipt.proofs[a].attempt = attempt
                          /\ receipt.proofs[a].tag \in receipt.tags

\* A round runs the uncovered assets only: nothing is published for an asset
\* in a later round of an attempt than the one that proved it.
ProvenOnce ==
    \A a \in Assets : proofs[a] # None =>
        \A d \in drafts : d.asset = a /\ d.attempt = attempt => d.tag[2] <= proofs[a].tag[2]

\* A receipt is committed on the tree it was proven with: whoever pushed
\* while the canary ran is not unlocked by it.
CommittedOnOwnTree ==
    [][authority' # authority => authority'.controlPlane = main'.tree]_authority

\* The latest candidates of the first round are resolved, distinct and in
\* the archive, and each asset is reconstructable at one of them.
Reconstructable ==
    LET top == RoundTop[1] - ComputeCandidates + 1 .. RoundTop[1]
    IN  /\ \A a \in Assets, s \in top : world.status[a, s] # "unresolved"
        /\ \A a \in Assets : \E s \in top : world.status[a, s] = "sound"
        /\ \A m, n \in Assets \X top : m # n => world.identity[m] # world.identity[n]
        /\ Objects(top) \cap Missing = {}

\* Then production is unlocked in the end: through kills, deadlines, re-runs
\* and pushes, no draft that an earlier attempt left is in the way for ever.
EventuallyUnlocked == Reconstructable => <>Unlocked
=============================================================================
