------------------------------- MODULE Canary -------------------------------
(***************************************************************************)
(* The canary: the evidence that unlocks production.                      *)
(*                                                                         *)
(* A canary run searches a few market starts, in rounds of one day each,  *)
(* for the assets that have no proof yet.  A round publishes one isolated *)
(* partition per uncovered asset to draft releases of the run, downloads  *)
(* it again and takes the accepted markets as the asset's proof.  When    *)
(* all assets are proven, the minimum cover of the usable starts and the  *)
(* proofs make the receipt, which is pushed to the branch it was run on.  *)
(* Every production command validates the committed receipt first.        *)
(*                                                                         *)
(* A run can be killed or fail anywhere and is dispatched anew (with a    *)
(* new run id) or run again (with the old id, on the old commit), while   *)
(* others push to the branch and publish to production releases.          *)
(*                                                                         *)
(* Assets are numbered in the frozen order, starts in hours; the object   *)
(* of hour h covers [h, h + 1).  A partition of a draft counts as there   *)
(* once its manifest is, which holds the time of its attempt.             *)
(***************************************************************************)
EXTENDS Cover

CONSTANTS
    AssetCount,        \* the frozen assets
    RoundCount,        \* CANARY_MAX_ROUNDS
    RoundTop,          \* the latest candidate start of each round
    MaxCandidates,     \* CANARY_MAX_CANDIDATES, one hour apart
    ComputeCandidates, \* CANARY_COMPUTE_CANDIDATES_PER_ROUND
    Missing,           \* PMXT_MISSING_OBJECT_URLS
    Worlds,            \* what Gamma and the archive may hold
    None,              \* no receipt
    MaxAttempts,       \* bound on the attempts of canary runs
    MaxFaults          \* bound on kills, pushes of others and the like

Assets == 1..AssetCount
Rounds == 1..RoundCount

\* _candidate_starts: from the start of the search down to its end.
CandidateStarts(r) == RoundTop[r] - MaxCandidates + 1 .. RoundTop[r]
Starts == UNION {CandidateStarts(r) : r \in Rounds}

\* A market is not resolved, or resolved but not reconstructable, or sound.
Statuses == {"unresolved", "excluded", "sound"}

\* load_authority: the rounds and their limits are frozen, no start is in
\* two rounds.
ASSUME CanaryAssumption ==
    /\ AssetCount \in Nat \ {0} /\ RoundCount \in Nat \ {0}
    /\ RoundTop \in [Rounds -> Int]
    /\ MaxCandidates \in Nat \ {0} /\ ComputeCandidates \in 1..MaxCandidates
    /\ \A q, r \in Rounds : q # r => CandidateStarts(q) \cap CandidateStarts(r) = {}
    /\ Missing \subseteq Int
    /\ \A w \in Worlds : /\ w.status \in [Assets \X Starts -> Statuses]
                         /\ w.identity \in [Assets \X Starts -> Nat]
    /\ MaxAttempts \in Nat /\ MaxFaults \in Nat

VARIABLES
    world,       \* the status and the identity of every market
    main,        \* the branch: number of pushes, and of those to the tree
    production,  \* number of publications to the production releases
    drafts,      \* partitions in the canary draft releases
    authority,   \* the receipt committed on the branch
    run, attempt,\* GITHUB_RUN_ID, and the attempts so far
    base,        \* the branch as the run checked it out
    pc, round,
    uncovered,   \* assets without a proof
    seen,        \* market ids of the candidates so far
    candidates,  \* qualified starts of the round
    built,       \* assets whose partition the child has published
    usable,      \* usable_by_start
    qualified,   \* qualified_starts
    proofs,      \* proofs_by_asset and proof_tags
    tags,        \* release_tags, one per executed round
    gamma, heads,\* requests to Gamma and HEAD requests to the archive
    before,      \* production at the start of the run
    late,        \* the five hours are over
    receipt,     \* the receipt in the work tree
    faults

envVars == <<world, main, production, authority, faults>>
jobVars == <<run, attempt, base, before>>
searchVars == <<round, uncovered, seen, usable, qualified, proofs, tags, gamma, heads>>
vars == <<world, main, production, drafts, authority, run, attempt, base, pc, round,
          uncovered, seen, candidates, built, usable, qualified, proofs, tags,
          gamma, heads, before, late, receipt, faults>>

Running == {"qualify", "prepare", "build", "record", "finish", "push"}
PcStates == Running \cup {"idle", "failed", "passed"}

\* The locals of command_canary as it starts.
FreshLocals ==
    /\ round' = 1 /\ uncovered' = Assets
    /\ seen' = {} /\ candidates' = {} /\ built' = {}
    /\ usable' = [s \in Starts |-> {}]
    /\ qualified' = {}
    /\ proofs' = [a \in Assets |-> None]
    /\ tags' = {}
    /\ gamma' = 0 /\ heads' = 0
    /\ late' = FALSE
    /\ receipt' = None

\* An exception, or a runner that is lost.
Fail == pc' = "failed" /\ FreshLocals

Disturb == faults < MaxFaults /\ faults' = faults + 1

Init ==
    /\ world \in Worlds
    /\ main = [head |-> 0, tree |-> 0]
    /\ production = 0
    /\ drafts = {}
    /\ authority = None
    /\ run = 0 /\ attempt = 0
    /\ base = main /\ before = 0
    /\ pc = "idle" /\ round = 1
    /\ uncovered = Assets
    /\ seen = {} /\ candidates = {} /\ built = {}
    /\ usable = [s \in Starts |-> {}]
    /\ qualified = {}
    /\ proofs = [a \in Assets |-> None]
    /\ tags = {}
    /\ gamma = 0 /\ heads = 0
    /\ late = FALSE
    /\ receipt = None
    /\ faults = 0

-----------------------------------------------------------------------------
(* Validation of a receipt *)

UsableByStart(rec) == [s \in rec.qualified |-> {a \in Assets : s \in rec.usable[a]}]

\* _validate_receipt_coverage
ValidCoverage(rec) ==
    /\ \A a \in Assets :
        LET proof == rec.proofs[a]
        IN  /\ rec.usable[a] # {} /\ rec.usable[a] \subseteq rec.qualified
            /\ proof.tier = "TIER_A"
            /\ proof.tag \in rec.tags
            /\ Cardinality(proof.bindings) = Cardinality(rec.usable[a])
            /\ {b.start : b \in proof.bindings} = rec.usable[a]
    /\ \A a, c \in Assets : \A b \in rec.proofs[a].bindings, d \in rec.proofs[c].bindings :
        b.id = d.id => a = c /\ b = d
    /\ Coverable(UsableByStart(rec), Assets)
    /\ rec.selected = MinimumCover(UsableByStart(rec), Assets)
    /\ \A a \in Assets : rec.assetStart[a] \in rec.usable[a] \cap rec.selected

\* _require_canary_receipt against a control plane.
Authorizes(rec, tree) ==
    /\ rec # None
    /\ rec.rounds \in Rounds
    /\ Cardinality(rec.tags) = rec.rounds
    /\ Cardinality(rec.qualified) \in rec.rounds .. rec.rounds * MaxCandidates
    /\ rec.qualified \subseteq Starts
    /\ Cardinality(rec.selected) \in 1..AssetCount
    /\ rec.selected \subseteq rec.qualified
    /\ \A a \in Assets : rec.assetStart[a] \in rec.selected
    /\ rec.gamma <= RoundCount * MaxCandidates * AssetCount
    /\ rec.objects = rec.heads
    /\ rec.heads \in 1 .. RoundCount * (MaxCandidates + 1)
    /\ rec.controlPlane = tree
    /\ ValidCoverage(rec)

-----------------------------------------------------------------------------
(* One round *)

\* Mutant: the id of the run is not part of the tag.
TagOfDays(r, C) == <<0, r, Max(C), Min(C)>>

\* release_tag of a round.
Tag(r, C) == <<run, r, Max(C), Min(C)>>

\* pmxt_hourly_objects, with the hour of warm-up.
Objects(C) == Min(C) - 1 .. Max(C)

\* A start is rejected as soon as one asset has no resolved market there.
Rejected(s) == \E a \in uncovered : world.status[<<a, s>>] = "unresolved"
Acceptable(s) == ~Rejected(s) /\ Objects({s}) \cap Missing = {}

\* The search goes down the starts and stops when it has enough.
Qualified(r) ==
    LET acceptable == {s \in CandidateStarts(r) : Acceptable(s)}
    IN  {s \in acceptable :
            Cardinality({t \in acceptable : t > s}) < ComputeCandidates}
Walked(r) ==
    IF Cardinality(Qualified(r)) < ComputeCandidates THEN CandidateStarts(r)
    ELSE {s \in CandidateStarts(r) : s >= Min(Qualified(r))}

\* The markets the search saw at the starts it did not reject.
Fetched(r) == uncovered \X {s \in Walked(r) : ~Rejected(s)}

\* The markets it asked for: at one start up to the first unresolved one.
Requested(r) ==
    {m \in uncovered \X Walked(r) :
        \A a \in uncovered : a < m[1] => world.status[<<a, m[2]>>] # "unresolved"}

\* The market and condition id of a market.
Identity(a, s) == world.identity[<<a, s>>]

\* Gamma gave two markets one identity, or one that was seen before.
Reused(r) ==
    \E m \in Fetched(r) :
        \/ world.identity[m] \in seen
        \/ \E n \in Fetched(r) \ {m} : world.identity[n] = world.identity[m]

\* Mutant: the ids seen are those of the round only.
QualifyForgetting ==
    /\ pc = "qualify"
    /\ LET C == Qualified(round)
       IN  IF late \/ Reused(round) \/ C = {} \/ Objects(C) \cap Missing # {}
           THEN Fail
           ELSE /\ pc' = "prepare"
                /\ candidates' = C
                /\ gamma' = gamma + Cardinality(Requested(round))
                /\ heads' = heads + Cardinality(Objects(C))
                /\ UNCHANGED <<round, uncovered, seen, usable, qualified, proofs, tags,
                               built, late, receipt>>
    /\ UNCHANGED <<envVars, jobVars, drafts>>

\* qualify_canary_candidates and the bookkeeping after it.  Every object of
\* the round is asked for once, whether a candidate needs it or lies between.
Qualify ==
    /\ pc = "qualify"
    /\ LET C == Qualified(round)
       IN  IF late \/ Reused(round) \/ C = {} \/ Objects(C) \cap Missing # {}
           THEN Fail
           ELSE /\ pc' = "prepare"
                /\ candidates' = C
                /\ seen' = seen \cup {Identity(a, s) : a \in uncovered, s \in C}
                /\ gamma' = gamma + Cardinality(Requested(round))
                /\ heads' = heads + Cardinality(Objects(C))
                /\ UNCHANGED <<round, uncovered, usable, qualified, proofs, tags,
                               built, late, receipt>>
    /\ UNCHANGED <<envVars, jobVars, drafts>>

\* prepare_staged_day in the child: the objects are those of the candidates,
\* and each must be relevant to one of them.
Prepare ==
    /\ pc = "prepare"
    /\ IF late \/ \E o \in Objects(candidates) : {o, o + 1} \cap candidates = {}
       THEN Fail
       ELSE pc' = "build" /\ UNCHANGED <<searchVars, candidates, built, late, receipt>>
    /\ UNCHANGED <<envVars, jobVars, drafts>>

\* The partition of an asset as this attempt publishes it.
Own(a) == [tag |-> Tag(round, candidates), asset |-> a, attempt |-> attempt]
SamePartition(d, e) == d.tag = e.tag /\ d.asset = e.asset

\* Mutant: a partition that is there is taken for the child's own.
BuildIfAbsent ==
    /\ pc = "build"
    /\ \E a \in uncovered \ built :
        /\ \A b \in uncovered \ built : a <= b
        /\ IF late
           THEN Fail /\ UNCHANGED drafts
           ELSE /\ built' = built \cup {a}
                /\ drafts' = IF \E d \in drafts : SamePartition(d, Own(a))
                             THEN drafts ELSE drafts \cup {Own(a)}
                /\ pc' = IF uncovered = built' THEN "record" ELSE "build"
                /\ UNCHANGED <<searchVars, candidates, late, receipt>>
    /\ UNCHANGED <<envVars, jobVars>>

\* The child publishes the next asset, one after the other; a partition with
\* the manifest of another attempt conflicts.
BuildPartition ==
    /\ pc = "build"
    /\ \E a \in uncovered \ built :
        /\ \A b \in uncovered \ built : a <= b
        /\ IF late \/ \E d \in drafts : SamePartition(d, Own(a)) /\ d # Own(a)
           THEN Fail /\ UNCHANGED drafts
           ELSE /\ drafts' = drafts \cup {Own(a)}
                /\ built' = built \cup {a}
                /\ pc' = IF uncovered = built' THEN "record" ELSE "build"
                /\ UNCHANGED <<searchVars, candidates, late, receipt>>
    /\ UNCHANGED <<envVars, jobVars>>

\* The markets of the round's partition that were accepted.
Accepted(a) == {s \in candidates : world.status[<<a, s>>] = "sound"}

\* verify_remote_partition: what the draft holds for an asset.
Proof(a) ==
    [tag |-> Tag(round, candidates),
     attempt |-> (CHOOSE d \in drafts : SamePartition(d, Own(a))).attempt,
     tier |-> IF Accepted(a) = {} THEN "EXCLUDED" ELSE "TIER_A",
     bindings |-> {[start |-> s, id |-> Identity(a, s)] : s \in Accepted(a)}]

\* Mutant: an asset stays uncovered, so a later round proves it again.
StillUncovered == uncovered

\* uncovered after the round.
LeftUncovered == {a \in uncovered : Accepted(a) = {}}

\* Mutant: the last round is not the end of the search.
RecordRoundOn ==
    /\ pc = "record"
    /\ IF late
       THEN Fail
       ELSE /\ qualified' = qualified \cup candidates
            /\ tags' = tags \cup {Tag(round, candidates)}
            /\ usable' = [s \in Starts |-> IF s \in candidates
                                           THEN {a \in uncovered : s \in Accepted(a)}
                                           ELSE usable[s]]
            /\ proofs' = [a \in Assets |-> IF a \in uncovered /\ Accepted(a) # {}
                                           THEN Proof(a) ELSE proofs[a]]
            /\ uncovered' = LeftUncovered
            /\ round' = IF LeftUncovered = {} THEN round ELSE round + 1
            /\ pc' = IF LeftUncovered = {} THEN "finish" ELSE "qualify"
            /\ candidates' = {} /\ built' = {}
            /\ UNCHANGED <<seen, gamma, heads, late, receipt>>
    /\ UNCHANGED <<envVars, jobVars, drafts>>

\* The round's partitions are downloaded, verified and taken as proofs.
RecordRound ==
    /\ pc = "record"
    /\ IF late \/ (LeftUncovered # {} /\ round = RoundCount)
       THEN Fail
       ELSE /\ qualified' = qualified \cup candidates
            /\ tags' = tags \cup {Tag(round, candidates)}
            /\ usable' = [s \in Starts |-> IF s \in candidates
                                           THEN {a \in uncovered : s \in Accepted(a)}
                                           ELSE usable[s]]
            /\ proofs' = [a \in Assets |-> IF a \in uncovered /\ Accepted(a) # {}
                                           THEN Proof(a) ELSE proofs[a]]
            /\ uncovered' = LeftUncovered
            /\ round' = IF LeftUncovered = {} THEN round ELSE round + 1
            /\ pc' = IF LeftUncovered = {} THEN "finish" ELSE "qualify"
            /\ candidates' = {} /\ built' = {}
            /\ UNCHANGED <<seen, gamma, heads, late, receipt>>
    /\ UNCHANGED <<envVars, jobVars, drafts>>

-----------------------------------------------------------------------------
(* The receipt *)

UsableByAsset == [a \in Assets |-> {s \in qualified : a \in usable[s]}]

\* The receipt of a finished search.
NewReceipt ==
    LET selected == MinimumCover([s \in qualified |-> usable[s]], Assets)
    IN  [qualified |-> qualified,
         selected |-> selected,
         usable |-> UsableByAsset,
         assetStart |-> [a \in Assets |-> Max(selected \cap UsableByAsset[a])],
         proofs |-> proofs,
         tags |-> tags, rounds |-> round,
         gamma |-> gamma, heads |-> heads, objects |-> heads,
         controlPlane |-> base.tree]

\* The end of command_canary: production must be as it was.
Finish ==
    /\ pc = "finish"
    /\ IF late \/ production # before
       THEN Fail
       ELSE /\ receipt' = NewReceipt
            /\ pc' = "push"
            /\ UNCHANGED <<searchVars, candidates, built, late>>
    /\ UNCHANGED <<envVars, jobVars, drafts>>

\* The branch after one more push.
Pushed(tree) == [head |-> main.head + 1, tree |-> tree]

\* Mutant: the receipt is rebased onto whatever was pushed meanwhile.
PushRebased ==
    /\ pc = "push"
    /\ authority' = receipt
    /\ main' = Pushed(main.tree)
    /\ pc' = "passed"
    /\ FreshLocals
    /\ UNCHANGED <<world, production, faults, jobVars, drafts>>

\* The receipt is committed on the checkout; the push has to be a fast-forward.
Push ==
    /\ pc = "push"
    /\ IF main.head # base.head
       THEN Fail /\ UNCHANGED <<authority, main>>
       ELSE /\ authority' = receipt
            /\ main' = Pushed(main.tree)
            /\ pc' = "passed"
            /\ FreshLocals
    /\ UNCHANGED <<world, production, faults, jobVars, drafts>>

-----------------------------------------------------------------------------
(* Dispatches, and what happens meanwhile *)

\* Production is unlocked: its commands accept the committed receipt.
Unlocked == Authorizes(authority, main.tree)

\* A new canary run checks out the branch.
Dispatch ==
    /\ pc \in {"idle", "failed", "passed"}
    /\ ~Unlocked
    /\ attempt < MaxAttempts
    /\ attempt' = attempt + 1
    /\ run' = run + 1
    /\ base' = main
    /\ before' = production
    /\ pc' = "qualify" /\ FreshLocals
    /\ UNCHANGED <<envVars, drafts>>

\* A failed run is run again: with its id, on the commit it was run on.
Rerun ==
    /\ Disturb
    /\ pc = "failed"
    /\ attempt < MaxAttempts
    /\ attempt' = attempt + 1
    /\ before' = production
    /\ pc' = "qualify" /\ FreshLocals
    /\ UNCHANGED <<world, main, production, authority, drafts, run, base>>

\* The runner is lost, a request fails for good, or the disk runs full.
Kill ==
    /\ Disturb
    /\ pc \in Running
    /\ Fail
    /\ UNCHANGED <<world, main, production, authority, jobVars, drafts>>

\* The deadline passes.
TimeOut ==
    /\ Disturb
    /\ pc \in Running /\ ~late
    /\ late' = TRUE
    /\ UNCHANGED <<world, main, production, authority, jobVars, drafts, pc,
                   searchVars, candidates, built, receipt>>

\* Somebody else pushes to the branch: a ledger, or a change of the tree.
OtherPush ==
    /\ Disturb
    /\ \E t \in {main.tree, main.tree + 1} : main' = Pushed(t)
    /\ UNCHANGED <<world, production, authority, jobVars, drafts, pc, searchVars,
                   candidates, built, late, receipt>>

\* A production job that an earlier receipt let start publishes.
Produce ==
    /\ Disturb
    /\ pc \in Running
    /\ production' = production + 1
    /\ UNCHANGED <<world, main, authority, jobVars, drafts, pc, searchVars,
                   candidates, built, late, receipt>>

Job == Qualify \/ Prepare \/ BuildPartition \/ RecordRound \/ Finish \/ Push

Next ==
    \/ Job \/ Dispatch \/ Rerun
    \/ Kill \/ TimeOut \/ OtherPush \/ Produce

Spec == Init /\ [][Next]_vars

\* A run goes on, and a locked production makes somebody dispatch a canary.
FairSpec == Spec /\ WF_vars(Job) /\ WF_vars(Dispatch)
=============================================================================
