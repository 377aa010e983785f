---------------------------- MODULE CanaryProofs ----------------------------
(***************************************************************************)
(* The evidence of a receipt, where it is committed, and that it is one   *)
(* that unlocks production, for any number of assets, rounds, candidates, *)
(* attempts and faults, and whatever Gamma and the archive hold.          *)
(*                                                                         *)
(* First, what a receipt rests on: IInv says whose the drafts and the     *)
(* proofs are.                                                             *)
(*                                                                         *)
(* Then the minimum cover.  A walk through the starts keeps, of the       *)
(* selections with one mask, the best.  Better is a strict total order    *)
(* that adding the same start to both sides keeps, so the best of a mask  *)
(* is always made of the best of another.  The walk is a recursive        *)
(* function over sets of starts: its equation, and what it keeps, hold of *)
(* every subset of a finite set, since of the subsets that are exceptions *)
(* one would be minimal (EverySubset).                                    *)
(*                                                                         *)
(* Last, the search: Search counts what each round adds and keeps the     *)
(* usable starts, the bindings and the ids together, so the receipt it    *)
(* ends with is accepted.                                                  *)
(***************************************************************************)
EXTENDS CanaryProperties, FiniteSetTheorems, FunctionTheorems, WellFoundedInduction, TLAPS

\* The branch only moves on: with as many pushes it holds the same tree.
BranchMovesOn ==
    /\ main \in [head : Nat, tree : Nat] /\ base \in [head : Nat, tree : Nat]
    /\ base.head <= main.head
    /\ base.head = main.head => base.tree = main.tree

\* A receipt waits for its push, as the search has left it.
ReceiptIsTheSearch ==
    /\ receipt # None => pc = "push"
    /\ pc = "push" => /\ receipt.controlPlane = base.tree
                      /\ receipt.proofs = proofs /\ receipt.tags = tags

\* A draft has one partition of an asset, and those an attempt has built are
\* its own; it has none of a round that it has not come to.
DraftsAreOwn ==
    /\ attempt \in Nat /\ round \in Nat
    /\ \A d \in drafts : /\ d.attempt \in Nat /\ d.attempt <= attempt
                         /\ d.tag[2] \in Nat
                         /\ d.attempt = attempt /\ pc \in Running => d.tag[2] <= round
    /\ \A d, e \in drafts : SamePartition(d, e) => d = e
    /\ \A a \in built : Own(a) \in drafts
    /\ pc = "record" => built = uncovered
    /\ pc \notin {"build", "record"} => built = {}

\* Proofs are the attempt's own, and an asset has one or is uncovered.
ProofsAreOwn ==
    /\ pc \in {"finish", "push"} => uncovered = {}
    /\ \A a \in Assets \ uncovered :
          proofs[a].attempt = attempt /\ proofs[a].tag \in tags
    /\ \A a \in Assets \cap uncovered : proofs[a] = None
    /\ uncovered \subseteq Assets

\* What a receipt rests on.
IInv ==
    /\ BranchMovesOn /\ ReceiptIsTheSearch /\ DraftsAreOwn /\ ProofsAreOwn
    /\ ProvenOnce

-----------------------------------------------------------------------------
\* The initial states satisfy the invariant.
LEMMA InitIInv == ASSUME Init PROVE IInv
  BY CanaryAssumption
  DEF Init, IInv, BranchMovesOn, ReceiptIsTheSearch, DraftsAreOwn, ProofsAreOwn, ProvenOnce, Running

\* A search that is given up, or begun by the next attempt, has none of it.
LEMMA FreshKeeps ==
    ASSUME IInv, FreshLocals, UNCHANGED drafts, BranchMovesOn',
           attempt' \in Nat,
           \/ attempt' = attempt /\ pc' \in {"failed", "passed"}
           \/ attempt' > attempt /\ pc' = "qualify"
    PROVE  IInv'
  <1>1. ReceiptIsTheSearch'
    BY DEF FreshLocals, ReceiptIsTheSearch
  <1>2. DraftsAreOwn'
    <2>1. \A d \in drafts' : /\ d.attempt \in Nat /\ d.attempt <= attempt'
                             /\ d.tag[2] \in Nat
                             /\ d.attempt = attempt' => attempt' = attempt
      BY DEF IInv, DraftsAreOwn
    <2>2. \A d, e \in drafts' : SamePartition(d, e) => d = e
      BY DEF IInv, DraftsAreOwn
    <2> QED
      BY <2>1, <2>2 DEF DraftsAreOwn, FreshLocals, SamePartition, Running
  <1>3. ProofsAreOwn'
    BY DEF ProofsAreOwn, FreshLocals
  <1>4. ProvenOnce'
    BY DEF ProvenOnce, FreshLocals
  <1> QED
    BY <1>1, <1>2, <1>3, <1>4 DEF IInv

\* What the steps of the search itself leave as it is.
LEMMA SameSearch ==
    ASSUME IInv, BranchMovesOn',
           UNCHANGED <<base, drafts, attempt, run, built, candidates, searchVars, receipt, pc>>
    PROVE  IInv'
  BY DEF IInv, ReceiptIsTheSearch, DraftsAreOwn, ProofsAreOwn, ProvenOnce, searchVars,
         Own, Tag, SamePartition

\* A job's steps leave the branch alone until the push.
LEMMA SameBranch == ASSUME IInv, UNCHANGED <<main, base>> PROVE BranchMovesOn'
  BY DEF IInv, BranchMovesOn

\* The search of a round: it fails, or finds the candidates.
LEMMA QualifyKeeps == ASSUME IInv, Qualify PROVE IInv'
  <1>1. UNCHANGED <<main, base, drafts, attempt, run>> /\ pc = "qualify" /\ BranchMovesOn'
    BY SameBranch DEF Qualify, envVars, jobVars
  <1>2. CASE Fail
    BY <1>1, <1>2, FreshKeeps DEF Fail, IInv, DraftsAreOwn
  <1>3. CASE /\ pc' = "prepare"
             /\ UNCHANGED <<round, uncovered, usable, qualified, proofs, tags, built, receipt>>
    <2>1. ReceiptIsTheSearch'
      BY <1>1, <1>3 DEF IInv, ReceiptIsTheSearch
    <2>2. DraftsAreOwn'
      BY <1>1, <1>3 DEF IInv, DraftsAreOwn, SamePartition, Running
    <2>3. ProofsAreOwn' /\ ProvenOnce'
      BY <1>1, <1>3 DEF IInv, ProofsAreOwn, ProvenOnce
    <2> QED
      BY <1>1, <2>1, <2>2, <2>3 DEF IInv
  <1> QED
    BY <1>2, <1>3 DEF Qualify

\* The objects of the child: it fails, or has what it needs.
LEMMA PrepareKeeps == ASSUME IInv, Prepare PROVE IInv'
  <1>1. UNCHANGED <<main, base, drafts, attempt, run>> /\ pc = "prepare" /\ BranchMovesOn'
    BY SameBranch DEF Prepare, envVars, jobVars
  <1>2. CASE Fail
    BY <1>1, <1>2, FreshKeeps DEF Fail, IInv, DraftsAreOwn
  <1>3. CASE pc' = "build" /\ UNCHANGED <<searchVars, candidates, built, late, receipt>>
    <2>1. ReceiptIsTheSearch'
      BY <1>1, <1>3 DEF IInv, ReceiptIsTheSearch
    <2>2. DraftsAreOwn'
      BY <1>1, <1>3 DEF IInv, DraftsAreOwn, SamePartition, Running, searchVars
    <2>3. ProofsAreOwn' /\ ProvenOnce'
      BY <1>1, <1>3 DEF IInv, ProofsAreOwn, ProvenOnce, searchVars
    <2> QED
      BY <1>1, <2>1, <2>2, <2>3 DEF IInv
  <1> QED
    BY <1>2, <1>3 DEF Prepare

\* The one step that adds to the drafts.
LEMMA BuildKeeps == ASSUME IInv, BuildPartition PROVE IInv'
  <1>1. UNCHANGED <<main, base, attempt, run>> /\ pc = "build" /\ BranchMovesOn'
    BY SameBranch DEF BuildPartition, envVars, jobVars
  <1>2. CASE Fail /\ UNCHANGED drafts
    BY <1>1, <1>2, FreshKeeps DEF Fail, IInv, DraftsAreOwn
  <1>3. ASSUME NEW a \in uncovered \ built,
               ~\E d \in drafts : SamePartition(d, Own(a)) /\ d # Own(a),
               drafts' = drafts \cup {Own(a)},
               built' = built \cup {a},
               pc' = IF uncovered = built' THEN "record" ELSE "build",
               UNCHANGED <<searchVars, candidates, late, receipt>>
        PROVE  IInv'
    <2>0. \A b : Own(b)' = Own(b) /\ Own(b).attempt = attempt /\ Own(b).tag[2] = round
                 /\ Own(b).asset = b
      BY <1>1, <1>3 DEF Own, Tag, searchVars
    <2>1. ReceiptIsTheSearch'
      BY <1>1, <1>3 DEF IInv, ReceiptIsTheSearch
    <2>2. DraftsAreOwn'
      <3>1. attempt' \in Nat /\ round' \in Nat
        BY <1>1, <1>3 DEF IInv, DraftsAreOwn, searchVars
      <3>2. \A d \in drafts' : /\ d.attempt \in Nat /\ d.attempt <= attempt'
                               /\ d.tag[2] \in Nat
                               /\ d.attempt = attempt' => d.tag[2] <= round'
        BY <1>1, <1>3, <2>0 DEF IInv, DraftsAreOwn, searchVars, Running
      <3>3. \A d, e \in drafts' : SamePartition(d, e) => d = e
        BY <1>3 DEF IInv, DraftsAreOwn, SamePartition
      <3>4. \A b \in built' : Own(b)' \in drafts'
        BY <1>3, <2>0 DEF IInv, DraftsAreOwn
      <3>5. /\ pc' = "record" => built' = uncovered'
            /\ pc' \notin {"build", "record"} => built' = {}
        BY <1>3 DEF searchVars
      <3> QED
        BY <3>1, <3>2, <3>3, <3>4, <3>5 DEF DraftsAreOwn, SamePartition
    <2>3. ProofsAreOwn'
      BY <1>1, <1>3 DEF IInv, ProofsAreOwn, searchVars
    <2>4. ProvenOnce'
      BY <1>1, <1>3, <2>0 DEF IInv, ProvenOnce, ProofsAreOwn, searchVars
    <2> QED
      BY <1>1, <2>1, <2>2, <2>3, <2>4 DEF IInv
  <1> QED
    BY <1>2, <1>3 DEF BuildPartition

\* The partition of an asset in the draft is the attempt's own.
LEMMA ProofIsOwn ==
    ASSUME IInv, pc = "record", NEW a \in uncovered
    PROVE  /\ Proof(a).attempt = attempt
           /\ Proof(a).tag = Tag(round, candidates) /\ Proof(a).tag[2] = round
  <1>1. Own(a) \in drafts /\ SamePartition(Own(a), Own(a))
    BY DEF IInv, DraftsAreOwn, SamePartition
  <1>2. (CHOOSE d \in drafts : SamePartition(d, Own(a))) = Own(a)
    BY <1>1 DEF IInv, DraftsAreOwn
  <1>3. Own(a).attempt = attempt
    BY DEF Own
  <1>4. Proof(a).attempt = (CHOOSE d \in drafts : SamePartition(d, Own(a))).attempt
        /\ Proof(a).tag = Tag(round, candidates)
    BY DEF Proof
  <1>5. Tag(round, candidates)[2] = round
    BY DEF Tag
  <1> QED
    BY <1>2, <1>3, <1>4, <1>5

\* The end of a round: an asset is proven now, or as before, or not.
LEMMA RecordKeeps == ASSUME IInv, RecordRound PROVE IInv'
  <1>1. UNCHANGED <<main, base, drafts, attempt, run>> /\ pc = "record" /\ BranchMovesOn'
    BY SameBranch DEF RecordRound, envVars, jobVars
  <1>2. CASE Fail
    BY <1>1, <1>2, FreshKeeps DEF Fail, IInv, DraftsAreOwn
  <1>3. CASE /\ tags' = tags \cup {Tag(round, candidates)}
             /\ proofs' = [a \in Assets |-> IF a \in uncovered /\ Accepted(a) # {}
                                            THEN Proof(a) ELSE proofs[a]]
             /\ uncovered' = LeftUncovered
             /\ round' = IF LeftUncovered = {} THEN round ELSE round + 1
             /\ pc' = IF LeftUncovered = {} THEN "finish" ELSE "qualify"
             /\ built' = {}
             /\ receipt' = receipt
    <2>1. ReceiptIsTheSearch'
      BY <1>1, <1>3 DEF IInv, ReceiptIsTheSearch
    <2>2. DraftsAreOwn'
      <3>1. round' \in Nat /\ round <= round'
        BY <1>3 DEF IInv, DraftsAreOwn
      <3>2. \A d \in drafts' : /\ d.attempt \in Nat /\ d.attempt <= attempt'
                               /\ d.tag[2] \in Nat
                               /\ d.attempt = attempt' => d.tag[2] <= round'
        BY <1>1, <3>1 DEF IInv, DraftsAreOwn, Running
      <3>3. pc' \notin {"record"}
        BY <1>3
      <3> QED
        BY <1>1, <1>3, <3>1, <3>2, <3>3 DEF IInv, DraftsAreOwn, SamePartition
    <2>3. \A a \in Assets :
            \/ /\ a \in uncovered /\ a \notin uncovered'
               /\ proofs'[a] = Proof(a)
            \/ /\ proofs'[a] = proofs[a]
               /\ a \in uncovered <=> a \in uncovered'
      BY <1>3 DEF LeftUncovered
    <2>4. ProofsAreOwn'
      <3>1. \A a \in Assets \ uncovered' :
               proofs'[a].attempt = attempt' /\ proofs'[a].tag \in tags'
        BY <1>1, <1>3, <2>3, ProofIsOwn DEF IInv, ProofsAreOwn
      <3>2. \A a \in Assets \cap uncovered' : proofs'[a] = None
        BY <2>3 DEF IInv, ProofsAreOwn
      <3>3. uncovered' \subseteq Assets
        BY <1>3 DEF LeftUncovered, IInv, ProofsAreOwn
      <3>4. pc' \in {"finish", "push"} => uncovered' = {}
        BY <1>3
      <3> QED
        BY <3>1, <3>2, <3>3, <3>4 DEF ProofsAreOwn
    <2>5. ProvenOnce'
      <3> SUFFICES ASSUME NEW a \in Assets, proofs'[a] # None,
                          NEW d \in drafts, d.asset = a, d.attempt = attempt
                   PROVE  d.tag[2] <= proofs'[a].tag[2]
        BY <1>1 DEF ProvenOnce
      <3>1. CASE a \in uncovered /\ proofs'[a] = Proof(a)
        BY <1>1, <3>1, ProofIsOwn DEF IInv, DraftsAreOwn, Running
      <3>2. CASE proofs'[a] = proofs[a]
        BY <3>2 DEF IInv, ProvenOnce
      <3> QED
        BY <2>3, <3>1, <3>2
    <2> QED
      BY <1>1, <2>1, <2>2, <2>4, <2>5 DEF IInv
  <1> QED
    BY <1>2, <1>3 DEF RecordRound

\* The receipt is made from the search.
LEMMA FinishKeeps == ASSUME IInv, Finish PROVE IInv'
  <1>1. UNCHANGED <<main, base, drafts, attempt, run>> /\ pc = "finish" /\ BranchMovesOn'
    BY SameBranch DEF Finish, envVars, jobVars
  <1>2. CASE Fail
    BY <1>1, <1>2, FreshKeeps DEF Fail, IInv, DraftsAreOwn
  <1>3. CASE /\ receipt' = NewReceipt /\ pc' = "push"
             /\ UNCHANGED <<searchVars, candidates, built, late>>
    <2>1. ReceiptIsTheSearch'
      BY <1>1, <1>3 DEF ReceiptIsTheSearch, NewReceipt, searchVars
    <2>2. DraftsAreOwn'
      BY <1>1, <1>3 DEF IInv, DraftsAreOwn, SamePartition, Running, searchVars
    <2>3. ProofsAreOwn' /\ ProvenOnce'
      BY <1>1, <1>3 DEF IInv, ProofsAreOwn, ProvenOnce, searchVars
    <2> QED
      BY <1>1, <2>1, <2>2, <2>3 DEF IInv
  <1> QED
    BY <1>2, <1>3 DEF Finish

\* The push moves the branch on and ends the search.
LEMMA PushKeeps == ASSUME IInv, Push PROVE IInv'
  <1>1. UNCHANGED <<base, drafts, attempt>> /\ attempt \in Nat
    BY DEF Push, jobVars, IInv, DraftsAreOwn
  <1>2. CASE Fail /\ UNCHANGED <<authority, main>>
    BY <1>1, <1>2, FreshKeeps, SameBranch DEF Fail
  <1>3. CASE main' = Pushed(main.tree) /\ pc' = "passed" /\ FreshLocals
    <2>1. BranchMovesOn'
      BY <1>1, <1>3 DEF IInv, BranchMovesOn, Pushed
    <2> QED
      BY <1>1, <1>3, <2>1, FreshKeeps
  <1> QED
    BY <1>2, <1>3 DEF Push

\* Attempts begin and are stopped; others move the branch on.
LEMMA OthersKeep ==
    ASSUME IInv, Dispatch \/ Rerun \/ Kill \/ TimeOut \/ OtherPush \/ Produce
    PROVE  IInv'
  <1>1. CASE Dispatch
    <2>1. BranchMovesOn'
      BY <1>1 DEF Dispatch, envVars, IInv, BranchMovesOn
    <2>2. attempt' \in Nat /\ attempt' > attempt
      BY <1>1 DEF Dispatch, IInv, DraftsAreOwn
    <2> QED
      BY <1>1, <2>1, <2>2, FreshKeeps DEF Dispatch
  <1>2. CASE Rerun
    <2>1. attempt' \in Nat /\ attempt' > attempt
      BY <1>2 DEF Rerun, IInv, DraftsAreOwn
    <2> QED
      BY <1>2, <2>1, SameBranch, FreshKeeps DEF Rerun
  <1>3. CASE Kill
    <2>1. attempt' \in Nat /\ UNCHANGED <<main, base, attempt, drafts>>
      BY <1>3 DEF Kill, jobVars, IInv, DraftsAreOwn
    <2> QED
      BY <1>3, <2>1, SameBranch, FreshKeeps DEF Kill, Fail
  <1>4. CASE TimeOut \/ Produce
    <2>1. UNCHANGED <<main, base, drafts, attempt, run, built, candidates, searchVars, receipt, pc>>
      BY <1>4 DEF TimeOut, Produce, jobVars
    <2> QED
      BY <2>1, SameBranch, SameSearch
  <1>5. CASE OtherPush
    <2>1. UNCHANGED <<base, drafts, attempt, run, built, candidates, searchVars, receipt, pc>>
      BY <1>5 DEF OtherPush, jobVars
    <2>2. BranchMovesOn'
      BY <1>5, <2>1 DEF OtherPush, Pushed, IInv, BranchMovesOn
    <2> QED
      BY <2>1, <2>2, SameSearch
  <1> QED
    BY <1>1, <1>2, <1>3, <1>4, <1>5

\* The inductive invariant of the canary.
THEOREM InvariantHolds == Spec => []IInv
  <1>1. IInv /\ [Next]_vars => IInv'
    <2> SUFFICES ASSUME IInv, [Next]_vars PROVE IInv'
      OBVIOUS
    <2>1. CASE UNCHANGED vars
      BY <2>1, SameBranch, SameSearch DEF vars, searchVars
    <2> QED
      BY <2>1, QualifyKeeps, PrepareKeeps, BuildKeeps, RecordKeeps, FinishKeeps, PushKeeps,
         OthersKeep DEF Next, Job
  <1> QED
    BY InitIInv, <1>1, PTL DEF Spec

\* The evidence of a receipt is of the attempt that wrote it.
THEOREM EvidenceIsOwnHolds == Spec => []EvidenceIsOwn
  <1>1. IInv => EvidenceIsOwn
    BY DEF IInv, ReceiptIsTheSearch, ProofsAreOwn, EvidenceIsOwn
  <1> QED
    BY InvariantHolds, <1>1, PTL

\* No asset is published again after the round that proved it.
THEOREM ProvenOnceHolds == Spec => []ProvenOnce
  BY InvariantHolds, PTL DEF IInv

\* A receipt is committed on the tree it was proven with.
THEOREM CommittedOnOwnTreeHolds == Spec => CommittedOnOwnTree
  <1>1. IInv /\ [Next]_vars =>
            [authority' # authority => authority'.controlPlane = main'.tree]_authority
    <2> SUFFICES ASSUME IInv, [Next]_vars, authority' # authority
                 PROVE  authority'.controlPlane = main'.tree
      OBVIOUS
    <2>1. Push
      BY DEF Next, Job, Qualify, Prepare, BuildPartition, RecordRound, Finish, Dispatch, Rerun,
             Kill, TimeOut, OtherPush, Produce, envVars, vars
    <2>2. pc = "push" /\ authority' = receipt /\ main.head = base.head
          /\ main' = Pushed(main.tree)
      BY <2>1 DEF Push
    <2> QED
      BY <2>2 DEF IInv, BranchMovesOn, ReceiptIsTheSearch, Pushed
  <1> QED
    BY InvariantHolds, <1>1, PTL DEF Spec, CommittedOnOwnTree

-----------------------------------------------------------------------------
(* Finite sets of integers, and the order of selections *)

\* What every subset of a finite set has that all its own subsets have it of:
\* of the sets without it, one is minimal.
LEMMA EverySubset ==
    ASSUME NEW D, IsFiniteSet(D), NEW S,
           \A T \in SUBSET D : (\A R \in SUBSET T : R # T => R \in S) => T \in S
    PROVE  SUBSET D \subseteq S
  <1> DEFINE Bad == {T \in SUBSET D : T \notin S}
             Order == StrictSubsetOrdering(D)
  <1> SUFFICES ASSUME Bad # {} PROVE FALSE
    OBVIOUS
  <1>1. Bad \subseteq FiniteSubsetsOf(D)
    BY FS_Subset DEF FiniteSubsetsOf
  <1>2. IsWellFoundedOn(Order, FiniteSubsetsOf(D))
    BY FS_StrictSubsetOrderingWellFounded
  <1>3. \E T \in Bad : \A R \in Bad : <<R, T>> \notin Order
    <2> HIDE DEF Bad, Order
    <2> QED
      BY <1>1, <1>2, WFMin
  <1>4. PICK T \in Bad : \A R \in Bad : <<R, T>> \notin Order
    BY <1>3
  <1>5. ASSUME NEW R \in SUBSET T, R # T PROVE R \in S
    <2>1. <<R, T>> \in Order
      BY <1>5 DEF StrictSubsetOrdering
    <2> QED
      BY <1>4, <2>1
  <1> QED
    BY <1>4, <1>5

\* Finite sets of integers.
Numbers(S) == S \subseteq Int /\ IsFiniteSet(S)

\* A finite set of integers has a greatest and a least element.
LEMMA Extremes ==
    ASSUME NEW X, Numbers(X), X # {}
    PROVE  /\ Max(X) \in X /\ \A y \in X : Max(X) >= y
           /\ Min(X) \in X /\ \A y \in X : Min(X) =< y
  <1> DEFINE S == {T \in SUBSET X : T # {} => /\ \E x \in T : \A y \in T : x >= y
                                              /\ \E x \in T : \A y \in T : x =< y}
  <1>1. ASSUME NEW T \in SUBSET X, \A R \in SUBSET T : R # T => R \in S
        PROVE  T \in S
    <2> SUFFICES ASSUME T # {}
                 PROVE  /\ \E x \in T : \A y \in T : x >= y
                        /\ \E x \in T : \A y \in T : x =< y
      OBVIOUS
    <2>1. PICK t \in T : TRUE
      OBVIOUS
    <2>2. T \ {t} \in S
      BY <1>1, <2>1
    <2>3. t \in Int /\ (\A y \in T : y \in Int) /\ T = (T \ {t}) \cup {t}
      BY <2>1 DEF Numbers
    <2>4. CASE T \ {t} = {}
      BY <2>3, <2>4
    <2>5. CASE T \ {t} # {}
      <3>1. PICK x \in T \ {t} : \A y \in T \ {t} : x >= y
        BY <2>2, <2>5
      <3>2. PICK z \in T \ {t} : \A y \in T \ {t} : z =< y
        BY <2>2, <2>5
      <3>3. \E u \in T : \A y \in T : u >= y
        <4>1. CASE x >= t
          BY <2>3, <3>1, <4>1
        <4>2. CASE ~(x >= t)
          BY <2>3, <3>1, <4>2
        <4> QED
          BY <4>1, <4>2
      <3>4. \E u \in T : \A y \in T : u =< y
        <4>1. CASE z =< t
          BY <2>3, <3>2, <4>1
        <4>2. CASE ~(z =< t)
          BY <2>3, <3>2, <4>2
        <4> QED
          BY <4>1, <4>2
      <3> QED
        BY <3>3, <3>4
    <2> QED
      BY <2>4, <2>5
  <1>2. X \in S
    <2> HIDE DEF S
    <2> QED
      BY <1>1, EverySubset DEF Numbers
  <1>3. (\E x \in X : \A y \in X : x >= y) /\ (\E x \in X : \A y \in X : x =< y)
    BY <1>2
  <1> QED
    BY <1>3 DEF Max, Min

\* The latest start that only one of two selections has, has the later one.
LaterAt(S, T, a) ==
    /\ a \in S /\ a \notin T
    /\ \A c \in S \cup T : c > a => c \in S /\ c \in T

\* That is the comparison of the code.
LEMMA LaterIs ==
    ASSUME NEW S, NEW T, Numbers(S), Numbers(T)
    PROVE  Later(S, T) <=> \E a : LaterAt(S, T, a)
  <1> DEFINE X == (S \cup T) \ (S \cap T)
  <1>1. Numbers(X)
    BY FS_Union, FS_Subset DEF Numbers
  <1>2. S # T <=> X # {}
    OBVIOUS
  <1>3. ASSUME Later(S, T) PROVE LaterAt(S, T, Max(X))
    <2>1. Max(X) \in S /\ X # {}
      BY <1>3 DEF Later
    <2>2. Max(X) \in X /\ (\A y \in X : Max(X) >= y)
      BY <1>1, <2>1, Extremes
    <2>3. \A y \in S \cup T : y \in Int
      BY DEF Numbers
    <2>4. \A c \in S \cup T : c > Max(X) => c \in S /\ c \in T
      BY <2>1, <2>2, <2>3
    <2> HIDE DEF X
    <2>5. Max(X) \notin T
      BY <2>1, <2>2 DEF X
    <2> QED
      BY <2>1, <2>4, <2>5 DEF LaterAt
  <1>4. ASSUME NEW a, LaterAt(S, T, a) PROVE Later(S, T)
    <2>1. a \in X
      BY <1>4 DEF LaterAt
    <2>2. Max(X) \in X /\ (\A y \in X : Max(X) >= y)
      BY <1>1, <2>1, Extremes
    <2>3. Max(X) = a
      <3>1. a \in Int /\ Max(X) \in Int
        BY <1>1, <2>1, <2>2 DEF Numbers
      <3>2. Max(X) >= a
        BY <2>1, <2>2
      <3>3. ~(Max(X) > a)
        BY <1>4, <2>2 DEF LaterAt
      <3> QED
        BY <3>1, <3>2, <3>3
    <2> QED
      BY <1>4, <2>1, <2>3 DEF Later, LaterAt
  <1> QED
    BY <1>3, <1>4

\* Better is a strict order of the selections, and total.
LEMMA BetterIsTotal ==
    ASSUME NEW S, NEW T, Numbers(S), Numbers(T)
    PROVE  /\ S # T => Better(S, T) \/ Better(T, S)
           /\ ~(Better(S, T) /\ Better(T, S))
  <1>1. Cardinality(S) \in Nat /\ Cardinality(T) \in Nat
    BY FS_CardinalityType DEF Numbers
  <1> DEFINE X == (S \cup T) \ (S \cap T)
  <1>2. S # T => Later(S, T) \/ Later(T, S)
    <2> SUFFICES ASSUME S # T PROVE Later(S, T) \/ Later(T, S)
      OBVIOUS
    <2>1. Numbers(X) /\ X # {}
      BY FS_Union, FS_Subset DEF Numbers
    <2>2. Max(X) \in X
      BY <2>1, Extremes
    <2>3. X = (T \cup S) \ (T \cap S)
      OBVIOUS
    <2>4. Max(X) \in S => Later(S, T)
      BY DEF Later
    <2>5. Max(X) \in T => Later(T, S)
      BY <2>3 DEF Later
    <2> QED
      BY <2>2, <2>4, <2>5
  <1>3. ~(Later(S, T) /\ Later(T, S))
    <2> SUFFICES ASSUME NEW a, LaterAt(S, T, a), NEW b, LaterAt(T, S, b) PROVE FALSE
      BY LaterIs
    <2>1. a \in Int /\ b \in Int
      BY DEF LaterAt, Numbers
    <2> QED
      BY <2>1 DEF LaterAt
  <1> QED
    BY <1>1, <1>2, <1>3 DEF Better

\* It is transitive.
LEMMA BetterIsTransitive ==
    ASSUME NEW S, NEW T, NEW U, Numbers(S), Numbers(T), Numbers(U), Better(S, T), Better(T, U)
    PROVE  Better(S, U)
  <1>1. Cardinality(S) \in Nat /\ Cardinality(T) \in Nat /\ Cardinality(U) \in Nat
    BY FS_CardinalityType DEF Numbers
  <1>2. ASSUME Later(S, T), Later(T, U) PROVE Later(S, U)
    <2>1. PICK a : LaterAt(S, T, a)
      BY <1>2, LaterIs
    <2>2. PICK b : LaterAt(T, U, b)
      BY <1>2, LaterIs
    <2>3. a \in Int /\ b \in Int /\ a # b
      BY <2>1, <2>2 DEF LaterAt, Numbers
    <2>4. \A c \in S \cup T \cup U : c \in Int
      BY DEF Numbers
    <2>5. CASE a > b
      <3>1. LaterAt(S, U, a)
        BY <2>1, <2>2, <2>3, <2>4, <2>5 DEF LaterAt
      <3> QED
        BY <3>1, LaterIs
    <2>6. CASE b > a
      <3>1. LaterAt(S, U, b)
        BY <2>1, <2>2, <2>3, <2>4, <2>6 DEF LaterAt
      <3> QED
        BY <3>1, LaterIs
    <2> QED
      BY <2>3, <2>5, <2>6
  <1> QED
    BY <1>1, <1>2 DEF Better

\* A finite number of selections has a best one.
LEMMA SomeBest ==
    ASSUME NEW Z, IsFiniteSet(Z), \A S \in Z : Numbers(S), Z # {}
    PROVE  \E B \in Z : \A T \in Z \ {B} : Better(B, T)
  <1> DEFINE G == {Y \in SUBSET Z : Y # {} => \E B \in Y : \A T \in Y \ {B} : Better(B, T)}
  <1>1. ASSUME NEW Y \in SUBSET Z, \A R \in SUBSET Y : R # Y => R \in G
        PROVE  Y \in G
    <2> SUFFICES ASSUME Y # {} PROVE \E B \in Y : \A T \in Y \ {B} : Better(B, T)
      OBVIOUS
    <2>1. PICK y \in Y : TRUE
      OBVIOUS
    <2>2. Y \ {y} \in G
      BY <1>1, <2>1
    <2>3. CASE Y \ {y} = {}
      BY <2>1, <2>3
    <2>4. CASE Y \ {y} # {}
      <3>1. PICK b \in Y \ {y} : \A T \in (Y \ {y}) \ {b} : Better(b, T)
        BY <2>2, <2>4
      <3>2. Numbers(b) /\ Numbers(y) /\ b # y
        BY <2>1, <3>1
      <3>3. CASE Better(b, y)
        BY <3>1, <3>3
      <3>4. CASE Better(y, b)
        <4>1. \A T \in Y \ {y} : Better(y, T)
          BY <2>1, <3>1, <3>2, <3>4, BetterIsTransitive
        <4> QED
          BY <2>1, <4>1
      <3> QED
        BY <3>2, <3>3, <3>4, BetterIsTotal
    <2> QED
      BY <2>3, <2>4
  <1>2. Z \in G
    <2> HIDE DEF G
    <2> QED
      BY <1>1, EverySubset
  <1> QED
    BY <1>2

-----------------------------------------------------------------------------
(* The minimum cover *)

\* The selections kept after the starts of each set of starts in D.
KeepsIn(served, required, D, after) ==
    after = [S \in SUBSET D |->
                IF S = {} THEN {{}}
                ELSE UNION {Extend(kept, Min(S), served, required) :
                                kept \in {after[S \ {Min(S)}]}}]

\* The walk through the starts is defined.
LEMMA WalkDefined ==
    ASSUME NEW served, NEW required, Numbers(DOMAIN served)
    PROVE  \E after : /\ KeepsIn(served, required, DOMAIN served, after)
                      /\ BestSelections(served, required) = after[DOMAIN served]
  <1> DEFINE D == DOMAIN served
             G == {T \in SUBSET D : \E f : KeepsIn(served, required, T, f)}
  <1>1. ASSUME NEW T \in SUBSET D, \A R \in SUBSET T : R # T => R \in G
        PROVE  T \in G
    <2>1. CASE T = {}
      <3> DEFINE f == [S \in SUBSET {} |-> {{}}]
                 g == [S \in SUBSET {} |->
                          IF S = {} THEN {{}}
                          ELSE UNION {Extend(kept, Min(S), served, required) :
                                          kept \in {f[S \ {Min(S)}]}}]
      <3>1. f = g
        OBVIOUS
      <3> HIDE DEF f
      <3>2. KeepsIn(served, required, {}, f)
        BY <3>1 DEF KeepsIn
      <3> QED
        BY <2>1, <3>2
    <2>2. CASE T # {}
      <3> DEFINE m == Min(T)
      <3>1. Numbers(T)
        BY FS_Subset DEF Numbers
      <3>2. m \in T /\ \A y \in T : m =< y
        BY <2>2, <3>1, Extremes
      <3>3. \A S \in SUBSET T : m \in S => Min(S) = m
        <4> SUFFICES ASSUME NEW S \in SUBSET T, m \in S PROVE Min(S) = m
          OBVIOUS
        <4>1. Numbers(S)
          BY <3>1, FS_Subset DEF Numbers
        <4>2. Min(S) \in S /\ Min(S) =< m
          BY <4>1, Extremes
        <4>3. m =< Min(S) /\ m \in Int /\ Min(S) \in Int
          BY <3>1, <3>2, <4>2 DEF Numbers
        <4> HIDE DEF m
        <4> QED
          BY <4>2, <4>3
      <3> HIDE DEF m
      <3>4. T \ {m} \in G
        BY <1>1, <3>2
      <3>5. PICK f : KeepsIn(served, required, T \ {m}, f)
        BY <3>4
      <3> DEFINE Step(h, S) == IF S = {} THEN {{}}
                               ELSE UNION {Extend(kept, Min(S), served, required) :
                                               kept \in {h[S \ {Min(S)}]}}
                 g == [S \in SUBSET T |-> Step(f, S)]
                 h == [S \in SUBSET T |-> Step(g, S)]
      <3>6. f = [S \in SUBSET (T \ {m}) |-> Step(f, S)]
        BY <3>5 DEF KeepsIn
      <3>7. ASSUME NEW S \in SUBSET T PROVE g[S] = h[S]
        <4>1. CASE S = {}
          BY <4>1
        <4>2. CASE S # {}
          <5>1. Min(S) \in S
            <6>1. Numbers(S)
              BY <3>1, FS_Subset DEF Numbers
            <6> QED
              BY <4>2, <6>1, Extremes
          <5>2. S \ {Min(S)} \in SUBSET (T \ {m})
            BY <3>3, <5>1
          <5> DEFINE R == S \ {Min(S)}
          <5>3. f[R] = Step(f, R) /\ g[R] = Step(f, R)
            <6> HIDE DEF Step, R
            <6>1. R \in SUBSET (T \ {m}) /\ R \in SUBSET T
              BY <5>2 DEF R
            <6> QED
              BY <3>6, <6>1
          <5>4. f[S \ {Min(S)}] = g[S \ {Min(S)}]
            BY <5>3
          <5>5. Step(f, S) = Step(g, S)
            <6> HIDE DEF g
            <6> QED
              BY <5>4
          <5> HIDE DEF Step
          <5> QED
            BY <5>5
        <4> QED
          BY <4>1, <4>2
      <3>8. g = h
        <4> HIDE DEF Step
        <4>1. \A S \in SUBSET T : g[S] = h[S]
          BY <3>7
        <4>2. DOMAIN g = SUBSET T /\ DOMAIN h = SUBSET T
          OBVIOUS
        <4>3. \A S \in SUBSET T : Step(f, S) = Step(g, S)
          BY <4>1
        <4> QED
          BY <4>3
      <3>9. KeepsIn(served, required, T, g)
        <4> HIDE DEF g
        <4> QED
          BY <3>8 DEF KeepsIn
      <3> QED
        BY <3>9
    <2> QED
      BY <2>1, <2>2
  <1>2. D \in G
    <2> HIDE DEF G
    <2> QED
      BY <1>1, EverySubset DEF Numbers
  <1> DEFINE after == CHOOSE f : KeepsIn(served, required, D, f)
  <1>3. KeepsIn(served, required, D, after)
    BY <1>2
  <1>4. BestSelections(served, required) = after[D]
    BY DEF BestSelections, KeepsIn
  <1> QED
    BY <1>3, <1>4

\* What the selections kept of a set of starts are: one for each mask, no
\* selection of the starts with that mask is better.
AreBest(served, required, S, kept) ==
    /\ kept \subseteq SUBSET S
    /\ \A B, C \in kept : Covered(B, served, required) = Covered(C, served, required) => B = C
    /\ \A X \in SUBSET S : \E B \in kept :
          /\ Covered(B, served, required) = Covered(X, served, required)
          /\ B = X \/ Better(B, X)

\* What a selection covers.
LEMMA CoveredIs ==
    ASSUME NEW served, NEW required, NEW S, NEW a
    PROVE  /\ a \in UNION {served[s] : s \in S} <=> \E s \in S : a \in served[s]
           /\ a \in Covered(S, served, required) <=> a \in required /\ \E s \in S : a \in served[s]
  <1> DEFINE U == UNION {served[s] : s \in S}
  <1>1. a \in U <=> \E s \in S : a \in served[s]
    BY Zenon
  <1>2. Covered(S, served, required) = U \cap required
    BY DEF Covered
  <1> HIDE DEF U
  <1>3. a \in Covered(S, served, required) <=> a \in U /\ a \in required
    BY <1>2
  <1> QED
    BY <1>1, <1>3 DEF U

\* A start that is in neither selection makes neither better.
LEMMA StillBetter ==
    ASSUME NEW S, NEW T, Numbers(S), Numbers(T), NEW m \in Int, m \notin S, m \notin T, Better(S, T)
    PROVE  Better(S \cup {m}, T \cup {m})
  <1>1. /\ Cardinality(S) \in Nat /\ Cardinality(T) \in Nat
        /\ Cardinality(S \cup {m}) = Cardinality(S) + 1
        /\ Cardinality(T \cup {m}) = Cardinality(T) + 1
    BY FS_CardinalityType, FS_AddElement DEF Numbers
  <1>2. Later(S, T) => Later(S \cup {m}, T \cup {m})
    <2>1. ((S \cup {m}) \cup (T \cup {m})) \ ((S \cup {m}) \cap (T \cup {m}))
             = (S \cup T) \ (S \cap T)
      OBVIOUS
    <2>2. S # T => S \cup {m} # T \cup {m}
      OBVIOUS
    <2> QED
      BY <2>1, <2>2 DEF Later
  <1> QED
    BY <1>1, <1>2 DEF Better

\* One start more.
LEMMA ExtendIsBest ==
    ASSUME NEW served, NEW required, NEW S, Numbers(S), S # {},
           NEW kept, AreBest(served, required, S \ {Min(S)}, kept)
    PROVE  AreBest(served, required, S, Extend(kept, Min(S), served, required))
  <1> DEFINE m == Min(S)
             R == S \ {m}
             all == kept \cup {K \cup {m} : K \in kept}
             new == Extend(kept, m, served, required)
             Cov(X) == Covered(X, served, required)
  <1>1. m \in S /\ m \in Int /\ m \notin R
    BY Extremes DEF Numbers
  <1> HIDE DEF m
  <1>2. /\ kept \subseteq SUBSET R
        /\ \A X \in SUBSET R : \E B \in kept : Cov(B) = Cov(X) /\ (B = X \/ Better(B, X))
    BY DEF AreBest, m
  <1>3. \A X \in SUBSET S : Numbers(X)
    BY FS_Subset DEF Numbers
  <1>4. all \subseteq SUBSET S /\ IsFiniteSet(all)
    <2>1. all \subseteq SUBSET S
      <3>1. \A K \in kept : K \subseteq S /\ K \cup {m} \subseteq S
        BY <1>1, <1>2
      <3> QED
        BY <3>1
    <2>2. IsFiniteSet(SUBSET S)
      BY FS_SUBSET DEF Numbers
    <2> HIDE DEF all
    <2> QED
      BY <2>1, <2>2, FS_Subset
  <1>5. new = {B \in all : \A T \in all \ {B} : Cov(T) = Cov(B) => Better(B, T)}
    BY DEF Extend
  <1>6. ASSUME NEW X PROVE Cov(X \cup {m}) = Cov(X) \cup (served[m] \cap required)
    <2>1. ASSUME NEW a
          PROVE  a \in Cov(X \cup {m}) <=> a \in Cov(X) \cup (served[m] \cap required)
      BY CoveredIs
    <2> QED
      BY <2>1
  <1>7. \A K \in kept : K \in all /\ K \cup {m} \in all
    OBVIOUS
  <1> HIDE DEF all, new, Cov
  <1>8. ASSUME NEW B \in new, NEW C \in new, Cov(B) = Cov(C) PROVE B = C
    <2> SUFFICES ASSUME B # C PROVE FALSE
      OBVIOUS
    <2>1. Better(B, C) /\ Better(C, B) /\ Numbers(B) /\ Numbers(C)
      BY <1>3, <1>4, <1>5, <1>8
    <2> QED
      BY <2>1, BetterIsTotal
  <1>9. ASSUME NEW X \in SUBSET S
        PROVE  \E B \in new : Cov(B) = Cov(X) /\ (B = X \/ Better(B, X))
    <2>1. \E B \in all : Cov(B) = Cov(X) /\ (B = X \/ Better(B, X))
      <3>1. CASE m \notin X
        <4>1. X \in SUBSET R
          BY <3>1
        <4> QED
          BY <1>2, <1>7, <4>1
      <3>2. CASE m \in X
        <4> DEFINE Y == X \ {m}
        <4>1. Y \in SUBSET R /\ X = Y \cup {m} /\ m \notin Y
          BY <3>2
        <4> HIDE DEF Y
        <4>2. PICK K \in kept : Cov(K) = Cov(Y) /\ (K = Y \/ Better(K, Y))
          BY <1>2, <4>1
        <4>3. Cov(K \cup {m}) = Cov(X)
          BY <1>6, <4>1, <4>2
        <4>4. K \cup {m} = X \/ Better(K \cup {m}, X)
          <5>1. K \in SUBSET R /\ m \notin K
            BY <1>1, <1>2
          <5>2. Numbers(K) /\ Numbers(Y)
            BY <1>3, <4>1, <5>1
          <5> QED
            BY <1>1, <4>1, <4>2, <5>1, <5>2, StillBetter
        <4> QED
          BY <1>7, <4>3, <4>4
      <3> QED
        BY <3>1, <3>2
    <2>2. PICK A \in all : Cov(A) = Cov(X) /\ (A = X \/ Better(A, X))
      BY <2>1
    <2> DEFINE Z == {T \in all : Cov(T) = Cov(X)}
    <2>3. IsFiniteSet(Z) /\ (\A T \in Z : Numbers(T)) /\ A \in Z
      <3>1. Z \in SUBSET all
        OBVIOUS
      <3>2. IsFiniteSet(Z)
        BY <1>4, <3>1, FS_Subset
      <3> QED
        BY <1>3, <1>4, <2>2, <3>2
    <2>4. PICK B \in Z : \A T \in Z \ {B} : Better(B, T)
      <3> HIDE DEF Z
      <3> QED
        BY <2>3, SomeBest
    <2>5. B \in new /\ Cov(B) = Cov(X)
      BY <1>5, <2>4
    <2>6. B = X \/ Better(B, X)
      <3>1. B = A \/ Better(B, A)
        BY <2>3, <2>4
      <3>2. Numbers(A) /\ Numbers(B) /\ Numbers(X)
        BY <1>3, <2>3
      <3> QED
        BY <2>2, <3>1, <3>2, BetterIsTransitive
    <2> QED
      BY <2>5, <2>6
  <1>10. new \subseteq SUBSET S
    BY <1>4, <1>5
  <1> QED
    BY <1>8, <1>9, <1>10 DEF AreBest, new, Cov, m

\* The selections that are kept in the end are the best.
LEMMA SelectionsAreBest ==
    ASSUME NEW served, NEW required, Numbers(DOMAIN served)
    PROVE  AreBest(served, required, DOMAIN served, BestSelections(served, required))
  <1> DEFINE D == DOMAIN served
  <1>1. PICK after : /\ KeepsIn(served, required, D, after)
                     /\ BestSelections(served, required) = after[D]
    BY WalkDefined
  <1> DEFINE G == {S \in SUBSET D : AreBest(served, required, S, after[S])}
  <1>2. ASSUME NEW S \in SUBSET D, \A R \in SUBSET S : R # S => R \in G
        PROVE  S \in G
    <2>1. after[S] = IF S = {} THEN {{}}
                     ELSE UNION {Extend(kept, Min(S), served, required) :
                                     kept \in {after[S \ {Min(S)}]}}
      BY <1>1 DEF KeepsIn
    <2>2. CASE S = {}
      <3>1. AreBest(served, required, {}, {{}})
        BY DEF AreBest
      <3> QED
        BY <2>1, <2>2, <3>1
    <2>3. CASE S # {}
      <3>1. Numbers(S)
        BY FS_Subset DEF Numbers
      <3>2. Min(S) \in S
        BY <2>3, <3>1, Extremes
      <3>3. AreBest(served, required, S \ {Min(S)}, after[S \ {Min(S)}])
        BY <1>2, <3>2
      <3>4. after[S] = Extend(after[S \ {Min(S)}], Min(S), served, required)
        <4> DEFINE E(kept) == Extend(kept, Min(S), served, required)
                   rest == after[S \ {Min(S)}]
        <4>1. after[S] = UNION {E(kept) : kept \in {rest}}
          BY <2>1, <2>3
        <4> HIDE DEF E, rest
        <4>2. UNION {E(kept) : kept \in {rest}} = E(rest)
          BY Zenon
        <4> QED
          BY <4>1, <4>2 DEF E, rest
      <3> QED
        BY <2>3, <3>1, <3>3, <3>4, ExtendIsBest
    <2> QED
      BY <2>2, <2>3
  <1>3. D \in G
    <2> HIDE DEF G
    <2> QED
      BY <1>2, EverySubset DEF Numbers
  <1> QED
    BY <1>1, <1>3

\* If some starts cover the assets there is a minimum cover.
LEMMA MinimumCoverIsMinimum ==
    ASSUME NEW served, NEW required, Numbers(DOMAIN served),
           NEW X \in SUBSET DOMAIN served, required \subseteq UNION {served[s] : s \in X}
    PROVE  /\ Coverable(served, required)
           /\ IsMinimumCover(MinimumCover(served, required), served, required)
  <1> DEFINE D == DOMAIN served
             best == BestSelections(served, required)
             cover == MinimumCover(served, required)
             covers(T) == required \subseteq UNION {served[s] : s \in T}
  <1>1. AreBest(served, required, D, best)
    BY SelectionsAreBest
  <1>2. ASSUME NEW T PROVE covers(T) <=> Covered(T, served, required) = required
    <2>1. \A a : /\ a \in UNION {served[s] : s \in T} <=> \E s \in T : a \in served[s]
                 /\ a \in Covered(T, served, required)
                       <=> a \in required /\ \E s \in T : a \in served[s]
      BY CoveredIs
    <2>2. covers(T) <=> \A a \in required : a \in UNION {served[s] : s \in T}
      BY Zenon
    <2>3. covers(T) <=> \A a \in required : \E s \in T : a \in served[s]
      BY <2>1, <2>2, Zenon
    <2>4. Covered(T, served, required) = required
             <=> \A a \in required : \E s \in T : a \in served[s]
      <3>1. Covered(T, served, required) = required
               <=> \A a : a \in Covered(T, served, required) <=> a \in required
        OBVIOUS
      <3> QED
        BY <2>1, <3>1, Zenon
    <2> QED
      BY <2>3, <2>4, Zenon
  <1> HIDE DEF best
  <1>3. \E B \in best : Covered(B, served, required) = required
    BY <1>1, <1>2 DEF AreBest
  <1>4. /\ Covers(served, required) # {} /\ cover \in best
        /\ Covered(cover, served, required) = required
    BY <1>3 DEF Covers, MinimumCover, best
  <1> HIDE DEF cover
  <1>5. ASSUME NEW T \in SUBSET D, covers(T)
        PROVE  cover = T \/ Better(cover, T)
    <2>1. Covered(T, served, required) = required
      BY <1>2, <1>5
    <2>2. PICK B \in best : /\ Covered(B, served, required) = Covered(T, served, required)
                            /\ B = T \/ Better(B, T)
      BY <1>1 DEF AreBest
    <2> QED
      BY <1>1, <1>4, <2>1, <2>2 DEF AreBest
  <1>6. cover \in SUBSET D
    BY <1>1, <1>4 DEF AreBest
  <1>7. covers(cover)
    BY <1>2, <1>4
  <1> QED
    BY <1>4, <1>5, <1>6, <1>7 DEF Coverable, IsMinimumCover, Better, cover

-----------------------------------------------------------------------------
(* The search *)

\* The rounds that were recorded.
Done == IF pc \in {"finish", "push"} THEN round ELSE round - 1
\* The rounds whose markets were asked for.
Asked ==
    IF pc \in {"prepare", "build", "record", "finish", "push"} THEN round ELSE round - 1

\* Types, and what goes with them.
Typed ==
    /\ TypeOK
    /\ world \in Worlds
    /\ run <= attempt /\ (pc \in Running => attempt > 0)
    /\ pc \in {"prepare", "build", "record"} => candidates # {}

\* A round has one tag, and its candidates and requests are within bounds.
Counted ==
    /\ IsFiniteSet(tags) /\ Cardinality(tags) = Done
    /\ IsFiniteSet(qualified)
    /\ \A t \in tags : t[2] \in 1..Done
    /\ qualified \subseteq UNION {CandidateStarts(r) : r \in 1..Done}
    /\ Cardinality(qualified) \in Done..Done * MaxCandidates
    /\ gamma \in 0..Asked * (MaxCandidates * AssetCount)
    /\ heads \in Asked..Asked * (MaxCandidates + 1)

\* The bindings of an asset at some starts.
Bindings(a, S) == {[start |-> s, id |-> Identity(a, s)] : s \in S}
\* The usable starts of an asset are those of its proof; it has none before.
Found ==
    \A a \in Assets :
        IF a \in uncovered THEN UsableByAsset[a] = {}
        ELSE /\ UsableByAsset[a] # {}
             /\ proofs[a].tier = "TIER_A"
             /\ proofs[a].bindings = Bindings(a, UsableByAsset[a])

\* The starts at which an asset is used, or may be after this round.
Chosen(a) ==
    UsableByAsset[a] \cup
        (IF a \in uncovered /\ pc \in {"prepare", "build", "record"} THEN candidates ELSE {})
\* No two such markets have one id, and a later round knows their ids.
Distinguished ==
    /\ \A a, c \in Assets : \A s \in Chosen(a), t \in Chosen(c) :
          Identity(a, s) = Identity(c, t) => a = c /\ s = t
    /\ \A a \in Assets : \A s \in Chosen(a) : Identity(a, s) \in seen

\* The inductive invariant of the search.
Search ==
    /\ Typed /\ Counted /\ Found /\ Distinguished
    /\ pc = "push" => receipt = NewReceipt

-----------------------------------------------------------------------------
\* The constants of the search.
LEMMA Limits ==
    /\ AssetCount \in Nat /\ AssetCount > 0 /\ RoundCount \in Nat /\ RoundCount > 0
    /\ MaxCandidates \in Nat /\ MaxCandidates > 0 /\ ComputeCandidates \in Nat
    /\ MaxAttempts \in Nat /\ MaxFaults \in Nat
    /\ Numbers(Assets) /\ Cardinality(Assets) = AssetCount
    /\ Starts \subseteq Int
    /\ \A r \in Rounds : /\ r \in Nat /\ r > 0 /\ r <= RoundCount
                         /\ RoundTop[r] \in Int
                         /\ CandidateStarts(r) \subseteq Starts
                         /\ Numbers(CandidateStarts(r))
                         /\ Cardinality(CandidateStarts(r)) = MaxCandidates
  <1>1. /\ AssetCount \in Nat /\ AssetCount > 0 /\ RoundCount \in Nat /\ RoundCount > 0
        /\ MaxCandidates \in Nat /\ MaxCandidates > 0 /\ ComputeCandidates \in Nat
        /\ MaxAttempts \in Nat /\ MaxFaults \in Nat
        /\ \A r \in Rounds : RoundTop[r] \in Int
    BY CanaryAssumption
  <1>2. Numbers(Assets) /\ Cardinality(Assets) = AssetCount
    BY <1>1, FS_Interval DEF Numbers, Assets
  <1>3. ASSUME NEW r \in Rounds
        PROVE  /\ r \in Nat /\ r > 0 /\ r <= RoundCount
               /\ CandidateStarts(r) \subseteq Starts
               /\ Numbers(CandidateStarts(r))
               /\ Cardinality(CandidateStarts(r)) = MaxCandidates
    <2>1. RoundTop[r] \in Int /\ RoundTop[r] - MaxCandidates + 1 \in Int
      BY <1>1
    <2> DEFINE first == RoundTop[r] - MaxCandidates + 1
    <2>2. first \in Int /\ RoundTop[r] - first + 1 = MaxCandidates /\ first <= RoundTop[r]
      BY <1>1, <2>1
    <2>3. CandidateStarts(r) = first..RoundTop[r]
      BY DEF CandidateStarts
    <2> HIDE DEF first
    <2>4. IsFiniteSet(first..RoundTop[r]) /\ Cardinality(first..RoundTop[r]) = MaxCandidates
      <3>1. \A a, b \in Int : a <= b => IsFiniteSet(a..b) /\ Cardinality(a..b) = b - a + 1
        BY FS_Interval
      <3> QED
        BY <2>1, <2>2, <3>1
    <2>5. IsFiniteSet(CandidateStarts(r)) /\ Cardinality(CandidateStarts(r)) = MaxCandidates
      BY <2>3, <2>4
    <2>6. CandidateStarts(r) \subseteq Starts
      BY DEF Starts
    <2> QED
      BY <1>1, <2>1, <2>5, <2>6 DEF Rounds, Numbers, CandidateStarts
  <1>4. Starts \subseteq Int
    <2> SUFFICES ASSUME NEW s \in Starts PROVE s \in Int
      OBVIOUS
    <2>1. PICK r \in Rounds : s \in CandidateStarts(r)
      BY DEF Starts
    <2> QED
      BY <1>3, <2>1 DEF Numbers
  <1> QED
    BY <1>1, <1>2, <1>3, <1>4

\* Candidates of a round are what the requests were for.
LEMMA CandidatesOfRound ==
    ASSUME round \in Rounds, uncovered \subseteq Assets, NEW C, C = Qualified(round), C # {}
    PROVE  /\ C \subseteq CandidateStarts(round)
           /\ \A a \in uncovered, s \in C : <<a, s>> \in Fetched(round)
           /\ Cardinality(Requested(round)) \in 0..MaxCandidates * AssetCount
           /\ Cardinality(Objects(C)) \in 1..MaxCandidates + 1
  <1> DEFINE S == CandidateStarts(round)
  <1>1. Numbers(S) /\ Cardinality(S) = MaxCandidates /\ RoundTop[round] \in Int
        /\ MaxCandidates \in Nat /\ AssetCount \in Nat
        /\ Numbers(Assets) /\ Cardinality(Assets) = AssetCount
    BY Limits
  <1>2. C \subseteq S /\ \A s \in C : Acceptable(s)
    BY DEF Qualified
  <1>3. Numbers(C)
    BY <1>1, <1>2, FS_Subset DEF Numbers
  <1>4. Min(C) \in C /\ Max(C) \in C /\ (\A y \in C : Min(C) =< y /\ Max(C) >= y)
    BY <1>3, Extremes
  <1>5. C \subseteq Walked(round)
    BY <1>2, <1>4 DEF Walked
  <1>6. \A a \in uncovered, s \in C : <<a, s>> \in Fetched(round)
    BY <1>2, <1>5 DEF Fetched, Acceptable
  <1>7. Cardinality(Requested(round)) \in 0..MaxCandidates * AssetCount
    <2>1. Walked(round) \subseteq S
      BY DEF Walked
    <2>2. Requested(round) \in SUBSET (Assets \X S)
      BY <2>1 DEF Requested
    <2>3. IsFiniteSet(Assets \X S) /\ Cardinality(Assets \X S) = AssetCount * MaxCandidates
      BY <1>1, FS_Product DEF Numbers
    <2>4. /\ Cardinality(Requested(round)) \in Nat
          /\ Cardinality(Requested(round)) <= AssetCount * MaxCandidates
      BY <2>2, <2>3, FS_Subset, FS_CardinalityType
    <2>5. AssetCount * MaxCandidates = MaxCandidates * AssetCount
          /\ MaxCandidates * AssetCount \in Nat
      BY <1>1
    <2> QED
      BY <2>4, <2>5
  <1>8. Cardinality(Objects(C)) \in 1..MaxCandidates + 1
    <2>1. /\ Min(C) \in Int /\ Max(C) \in Int /\ Min(C) <= Max(C)
          /\ RoundTop[round] - MaxCandidates + 1 <= Min(C) /\ Max(C) <= RoundTop[round]
      BY <1>1, <1>2, <1>3, <1>4 DEF CandidateStarts, Numbers
    <2>2. Cardinality(Objects(C)) = Max(C) - (Min(C) - 1) + 1
      BY <2>1, FS_Interval DEF Objects
    <2> QED
      BY <1>1, <2>1, <2>2
  <1> QED
    BY <1>2, <1>6, <1>7, <1>8

\* A search that is given up, or begun by the next attempt, has found nothing.
LEMMA FreshSearch ==
    ASSUME Search, FreshLocals, UNCHANGED <<world, drafts>>,
           pc' \in {"failed", "passed", "qualify"},
           main' \in [head : Nat, tree : Nat], base' \in [head : Nat, tree : Nat],
           production' \in Nat, before' \in Nat,
           run' \in Nat, attempt' \in 0..MaxAttempts, run' <= attempt',
           pc' = "qualify" => attempt' > 0, faults' \in 0..MaxFaults
    PROVE  Search'
  <1>1. 1 \in Rounds /\ AssetCount \in Nat /\ MaxCandidates \in Nat
    BY Limits DEF Rounds
  <1>2. TypeOK'
    <2>1. late' \in BOOLEAN
      BY DEF FreshLocals
    <2>2. /\ world'.status \in [Assets \X Starts -> Statuses]
          /\ \A d \in drafts' : d.asset \in Assets /\ d.attempt \in 1..MaxAttempts
      BY DEF Search, Typed, TypeOK
    <2>3. /\ usable' \in [Starts -> SUBSET Assets]
          /\ \A a \in Assets : proofs'[a] = None
          /\ candidates' = {} /\ built' = {} /\ qualified' = {} /\ seen' = {} /\ uncovered' = Assets
          /\ round' = 1 /\ gamma' = 0 /\ heads' = 0
      BY DEF FreshLocals
    <2>4. run' \in 0..MaxAttempts
      BY Limits
    <2> QED
      BY <1>1, <2>1, <2>2, <2>3, <2>4 DEF TypeOK, PcStates, Running
  <1>3. Typed'
    <2>1. world' \in Worlds /\ pc' \notin {"prepare", "build", "record"}
      BY DEF Search, Typed
    <2>2. pc' \in Running => pc' = "qualify"
      BY DEF Running
    <2> QED
      BY <1>2, <2>1, <2>2 DEF Typed
  <1>4. Done' = 0 /\ Asked' = 0
    BY DEF FreshLocals, Done, Asked
  <1>5. Counted'
    <2>1. IsFiniteSet({}) /\ Cardinality({}) = 0
      BY FS_EmptySet
    <2>2. tags' = {} /\ qualified' = {} /\ gamma' = 0 /\ heads' = 0
      BY DEF FreshLocals
    <2>3. /\ 0 * (MaxCandidates * AssetCount) = 0 /\ 0 * (MaxCandidates + 1) = 0
          /\ 0 * MaxCandidates = 0
      BY <1>1
    <2> QED
      BY <1>4, <2>1, <2>2, <2>3 DEF Counted
  <1>6. uncovered' = Assets /\ \A a \in Assets : UsableByAsset'[a] = {}
    BY DEF FreshLocals, UsableByAsset
  <1>7. Found'
    BY <1>6 DEF Found
  <1>8. \A a \in Assets : Chosen(a)' = {}
    BY <1>6 DEF Chosen
  <1>9. Distinguished'
    BY <1>8 DEF Distinguished
  <1> QED
    BY <1>3, <1>5, <1>7, <1>9 DEF Search

\* Steps within a round, and the making of the receipt, leave what it found.
LEMMA SearchStands ==
    ASSUME Search, UNCHANGED <<world, searchVars, candidates>>,
           \/ pc' = pc
           \/ pc = "prepare" /\ pc' = "build"
           \/ pc = "build" /\ pc' = "record"
           \/ pc = "finish" /\ pc' = "push"
    PROVE  Counted' /\ Found' /\ Distinguished'
  <1>1. Done' = Done /\ Asked' = Asked
    BY DEF Done, Asked, searchVars
  <1>2. Counted'
    BY <1>1 DEF Search, Counted, searchVars
  <1>3. UsableByAsset' = UsableByAsset /\ \A a, s : Identity(a, s)' = Identity(a, s)
    BY DEF UsableByAsset, searchVars, Identity
  <1>4. Found'
    BY <1>3 DEF Search, Found, Bindings, searchVars, Identity
  <1>5. \A a \in Assets : Chosen(a)' = Chosen(a)
    BY <1>3 DEF Chosen, searchVars
  <1>6. Distinguished'
    BY <1>3, <1>5 DEF Search, Distinguished, searchVars
  <1> QED
    BY <1>2, <1>4, <1>6

\* What others do meanwhile.
LEMMA SearchGoesOn ==
    ASSUME Search, UNCHANGED <<world, base, before, drafts, attempt, run, built, candidates,
                               searchVars, receipt, pc>>,
           main' \in [head : Nat, tree : Nat], production' \in Nat, late' \in BOOLEAN,
           faults' \in 0..MaxFaults
    PROVE  Search'
  <1>1. Counted' /\ Found' /\ Distinguished'
    BY SearchStands
  <1>2. Typed'
    <2> USE DEF Search, Typed, searchVars
    <2>1. late' \in BOOLEAN
      OBVIOUS
    <2>2. /\ \A a \in Assets : proofs'[a] = None \/ proofs'[a] \in ProofRecords
      BY DEF TypeOK
    <2>3. TypeOK'
      BY <2>1, <2>2 DEF TypeOK
    <2> QED
      BY <2>3
  <1>3. NewReceipt' = NewReceipt
    BY DEF NewReceipt, UsableByAsset, searchVars
  <1> QED
    BY <1>1, <1>2, <1>3 DEF Search

\* A step of the attempt fails.
LEMMA FailedSearch ==
    ASSUME Search, Fail, UNCHANGED <<world, production, drafts, jobVars>>,
           main' \in [head : Nat, tree : Nat], faults' \in 0..MaxFaults
    PROVE  Search'
  <1>1. /\ pc' = "failed" /\ FreshLocals
        /\ UNCHANGED <<run, attempt, base, before>>
    BY DEF Fail, jobVars
  <1>2. /\ base' \in [head : Nat, tree : Nat] /\ production' \in Nat /\ before' \in Nat
        /\ run' \in Nat /\ attempt' \in 0..MaxAttempts /\ run' <= attempt'
    BY <1>1, Limits DEF Search, Typed, TypeOK
  <1> QED
    BY <1>1, <1>2, FreshSearch

\* What the steps of an attempt leave to others is of its type.
LEMMA OthersTyped ==
    ASSUME Search, UNCHANGED <<envVars, jobVars>>
    PROVE  /\ UNCHANGED <<world, main, production, authority, faults, run, attempt, base, before>>
           /\ main' \in [head : Nat, tree : Nat] /\ base' \in [head : Nat, tree : Nat]
           /\ production' \in Nat /\ before' \in Nat /\ faults' \in 0..MaxFaults
           /\ run' \in 0..MaxAttempts /\ attempt' \in 0..MaxAttempts
           /\ world'.status \in [Assets \X Starts -> Statuses] /\ world' \in Worlds
           /\ run' <= attempt' /\ (pc \in Running => attempt' > 0)
  BY DEF Search, Typed, TypeOK, envVars, jobVars

\* The candidates of a round are as many markets of their own.
LEMMA QualifySearch == ASSUME Search, Qualify PROVE Search'
  <1>1. UNCHANGED <<envVars, jobVars, drafts>> /\ pc = "qualify"
    BY DEF Qualify
  <1>2. CASE Fail
    BY <1>1, <1>2, OthersTyped, FailedSearch
  <1>3. ASSUME NEW C, C = Qualified(round), ~Reused(round), C # {},
               pc' = "prepare", candidates' = C,
               seen' = seen \cup {Identity(a, s) : a \in uncovered, s \in C},
               gamma' = gamma + Cardinality(Requested(round)),
               heads' = heads + Cardinality(Objects(C)),
               UNCHANGED <<round, uncovered, usable, qualified, proofs, tags, built, late, receipt>>
        PROVE  Search'
    <2>1. /\ round \in Rounds /\ round \in Nat /\ round > 0 /\ uncovered \subseteq Assets
          /\ MaxCandidates \in Nat /\ AssetCount \in Nat
          /\ CandidateStarts(round) \subseteq Starts
      BY Limits DEF Search, Typed, TypeOK
    <2>2. /\ C \subseteq CandidateStarts(round)
          /\ \A a \in uncovered, s \in C : <<a, s>> \in Fetched(round)
          /\ Cardinality(Requested(round)) \in 0..MaxCandidates * AssetCount
          /\ Cardinality(Objects(C)) \in 1..MaxCandidates + 1
      BY <1>3, <2>1, CandidatesOfRound
    <2>3. world' = world /\ world.identity \in [Assets \X Starts -> Nat]
      BY <1>1, CanaryAssumption DEF envVars, Search, Typed
    <2>4. \A a \in Assets, s \in Starts : Identity(a, s) \in Nat
      BY <2>3 DEF Identity
    <2>5. \A a, s : Identity(a, s)' = Identity(a, s)
      BY <2>3 DEF Identity
    <2>6. Done' = Done /\ Done = round - 1 /\ Asked = round - 1 /\ Asked' = round
      BY <1>1, <1>3 DEF Done, Asked
    <2>7. gamma \in 0..(round - 1) * (MaxCandidates * AssetCount)
          /\ heads \in round - 1..(round - 1) * (MaxCandidates + 1)
      BY <2>6 DEF Search, Counted
    <2>8. gamma' \in 0..round * (MaxCandidates * AssetCount)
          /\ heads' \in round..round * (MaxCandidates + 1)
      <3> DEFINE K == MaxCandidates * AssetCount
                 H == MaxCandidates + 1
      <3>1. K \in Nat /\ H \in Nat
        BY <2>1
      <3>2. /\ gamma \in 0..(round - 1) * K /\ gamma' = gamma + Cardinality(Requested(round))
            /\ heads \in round - 1..(round - 1) * H /\ heads' = heads + Cardinality(Objects(C))
            /\ Cardinality(Requested(round)) \in 0..K
            /\ Cardinality(Objects(C)) \in 1..H
        BY <1>3, <2>2, <2>7
      <3> HIDE DEF K, H
      <3>3. (round - 1) * K + K = round * K /\ (round - 1) * H + H = round * H
            /\ (round - 1) * K \in Int /\ (round - 1) * H \in Int
        BY <2>1, <3>1
      <3>4. gamma' \in 0..round * K /\ heads' \in round..round * H
        BY <2>1, <3>1, <3>2, <3>3
      <3> QED
        BY <3>4 DEF K, H
    <2>9. Typed'
      <3>1. TypeOK'
        <4>1. late' \in BOOLEAN
          BY <1>3 DEF Search, Typed, TypeOK
        <4>2. \A a \in Assets : proofs'[a] = None \/ proofs'[a] \in ProofRecords
          BY <1>3 DEF Search, Typed, TypeOK
        <4>3. seen' \subseteq Nat
          <5> SUFFICES ASSUME NEW i \in seen', i \notin seen PROVE i \in Nat
            BY DEF Search, Typed, TypeOK
          <5>1. PICK a \in uncovered, s \in C : i = Identity(a, s)
            BY <1>3
          <5> QED
            BY <2>1, <2>2, <2>4, <5>1
        <4>4. gamma' \in Nat /\ heads' \in Nat
          <5>1. round * (MaxCandidates * AssetCount) \in Int /\ round * (MaxCandidates + 1) \in Int
            BY <2>1
          <5> QED
            BY <2>1, <2>8, <5>1
        <4>5. /\ candidates' \subseteq CandidateStarts(round')
              /\ round' \in Rounds /\ uncovered' \subseteq Assets /\ built' \subseteq uncovered'
              /\ usable' \in [Starts -> SUBSET Assets] /\ qualified' \subseteq Starts
              /\ pc' \in PcStates
          BY <1>3, <2>2 DEF Search, Typed, TypeOK, PcStates, Running
        <4>6. \A d \in drafts' : d.asset \in Assets /\ d.attempt \in 1..MaxAttempts
          BY <1>1 DEF Search, Typed, TypeOK
        <4> QED
          BY <1>1, <4>1, <4>2, <4>3, <4>4, <4>5, <4>6, OthersTyped DEF TypeOK
      <3> QED
        BY <1>1, <1>3, <3>1, OthersTyped DEF Typed, Running
    <2>10. Counted'
      BY <1>3, <2>6, <2>8 DEF Search, Counted
    <2>11. UsableByAsset' = UsableByAsset
      BY <1>3 DEF UsableByAsset
    <2>12. Found'
      BY <1>3, <2>5, <2>11 DEF Search, Found, Bindings
    <2>13. \A a \in Assets : /\ Chosen(a) = UsableByAsset[a]
                             /\ Chosen(a)' = IF a \in uncovered THEN C ELSE Chosen(a)
      <3>1. \A a \in Assets \cap uncovered : UsableByAsset[a] = {}
        BY DEF Search, Found
      <3> QED
        BY <1>1, <1>3, <2>11, <3>1 DEF Chosen
    <2>14. \A a \in uncovered, s \in C : Identity(a, s) \notin seen
      BY <1>3, <2>2 DEF Reused, Identity
    <2>15. \A a, c \in uncovered : \A s, t \in C : Identity(a, s) = Identity(c, t) => a = c /\ s = t
      <3> SUFFICES ASSUME NEW a \in uncovered, NEW c \in uncovered, NEW s \in C, NEW t \in C,
                          Identity(a, s) = Identity(c, t), <<a, s>> # <<c, t>>
                   PROVE  FALSE
        OBVIOUS
      <3> QED
        BY <1>3, <2>2 DEF Reused, Identity
    <2>16. Distinguished'
      <3>1. \A a \in Assets : \A s \in Chosen(a) : Identity(a, s) \in seen
        BY DEF Search, Distinguished
      <3>2. \A a, c \in Assets : \A s \in Chosen(a), t \in Chosen(c) :
               Identity(a, s) = Identity(c, t) => a = c /\ s = t
        BY DEF Search, Distinguished
      <3>3. \A a \in Assets : \A s \in Chosen(a)' : Identity(a, s)' \in seen'
        BY <1>3, <2>5, <2>13, <3>1
      <3>4. ASSUME NEW a \in Assets, NEW c \in Assets, NEW s \in Chosen(a)', NEW t \in Chosen(c)',
                   Identity(a, s) = Identity(c, t)
            PROVE  a = c /\ s = t
        <4>1. CASE a \in uncovered /\ c \in uncovered
          BY <2>13, <2>15, <3>4, <4>1
        <4>2. CASE a \notin uncovered /\ c \notin uncovered
          BY <2>13, <3>2, <3>4, <4>2
        <4>3. CASE a \in uncovered /\ c \notin uncovered
          BY <2>13, <2>14, <3>1, <3>4, <4>3
        <4>4. CASE a \notin uncovered /\ c \in uncovered
          BY <2>13, <2>14, <3>1, <3>4, <4>4
        <4> QED
          BY <4>1, <4>2, <4>3, <4>4
      <3> QED
        BY <2>5, <3>3, <3>4 DEF Distinguished
    <2> QED
      BY <1>3, <2>9, <2>10, <2>12, <2>16 DEF Search
  <1> QED
    BY <1>1, <1>2, <1>3 DEF Qualify

\* The child has the objects it needs.
LEMMA PrepareSearch == ASSUME Search, Prepare PROVE Search'
  <1>1. UNCHANGED <<envVars, jobVars, drafts>> /\ pc = "prepare"
    BY DEF Prepare
  <1>2. CASE Fail
    BY <1>1, <1>2, OthersTyped, FailedSearch
  <1>3. CASE pc' = "build" /\ UNCHANGED <<searchVars, candidates, built, late, receipt>>
    <2>1. UNCHANGED <<world, searchVars, candidates>>
      BY <1>1, <1>3 DEF envVars
    <2>2. Counted' /\ Found' /\ Distinguished'
      BY <1>1, <1>3, <2>1, SearchStands
    <2>3. TypeOK'
      <3>1. late' \in BOOLEAN
        BY <1>3 DEF Search, Typed, TypeOK
      <3>2. /\ \A a \in Assets : proofs'[a] = None \/ proofs'[a] \in ProofRecords
            /\ \A d \in drafts' : d.asset \in Assets /\ d.attempt \in 1..MaxAttempts
        BY <1>1, <1>3 DEF Search, Typed, TypeOK, searchVars
      <3>3. /\ round' \in Rounds /\ uncovered' \subseteq Assets /\ built' \subseteq uncovered'
            /\ candidates' \subseteq CandidateStarts(round') /\ seen' \subseteq Nat
            /\ usable' \in [Starts -> SUBSET Assets] /\ qualified' \subseteq Starts
            /\ gamma' \in Nat /\ heads' \in Nat /\ pc' \in PcStates
        BY <1>3 DEF Search, Typed, TypeOK, searchVars, PcStates, Running
      <3> QED
        BY <1>1, <3>1, <3>2, <3>3, OthersTyped DEF TypeOK
    <2>4. Typed'
      <3>1. candidates' # {}
        BY <1>1, <1>3 DEF Search, Typed
      <3> QED
        BY <1>1, <2>3, <3>1, OthersTyped DEF Typed, Running
    <2> QED
      BY <1>3, <2>2, <2>4 DEF Search
  <1> QED
    BY <1>2, <1>3 DEF Prepare

\* A partition is published.
LEMMA BuildSearch == ASSUME Search, BuildPartition PROVE Search'
  <1>1. UNCHANGED <<envVars, jobVars>> /\ pc = "build"
    BY DEF BuildPartition
  <1>2. CASE Fail /\ UNCHANGED drafts
    BY <1>1, <1>2, OthersTyped, FailedSearch
  <1>3. ASSUME NEW a \in uncovered \ built,
               drafts' = drafts \cup {Own(a)},
               built' = built \cup {a},
               pc' \in {"record", "build"},
               UNCHANGED <<searchVars, candidates, late, receipt>>
        PROVE  Search'
    <2>1. UNCHANGED <<world, searchVars, candidates>>
      BY <1>1, <1>3 DEF envVars
    <2>2. Counted' /\ Found' /\ Distinguished'
      BY <1>1, <1>3, <2>1, SearchStands
    <2>3. TypeOK'
      <3>1. late' \in BOOLEAN
        BY <1>3 DEF Search, Typed, TypeOK
      <3>2. \A c \in Assets : proofs'[c] = None \/ proofs'[c] \in ProofRecords
        BY <1>1, <1>3 DEF Search, Typed, TypeOK, searchVars
      <3>3. /\ round' \in Rounds /\ uncovered' \subseteq Assets /\ built' \subseteq uncovered'
            /\ candidates' \subseteq CandidateStarts(round') /\ seen' \subseteq Nat
            /\ usable' \in [Starts -> SUBSET Assets] /\ qualified' \subseteq Starts
            /\ gamma' \in Nat /\ heads' \in Nat /\ pc' \in PcStates
        BY <1>3 DEF Search, Typed, TypeOK, searchVars, PcStates, Running
      <3>4. \A d \in drafts' : d.asset \in Assets /\ d.attempt \in 1..MaxAttempts
        <4>1. /\ Own(a).asset = a /\ Own(a).attempt = attempt
              /\ a \in Assets /\ attempt \in 1..MaxAttempts
          BY <1>1, Limits DEF Own, Search, Typed, TypeOK, Running
        <4> QED
          BY <1>3, <4>1 DEF Search, Typed, TypeOK
      <3> QED
        BY <1>1, <3>1, <3>2, <3>3, <3>4, OthersTyped DEF TypeOK
    <2>4. Typed'
      <3>1. candidates' # {}
        BY <1>1, <1>3 DEF Search, Typed
      <3> QED
        BY <1>1, <2>3, <3>1, OthersTyped DEF Typed, Running
    <2>5. pc' # "push"
      BY <1>3
    <2> QED
      BY <2>2, <2>4, <2>5 DEF Search
  <1> QED
    BY <1>2, <1>3 DEF BuildPartition

\* The receipt is made of what the search has found.
LEMMA FinishSearch == ASSUME Search, Finish PROVE Search'
  <1>1. UNCHANGED <<envVars, jobVars, drafts>> /\ pc = "finish"
    BY DEF Finish
  <1>2. CASE Fail
    BY <1>1, <1>2, OthersTyped, FailedSearch
  <1>3. CASE /\ pc' = "push" /\ receipt' = NewReceipt
             /\ UNCHANGED <<searchVars, candidates, built, late>>
    <2>1. UNCHANGED <<world, searchVars, candidates>>
      BY <1>1, <1>3 DEF envVars
    <2>2. Counted' /\ Found' /\ Distinguished'
      BY <1>1, <1>3, <2>1, SearchStands
    <2>3. TypeOK'
      <3>1. late' \in BOOLEAN
        BY <1>3 DEF Search, Typed, TypeOK
      <3>2. /\ \A a \in Assets : proofs'[a] = None \/ proofs'[a] \in ProofRecords
            /\ \A d \in drafts' : d.asset \in Assets /\ d.attempt \in 1..MaxAttempts
        BY <1>1, <1>3 DEF Search, Typed, TypeOK, searchVars
      <3>3. /\ round' \in Rounds /\ uncovered' \subseteq Assets /\ built' \subseteq uncovered'
            /\ candidates' \subseteq CandidateStarts(round') /\ seen' \subseteq Nat
            /\ usable' \in [Starts -> SUBSET Assets] /\ qualified' \subseteq Starts
            /\ gamma' \in Nat /\ heads' \in Nat /\ pc' \in PcStates
        BY <1>3 DEF Search, Typed, TypeOK, searchVars, PcStates, Running
      <3> QED
        BY <1>1, <3>1, <3>2, <3>3, OthersTyped DEF TypeOK
    <2>4. Typed'
      BY <1>1, <1>3, <2>3, OthersTyped DEF Typed, Running
    <2>5. NewReceipt' = NewReceipt
      BY <1>1, <1>3 DEF NewReceipt, UsableByAsset, searchVars, jobVars
    <2> QED
      BY <1>3, <2>2, <2>4, <2>5 DEF Search
  <1> QED
    BY <1>2, <1>3 DEF Finish

\* The push, and what others do.
LEMMA OthersSearch ==
    ASSUME Search, BranchMovesOn',
           Push \/ Dispatch \/ Rerun \/ Kill \/ TimeOut \/ OtherPush \/ Produce
    PROVE  Search'
  <1>0. /\ main' \in [head : Nat, tree : Nat] /\ base' \in [head : Nat, tree : Nat]
        /\ main \in [head : Nat, tree : Nat] /\ base \in [head : Nat, tree : Nat]
        /\ production \in Nat /\ before \in Nat
        /\ run \in Nat /\ attempt \in Nat /\ attempt <= MaxAttempts
        /\ run <= attempt /\ (pc \in Running => attempt > 0)
        /\ faults \in 0..MaxFaults /\ MaxFaults \in Nat /\ MaxAttempts \in Nat
    BY Limits DEF BranchMovesOn, Search, Typed, TypeOK
  <1>1. CASE Push
    <2>1. UNCHANGED <<world, production, faults, jobVars, drafts, base, before, run, attempt>>
          /\ FreshLocals /\ pc' \in {"failed", "passed"}
      BY <1>1 DEF Push, Fail, jobVars
    <2> QED
      BY <1>0, <2>1, FreshSearch
  <1>2. CASE Dispatch
    <2>1. /\ UNCHANGED <<world, main, production, faults, drafts>> /\ FreshLocals /\ pc' = "qualify"
          /\ attempt' = attempt + 1 /\ run' = run + 1 /\ before' = production
          /\ attempt < MaxAttempts
      BY <1>2 DEF Dispatch, envVars
    <2> QED
      BY <1>0, <2>1, FreshSearch
  <1>3. CASE Rerun
    <2>1. /\ UNCHANGED <<world, main, production, drafts, run>> /\ FreshLocals /\ pc' = "qualify"
          /\ attempt' = attempt + 1 /\ before' = production /\ attempt < MaxAttempts
          /\ faults < MaxFaults /\ faults' = faults + 1
      BY <1>3 DEF Rerun, Disturb
    <2> QED
      BY <1>0, <2>1, FreshSearch
  <1>4. CASE Kill
    <2>1. /\ UNCHANGED <<world, main, production, jobVars, drafts>> /\ Fail
          /\ faults < MaxFaults /\ faults' = faults + 1
      BY <1>4 DEF Kill, Disturb
    <2> QED
      BY <1>0, <2>1, FailedSearch
  <1>5. CASE TimeOut \/ OtherPush \/ Produce
    <2>1. late \in BOOLEAN
      BY DEF Search, Typed, TypeOK
    <2>2. late' \in BOOLEAN
      BY <1>5, <2>1 DEF TimeOut, OtherPush, Produce
    <2>3. /\ UNCHANGED <<world, base, before, drafts, attempt, run, built, candidates,
                         searchVars, receipt, pc>>
          /\ faults < MaxFaults /\ faults' = faults + 1
      BY <1>5 DEF TimeOut, OtherPush, Produce, jobVars, Disturb
    <2>4. production' = production \/ production' = production + 1
      BY <1>5 DEF TimeOut, OtherPush, Produce
    <2> QED
      BY <1>0, <2>2, <2>3, <2>4, SearchGoesOn
  <1> QED
    BY <1>1, <1>2, <1>3, <1>4, <1>5

\* The end of a round: its assets that have no proof yet use what was
\* accepted of its candidates, which no other round has.
LEMMA RecordSearch == ASSUME Search, IInv, RecordRound PROVE Search'
  <1>1. UNCHANGED <<envVars, jobVars, drafts>> /\ pc = "record"
    BY DEF RecordRound
  <1>2. CASE Fail
    BY <1>1, <1>2, OthersTyped, FailedSearch
  <1>3. ASSUME ~(LeftUncovered # {} /\ round = RoundCount),
               qualified' = qualified \cup candidates,
               tags' = tags \cup {Tag(round, candidates)},
               usable' = [s \in Starts |-> IF s \in candidates
                                           THEN {a \in uncovered : s \in Accepted(a)}
                                           ELSE usable[s]],
               proofs' = [a \in Assets |-> IF a \in uncovered /\ Accepted(a) # {}
                                           THEN Proof(a) ELSE proofs[a]],
               uncovered' = LeftUncovered,
               round' = IF LeftUncovered = {} THEN round ELSE round + 1,
               pc' = IF LeftUncovered = {} THEN "finish" ELSE "qualify",
               candidates' = {}, built' = {},
               UNCHANGED <<seen, gamma, heads, late, receipt>>
        PROVE  Search'
    <2>1. /\ round \in Rounds /\ round \in Nat /\ round > 0
          /\ round <= RoundCount /\ RoundCount \in Nat
          /\ uncovered \subseteq Assets
          /\ candidates \subseteq CandidateStarts(round) /\ candidates # {}
          /\ Numbers(CandidateStarts(round)) /\ CandidateStarts(round) \subseteq Starts
          /\ Cardinality(CandidateStarts(round)) = MaxCandidates /\ MaxCandidates \in Nat
      BY <1>1, Limits DEF Search, Typed, TypeOK
    <2>2. Numbers(candidates) /\ Cardinality(candidates) \in 1..MaxCandidates
      <3>1. IsFiniteSet(candidates) /\ Cardinality(candidates) <= MaxCandidates
            /\ Cardinality(candidates) \in Nat
        BY <2>1, FS_Subset, FS_CardinalityType DEF Numbers
      <3>2. Cardinality(candidates) # 0
        BY <2>1, <3>1, FS_EmptySet
      <3> QED
        BY <2>1, <3>1, <3>2 DEF Numbers
    <2>3. Done = round - 1 /\ Asked = round /\ Done' = round /\ Asked' = round
      BY <1>1, <1>3, <2>1 DEF Done, Asked
    <2>4. world' = world /\ world.identity \in [Assets \X Starts -> Nat]
      BY <1>1, CanaryAssumption DEF envVars, Search, Typed
    <2>5. \A a, s : Identity(a, s)' = Identity(a, s)
      BY <2>4 DEF Identity
    <2>6. \A a \in Assets, s \in Starts : Identity(a, s) \in Nat
      BY <2>4 DEF Identity
    <2>7. candidates \cap qualified = {}
      <3> SUFFICES ASSUME NEW s \in candidates, s \in qualified PROVE FALSE
        OBVIOUS
      <3>1. PICK r \in 1..round - 1 : s \in CandidateStarts(r)
        BY <2>3 DEF Search, Counted
      <3>2. r \in Rounds /\ r # round
        BY <2>1, <3>1 DEF Rounds
      <3>3. CandidateStarts(r) \cap CandidateStarts(round) = {}
        BY <2>1, <3>2, CanaryAssumption
      <3> QED
        BY <2>1, <3>1, <3>3
    <2>8. \A a : Accepted(a) \subseteq candidates
      BY DEF Accepted
    <2>9. \A a \in Assets :
             UsableByAsset'[a] = IF a \in uncovered THEN Accepted(a) ELSE UsableByAsset[a]
      <3> SUFFICES ASSUME NEW a \in Assets, NEW s
                   PROVE  s \in UsableByAsset'[a] <=>
                             s \in IF a \in uncovered THEN Accepted(a) ELSE UsableByAsset[a]
        BY DEF UsableByAsset
      <3>1. /\ s \in UsableByAsset'[a] <=> s \in qualified' /\ a \in usable'[s]
            /\ s \in UsableByAsset[a] <=> s \in qualified /\ a \in usable[s]
        BY DEF UsableByAsset
      <3>2. qualified \subseteq Starts /\ candidates \subseteq Starts
        BY <2>1 DEF Search, Typed, TypeOK
      <3>3. CASE s \in candidates
        BY <1>3, <2>7, <2>8, <3>1, <3>2, <3>3
      <3>4. CASE s \notin candidates
        <4>1. s \in UsableByAsset'[a] <=> s \in UsableByAsset[a]
          BY <1>3, <3>1, <3>2, <3>4
        <4>2. a \in uncovered => UsableByAsset[a] = {}
          BY DEF Search, Found
        <4> QED
          BY <2>8, <3>4, <4>1, <4>2
      <3> QED
        BY <3>3, <3>4
    <2>10. \A a \in Assets :
             IF a \in uncovered /\ Accepted(a) # {}
             THEN a \notin uncovered' /\ proofs'[a] = Proof(a)
             ELSE proofs'[a] = proofs[a] /\ (a \in uncovered <=> a \in uncovered')
      BY <1>3 DEF LeftUncovered
    <2>11. \A a : /\ Accepted(a) # {} => Proof(a).tier = "TIER_A"
                  /\ Proof(a).bindings = Bindings(a, Accepted(a))
      BY DEF Proof, Bindings
    <2>12. \A a, S : Bindings(a, S)' = Bindings(a, S)
      BY <2>5 DEF Bindings
    <2>13. Found'
      <3> SUFFICES ASSUME NEW a \in Assets
                   PROVE  IF a \in uncovered' THEN UsableByAsset'[a] = {}
                          ELSE /\ UsableByAsset'[a] # {}
                               /\ proofs'[a].tier = "TIER_A"
                               /\ proofs'[a].bindings = Bindings(a, UsableByAsset'[a])
        BY <2>12 DEF Found
      <3>1. CASE a \in uncovered /\ Accepted(a) # {}
        BY <2>9, <2>10, <2>11, <3>1
      <3>2. CASE a \in uncovered /\ Accepted(a) = {}
        BY <2>9, <2>10, <3>2
      <3>3. CASE a \notin uncovered
        BY <2>9, <2>10, <3>3 DEF Search, Found
      <3> QED
        BY <3>1, <3>2, <3>3
    <2>14. Distinguished'
      <3>1. \A a \in Assets : Chosen(a)' = UsableByAsset'[a]
        BY <1>3 DEF Chosen
      <3>2. \A a \in Assets : UsableByAsset'[a] \subseteq Chosen(a)
        BY <1>1, <2>8, <2>9 DEF Chosen
      <3>3. \A a \in Assets : Chosen(a)' \subseteq Chosen(a)
        BY <3>1, <3>2
      <3> QED
        BY <1>3, <2>5, <3>3 DEF Search, Distinguished
    <2>15. Counted'
      <3>1. IsFiniteSet(tags') /\ Cardinality(tags') = round
        <4>1. IsFiniteSet(tags) /\ Cardinality(tags) = round - 1
          BY <2>3 DEF Search, Counted
        <4>2. Tag(round, candidates) \notin tags
          BY <2>1, <2>3 DEF Search, Counted, Tag
        <4> QED
          BY <1>3, <2>1, <4>1, <4>2, FS_AddElement
      <3>2. \A t \in tags' : t[2] \in 1..round
        BY <1>3, <2>1, <2>3 DEF Search, Counted, Tag
      <3>3. qualified' \subseteq UNION {CandidateStarts(r) : r \in 1..round}
        <4> SUFFICES ASSUME NEW s \in qualified'
                     PROVE  \E r \in 1..round : s \in CandidateStarts(r)
          OBVIOUS
        <4>1. CASE s \in candidates
          BY <2>1, <4>1
        <4>2. CASE s \in qualified
          <5>1. PICK r \in 1..round - 1 : s \in CandidateStarts(r)
            BY <2>3, <4>2 DEF Search, Counted
          <5> QED
            BY <2>1, <5>1
        <4> QED
          BY <1>3, <4>1, <4>2
      <3>4. Cardinality(qualified') \in round..round * MaxCandidates
        <4>1. /\ Cardinality(qualified) \in round - 1..(round - 1) * MaxCandidates
          BY <2>3 DEF Search, Counted
        <4>2. IsFiniteSet(qualified)
          BY DEF Search, Counted
        <4>3. Cardinality(qualified \cup candidates) =
                 Cardinality(qualified) + Cardinality(candidates)
          <5>1. qualified \cap candidates = {} /\ Cardinality({}) = 0
            BY <2>7, FS_EmptySet
          <5>2. Cardinality(qualified) \in Nat /\ Cardinality(candidates) \in Nat
            BY <2>2, <4>2, FS_CardinalityType DEF Numbers
          <5> QED
            BY <2>2, <4>2, <5>1, <5>2, FS_Union DEF Numbers
        <4>4. (round - 1) * MaxCandidates + MaxCandidates = round * MaxCandidates
              /\ (round - 1) * MaxCandidates \in Int
          BY <2>1
        <4> QED
          BY <1>3, <2>1, <2>2, <4>1, <4>3, <4>4
      <3>5. IsFiniteSet(qualified')
        BY <1>3, <2>2, FS_Union DEF Search, Counted, Numbers
      <3> QED
        BY <1>3, <2>3, <3>1, <3>2, <3>3, <3>4, <3>5 DEF Search, Counted
    <2>16. Typed'
      <3>1. late' \in BOOLEAN
        BY <1>3 DEF Search, Typed, TypeOK
      <3>2. \A a \in Assets : proofs'[a] = None \/ proofs'[a] \in ProofRecords
        <4>1. ASSUME NEW a \in uncovered, Accepted(a) # {} PROVE Proof(a) \in ProofRecords
          <5>1. Proof(a).attempt = attempt /\ attempt \in 1..MaxAttempts
            BY <1>1, ProofIsOwn, Limits DEF Search, Typed, TypeOK, Running
          <5>2. Tag(round, candidates) \in Seq(Int)
            <6>1. Max(candidates) \in Int /\ Min(candidates) \in Int /\ run \in Int /\ round \in Int
              <7>1. Max(candidates) \in candidates /\ Min(candidates) \in candidates
                BY <2>1, <2>2, Extremes
              <7>2. run \in 0..MaxAttempts
                BY DEF Search, Typed, TypeOK
              <7>3. candidates \subseteq Int /\ MaxAttempts \in Nat
                BY <2>2, Limits DEF Numbers
              <7>4. Max(candidates) \in Int /\ Min(candidates) \in Int
                BY <7>1, <7>3
              <7>5. run \in Int
                BY <7>2, <7>3
              <7>6. round \in Int
                BY <2>1
              <7> QED
                BY <7>4, <7>5, <7>6
            <6> QED
              BY <6>1 DEF Tag
          <5>3. Bindings(a, Accepted(a)) \in SUBSET [start : Starts, id : Nat]
            <6>1. \A s \in Accepted(a) : s \in Starts /\ Identity(a, s) \in Nat
              BY <2>1, <2>6, <2>8
            <6> QED
              BY <6>1 DEF Bindings
          <5>4. Proof(a) = [tag |-> Proof(a).tag, attempt |-> Proof(a).attempt,
                            tier |-> Proof(a).tier, bindings |-> Proof(a).bindings]
                /\ Proof(a).tag = Tag(round, candidates)
            BY DEF Proof
          <5> QED
            BY <2>11, <4>1, <5>1, <5>2, <5>3, <5>4 DEF ProofRecords
        <4> QED
          BY <2>10, <4>1 DEF Search, Typed, TypeOK
      <3>3. \A d \in drafts' : d.asset \in Assets /\ d.attempt \in 1..MaxAttempts
        BY <1>1 DEF Search, Typed, TypeOK
      <3>4. round' \in Rounds
        BY <1>3, <2>1 DEF Rounds
      <3>5. usable' \in [Starts -> SUBSET Assets]
        <4>1. \A s \in Starts : usable[s] \subseteq Assets
          BY DEF Search, Typed, TypeOK
        <4>2. usable' = [s \in Starts |-> usable'[s]]
          BY <1>3
        <4>3. \A s \in Starts : usable'[s] \subseteq Assets
          BY <1>3, <2>1, <4>1
        <4> QED
          BY <4>2, <4>3
      <3>6. /\ uncovered' \subseteq Assets /\ built' \subseteq uncovered' /\ candidates' = {}
            /\ seen' \subseteq Nat /\ qualified' \subseteq Starts
            /\ gamma' \in Nat /\ heads' \in Nat /\ pc' \in PcStates
        BY <1>3, <2>1 DEF Search, Typed, TypeOK, PcStates, Running, LeftUncovered
      <3>7. TypeOK'
        BY <1>1, <3>1, <3>2, <3>3, <3>4, <3>5, <3>6, OthersTyped DEF TypeOK
      <3> QED
        BY <1>1, <1>3, <3>7, OthersTyped DEF Typed, Running
    <2>17. pc' # "push"
      BY <1>3
    <2> QED
      BY <2>13, <2>14, <2>15, <2>16, <2>17 DEF Search
  <1> QED
    BY <1>1, <1>2, <1>3 DEF RecordRound

\* The initial states satisfy the invariant of the search.
LEMMA InitSearch == ASSUME Init PROVE Search
  <1>1. 1 \in Rounds /\ AssetCount \in Nat /\ MaxCandidates \in Nat
    BY Limits DEF Rounds
  <1>2. TypeOK
    <2>1. /\ world.status \in [Assets \X Starts -> Statuses]
          /\ main \in [head : Nat, tree : Nat] /\ base \in [head : Nat, tree : Nat]
          /\ run \in 0..MaxAttempts /\ attempt \in 0..MaxAttempts /\ faults \in 0..MaxFaults
      <3>1. world.status \in [Assets \X Starts -> Statuses]
        BY CanaryAssumption DEF Init
      <3>2. main \in [head : Nat, tree : Nat] /\ base \in [head : Nat, tree : Nat]
        BY DEF Init
      <3>3. run \in 0..MaxAttempts /\ attempt \in 0..MaxAttempts /\ faults \in 0..MaxFaults
        BY Limits DEF Init
      <3> QED
        BY <3>1, <3>2, <3>3
    <2>2. late \in BOOLEAN
      BY DEF Init
    <2> QED
      BY <1>1, <2>1, <2>2 DEF Init, TypeOK, PcStates
  <1>3. Typed
    BY <1>2 DEF Init, Typed, Running
  <1>4. Counted
    <2>1. IsFiniteSet({}) /\ Cardinality({}) = 0
      BY FS_EmptySet
    <2>2. Done = 0 /\ Asked = 0
      BY DEF Init, Done, Asked
    <2>3. tags = {} /\ qualified = {} /\ gamma = 0 /\ heads = 0
      BY DEF Init
    <2>4. /\ 0 * (MaxCandidates * AssetCount) = 0 /\ 0 * (MaxCandidates + 1) = 0
          /\ 0 * MaxCandidates = 0
      BY <1>1
    <2> QED
      BY <2>1, <2>2, <2>3, <2>4 DEF Counted
  <1>5. uncovered = Assets /\ pc = "idle" /\ \A a \in Assets : UsableByAsset[a] = {}
    BY DEF Init, UsableByAsset
  <1>6. Found
    BY <1>5 DEF Found
  <1>7. \A a \in Assets : Chosen(a) = {}
    BY <1>5 DEF Chosen
  <1>8. Distinguished
    BY <1>7 DEF Distinguished
  <1> QED
    BY <1>3, <1>4, <1>5, <1>6, <1>8 DEF Search

\* The invariant of the search holds, beside the one of the evidence.
THEOREM SearchHolds == Spec => []Search
  <1>1. IInv /\ IInv' /\ Search /\ [Next]_vars => Search'
    <2> SUFFICES ASSUME IInv, IInv', Search, [Next]_vars PROVE Search'
      OBVIOUS
    <2>1. CASE UNCHANGED vars
      <3>1. /\ UNCHANGED <<world, base, before, drafts, attempt, run, built, candidates,
                           searchVars, receipt, pc>>
            /\ UNCHANGED <<main, production, faults>>
        BY <2>1 DEF vars, searchVars
      <3>2. late' = late
        BY <2>1 DEF vars
      <3>3. /\ main' \in [head : Nat, tree : Nat] /\ production' \in Nat /\ faults' \in 0..MaxFaults
        BY <3>1 DEF Search, Typed, TypeOK
      <3>4. late' \in BOOLEAN
        BY <3>2 DEF Search, Typed, TypeOK
      <3> QED
        BY <3>1, <3>3, <3>4, SearchGoesOn
    <2>2. BranchMovesOn'
      BY DEF IInv
    <2> QED
      BY <2>1, <2>2, QualifySearch, PrepareSearch, BuildSearch, RecordSearch, FinishSearch,
         OthersSearch DEF Next, Job
  <1> QED
    BY InvariantHolds, InitSearch, <1>1, PTL DEF Spec

\* Every variable has its type.
THEOREM TypeCorrect == Spec => []TypeOK
  BY SearchHolds, PTL DEF Search, Typed

-----------------------------------------------------------------------------
\* Every asset of a receipt has a usable start, so one start each covers all.
LEMMA StartsCover ==
    ASSUME Search, IInv, pc = "push",
           NEW W, W = [s \in qualified |-> usable[s]]
    PROVE  /\ Numbers(DOMAIN W)
           /\ UsableByStart(NewReceipt) = W
           /\ \A a \in Assets, s \in qualified : a \in W[s] <=> s \in UsableByAsset[a]
           /\ \A a \in Assets : UsableByAsset[a] # {} /\ UsableByAsset[a] \subseteq qualified
           /\ \E X \in SUBSET DOMAIN W : /\ Assets \subseteq UNION {W[s] : s \in X}
                                         /\ Cardinality(X) <= AssetCount
  <1>1. IsFiniteSet(qualified) /\ qualified \subseteq Starts /\ usable \in [Starts -> SUBSET Assets]
    BY DEF Search, Counted, Typed, TypeOK
  <1>2. Numbers(DOMAIN W)
    BY <1>1, Limits DEF Numbers
  <1>3. \A a \in Assets : UsableByAsset[a] = {s \in qualified : a \in usable[s]}
    BY DEF UsableByAsset
  <1>4. \A a \in Assets : UsableByAsset[a] # {} /\ UsableByAsset[a] \subseteq qualified
    BY <1>3 DEF Search, Found, IInv, ProofsAreOwn
  <1>5. UsableByStart(NewReceipt) = W
    <2>1. NewReceipt.qualified = qualified /\ NewReceipt.usable = UsableByAsset
      BY DEF NewReceipt
    <2>2. UsableByStart(NewReceipt) = [s \in qualified |-> {a \in Assets : s \in UsableByAsset[a]}]
      BY <2>1 DEF UsableByStart
    <2>3. \A s \in qualified : {a \in Assets : s \in UsableByAsset[a]} = usable[s]
      BY <1>1, <1>3
    <2> QED
      BY <2>2, <2>3
  <1>6. \A a \in Assets, s \in qualified : a \in W[s] <=> s \in UsableByAsset[a]
    BY <1>3
  <1>7. \E X \in SUBSET DOMAIN W : /\ Assets \subseteq UNION {W[s] : s \in X}
                                   /\ Cardinality(X) <= AssetCount
    <2> DEFINE pick == [a \in Assets |-> CHOOSE s \in UsableByAsset[a] : TRUE]
               X == {pick[a] : a \in Assets}
    <2>1. \A a \in Assets : pick[a] \in UsableByAsset[a]
      BY <1>4
    <2>2. X \in SUBSET DOMAIN W
      BY <1>4, <2>1
    <2>3. pick \in Surjection(Assets, X)
      BY DEF Surjection
    <2>4. Cardinality(X) <= AssetCount
      BY <2>3, FS_Surjection, Limits DEF Numbers
    <2>5. Assets \subseteq UNION {W[s] : s \in X}
      <3> SUFFICES ASSUME NEW a \in Assets PROVE \E s \in X : a \in W[s]
        OBVIOUS
      <3>1. pick[a] \in X /\ pick[a] \in UsableByAsset[a] /\ pick[a] \in qualified
        BY <1>4, <2>1
      <3> QED
        BY <1>6, <3>1
    <2> QED
      BY <2>2, <2>4, <2>5
  <1> QED
    BY <1>2, <1>4, <1>5, <1>6, <1>7

\* What is selected for the receipt.
LEMMA Selection ==
    ASSUME Search, IInv, pc = "push"
    PROVE  LET W == UsableByStart(NewReceipt)
               selected == NewReceipt.selected
           IN  /\ DOMAIN W = qualified
               /\ Coverable(W, Assets)
               /\ selected = MinimumCover(W, Assets)
               /\ IsMinimumCover(selected, W, Assets)
               /\ selected \subseteq qualified
               /\ Cardinality(selected) \in 1..AssetCount
               /\ \A a \in Assets : NewReceipt.assetStart[a] \in selected \cap UsableByAsset[a]
  <1> DEFINE W == [s \in qualified |-> usable[s]]
             selected == MinimumCover(W, Assets)
  <1>1. /\ Numbers(DOMAIN W)
        /\ UsableByStart(NewReceipt) = W
        /\ \A a \in Assets, s \in qualified : a \in W[s] <=> s \in UsableByAsset[a]
        /\ \E X \in SUBSET DOMAIN W : /\ Assets \subseteq UNION {W[s] : s \in X}
                                      /\ Cardinality(X) <= AssetCount
    BY StartsCover
  <1>2. /\ NewReceipt.selected = selected
        /\ NewReceipt.assetStart = [a \in Assets |-> Max(selected \cap UsableByAsset[a])]
    BY DEF NewReceipt
  <1>3. DOMAIN W = qualified
    OBVIOUS
  <1> HIDE DEF W
  <1>4. PICK X \in SUBSET DOMAIN W : /\ Assets \subseteq UNION {W[s] : s \in X}
                                     /\ Cardinality(X) <= AssetCount
    BY <1>1
  <1>5. Coverable(W, Assets) /\ IsMinimumCover(selected, W, Assets)
    BY <1>1, <1>4, MinimumCoverIsMinimum
  <1> HIDE DEF selected
  <1>6. /\ selected \subseteq DOMAIN W /\ Assets \subseteq UNION {W[s] : s \in selected}
        /\ Cardinality(selected) <= Cardinality(X)
    <2>1. /\ selected \subseteq DOMAIN W /\ Assets \subseteq UNION {W[s] : s \in selected}
          /\ (Cardinality(selected) < Cardinality(X) \/ Cardinality(selected) = Cardinality(X))
      BY <1>4, <1>5 DEF IsMinimumCover
    <2>2. Cardinality(selected) \in Nat /\ Cardinality(X) \in Nat
      BY <1>1, <1>4, <2>1, FS_Subset, FS_CardinalityType DEF Numbers
    <2> QED
      BY <2>1, <2>2
  <1>7. \A a \in Assets : \E s \in selected : a \in W[s]
    BY <1>6
  <1>8. Numbers(selected)
    BY <1>1, <1>6, FS_Subset DEF Numbers
  <1>9. Cardinality(selected) \in 1..AssetCount
    <2>1. 1 \in Assets /\ AssetCount \in Nat
      BY Limits DEF Assets
    <2>2. selected # {}
      BY <1>7, <2>1
    <2>3. Cardinality(selected) \in Nat /\ Cardinality(selected) # 0 /\ Cardinality(X) \in Nat
      <3>1. Cardinality(X) \in Nat
        BY <1>1, <1>4, FS_Subset, FS_CardinalityType DEF Numbers
      <3>2. IsFiniteSet(selected)
        BY <1>8 DEF Numbers
      <3> QED
        BY <2>2, <3>1, <3>2, FS_EmptySet, FS_CardinalityType
    <2> QED
      BY <1>4, <1>6, <2>1, <2>3
  <1>10. ASSUME NEW a \in Assets PROVE NewReceipt.assetStart[a] \in selected \cap UsableByAsset[a]
    <2> DEFINE T == selected \cap UsableByAsset[a]
    <2>1. T # {}
      BY <1>1, <1>3, <1>6, <1>7
    <2>2. Numbers(T)
      BY <1>8, FS_Subset DEF Numbers
    <2>3. NewReceipt.assetStart[a] = Max(T)
      BY <1>2
    <2> HIDE DEF T
    <2>4. Max(T) \in T
      BY <2>1, <2>2, Extremes
    <2> QED
      BY <2>3, <2>4 DEF T
  <1> QED
    BY <1>1, <1>2, <1>3, <1>5, <1>6, <1>9, <1>10 DEF selected

\* The selected starts of every receipt are the minimum cover.
THEOREM CoverIsMinimumHolds == Spec => []CoverIsMinimum
  <1>1. IInv /\ Search => CoverIsMinimum
    <2> SUFFICES ASSUME IInv, Search, receipt # None
                 PROVE  IsMinimumCover(receipt.selected, UsableByStart(receipt), Assets)
      BY DEF CoverIsMinimum
    <2>1. pc = "push" /\ receipt = NewReceipt
      BY DEF IInv, ReceiptIsTheSearch, Search
    <2> QED
      BY <2>1, Selection
  <1> QED
    BY InvariantHolds, SearchHolds, <1>1, PTL

\* The bindings of an asset's proof are one to one with its usable starts.
LEMMA BindingsCounted ==
    ASSUME NEW a, NEW S, IsFiniteSet(S)
    PROVE  /\ Cardinality(Bindings(a, S)) = Cardinality(S)
           /\ {b.start : b \in Bindings(a, S)} = S
           /\ \A b \in Bindings(a, S) : b.start \in S /\ b.id = Identity(a, b.start)
  <1> DEFINE B == Bindings(a, S)
             bind == [s \in S |-> [start |-> s, id |-> Identity(a, s)]]
  <1>1. \A s \in S : bind[s] \in B /\ bind[s].start = s
    BY DEF Bindings
  <1>2. \A b \in B : b.start \in S /\ b = bind[b.start] /\ b.id = Identity(a, b.start)
    BY DEF Bindings
  <1>3. bind \in Surjection(S, B)
    BY <1>1, <1>2 DEF Surjection
  <1>4. bind \in Injection(S, B)
    <2>1. \A s, t \in S : bind[s] = bind[t] => s = t
      BY <1>1
    <2> QED
      BY <1>1, <2>1 DEF Injection, IsInjective
  <1>5. Cardinality(B) = Cardinality(S)
    BY <1>3, <1>4, FS_Surjection
  <1>6. {b.start : b \in B} = S
    BY <1>1, <1>2
  <1> QED
    BY <1>2, <1>5, <1>6

\* _validate_receipt_coverage accepts the receipt of the search.
LEMMA CoverageIsValid == ASSUME Search, IInv, pc = "push" PROVE ValidCoverage(NewReceipt)
  <1> DEFINE rec == NewReceipt
  <1>1. /\ rec.proofs = proofs /\ rec.usable = UsableByAsset /\ rec.qualified = qualified
        /\ rec.tags = tags
    BY DEF NewReceipt
  <1>2. \A a \in Assets : /\ UsableByAsset[a] # {} /\ UsableByAsset[a] \subseteq qualified
                          /\ IsFiniteSet(UsableByAsset[a])
    <2>1. \A a \in Assets : UsableByAsset[a] # {} /\ UsableByAsset[a] \subseteq qualified
      BY StartsCover
    <2> QED
      BY <2>1, FS_Subset DEF Search, Counted
  <1>3. \A a \in Assets : /\ proofs[a].tier = "TIER_A" /\ proofs[a].tag \in tags
                          /\ proofs[a].bindings = Bindings(a, UsableByAsset[a])
    BY DEF IInv, ProofsAreOwn, Search, Found
  <1>4. ASSUME NEW a \in Assets
        PROVE  /\ Cardinality(proofs[a].bindings) = Cardinality(UsableByAsset[a])
               /\ {b.start : b \in proofs[a].bindings} = UsableByAsset[a]
               /\ \A b \in proofs[a].bindings :
                     b.start \in UsableByAsset[a] /\ b.id = Identity(a, b.start)
                     /\ b = [start |-> b.start, id |-> b.id]
    <2> DEFINE B == Bindings(a, UsableByAsset[a])
    <2>1. /\ Cardinality(B) = Cardinality(UsableByAsset[a])
          /\ {b.start : b \in B} = UsableByAsset[a]
          /\ \A b \in B : b.start \in UsableByAsset[a] /\ b.id = Identity(a, b.start)
      BY <1>2, BindingsCounted
    <2>2. \A b \in B : b = [start |-> b.start, id |-> b.id]
      BY DEF Bindings
    <2>3. proofs[a].bindings = B
      BY <1>3
    <2> QED
      BY <2>1, <2>2, <2>3
  <1>5. ASSUME NEW a \in Assets, NEW c \in Assets,
               NEW b \in proofs[a].bindings, NEW d \in proofs[c].bindings, b.id = d.id
        PROVE  a = c /\ b = d
    <2>1. b.start \in Chosen(a) /\ d.start \in Chosen(c)
          /\ Identity(a, b.start) = Identity(c, d.start)
      BY <1>4, <1>5 DEF Chosen
    <2>2. a = c /\ b.start = d.start
      BY <2>1 DEF Search, Distinguished
    <2> QED
      BY <1>4, <1>5, <2>2
  <1>6. /\ Coverable(UsableByStart(rec), Assets)
        /\ rec.selected = MinimumCover(UsableByStart(rec), Assets)
        /\ \A a \in Assets : rec.assetStart[a] \in UsableByAsset[a] \cap rec.selected
    BY Selection
  <1> HIDE DEF rec
  <1> QED
    BY <1>1, <1>2, <1>3, <1>4, <1>5, <1>6 DEF ValidCoverage, rec

\* What a finished search writes is what the commands of production ask for.
LEMMA ReceiptIsAccepted ==
    ASSUME Search, IInv, pc = "push", NewReceipt # None
    PROVE  Authorizes(NewReceipt, base.tree)
  <1>1. /\ NewReceipt.rounds = round /\ NewReceipt.tags = tags /\ NewReceipt.qualified = qualified
        /\ NewReceipt.gamma = gamma /\ NewReceipt.heads = heads /\ NewReceipt.objects = heads
        /\ NewReceipt.controlPlane = base.tree
    BY DEF NewReceipt
  <1>2. /\ round \in Rounds /\ round \in Nat /\ round > 0 /\ round <= RoundCount
        /\ RoundCount \in Nat /\ MaxCandidates \in Nat /\ AssetCount \in Nat
    BY Limits DEF Search, Typed, TypeOK
  <1>3. Done = round /\ Asked = round
    BY DEF Done, Asked
  <1>4. /\ Cardinality(tags) = round
        /\ Cardinality(qualified) \in round..round * MaxCandidates
        /\ gamma \in 0..round * (MaxCandidates * AssetCount)
        /\ heads \in round..round * (MaxCandidates + 1)
    BY <1>3 DEF Search, Counted
  <1>5. /\ gamma <= RoundCount * MaxCandidates * AssetCount
        /\ heads \in 1..RoundCount * (MaxCandidates + 1)
    <2>1. \A k \in Nat : /\ round * k \in Nat /\ RoundCount * k \in Nat
                         /\ round * k <= RoundCount * k
      BY <1>2
    <2>2. MaxCandidates * AssetCount \in Nat /\ MaxCandidates + 1 \in Nat
          /\ RoundCount * (MaxCandidates * AssetCount) = RoundCount * MaxCandidates * AssetCount
      BY <1>2
    <2>3. gamma <= RoundCount * (MaxCandidates * AssetCount)
      BY <1>4, <2>1, <2>2
    <2>4. heads >= 1 /\ heads \in Int /\ heads <= RoundCount * (MaxCandidates + 1)
      BY <1>2, <1>4, <2>1, <2>2
    <2> QED
      BY <2>1, <2>2, <2>3, <2>4
  <1>6. /\ NewReceipt.selected \subseteq qualified
        /\ Cardinality(NewReceipt.selected) \in 1..AssetCount
        /\ \A a \in Assets : NewReceipt.assetStart[a] \in NewReceipt.selected
    BY Selection
  <1>7. qualified \subseteq Starts
    BY DEF Search, Typed, TypeOK
  <1>8. ValidCoverage(NewReceipt)
    BY CoverageIsValid
  <1> QED
    BY <1>1, <1>2, <1>4, <1>5, <1>6, <1>7, <1>8 DEF Authorizes

\* The receipt of every search is accepted on the tree it was made on.
THEOREM ReceiptAuthorizesHolds == Spec => []ReceiptAuthorizes
  <1>1. IInv /\ Search => ReceiptAuthorizes
    <2> SUFFICES ASSUME IInv, Search, receipt # None PROVE Authorizes(receipt, base.tree)
      BY DEF ReceiptAuthorizes
    <2>1. pc = "push" /\ receipt = NewReceipt
      BY DEF IInv, ReceiptIsTheSearch, Search
    <2> QED
      BY <2>1, ReceiptIsAccepted
  <1> QED
    BY InvariantHolds, SearchHolds, <1>1, PTL
=============================================================================
