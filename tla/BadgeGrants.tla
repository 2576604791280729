---------------------------- MODULE BadgeGrants ----------------------------
(***************************************************************************)
(* Bulk grants of a badge by Merkle proof: an operator signs snapshots of  *)
(* the wallets that are entitled to it, each for one environment, and the  *)
(* runtime of one environment grades grants against them with              *)
(* evaluateEligibility (packages/engine/src/activities) while the set of   *)
(* operator keys it trusts is rotated.  The driver that takes the grants   *)
(* from the stored snapshots is not written yet: it may put together a     *)
(* context, a signature, a wallet and a proof from different snapshots,    *)
(* and may read a context that was promoted from the other environment.    *)
(***************************************************************************)
EXTENDS Verdicts, FiniteSets

CONSTANTS
  Wallet,       \* [address, spelling]: an address None is malformed
  Listing,      \* the sequences of wallets snapshots are made of
  Key,          \* the operator's key ids, each of one private key
  Environment, environmentId,
  MaxSnapshots

ASSUME BadgeGrantsOK ==
  /\ environmentId \in Environment
  /\ \A l \in Listing :
       /\ l \in Seq(Wallet) \ {<<>>}
       /\ IsInjective(l)
       /\ \A i \in DOMAIN l : normalizeWallet(l[i]) # None
  /\ MaxSnapshots \in Nat

VARIABLES
  snapshots,        \* what the operator published: ResolvedSnapshot and its tree
  operatorPubkeys,  \* B1_OPERATOR_PUBKEYS, as a process finds it when it starts
  trusted,          \* every key it ever held
  granted           \* what was approved

badgeVars == <<snapshots, operatorPubkeys, trusted, granted>>

Family == "donation-raffle"

TheStep == CHOOSE s \in B1_DONATION_RAFFLE_ACTIVITY.steps : isMerkleStep(s)

LeafOf(wallet, context) == merkleLeaf(wallet, context.snapshotId, context.badgeFamilyId)

\* buildMerkleTree over the leaves of a listing, whose order is that of its hashes.
Tree(listing, snapshotId) ==
  Levels([i \in DOMAIN listing |-> merkleLeaf(listing[i], snapshotId, Family)])

signSnapshot(context, key) == [over |-> context, by |-> key]

ResolvedSnapshot(listing, id, env, kid) ==
  LET levels  == Tree(listing, id)
      context == [snapshotId |-> id, badgeFamilyId |-> Family, environmentId |-> env,
                  activityId |-> B1_DONATION_RAFFLE_ACTIVITY.id,
                  merkleRoot |-> Root(levels), leafCount |-> Len(listing),
                  signerKeyId |-> kid]
  IN  [context |-> context, rootSignature |-> signSnapshot(context, kid),
       levels |-> levels, listing |-> listing]

\* The snapshots of this step, and those of another.
SnapshotId == {TheStep.key, "snap_other"}

Publish ==
  /\ Cardinality(snapshots) < MaxSnapshots
  /\ \E listing \in Listing, id \in SnapshotId, env \in Environment, kid \in Key :
       snapshots' = snapshots \union {ResolvedSnapshot(listing, id, env, kid)}
  /\ UNCHANGED <<operatorPubkeys, trusted, granted>>

\* The runtime is started again with another rotation set: a map of key ids.
Rotate ==
  /\ \E kids \in SUBSET Key : operatorPubkeys' = [k \in kids |-> k]
  /\ trusted' = trusted \union DOMAIN operatorPubkeys'
  /\ UNCHANGED <<snapshots, granted>>

Approved(grant) ==
  Eligible(B1_DONATION_RAFFLE_ACTIVITY, TheStep.step_id, {grant}, operatorPubkeys, environmentId)

\* Each part of a grant may come from a snapshot of its own.
Grant ==
  \E s, t \in snapshots, wallet \in Wallet, env \in Environment :
    \E i \in DOMAIN t.listing :
      /\ Approved([context |-> [s.context EXCEPT !.environmentId = env],
                   signature |-> t.rootSignature, wallet |-> wallet,
                   proof |-> proofFor(t.levels, LeafOf(t.listing[i], t.context))])
      /\ granted' = granted \union {[address |-> wallet.address, by |-> s.context.signerKeyId]}
      /\ UNCHANGED <<snapshots, operatorPubkeys, trusted>>

BadgeInit ==
  /\ snapshots = {}
  /\ operatorPubkeys \in {[k \in kids |-> k] : kids \in SUBSET Key}
  /\ trusted = DOMAIN operatorPubkeys
  /\ granted = {}

BadgeNext == Publish \/ Rotate \/ Grant

BadgeSpec == BadgeInit /\ [][BadgeNext]_badgeVars

-----------------------------------------------------------------------------
Lists(snapshot, address) ==
  \E i \in DOMAIN snapshot.listing : snapshot.listing[i].address = address

(* Whoever was granted the badge is on the list of a snapshot that the      *)
(* operator signed for this environment and this step, with a key the       *)
(* runtime trusted (merkle-membership-verifier.ts, the binds; merkle.ts,    *)
(* the proof): no mix of genuine parts makes a grant.                       *)
MembersOnly ==
  \A g \in granted :
    /\ g.by \in trusted
    /\ \E s \in snapshots :
         /\ s.context.environmentId = environmentId
         /\ s.context.snapshotId = TheStep.key
         /\ s.context.signerKeyId = g.by
         /\ Lists(s, g.address)

(* Every wallet on such a list, however it is spelled, is granted the badge *)
(* for as long as the key is trusted: whatever the number of leaves and the *)
(* order of their hashes, proofFor makes what verifyMerkleProof accepts.    *)
MembersAlways ==
  \A s \in snapshots :
    (/\ s.context.environmentId = environmentId
     /\ s.context.snapshotId = TheStep.key
     /\ s.context.signerKeyId \in DOMAIN operatorPubkeys)
    => \A w \in Wallet : Lists(s, w.address) =>
         Approved([context |-> s.context, signature |-> s.rootSignature, wallet |-> w,
                   proof |-> proofFor(s.levels, LeafOf(w, s.context))])
=============================================================================
