------------------------------ MODULE Verdicts ------------------------------
(***************************************************************************)
(* The graders a completion must pass: evaluateEligibility and the         *)
(* verifiers of packages/engine/src/activities, over the three activities  *)
(* of packages/protocol/src/activity/fixtures.                             *)
(*                                                                         *)
(* A verdict is APPROVED or it is not: reasons, slugs, confidences and     *)
(* trace ids are left out.  Every verdict a grader builds decodes through  *)
(* its own schema, so that last step of each grader never fails.           *)
(***************************************************************************)
EXTENDS Merkle, Auth

CONSTANTS
  Freshness,  \* DEFAULT_ATTESTATION_FRESHNESS_SECONDS, in units of the clock
  FutureSkew  \* skewMs of the attestation grader

ASSUME WindowsOK == Freshness \in Nat /\ FutureSkew \in Nat

Step(id, tag, key) == [step_id |-> id, tag |-> tag, key |-> key]

VERIFY_ACTIVITY ==
  [id |-> "act_verify", period_key |-> None, reward |-> "None",
   steps |-> {Step("step_verify", "ManualCurator", "verify")}]

FIRST_LIGHT_ACTIVITY ==
  [id |-> "act_firstlight", period_key |-> None, reward |-> "None",
   steps |-> {Step("step_firstlight", "ManualCurator", "first-light")}]

B1_DONATION_RAFFLE_ACTIVITY ==
  [id |-> "act_donationraffle", period_key |-> None, reward |-> "None",
   steps |-> {Step("step_donationclaim", "MerkleProof", "snap_donation")}]

isVerifyStep(step) == step.tag = "ManualCurator" /\ step.key = "verify"

isFirstLightStep(step) == step.tag = "ManualCurator" /\ step.key = "first-light"

isMerkleStep(step) == step.tag = "MerkleProof"

\* resolveStep, as the set of the step found.
resolveStep(activity, stepId) == {s \in activity.steps : s.step_id = stepId}

-----------------------------------------------------------------------------

\* The context an operator signs: every field that a grant depends on.  A
\* signature is the context it is over and the private key it was made with.
verifySnapshotSignature(context, signature, pubkey) ==
  signature = [over |-> context, by |-> pubkey]

\* Mutant: a snapshot of another environment is good.
MembershipAnywhere(step, grant, operatorPubkeys, environment) ==
  /\ isMerkleStep(step)
  /\ grant.context.snapshotId = step.key
  /\ grant.context.signerKeyId \in DOMAIN operatorPubkeys
  /\ verifySnapshotSignature(grant.context, grant.signature,
                             operatorPubkeys[grant.context.signerKeyId])
  /\ normalizeWallet(grant.wallet) # None
  /\ verifyMerkleProof(
       merkleLeaf(grant.wallet, grant.context.snapshotId, grant.context.badgeFamilyId),
       grant.proof, grant.context.merkleRoot)

\* merkleMembershipVerifier: the three binds, the signature and the membership;
\* a malformed wallet has no leaf, and is denied.
MembershipApproved(step, grant, operatorPubkeys, environment) ==
  /\ isMerkleStep(step)
  /\ grant.context.snapshotId = step.key
  /\ grant.context.environmentId = environment
  /\ grant.context.signerKeyId \in DOMAIN operatorPubkeys
  /\ verifySnapshotSignature(grant.context, grant.signature,
                             operatorPubkeys[grant.context.signerKeyId])
  /\ normalizeWallet(grant.wallet) # None
  /\ verifyMerkleProof(
       merkleLeaf(grant.wallet, grant.context.snapshotId, grant.context.badgeFamilyId),
       grant.proof, grant.context.merkleRoot)

\* verifyIdentityProofVerifier.
IdentityProofApproved(step) == isVerifyStep(step)

\* evaluateEligibility: the verify step is proven by the token the caller came
\* with, a Merkle step by the context only a bulk grant supplies (the routes come
\* without one); every other step, and a step the activity does not have, is denied.
Eligible(activity, stepId, merkleGrants, operatorPubkeys, environment) ==
  \E step \in resolveStep(activity, stepId) :
    \/ IdentityProofApproved(step)
    \/ \E grant \in merkleGrants :
         MembershipApproved(step, grant, operatorPubkeys, environment)

-----------------------------------------------------------------------------

\* Mutant: the identity the caller asserts need not be the one identity-api names.
CorrelatedLoosely(attestation, resolved) == resolved # None

\* The asserted identity is the one identity-api resolved the account to.
Correlated(attestation, resolved) ==
  resolved # None /\ resolved = attestation.identity_id

\* issued_at is not in the future, nor older than the window.
Fresh(attestation, now) ==
  /\ attestation.issued_at <= now + FutureSkew
  /\ now <= attestation.issued_at + Freshness

attestationIdempotencyKey(attestation) ==
  <<"b2", attestation.identity_id, attestation.verify_event_id>>

\* verifyAttestationVerifier.  A timestamp that cannot be parsed is None.
AttestationApproved(attestation, resolved, step, worldAllowlist, now) ==
  /\ isVerifyStep(step)
  /\ Correlated(attestation, resolved)
  /\ attestation.world \in worldAllowlist
  /\ attestation.idempotency_key = attestationIdempotencyKey(attestation)
  /\ attestation.issued_at # None
  /\ Fresh(attestation, now)

\* firstLightAdminVerifier.
FirstLightApproved(step, weight) == isFirstLightStep(step) /\ weight \in {1, 2}
=============================================================================
