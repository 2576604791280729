------------------------------- MODULE Merkle -------------------------------
(***************************************************************************)
(* The Merkle trees of badge snapshots                                     *)
(* (packages/engine/src/badge/merkle.ts): sorted-pair hashing, built level *)
(* by level with odd-node promotion, and the fold that verifies a proof.   *)
(*                                                                         *)
(* Keccak-256 is taken to be injective, so a hash is the term it was made  *)
(* from; leaves are hashed twice and inner nodes once, so that the two are *)
(* different terms.  The byte order of hashes is arbitrary: a sorted       *)
(* sequence is any sequence without repetition.                            *)
(***************************************************************************)
EXTENDS Naturals, Sequences, SequencesExt

\* A wallet is an address and how it is spelled; an address may be malformed.
\* EIP-55 case is dropped.
normalizeWallet(wallet) == wallet.address

\* merkleLeaf: keccak(keccak(wallet, keccak(snapshotId), keccak(badgeFamilyId))).
merkleLeaf(wallet, snapshotId, badgeFamilyId) ==
  <<"leaf", <<normalizeWallet(wallet), snapshotId, badgeFamilyId>>>>

\* The commutative parent hash: keccak(min(a, b), max(a, b)).
hashPair(a, b) == <<"pair", {a, b}>>

\* Mutant: an odd node is paired with itself.
PromoteOrPairItself(level, i) ==
  hashPair(level[2 * i - 1], level[IF 2 * i <= Len(level) THEN 2 * i ELSE 2 * i - 1])

\* right === undefined ? left : hashPair(left, right).
PromoteOrPair(level, i) ==
  IF 2 * i <= Len(level) THEN hashPair(level[2 * i - 1], level[2 * i]) ELSE level[2 * i - 1]

Parents(level) == [i \in 1 .. (Len(level) + 1) \div 2 |-> PromoteOrPair(level, i)]

\* levels: from the leaves to the root.  A level is at most half as long as the
\* one below it, rounded up, so there are no more levels than leaves.
Levels(sorted) ==
  LET level[k \in 1 .. Len(sorted)] ==
        IF k = 1 THEN sorted ELSE Parents(level[k - 1])
      height == CHOOSE k \in 1 .. Len(sorted) :
        Len(level[k]) = 1 /\ \A j \in 1 .. k - 1 : Len(level[j]) > 1
  IN  [k \in 1 .. height |-> level[k]]

Root(levels) == Last(levels)[1]

\* siblingIndex, from 0 as in the code.
Sibling(index) == IF index % 2 = 1 THEN index - 1 ELSE index + 1

\* proofFor: the siblings from the leaf to the root, none where it is promoted.
proofFor(levels, leaf) ==
  LET index[k \in 1 .. Len(levels)] ==
        IF k = 1
        THEN (CHOOSE i \in DOMAIN levels[1] : levels[1][i] = leaf) - 1
        ELSE index[k - 1] \div 2
      siblings[k \in 0 .. Len(levels) - 1] ==
        IF k = 0 THEN <<>>
        ELSE IF Sibling(index[k]) + 1 \in DOMAIN levels[k]
             THEN Append(siblings[k - 1], levels[k][Sibling(index[k]) + 1])
             ELSE siblings[k - 1]
  IN  siblings[Len(levels) - 1]

\* verifyMerkleProof: the leaf, hashed with one sibling after the other.
verifyMerkleProof(leaf, proof, root) ==
  LET computed[k \in 0 .. Len(proof)] ==
        IF k = 0 THEN leaf ELSE hashPair(computed[k - 1], proof[k])
  IN  computed[Len(proof)] = root
=============================================================================
