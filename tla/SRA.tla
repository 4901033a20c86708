-------------------------------- MODULE SRA --------------------------------
(***************************************************************************)
(* The commutative cipher and what is built on it, in real arithmetic over *)
(* a small prime: internal/crypto/sra.go, params.go, zkp.go, the secret    *)
(* sharing of commit.go and internal/fault/shamir.go.                      *)
(*                                                                         *)
(* P plays the part of SharedPrime: 2 generates the card values, and 0 is  *)
(* no message, so that it stands for an error. The modular operators of    *)
(* math/big are given by their definitions; SHA-256 is any function of its *)
(* inputs (Challenge).                                                     *)
(***************************************************************************)
EXTENDS Integers, FiniteSets, FiniteSetsExt, Sequences

CONSTANTS P,         \* SharedPrime
          NumCards   \* 52 in the code

ASSUME FieldAssumption ==
  /\ P \in Nat /\ P > 3 /\ NumCards \in 1 .. 52
  /\ \A x \in 2 .. P - 1 : P % x # 0

phi == P - 1
Field == 0 .. P - 1
Error == 0

Exp(b, e) ==
  LET pow[k \in 0 .. e] ==
        IF k = 0 THEN 1
        ELSE LET half == pow[k \div 2]
                 square == (half * half) % P
             IN  IF k % 2 = 0 THEN square ELSE (square * b) % P
  IN  pow[e]

Coprime(a, m) == \E x \in 1 .. m : (a * x) % m = 1
ModInverse(a, m) == CHOOSE x \in 1 .. m : (a * x) % m = 1

-----------------------------------------------------------------------------
(* Keys *)

\* GenerateSRAKey: what its loop can return.
SRAKeys == {[e |-> e, d |-> ModInverse(e, phi)] : e \in {c \in 2 .. phi - 1 : Coprime(c, phi)}}

validateMessage(m) == m \in 1 .. P - 2
Encrypt(key, m) == IF validateMessage(m) THEN Exp(m, key.e) ELSE Error
Decrypt(key, c) == IF validateMessage(c) THEN Exp(c, key.d) ELSE Error
EncryptAll(key, cards) == [i \in DOMAIN cards |-> Encrypt(key, cards[i])]

CardIDs == 0 .. NumCards - 1
CardToField(id) == Exp(2, id + 1)
NoCard == -1
FieldToCard(val) ==
  LET ids == {id \in CardIDs : CardToField(id) = val}
  IN  IF ids = {} THEN NoCard ELSE Min(ids)
BuildPlaintextDeck == [i \in CardIDs |-> CardToField(i)]

-----------------------------------------------------------------------------
(* Chaum-Pedersen proofs *)

\* The digest of the transcript: external, any function of what is hashed.
Challenge(h, ciphertext, result, a, b) ==
  (h + (3 * ciphertext) + (5 * result) + (7 * a) + (11 * b)) % phi

\* r is drawn from 1 .. phi - 1.
ProveDecryption(key, ciphertext, result, r) ==
  LET h == Exp(2, key.d)
      a == Exp(2, r)
      b == Exp(ciphertext, r)
  IN  [a |-> a, b |-> b, h |-> h, s |-> ((Challenge(h, ciphertext, result, a, b) * key.d) + r) % phi]

VerifyDecryption(proof, ciphertext, result) ==
  LET c == Challenge(proof.h, ciphertext, result, proof.a, proof.b)
  IN  /\ Exp(2, proof.s) = (Exp(proof.h, c) * proof.a) % P
      /\ Exp(ciphertext, proof.s) = (Exp(result, c) * proof.b) % P

-----------------------------------------------------------------------------
(* Shamir's secret sharing *)

\* The sum of f over a set of indices, modulo P.
SumMod(f, indices) == FoldSet(LAMBDA i, acc : (acc + f[i]) % P, 0, indices)
ProductMod(f, indices) == FoldSet(LAMBDA i, acc : (acc * f[i]) % P, 1, indices)

\* Mutant: a coefficient is never zero.
NonZeroPolynomials(t) == [1 .. t - 1 -> 1 .. P - 1]

\* The random coefficients of SplitSecret, each below p.
Polynomials(t) == [1 .. t - 1 -> Field]

ShareAt(secret, coeffs, x) ==
  [index |-> x,
   value |-> (secret + SumMod([i \in DOMAIN coeffs |-> (coeffs[i] * Exp(x, i)) % P], DOMAIN coeffs)) % P]

SplitSecret(secret, coeffs, n) == [x \in 1 .. n |-> ShareAt(secret, coeffs, x)]

\* ReconstructSecret: Lagrange interpolation at 0.
ReconstructSecret(shares) ==
  LET Lagrange(i) ==
        LET others == DOMAIN shares \ {i}
            num == ProductMod([j \in others |-> P - shares[j].index], others)
            den == ProductMod([j \in others |-> (shares[i].index - shares[j].index) % P], others)
        IN  (((shares[i].value * num) % P) * ModInverse(den, P)) % P
  IN  SumMod([i \in DOMAIN shares |-> Lagrange(i)], DOMAIN shares)

Threshold(numPlayers) == Max({2, (numPlayers + 1) \div 2})

SplitAndDistribute(key, coeffs, numPlayers) == SplitSecret(key.d, coeffs, numPlayers)

\* Mutant: a repeated share is kept.
AddRepeatedShare(held, share) == Append(held, share)

\* AddReconstructionShare: the store keeps one share per index, in the order
\* of arrival.
AddReconstructionShare(held, share) ==
  IF \E i \in DOMAIN held : held[i].index = share.index THEN held ELSE Append(held, share)

CanReconstruct(held, threshold) == Len(held) >= threshold

Reconstruct(held, threshold) == ReconstructSecret(SubSeq(held, 1, threshold))

ReconstructSRAKey(held, threshold) ==
  LET d == Reconstruct(held, threshold)
  IN  [e |-> ModInverse(d, phi), d |-> d]
=============================================================================
