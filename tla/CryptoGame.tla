----------------------------- MODULE CryptoGame -----------------------------
(***************************************************************************)
(* One hand dealt inside one process: CryptoGame (internal/crypto/         *)
(* crypto_game.go) with ShuffleProtocol (shuffle.go), DealProtocol         *)
(* (deal.go) and SRA keys, as HandCoordinator.RunHand starts it, and the   *)
(* comparison of the hands at the end (internal/game/hand_eval.go).        *)
(*                                                                         *)
(* The numbers are numbers: each seat raises every card to its exponent    *)
(* and permutes them, and a card is read by undoing the layers in seat     *)
(* order. `perms` remembers the permutations, so that the cards dealt can  *)
(* be compared with the deck that nobody sees.                             *)
(***************************************************************************)
EXTENDS SRA, HandEval

CONSTANTS N,        \* len(Players)
          KeySets,  \* the keys NewCryptoGame may draw: sequences over SRAKeys
          Perms,    \* what randomPermutation may return
          Nonces    \* the r of the proofs

Seats == 0 .. N - 1
Positions == CardIDs

\* What randomPermutation returns: every position, at some place.
IsPermutation(p) == DOMAIN p = Positions /\ {p[i] : i \in Positions} = Positions

ASSUME GameAssumption ==
  /\ N \in Nat /\ N > 1 /\ 2 * N + 8 <= NumCards
  /\ KeySets \subseteq [Seats -> SRAKeys] /\ KeySets # {}
  /\ \A p \in Perms : IsPermutation(p)
  /\ Nonces \subseteq 1 .. phi - 1

VARIABLES
  keys,    \* CryptoGame.Keys
  dealer,  \* GameState.DealerIdx
  deck,    \* the deck as the last shuffle step left it
  perms,   \* history: the permutations of the steps taken
  phase,   \* "shuffle", "holes", "flop", "turn", "river" or "done": what comes next
  holes,   \* Player.HoleCards
  board,   \* the community cards
  log      \* CryptoGame.DealLog

vars == <<keys, dealer, deck, perms, phase, holes, board, log>>

-----------------------------------------------------------------------------
(* Where cards lie in the deck *)

HoleCardIndex(nPlayers, dealerIdx, playerIdx, round) ==
  (round * nPlayers) + ((playerIdx - dealerIdx - 1 + nPlayers) % nPlayers)
CommunityStartPos(nPlayers) == 2 * nPlayers
FlopIndexes(nPlayers) == [i \in 1 .. 3 |-> CommunityStartPos(nPlayers) + i]
TurnIndex(nPlayers) == CommunityStartPos(nPlayers) + 5
RiverIndex(nPlayers) == CommunityStartPos(nPlayers) + 7

-----------------------------------------------------------------------------
(* Shuffling *)

\* ExecuteStep and VerifyStep: the commitment is made of the deck it is
\* checked against.
ExecuteStep(perm) ==
  LET i == Len(perms)
      encrypted == EncryptAll(keys[i], deck)
  IN  /\ deck' = [k \in Positions |-> encrypted[perm[k]]]
      /\ perms' = Append(perms, perm)
      /\ phase' = IF i + 1 = N THEN "holes" ELSE "shuffle"
      /\ UNCHANGED <<keys, dealer, holes, board, log>>

\* RunShuffle, RunFullShuffle: the seats take their steps in order.
RunShuffle == phase = "shuffle" /\ \E perm \in Perms : ExecuteStep(perm)

-----------------------------------------------------------------------------
(* Dealing *)

Peel(seat, ciphertext, cardIndex, r) ==
  LET result == Decrypt(keys[seat], ciphertext)
  IN  [player |-> seat, card |-> cardIndex, ciphertext |-> ciphertext, result |-> result,
       proof |-> ProveDecryption(keys[seat], ciphertext, result, r)]

VerifyAndApply(current, pd) ==
  IF current = pd.ciphertext /\ VerifyDecryption(pd.proof, pd.ciphertext, pd.result)
  THEN pd.result ELSE Error

\* The partial decryptions of the seats in `peelers`, in seat order.
Peels(deckIndex, peelers, r) ==
  LET partials[i \in 0 .. N] ==
        IF i = 0 THEN <<>>
        ELSE LET before  == partials[i - 1]
                 current == IF before = <<>> THEN deck[deckIndex]
                            ELSE VerifyAndApply(Last(before).ciphertext, Last(before))
             IN  IF i - 1 \in peelers THEN Append(before, Peel(i - 1, current, deckIndex, r))
                 ELSE before
  IN  partials[N]

Peeled(partials) == VerifyAndApply(Last(partials).ciphertext, Last(partials))

\* RevealToPlayer: the recipient takes its own layer off last (FinishHole).
RevealToPlayer(deckIndex, recipient, r) ==
  FieldToCard(Decrypt(keys[recipient], Peeled(Peels(deckIndex, Seats \ {recipient}, r))))

\* VerifyFullLog: the log holds the peels of the community cards.
VerifyFullLog ==
  \A pd \in log : VerifyDecryption(pd.proof, pd.ciphertext, pd.result)

\* RevealCommunity, FinishPublic: everybody peels.
CommunityPartials(deckIndex, r) == Peels(deckIndex, Seats, r)
RevealCommunity(deckIndex, r) == FieldToCard(Peeled(CommunityPartials(deckIndex, r)))

\* Mutant: the deal starts with the dealer.
DealFromDealer(r) ==
  LET seatAt(pos) == (dealer + (pos % N)) % N
  IN  [s \in Seats |-> [round \in 0 .. 1 |->
         RevealToPlayer(CHOOSE pos \in round * N .. ((round + 1) * N) - 1 : seatAt(pos) = s, s, r)]]

\* DealHoleCards: two rounds from the left of the dealer, one deck position
\* after the other.
DealHoleCards(r) ==
  LET seatAt(pos) == (dealer + 1 + (pos % N)) % N
  IN  [s \in Seats |-> [round \in 0 .. 1 |->
         RevealToPlayer(CHOOSE pos \in round * N .. ((round + 1) * N) - 1 : seatAt(pos) = s, s, r)]]

\* DealToEngine: a card that does not come out fails the hand.
DealToEngine ==
  \E r \in Nonces :
    LET dealt == DealHoleCards(r)
    IN  /\ phase = "holes"
        /\ IF \E s \in Seats : NoCard \in {dealt[s][0], dealt[s][1]}
           THEN phase' = "failed" /\ UNCHANGED holes
           ELSE phase' = "flop" /\ holes' = dealt
        /\ UNCHANGED <<keys, dealer, deck, perms, board, log>>

\* DealProtocol's own walk over the board: every batch burns a card first.
DealCommunityCards(startPos, batches, r) ==
  LET used(b) == FoldLeft(LAMBDA sum, count : sum + count, b, SubSeq(batches, 1, b - 1))
  IN  [b \in DOMAIN batches |->
         [i \in 1 .. batches[b] |-> RevealCommunity(startPos + used(b) + i - 1, r)]]

\* dealBatch: one card is burnt, `count` are turned over.
dealBatch(count, next) ==
  \E r \in Nonces :
    LET startPos == CommunityStartPos(N) + Len(board)
                      + (CASE phase = "flop" -> 0 [] phase = "turn" -> 1 [] OTHER -> 2)
        cards == [i \in 1 .. count |-> RevealCommunity(startPos + i, r)]
    IN  /\ IF \E i \in 1 .. count : cards[i] = NoCard
           THEN phase' = "failed" /\ UNCHANGED <<board, log>>
           ELSE /\ phase' = next
                /\ board' = board \o cards
                /\ log' = log \cup UNION {Range(CommunityPartials(startPos + i, r)) : i \in 1 .. count}
        /\ UNCHANGED <<keys, dealer, deck, perms, holes>>

DealFlop == phase = "flop" /\ dealBatch(3, "turn")
DealTurn == phase = "turn" /\ dealBatch(1, "river")
DealRiver == phase = "river" /\ dealBatch(1, "done")

-----------------------------------------------------------------------------
\* NewCryptoGame.
Init ==
  /\ keys \in KeySets
  /\ dealer \in Seats
  /\ deck = BuildPlaintextDeck
  /\ perms = <<>>
  /\ phase = "shuffle"
  /\ holes = [s \in Seats |-> <<>>]
  /\ board = <<>> /\ log = {}

Next ==
  \/ RunShuffle
  \/ DealToEngine
  \/ DealFlop \/ DealTurn \/ DealRiver

Spec == Init /\ [][Next]_vars

-----------------------------------------------------------------------------
(* Properties *)

\* The card that lies at a position of the shuffled deck.
CardAt(pos) ==
  LET through[i \in 0 .. Len(perms)] ==
        IF i = 0 THEN pos ELSE perms[Len(perms) - i + 1][through[i - 1]]
  IN  through[Len(perms)]

\* Whatever the keys and the permutations, the layers come off in seat order
\* although they were not put on in the reverse one, every proof verifies, and
\* each seat gets the cards at the indexes the deal session computes for it
\* (HoleCardIndex, FlopIndexes, TurnIndex, RiverIndex against DealHoleCards,
\* dealBatch, DealCommunityCards).
DealtByTheIndexes ==
  /\ phase # "failed" /\ VerifyFullLog
  /\ phase \in {"flop", "turn", "river", "done"} =>
       \A s \in Seats : \A round \in 0 .. 1 :
         holes[s][round] = CardAt(HoleCardIndex(N, dealer, s, round))
  /\ phase = "done" =>
       /\ board = [i \in 1 .. 5 |-> CardAt((FlopIndexes(N) \o <<TurnIndex(N), RiverIndex(N)>>)[i])]
       /\ \A r \in Nonces :
            board = FlattenSeq(DealCommunityCards(CommunityStartPos(N), <<3, 1, 1>>, r))

Seven(s) == {holes[s][0], holes[s][1]} \cup Range(board)

\* Two hands of which one holds at least a pair compare as the rules say, and
\* tie only if they are worth the same (EvaluateBest7, Compare).
BestHandWins ==
  phase = "done" =>
    LET best  == [s \in Seats |-> EvaluateBest7(Seven(s))]
        worth == [s \in Seats |-> BestStrength(Seven(s))]
    IN  \A s, t \in Seats : s < t /\ {best[s].rank, best[t].rank} # {HighCard} =>
          /\ Compare(best[s], best[t]) = 1 <=> worth[s] > worth[t]
          /\ Compare(best[s], best[t]) = 0 <=> worth[s] = worth[t]

\* Two hands tie only if they are worth the same (EvaluateBest7, Compare).
BestFiveKept ==
  phase = "done" =>
    \A s, t \in Seats :
      Compare(EvaluateBest7(Seven(s)), EvaluateBest7(Seven(t))) = 0 =>
        BestStrength(Seven(s)) = BestStrength(Seven(t))

\* Shares arrive in any order and more than once; as soon as the store says
\* that it can rebuild the key, the key is that of the seat, and it says so
\* once as many different shares as the threshold have come
\* (SplitAndDistribute, AddReconstructionShare, ReconstructSRAKey).
QuorumRebuilds ==
  perms = <<>> /\ dealer = 0 =>
    \A n \in 2 .. 5 : \A coeffs \in [1 .. Threshold(n) - 1 -> {0, 5, P - 1}] :
      LET shares == SplitAndDistribute(keys[0], coeffs, n)
          held[arrivals \in UNION {[1 .. m -> 1 .. n] : m \in 0 .. 4}] ==
            FoldLeft(LAMBDA acc, x : AddReconstructionShare(acc, shares[x]), <<>>, arrivals)
      IN  \A arrivals \in DOMAIN held :
            LET can == CanReconstruct(held[arrivals], Threshold(n))
            IN  /\ can <=> Cardinality(Range(arrivals)) >= Threshold(n)
                /\ can => ReconstructSRAKey(held[arrivals], Threshold(n)) = keys[0]

\* A share of a key that two are needed for fits every key equally well
\* (SplitSecret).
TooFewSharesTellNothing ==
  perms = <<>> /\ dealer = 0 =>
    \A coeff \in {0, 5, P - 1} : \A x \in 1 .. N :
      LET share == ShareAt(keys[0].d, <<coeff>>, x)
      IN  \A d \in 1 .. phi - 1 : Cardinality({c \in Polynomials(2) : ShareAt(d, c, x) = share}) = 1
=============================================================================
