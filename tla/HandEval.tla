------------------------------ MODULE HandEval ------------------------------
(***************************************************************************)
(* The hand evaluator: internal/game/hand_eval.go and the cards of         *)
(* deck.go. A card is its number, 0 to 51; five or seven cards are a set,  *)
(* as the order in which they are held decides nothing. Strength is the    *)
(* reference: what the rules say a hand is worth, by counting, without the *)
(* evaluator's groups and kickers.                                         *)
(***************************************************************************)
EXTENDS Integers, FiniteSets, FiniteSetsExt, Sequences, SequencesExt

\* CardFromID.
Rank(card) == (card % 13) + 2
Suit(card) == card \div 13

Ace == 14
Five == 5

HighCard == 0
OnePair == 1
TwoPair == 2
ThreeOfAKind == 3
Straight == 4
Flush == 5
FullHouse == 6
FourOfAKind == 7
StraightFlush == 8
RoyalFlush == 9

rankDesc(five) ==
  LET sorted == SetToSortSeq(five, LAMBDA c, d : Rank(c) > Rank(d) \/ (Rank(c) = Rank(d) /\ c > d))
  IN  [i \in 1 .. 5 |-> Rank(sorted[i])]

checkFlush(five) == \A c, d \in five : Suit(c) = Suit(d)

\* The rank of the highest card, 0 if the cards make no straight.
checkStraight(five) ==
  LET ranks == {Rank(c) : c \in five}
  IN  IF Cardinality(ranks) = 5 /\ Max(ranks) - Min(ranks) = 4 THEN Max(ranks)
      ELSE IF ranks = {Ace, 2, 3, 4, Five} THEN Five ELSE 0

RankGroups(five) ==
  {[rank |-> r, count |-> Cardinality({c \in five : Rank(c) = r})] : r \in {Rank(c) : c \in five}}

\* Mutant: the groups are sorted by rank alone.
groupByRankOnly(five) ==
  SetToSortSeq(RankGroups(five), LAMBDA g, h : g.rank > h.rank)

groupByRank(five) ==
  SetToSortSeq(RankGroups(five),
               LAMBDA g, h : g.count > h.count \/ (g.count = h.count /\ g.rank > h.rank))

Hand(rank, kickers) == [rank |-> rank, kickers |-> kickers]

\* The switches of evaluate5, in their order: the kickers are the ranks of the
\* groups, the larger group first.
evaluate5(five) ==
  LET flush  == checkFlush(five)
      high   == checkStraight(five)
      groups == groupByRank(five)
      order  == [i \in DOMAIN groups |-> groups[i].rank]
      Count(i) == groups[i].count
  IN  CASE flush /\ high = Ace             -> Hand(RoyalFlush, <<Ace>>)
        [] flush /\ high \notin {0, Ace}   -> Hand(StraightFlush, <<high>>)
        [] Count(1) = 4                    -> Hand(FourOfAKind, order)
        [] Count(1) = 3 /\ Count(2) = 2    -> Hand(FullHouse, order)
        [] flush /\ high = 0               -> Hand(Flush, rankDesc(five))
        [] ~ flush /\ high # 0             -> Hand(Straight, <<high>>)
        [] Count(1) = 3 /\ Count(2) = 1    -> Hand(ThreeOfAKind, order)
        [] Count(1) = 2 /\ Count(2) = 2    -> Hand(TwoPair, order)
        [] Count(1) = 2 /\ Count(2) = 1    -> Hand(OnePair, order)
        [] OTHER                           -> Hand(HighCard, rankDesc(five))

\* 1, 0 or -1: the rank first, then the kickers as far as both hands have them.
Compare(h, other) ==
  LET common  == 1 .. Min({Len(h.kickers), Len(other.kickers)})
      differs == {i \in common : h.kickers[i] # other.kickers[i]}
      first   == Min(differs)
      Sign(a, b) == IF a > b THEN 1 ELSE -1
  IN  IF h.rank # other.rank THEN Sign(h.rank, other.rank)
      ELSE IF differs = {} THEN 0 ELSE Sign(h.kickers[first], other.kickers[first])

\* The search starts from a high card without kickers.
EvaluateBest7(seven) ==
  FoldSet(LAMBDA h, best : IF Compare(h, best) > 0 THEN h ELSE best,
          Hand(HighCard, <<>>), {evaluate5(five) : five \in kSubset(5, seven)})

-----------------------------------------------------------------------------
(* The reference *)

\* The category from the number of pairs of cards of one rank among the five.
Category(five) ==
  LET pairs    == Cardinality({q \in kSubset(2, five) : Cardinality({Rank(c) : c \in q}) = 1})
      lows     == {Rank(c) : c \in five}
      wheel    == {IF r = Ace THEN 1 ELSE r : r \in lows}
      straight == pairs = 0 /\ (Max(lows) = Min(lows) + 4 \/ Max(wheel) = Min(wheel) + 4)
      flush    == Cardinality({Suit(c) : c \in five}) = 1
  IN  IF straight /\ flush THEN IF Min(lows) = 10 THEN RoyalFlush ELSE StraightFlush
      ELSE IF straight THEN Straight
      ELSE IF flush THEN Flush
      ELSE <<HighCard, OnePair, TwoPair, ThreeOfAKind, FullHouse, Flush, FourOfAKind>>[pairs + 1]

\* One number per hand: the category, then the cards, those of the larger
\* group first and the higher first; the ace of a wheel counts one.
Strength(five) ==
  LET ranks == {Rank(c) : c \in five}
      wheel == ranks = {Ace, 2, 3, 4, Five}
      Worth(c) == IF wheel /\ Rank(c) = Ace THEN 1 ELSE Rank(c)
      Many(c)  == Cardinality({d \in five : Rank(d) = Rank(c)})
      Before(c) == {d \in five : \/ Many(d) > Many(c)
                                 \/ Many(d) = Many(c) /\ Worth(d) > Worth(c)
                                 \/ Rank(d) = Rank(c) /\ d > c}
  IN  FoldSet(LAMBDA c, sum : sum + (Worth(c) * (15 ^ (4 - Cardinality(Before(c))))),
              Category(five) * (15 ^ 5), five)

BestStrength(seven) == Max({Strength(five) : five \in kSubset(5, seven)})
=============================================================================
