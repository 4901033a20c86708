--------------------------- MODULE SharedShuffle ---------------------------
(***************************************************************************)
(* What the distributed shuffle promises. In each hand the table has one   *)
(* deck, permuted by every seat in turn and by nobody twice. A player sees *)
(* the deck as it was after some of the turns, and only ever moves on.     *)
(***************************************************************************)
EXTENDS Seating, Sequences

CONSTANTS Perms, MaxHands

VARIABLES deck,  \* deck[h]: the permutations the deck of hand h went through
          sees   \* sees[r]: the hand seat r is at and the deck it holds

Begin(d, whole) == Len(d) <= Len(whole) /\ d = SubSeq(whole, 1, Len(d))

Sit(r) ==
  /\ sees[r].hand < MaxHands
  /\ sees' = [sees EXCEPT ![r] = [hand |-> sees[r].hand + 1, deck |-> <<>>]]
  /\ deck' = deck

CatchUp(r) ==
  LET h == sees[r].hand
      now == sees'[r].deck
  IN  /\ Len(now) > Len(sees[r].deck) /\ Begin(now, deck[h])
      /\ sees' = [sees EXCEPT ![r] = [hand |-> h, deck |-> now]]
      /\ deck' = deck

TakeTurn(r) ==
  LET h == sees[r].hand
  IN  /\ h > 0 /\ Len(deck[h]) = r
      /\ \E p \in Perms : deck' = [deck EXCEPT ![h] = Append(deck[h], p)]
      /\ sees' = [sees EXCEPT ![r] = [hand |-> h, deck |-> deck'[h]]]

Init ==
  /\ deck = [h \in 1 .. MaxHands |-> <<>>]
  /\ sees = [r \in Seats |-> [hand |-> 0, deck |-> <<>>]]

Next == \E r \in Seats : Sit(r) \/ CatchUp(r) \/ TakeTurn(r)

Spec == Init /\ [][Next]_<<deck, sees>>
=============================================================================
