----------------------------- MODULE DealSession -----------------------------
(***************************************************************************)
(* Dealing from the encrypted deck: one crypto.DealSession per seat inside *)
(* a network.CryptoHand, and the code that takes it through the hand       *)
(* (internal/crypto/deal_session.go, internal/crypto/deal.go,              *)
(* internal/network/crypto_hand.go, cmd/poker/main.go).                    *)
(*                                                                         *)
(* A card is read by taking the seats' layers of encryption off it, each   *)
(* seat publishing its peel in seat order; the last layer of a hole card   *)
(* stays on for its recipient. A ciphertext is the set of seats whose layer *)
(* is off. A peel carries a random proof, so two peels of the same layer   *)
(* are different messages: who made it, and in which sequence, names it.   *)
(***************************************************************************)
EXTENDS Seating, Sequences

CONSTANTS Dealer,          \* dealerIdx
          Rounds,          \* bound: hole cards of a seat, 2 in the code
          LastStreet,      \* bound: streets played before the showdown or the last fold
          Left,            \* seats that come to the showdown; empty if all fold but one
          Echoed,          \* bound: <<card, seat, to>> for which seat's peel also comes by the direct stream
          EarlyCap,        \* earlyBufCap
          Silent,          \* seats that may stop before the hole cards are dealt, all or none
          Slow,            \* seats that deal but are timed out and peeled for
          DeadlinesPass,   \* whether cryptoDealTimeout may run out
          ActionsOvertake  \* whether an action can reach a seat that has no board for it yet

Cards == 0 .. 2 * N + 7

ASSUME DealAssumption ==
  /\ Dealer \in Seats
  /\ Rounds \in 1 .. 2 /\ LastStreet \in 0 .. 3
  /\ Left \subseteq Seats
  /\ EarlyCap \in Nat
  /\ Echoed \subseteq Cards \X Seats \X Seats
  /\ Silent \subseteq Seats /\ Slow \subseteq Seats
  /\ DeadlinesPass \in BOOLEAN /\ ActionsOvertake \in BOOLEAN

-----------------------------------------------------------------------------
(* Which card is peeled for whom, and when *)

Everyone == N        \* the recipient of a public card

HoleCardIndex(p, round) == round * N + ((p - Dealer - 1 + N) % N)
HoleJobs == [j \in 1 .. Rounds * N |-> [card |-> j - 1, to |-> (Dealer + j) % N]]

\* One burn before every street.
StreetJobs(street) ==
  LET public(i) == [card |-> 2 * N + i, to |-> Everyone]
  IN  CASE street = 1 -> <<public(1), public(2), public(3)>>
        [] street = 2 -> <<public(5)>>
        [] street = 3 -> <<public(7)>>

\* In table order.
RemainingShowdownIDs ==
  [i \in 1 .. Cardinality(Left) |->
     CHOOSE p \in Left : Cardinality({q \in Left : q < p}) = i - 1]

RevealJobs(p) == [k \in 1 .. Rounds |-> [card |-> HoleCardIndex(p, k - 1), to |-> Everyone]]

\* The sequences of the hand: the hole cards, the streets, the reveals.
Plan ==
  <<HoleJobs>> \o [s \in 1 .. LastStreet |-> StreetJobs(s)]
               \o [i \in 1 .. Cardinality(Left) |-> RevealJobs(RemainingShowdownIDs[i])]

\* Mutant: the recipient peels its own card with the others.
PeelersWithRecipient(job) == [i \in 1 .. N |-> i - 1]

\* PeelOrder: the seats in order, the recipient left out.
Peelers(job) ==
  IF job.to = Everyone THEN [i \in 1 .. N |-> i - 1]
  ELSE [i \in 1 .. N - 1 |-> IF i <= job.to THEN i - 1 ELSE i]

Layers == SUBSET Seats
Peel == [card : Cards, seat : Seats, from : Layers, by : Seats, at : 1 .. Len(Plan)]

-----------------------------------------------------------------------------
VARIABLES
  deal,    \* deal[r]: seat r's DealSession
  early,   \* early[r]: peels parked until their card's turn (earlyPeels)
  gone,    \* gone[r]: seats whose reconstructed key r's CryptoHand holds
  at,      \* at[r]: how many sequences of the plan its driver has started
  mode,    \* mode[r]: where that driver is
  woken,   \* woken[r]: whether the gate of its last sequence has been signalled
  made,    \* history: every peel a seat made
  flight,  \* packets on their way
  silent   \* the seats that have stopped

vars == <<deal, early, gone, at, mode, woken, made, flight, silent>>

Suspects == silent \cup Slow

\* applied and pending are those of the current job; read is the decoded cards.
Session == [at : 0 .. Len(Plan), busy : BOOLEAN, job : Nat, next : Nat, current : Layers,
            applied : SUBSET Peel, pending : SUBSET Peel,
            read : SUBSET [card : Cards, layers : Layers]]
Packet == [to : Seats, msg : Peel, copy : {"gossip", "direct"}]

NewSession == [at |-> 0, busy |-> FALSE, job |-> 0, next |-> 0, current |-> {},
               applied |-> {}, pending |-> {}, read |-> {}]

Job(d) == Plan[d.at][d.job]
\* Mutant: a card is finished one peel short.
JobCompleteShort(d) == d.next >= Len(Peelers(Job(d))) - 1

JobComplete(d) == d.next = Len(Peelers(Job(d)))
ExpectedPeeler(d) == Peelers(Job(d))[d.next + 1]

\* HolesDone, StreetDone or RevealDone of the sequence k of the plan.
SequenceDone(d, k) == d.at > k \/ (d.at = k /\ ~ d.busy)

-----------------------------------------------------------------------------
(* The session *)

InstallJob(d, k, j) ==
  [d EXCEPT !.at = k, !.busy = TRUE, !.job = j, !.next = 0, !.current = {},
            !.applied = {}, !.pending = {}]

\* finishJob and advanceSequence: the card is read, the next job is installed.
Advance(d, r) ==
  LET job   == Job(d)
      off   == IF job.to = r THEN d.current \cup {r} ELSE d.current
      known == IF job.to \in {r, Everyone} THEN {[card |-> job.card, layers |-> off]} ELSE {}
      done  == [d EXCEPT !.read = @ \cup known]
  IN  IF d.job < Len(Plan[d.at]) THEN InstallJob(done, d.at, d.job + 1)
      ELSE [done EXCEPT !.busy = FALSE, !.next = 0, !.current = {},
                        !.applied = {}, !.pending = {}]

\* A peel made by seat `by` with the key of seat q.
NewPeel(d, q, by) ==
  [card |-> Job(d).card, seat |-> q, from |-> d.current, by |-> by, at |-> d.at]

\* A ciphertext is a card and the layers that are off.
Verifies(d, m) == m.card = Job(d).card /\ m.from = d.current
Apply(d, m) ==
  [d EXCEPT !.next = @ + 1, !.current = m.from \cup {m.seat}, !.applied = @ \cup {m}]

\* What a call leaves behind: the session, the parked peels, the peels it made,
\* and whether it returned an error, in which case nothing is sent.
Result(d, parked, own, err) == [d |-> d, early |-> parked, own |-> own, err |-> err]

\* The member of a singleton, which TLC evaluates once.
Once(singleton) == CHOOSE v \in singleton : TRUE

\* One turn of the loop that goes on after a peel is applied: a finished card
\* is replaced by the next; a buffered peel is taken; the local seat peels, and
\* so does the designated survivor for the seats in `helped`.
Turn(x, r, helped) ==
  LET d == x.d
      q == ExpectedPeeler(d)
      buffered == {m \in d.pending : m.seat = q}
  IN  IF x.err \/ ~ d.busy THEN x
      ELSE IF JobComplete(d) THEN [x EXCEPT !.d = Advance(d, r)]
      ELSE IF q # r /\ buffered # {}
      THEN LET m == CHOOSE m \in buffered : TRUE
               taken == [d EXCEPT !.pending = @ \ {m}]
           IN  IF Verifies(d, m) THEN [x EXCEPT !.d = Apply(taken, m)]
               ELSE [x EXCEPT !.d = taken, !.err = TRUE]
      ELSE IF q \in {r} \cup helped
      THEN [x EXCEPT !.d = Apply(d, NewPeel(d, q, r)), !.own = @ \cup {NewPeel(d, q, r)}]
      ELSE x

\* afterApply and executeLocal call each other until nothing is left to do.
Settle(x, r, helped) ==
  LET after[k \in 0 .. 2 * N * (N + 1)] ==
        IF k = 0 THEN x ELSE Once({Turn(y, r, helped) : y \in {after[k - 1]}})
  IN  after[2 * N * (N + 1)]

\* Of what validateIncomingLocked refuses, only the card can be wrong here.
ValidateIncoming(d, m) == m.card = Job(d).card

\* The errors on which CryptoHand parks a peel.
Premature(d, m) == ~ d.busy \/ ~ ValidateIncoming(d, m)

\* DealSession.HandlePeel of a peel of the current card.
SessionPeel(x, r, m) ==
  LET d == x.d
      turns == Peelers(Job(d))
      isPeeler == \E i \in 1 .. Len(turns) : turns[i] = m.seat
      peeled == \E i \in 1 .. d.next : turns[i] = m.seat
      failed == [x EXCEPT !.err = TRUE]
  IN  IF ~ isPeeler THEN failed
      ELSE IF peeled THEN [x EXCEPT !.err = m \notin d.applied]
      ELSE IF m.seat = r THEN failed
      ELSE IF m.seat = ExpectedPeeler(d)
      THEN IF Verifies(d, m) THEN Settle([x EXCEPT !.d = Apply(d, m)], r, {}) ELSE failed
      ELSE IF \E b \in d.pending : b.seat = m.seat THEN [x EXCEPT !.err = m \notin d.pending]
      ELSE [x EXCEPT !.d.pending = @ \cup {m}]

-----------------------------------------------------------------------------
(* The hand *)

Park(parked, m) == IF Len(parked) < EarlyCap THEN Append(parked, m) ELSE parked

\* One round of the loop in drainPeels.
Redeliver(y, r, m) ==
  IF y.err THEN y
  ELSE IF Premature(y.d, m) THEN [y EXCEPT !.early = Park(@, m)]
  ELSE SessionPeel(y, r, m)

\* drainPeels: one pass over the parked peels; those still premature are parked
\* again, an error ends the pass and discards what is left of it.
DrainPeels(x, r) ==
  LET pass[k \in 0 .. Len(x.early)] ==
        IF k = 0 THEN [x EXCEPT !.early = <<>>]
        ELSE Once({Redeliver(y, r, x.early[k]) : y \in {pass[k - 1]}})
  IN  pass[Len(x.early)]

DesignatedSurvivor(absent) == Least(Seats \ absent)

\* Mutant: the survivor peels at most once for each seat that is gone.
DelegateOnce(x, r, absent) ==
  IF r = DesignatedSurvivor(absent) /\ \A m \in made : m.by = r => m.seat = r
  THEN Settle(x, r, absent) ELSE x

\* tryDelegatedPeels
Delegate(x, r, absent) ==
  IF r = DesignatedSurvivor(absent) THEN Settle(x, r, absent) ELSE x

\* What follows a successful call of the session.
FollowUp(x, r, absent) ==
  IF x.err THEN x
  ELSE Once({IF y.err THEN y ELSE Delegate(y, r, absent) : y \in {DrainPeels(x, r)}})

\* Mutant: the loop over the recipients goes one past the table.
SendPeelPastTable(r, out) ==
  [to : (0 .. N) \ {r}, msg : out, copy : {"gossip"}]

\* SendPeel: always gossip, and a direct copy.
SendPeel(r, out) ==
  {pkt \in [to : Seats \ {r}, msg : out, copy : {"gossip", "direct"}] :
     pkt.copy = "direct" => <<pkt.msg.card, pkt.msg.seat, pkt.to>> \in Echoed}

\* The state after a call x of seat r, the packets `rest` still on their way.
Install(r, x, rest) ==
  /\ deal' = [deal EXCEPT ![r] = x.d]
  /\ early' = [early EXCEPT ![r] = x.early]
  /\ made' = made \cup x.own
  /\ flight' = IF x.err THEN rest ELSE rest \cup SendPeel(r, x.own)

\* Whether the call x closes the gate of the sequence k of the plan.
SignalPeelProgress(x, k) == ~ x.err /\ SequenceDone(x.d, k)

\* What StartHoles, StartStreet and StartReveal have in common: the gate is
\* reset, the sequence k begins, parked peels are drained.
StartSequence(r, k) ==
  LET begun == Result(InstallJob(deal[r], k, 1), early[r], {}, FALSE)
  IN  /\ mode[r] = "idle" /\ at[r] = k - 1
      /\ at' = [at EXCEPT ![r] = k]
      /\ \E x \in {FollowUp(Settle(begun, r, {}), r, gone[r])} :
           /\ Install(r, x, flight)
           /\ mode' = [mode EXCEPT ![r] = IF x.err THEN "failed" ELSE "started"]
           /\ woken' = [woken EXCEPT ![r] = SignalPeelProgress(x, k)]
      /\ UNCHANGED <<gone, silent>>

StartHoles(r) == StartSequence(r, 1)

\* The board: the public cards read that are no hole cards.
CommunityCards(d) == {c \in d.read : c.card >= 2 * N}

StreetFromPending(board) ==
  CASE Cardinality(board) = 0 -> 1
    [] Cardinality(board) = 3 -> 2
    [] Cardinality(board) = 4 -> 3
    [] OTHER -> 0

\* The first street follows a round of betting: every seat has its hand and
\* acts, unless it is timed out and folded.
StartStreet(r) ==
  LET street == StreetFromPending(CommunityCards(deal[r]))
  IN  /\ street \in 1 .. LastStreet
      /\ street = 1 => \A q \in Seats \ Suspects : SequenceDone(deal[q], 1)
      /\ StartSequence(r, 1 + street)

\* The board is complete and more than one seat is left.
StartReveal(r) ==
  \E i \in 1 .. Cardinality(Left) : StartSequence(r, 1 + LastStreet + i)

HandlePeel(r, pkt) ==
  LET now == Result(deal[r], early[r], {}, FALSE)
      premature == Premature(deal[r], pkt.msg)
  IN  /\ pkt.to = r
      /\ \E x \in {IF premature THEN [now EXCEPT !.early = Park(@, pkt.msg)]
                   ELSE FollowUp(SessionPeel(now, r, pkt.msg), r, gone[r])} :
           /\ Install(r, x, flight \ {pkt})
           /\ woken' = [woken EXCEPT ![r] = @ \/ (~ premature /\ SignalPeelProgress(x, at[r]))]
      /\ UNCHANGED <<gone, at, mode, silent>>

\* What the three waits have in common: done already, or wait at the gate.
WaitSequence(r) ==
  /\ mode[r] = "started"
  /\ mode' = [mode EXCEPT ![r] = IF SequenceDone(deal[r], at[r]) THEN "idle" ELSE "waiting"]
  /\ UNCHANGED <<deal, early, gone, at, woken, made, flight, silent>>

WaitHoles(r) == at[r] = 1 /\ WaitSequence(r)
WaitStreet(r) == at[r] \in 2 .. 1 + LastStreet /\ WaitSequence(r)
WaitReveal(r) == at[r] > 1 + LastStreet /\ WaitSequence(r)

Wake(r) ==
  /\ mode[r] = "waiting"
  /\ woken[r]
  /\ mode' = [mode EXCEPT ![r] = "idle"]
  /\ UNCHANGED <<deal, early, gone, at, woken, made, flight, silent>>

\* kickCryptoAdvance while its predecessor waits: StartStreet or StartReveal
\* resets the gate and fails, as its sequence is under way. The waiter is left
\* with the old gate. The kick comes with a timeout fold or with an action, and
\* the action may be that of a seat that has read the street already.
Kick(r) ==
  /\ mode[r] = "waiting" /\ ~ woken[r]
  /\ at[r] > 1
  /\ \/ Suspects \ {r} # {}
     \/ ActionsOvertake /\ at[r] <= 1 + LastStreet
          /\ \E q \in Seats : SequenceDone(deal[q], at[r])
  /\ mode' = [mode EXCEPT ![r] = "deaf"]
  /\ UNCHANGED <<deal, early, gone, at, woken, made, flight, silent>>

\* The deadline of the context runs out.
DealTimeout(r) ==
  /\ DeadlinesPass
  /\ mode[r] \in {"waiting", "deaf"}
  /\ mode' = [mode EXCEPT ![r] = "failed"]
  /\ UNCHANGED <<deal, early, gone, at, woken, made, flight, silent>>

\* The reconstructed key of g is at r's CryptoHand.
MarkGone(r, g) == gone' = [gone EXCEPT ![r] = @ \cup {g}]

\* beginRecovery: MarkGone and TryDelegatedPeels. Seat g may only be slow.
Recover(r, g) ==
  /\ g # r /\ g \notin gone[r]
  /\ MarkGone(r, g)
  /\ \E x \in {Delegate(Result(deal[r], early[r], {}, FALSE), r, gone'[r])} :
       /\ Install(r, x, flight)
       /\ woken' = [woken EXCEPT ![r] = @ \/ (x.own # {} /\ SignalPeelProgress(x, at[r]))]
  /\ UNCHANGED <<at, mode, silent>>

-----------------------------------------------------------------------------
Init ==
  /\ deal = [r \in Seats |-> NewSession]
  /\ early = [r \in Seats |-> <<>>]
  /\ gone = [r \in Seats |-> {}]
  /\ at = [r \in Seats |-> 0]
  /\ mode = [r \in Seats |-> "idle"]
  /\ woken = [r \in Seats |-> FALSE]
  /\ made = {} /\ flight = {}
  /\ silent \in {{}, Silent}

Receive(r) == \E pkt \in flight : HandlePeel(r, pkt)

Next == \E r \in Seats \ silent :
          \/ StartHoles(r) \/ StartStreet(r) \/ StartReveal(r)
          \/ Receive(r)
          \/ WaitHoles(r) \/ WaitStreet(r) \/ WaitReveal(r) \/ Wake(r)
          \/ Kick(r) \/ DealTimeout(r)
          \/ \E g \in Suspects : Recover(r, g)

Spec == Init /\ [][Next]_vars

\* Packets arrive, the driver's goroutine runs, and a silent seat's key is
\* reconstructed.
Fairness == \A r \in Seats :
  LET Runs(A) == r \notin silent /\ A
  IN  /\ WF_vars(Runs(StartHoles(r) \/ StartStreet(r) \/ StartReveal(r)))
      /\ WF_vars(Runs(Receive(r)))
      /\ WF_vars(Runs(WaitSequence(r))) /\ WF_vars(Runs(Wake(r)))
      /\ \A g \in Silent : WF_vars(Runs(g \in silent /\ Recover(r, g)))

FairSpec == Spec /\ Fairness

-----------------------------------------------------------------------------
(* Properties *)

\* Sessions, parked peels, drivers and packets keep their types
\* (deal_session.go:81, crypto_hand.go:18).
TypeOK ==
  /\ deal \in [Seats -> Session]
  /\ early \in [Seats -> Seq(Peel)]
  /\ gone \in [Seats -> SUBSET Seats]
  /\ at \in [Seats -> 0 .. Len(Plan)]
  /\ mode \in [Seats -> {"idle", "started", "waiting", "deaf", "failed"}]
  /\ woken \in [Seats -> BOOLEAN]
  /\ made \subseteq Peel
  /\ flight \subseteq Packet
  /\ silent \in {{}, Silent}

\* What a seat reads as a card has every layer of encryption off, so that all
\* replicas read the same card (finishJobLocked), whatever stale, repeated or
\* delegated peels it was offered.
EveryCardWhole == \A r \in Seats : \A c \in deal[r].read : c.layers = Seats

\* The sequence of the plan that makes card c public, past its end if none does.
PublicAt(c) ==
  Least({k \in 1 .. Len(Plan) : \E j \in 1 .. Len(Plan[k]) : Plan[k][j] = [card |-> c, to |-> Everyone]}
          \cup {Len(Plan) + 1})

Recipient(c) ==
  IF c < Rounds * N THEN HoleJobs[c + 1].to ELSE Everyone

\* Seat q can read card c off the peels made so far with the keys it holds.
CanRead(q, c) ==
  \E m \in made : m.card = c /\ Seats \ (m.from \cup {m.seat}) \subseteq {q} \cup gone[q]

TimedOut == UNION {gone[r] : r \in Seats}

\* The seats without whose consent card c stays covered.
Owners(c) == IF Recipient(c) = Everyone THEN Seats ELSE {Recipient(c)}

\* Nobody but its recipient, or a seat that holds the recipient's key, can read
\* a hole card before the recipient has come, on its own replica, to the reveal
\* of it, so that a folded hand is never read; nobody can read a card of the
\* board before every seat that is not timed out has come to its street
\* (PeelOrder, BeginStreet, BeginReveal). This holds although a second copy of a
\* peel may serve where it was not meant, and survivors peel with others' keys.
SecretUntilPublic ==
  \A c \in {m.card : m \in made} : \A q \in Seats :
    CanRead(q, c) /\ Recipient(c) \notin {q} \cup gone[q] =>
      \A s \in Owners(c) \ ({q} \cup TimedOut) : at[s] >= PublicAt(c)

\* A parked peel is the one seat r's session waits for.
TurnHasCome(r) ==
  /\ deal[r].busy
  /\ \E i \in 1 .. Len(early[r]) :
       early[r][i].seat = ExpectedPeeler(deal[r]) /\ Verifies(deal[r], early[r][i])

\* Every seat that does not stop gets through the whole plan, unless a deadline
\* passes, a replica overlooks a parked peel or a driver is left at an old gate
\* (AdvanceCryptoLocked, TryDelegatedPeels).
EveryoneDealt ==
  <>[](\/ \A r \in Seats \ silent : at[r] = Len(Plan) /\ mode[r] = "idle"
       \/ \E r \in Seats \ silent : TurnHasCome(r) \/ mode[r] \in {"deaf", "failed"})

Shared == INSTANCE SharedDeal
            WITH suspects <- Suspects,
                 done <- {[at |-> m.at, card |-> m.card, seat |-> m.seat] : m \in made}

\* The peels of all replicas are one deal in which the seats take turns.
ImplementsSharedDeal == Shared!Spec
=============================================================================
