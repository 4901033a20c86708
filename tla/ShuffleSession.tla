--------------------------- MODULE ShuffleSession ---------------------------
(***************************************************************************)
(* The distributed shuffle: one crypto.ShuffleSession per seat, inside a   *)
(* network.CryptoHand, driven by dealCryptoHand and by gossip              *)
(* (internal/crypto/shuffle_session.go, internal/network/crypto_hand.go,   *)
(* cmd/poker/main.go).                                                     *)
(*                                                                         *)
(* Every replica applies the same N steps in seat order, producing its own *)
(* when its turn comes. Steps travel as packets that may overtake one      *)
(* another and may arrive in several copies. A deck is the sequence of the *)
(* secret permutations applied to the plaintext deck; the SRA encryption   *)
(* of a step is determined by the seat and needs no name of its own.       *)
(***************************************************************************)
EXTENDS Seating, Sequences

CONSTANTS Perms,         \* the permutations a seat may draw
          Copies,        \* bound: copies of a step each receiver is sent
          EarlyCap,      \* earlyBufCap, and the 16 of the driver's own buffer
          Spoiled,       \* seats a step with a wrong commitment is in flight from
          PeersTimeOut,  \* whether timeouts and deadlines fire
          MaxHands       \* bound: hands played at the table

ASSUME ShuffleAssumption ==
  /\ Copies \in Nat \ {0}
  /\ EarlyCap \in Nat
  /\ Spoiled \subseteq Seats
  /\ PeersTimeOut \in BOOLEAN
  /\ MaxHands \in Nat \ {0}

VARIABLES
  hand,    \* hand[r]: hand number of liveHand at seat r's machine, 0 before the first
  sess,    \* sess[r]: its ShuffleSession
  early,   \* early[r]: steps parked before the session started (earlyShuffle)
  gate,    \* gate[r]: shuffleGate
  driver,  \* driver[r]: where dealCryptoHand is
  made,    \* history: every step a seat executed
  flight   \* packets on their way

vars == <<hand, sess, early, gate, driver, made, flight>>

Message == [hand : 1 .. MaxHands, seat : Seats, deck : Seq(Perms), ok : BOOLEAN]
Packet == [to : Seats, msg : Message, copy : 1 .. Copies]

\* applied is both the applied map and nextIndex: seats 0 .. nextIndex - 1 in
\* order; the current deck is the output of the last of them.
Session == [started : BOOLEAN, applied : Seq(Message), pending : SUBSET Message]

NewSession == [started |-> FALSE, applied |-> <<>>, pending |-> {}]

NextIndex(s) == Len(s.applied)
Done(s) == NextIndex(s) >= N
Current(s) == IF NextIndex(s) = 0 THEN <<>> ELSE s.applied[NextIndex(s)].deck

-----------------------------------------------------------------------------
(* The session *)

\* The member of a singleton, which TLC evaluates once.
Once(singleton) == CHOOSE v \in singleton : TRUE

Adopt(s, m) == [s EXCEPT !.applied = Append(@, m)]

\* A buffered step that can be adopted once its turn comes.
Ready(s, seat) == \E m \in s.pending : m.seat = seat /\ m.ok

\* Where draining the buffer stops: the end, the local turn, a gap, a bad step.
StopAt(s, r) ==
  Least({t \in NextIndex(s) .. N : t = N \/ t = r \/ ~ Ready(s, t)} \cup {N})

\* The buffered steps that follow on, up to the stop; a step that fails its
\* commitment there is taken out of the buffer and is the error of the call.
Drain(s, r) ==
  LET from == NextIndex(s)
      stop == StopAt(s, r)
      step(t) == CHOOSE m \in s.pending : m.seat = t /\ m.ok
  IN  [s   |-> [s EXCEPT !.applied = @ \o [i \in 1 .. stop - from |-> step(from + i - 1)],
                         !.pending = {m \in @ : m.seat \notin from .. stop}],
       err |-> stop # r /\ \E m \in s.pending : m.seat = stop]

\* What a call leaves behind: the session, the step it executed, the step it
\* returns for broadcast, and whether it returned an error.
Result(s, own, out, err) == [s |-> s, own |-> own, out |-> out, err |-> err]
Reject(s) == Result(s, {}, {}, TRUE)
Accept(s) == Result(s, {}, {}, FALSE)

\* Mutant: the step is numbered with the hand after this one.
ExecuteLocalNextHand(s, r, h, p) ==
  LET own == [hand |-> h + 1, seat |-> r, deck |-> Append(Current(s), p), ok |-> TRUE]
      d   == Drain(Adopt(s, own), r)
  IN  Result(d.s, {own}, IF d.err THEN {} ELSE {own}, d.err)

\* The local step is adopted before the buffer is drained: if the drain fails
\* the step stays applied here and is not returned.
ExecuteLocal(s, r, h, p) ==
  LET own == [hand |-> h, seat |-> r, deck |-> Append(Current(s), p), ok |-> TRUE]
      d   == Drain(Adopt(s, own), r)
  IN  Result(d.s, {own}, IF d.err THEN {} ELSE {own}, d.err)

\* Mutant: a step that fails in the drain sets the session back to the start.
AfterApplyRestarting(s, r, h, p) ==
  LET d == Drain(s, r)
  IN  IF d.err THEN Reject(NewSession)
      ELSE IF NextIndex(d.s) = r THEN ExecuteLocal(d.s, r, h, p)
      ELSE Accept(d.s)

\* Mutant: the session is read before the drain and used after it.
AfterApplyStale(s, r, h, p) ==
  LET d == Drain(s, r)
  IN  IF d.err THEN Reject(d.s)
      ELSE IF NextIndex(d.s) = r THEN ExecuteLocal(s, r, h, p)
      ELSE Accept(d.s)

AfterApply(s, r, h, p) ==
  LET after(d) == IF d.err THEN Reject(d.s)
                  ELSE IF NextIndex(d.s) = r THEN ExecuteLocal(d.s, r, h, p)
                  ELSE Accept(d.s)
  IN  Once({after(d) : d \in {Drain(s, r)}})

\* Mutant: steps are applied in the order they arrive.
HandleByArrival(s, r, h, m, p) ==
  IF m.hand # h \/ m.seat = r \/ ~ m.ok \/ Done(s) THEN Reject(s)
  ELSE AfterApply(Adopt(s, m), r, h, p)

\* Mutant: a step ahead of its turn is refused.
HandleUnbuffered(s, r, h, m, p) ==
  IF m.hand # h \/ m.seat = r \/ m.seat > NextIndex(s) THEN Reject(s)
  ELSE IF m.seat = NextIndex(s)
  THEN IF m.ok THEN AfterApply(Adopt(s, m), r, h, p) ELSE Reject(s)
  ELSE Result(s, {}, {}, m # s.applied[m.seat + 1])

\* A step of another hand than the session's is refused; the checks of its
\* shape refuse what no peer sends.
ValidateIncoming(m, h) == m.hand = h

\* A step behind the turn must be the one applied; at the turn it is verified
\* and adopted; ahead of the turn it is buffered unverified, one per seat.
HandleMessage(s, r, h, m, p) ==
  IF ~ ValidateIncoming(m, h) THEN Reject(s)
  ELSE IF m.seat < NextIndex(s)
  THEN Result(s, {}, {}, m # s.applied[m.seat + 1])
  ELSE IF m.seat = r THEN Reject(s)
  ELSE IF m.seat = NextIndex(s)
  THEN IF m.ok THEN AfterApply(Adopt(s, m), r, h, p) ELSE Reject(s)
  ELSE IF \E b \in s.pending : b.seat = m.seat
  THEN Result(s, {}, {}, m \notin s.pending)
  ELSE Accept([s EXCEPT !.pending = @ \cup {m}])

\* The drain goes on with one more parked step, unless it met an error.
OneMore(before, r, h, m, p) ==
  LET next(last) ==
        LET call == HandleMessage(last.s, r, h, m, p)
        IN  IF last.err THEN last
            ELSE Result(call.s, last.own \cup call.own,
                        IF call.err THEN {} ELSE last.out \cup call.out, call.err)
  IN  Once({next(last) : last \in {before}})

\* The parked steps in arrival order; the first error ends the drain and
\* discards what is left, and what was to be returned.
DrainEarly(first, r, h, parked, p) ==
  LET upTo[k \in 0 .. Len(parked)] ==
        IF k = 0 THEN first
        ELSE OneMore(upTo[k - 1], r, h, parked[k], p)
  IN  upTo[Len(parked)]

-----------------------------------------------------------------------------
(* The hand and its driver *)

Broadcast(r, out) ==
  {[to |-> q, msg |-> m, copy |-> c] : q \in Seats \ {r}, m \in out, c \in 1 .. Copies}

\* Mutant: the gate is not opened when the last step is applied.
SignalNever(g, s) == g

\* afterShuffleLocked: the gate opens once, with the first of done and aborted.
Signal(g, s) == IF g = "open" /\ Done(s) THEN "done" ELSE g

\* The state after a call of seat r's session, its packets taken out of `rest`.
Install(r, call, rest) ==
  /\ sess' = [sess EXCEPT ![r] = call.s]
  /\ made' = made \cup call.own
  /\ flight' = rest \cup Broadcast(r, call.out)
  /\ gate' = [gate EXCEPT ![r] = IF call.err THEN @ ELSE Signal(@, call.s)]

\* A new CryptoHand replaces the live one. Seat r gets here from the lobby, or
\* three seconds after the hand settled on its screen, which takes a peel of
\* every seat: everyone has dealt from the finished shuffle by then.
StartNextHand(r) ==
  /\ driver[r] \in {"lobby", "dealing"}
  /\ hand[r] < MaxHands
  /\ \A q \in Seats : hand[q] > hand[r] \/ (hand[q] = hand[r] /\ driver[q] = driver[r])
  /\ hand' = [hand EXCEPT ![r] = @ + 1]
  /\ sess' = [sess EXCEPT ![r] = NewSession]
  /\ gate' = [gate EXCEPT ![r] = "open"]
  /\ driver' = [driver EXCEPT ![r] = "starting"]
  /\ UNCHANGED <<early, made, flight>>

\* ShuffleSession.Start: the first seat makes its step at once.
StartSession(s, r, h, p) ==
  LET begun == [s EXCEPT !.started = TRUE]
  IN  IF r = 0 THEN ExecuteLocal(begun, r, h, p) ELSE Accept(begun)

StartShuffle(r, p) ==
  LET first == StartSession(sess[r], r, hand[r], p)
  IN  /\ driver[r] = "starting"
      /\ \E call \in {DrainEarly(first, r, hand[r], early[r], p)} :
           /\ Install(r, call, flight)
           /\ driver' = [driver EXCEPT ![r] = IF call.err THEN "failed" ELSE "started"]
      /\ early' = [early EXCEPT ![r] = <<>>]
      /\ UNCHANGED hand

\* No live hand, or one that has not started: the step is parked.
ParkShuffle(r, pkt) ==
  /\ pkt.to = r
  /\ ~ sess[r].started
  /\ early' = [early EXCEPT ![r] = IF Len(@) < EarlyCap THEN Append(@, pkt.msg) ELSE @]
  /\ flight' = flight \ {pkt}
  /\ UNCHANGED <<hand, sess, gate, driver, made>>

HandleShuffle(r, pkt, p) ==
  /\ pkt.to = r
  /\ sess[r].started
  /\ \E call \in {HandleMessage(sess[r], r, hand[r], pkt.msg, p)} :
       Install(r, call, flight \ {pkt})
  /\ UNCHANGED <<hand, early, driver>>

\* dealCryptoHand calls WaitShuffle: it goes on at once if the shuffle is done.
WaitShuffle(r) ==
  /\ driver[r] = "started"
  /\ driver' = [driver EXCEPT ![r] = IF Done(sess[r]) THEN "dealing" ELSE "waiting"]
  /\ gate' = [gate EXCEPT ![r] = Signal(@, sess[r])]
  /\ UNCHANGED <<hand, sess, early, made, flight>>

\* Mutant: any opening of the gate lets the deal go on.
GateOpensIgnoringErrors(r) ==
  /\ driver[r] = "waiting"
  /\ gate[r] # "open"
  /\ driver' = [driver EXCEPT ![r] = "dealing"]
  /\ UNCHANGED <<hand, sess, early, gate, made, flight>>

GateOpens(r) ==
  /\ driver[r] = "waiting"
  /\ gate[r] # "open"
  /\ driver' = [driver EXCEPT ![r] = IF gate[r] = "done" THEN "dealing" ELSE "failed"]
  /\ UNCHANGED <<hand, sess, early, gate, made, flight>>

\* forceFold of a peer while the shuffle is not done.
AbortShuffle(r) ==
  /\ PeersTimeOut
  /\ hand[r] > 0 /\ ~ Done(sess[r])
  /\ gate[r] = "open"
  /\ gate' = [gate EXCEPT ![r] = "aborted"]
  /\ UNCHANGED <<hand, sess, early, driver, made, flight>>

\* cryptoDealTimeout runs out.
DealTimeout(r) ==
  /\ PeersTimeOut
  /\ driver[r] = "waiting"
  /\ driver' = [driver EXCEPT ![r] = "failed"]
  /\ UNCHANGED <<hand, sess, early, gate, made, flight>>

-----------------------------------------------------------------------------

\* A step whose commitment does not match its deck; what the deck is, is not looked at.
SpoiledSteps == [hand : {1}, seat : Spoiled, deck : {<<>>}, ok : {FALSE}]

Init ==
  /\ hand = [r \in Seats |-> 0]
  /\ sess = [r \in Seats |-> NewSession]
  /\ early = [r \in Seats |-> <<>>]
  /\ gate = [r \in Seats |-> "open"]
  /\ driver = [r \in Seats |-> "lobby"]
  /\ made = {}
  /\ flight = {pkt \in [to : Seats, msg : SpoiledSteps, copy : {1}] : pkt.to # pkt.msg.seat}

Receive(r) == \E pkt \in flight : ParkShuffle(r, pkt) \/ \E p \in Perms : HandleShuffle(r, pkt, p)

Start(r) == \E p \in Perms : StartShuffle(r, p)

Next == \E r \in Seats :
          \/ StartNextHand(r) \/ Start(r) \/ Receive(r)
          \/ WaitShuffle(r) \/ GateOpens(r)
          \/ AbortShuffle(r) \/ DealTimeout(r)

Spec == Init /\ [][Next]_vars

\* Each machine's goroutines keep running and the network delivers what it was
\* given: receiveLoop, the deal's goroutine and the hand's tick.
Fairness == \A r \in Seats :
              /\ WF_vars(StartNextHand(r)) /\ WF_vars(Start(r)) /\ WF_vars(Receive(r))
              /\ WF_vars(WaitShuffle(r)) /\ WF_vars(GateOpens(r))

FairSpec == Spec /\ Fairness

-----------------------------------------------------------------------------
(* Properties *)

\* Sessions, buffers, gates and packets keep their types
\* (shuffle_session.go:41, crypto_hand.go:18).
TypeOK ==
  /\ hand \in [Seats -> 0 .. MaxHands]
  /\ sess \in [Seats -> Session]
  /\ early \in [Seats -> Seq(Message)]
  /\ gate \in [Seats -> {"open", "done", "aborted"}]
  /\ driver \in [Seats -> {"lobby", "starting", "started", "waiting", "dealing", "failed"}]
  /\ made \subseteq Message
  /\ flight \subseteq Packet

\* Replicas of the same hand never disagree on a step both have applied,
\* whatever order the steps reached them in (HandleMessage).
SameSteps ==
  \A r, q \in Seats : hand[r] = hand[q] =>
    \A i \in 1 .. N : i <= NextIndex(sess[r]) /\ i <= NextIndex(sess[q])
                        => sess[r].applied[i] = sess[q].applied[i]

\* Every replica's deck has gone through seats 0, 1, ... once each, every step
\* made from the output of the one before (executeLocalLocked, drainPendingLocked).
EachSeatOnTop ==
  \A r \in Seats : \A i \in 1 .. NextIndex(sess[r]) :
    LET m == sess[r].applied[i]
    IN  /\ m.ok /\ m.seat = i - 1 /\ m.hand = hand[r]
        /\ Len(m.deck) = i
        /\ i > 1 => SubSeq(m.deck, 1, i - 1) = sess[r].applied[i - 1].deck

\* Replicas that go on to deal a hand hold all N steps, and the same deck,
\* even if a peer was timed out meanwhile (WaitShuffle, AbortShuffle).
SameDeckDealt ==
  \A r \in Seats : driver[r] = "dealing" =>
    /\ NextIndex(sess[r]) = N
    /\ \A q \in Seats : driver[q] = "dealing" /\ hand[q] = hand[r]
                          => Current(sess[q]) = Current(sess[r])

\* A published step that a replica has yet to apply is on its way there or
\* parked there: early steps are buffered, not dropped
\* (bufferShuffleLocked, the buffer of OnShuffleStep).
EarlyStepsKept ==
  \A m \in made : \A r \in Seats \ {m.seat} :
    \/ m.hand < hand[r]
    \/ m.hand = hand[r] /\ m.seat < NextIndex(sess[r])
    \/ m \in sess[r].pending
    \/ \E i \in 1 .. Len(early[r]) : early[r][i] = m
    \/ \E pkt \in flight : pkt.to = r /\ pkt.msg = m

\* If nobody times out every seat gets to deal every hand (dealCryptoHand).
EveryoneDeals ==
  <>(\A r \in Seats : hand[r] = MaxHands /\ driver[r] = "dealing")

\* The decks of all replicas are one deck in the making.
Steps(h) == {m \in made : m.hand = h}
LatestDeck(h) ==
  IF Steps(h) = {} THEN <<>>
  ELSE (CHOOSE m \in Steps(h) : \A o \in Steps(h) : o.seat <= m.seat).deck

Shared == INSTANCE SharedShuffle
            WITH deck <- [h \in 1 .. MaxHands |-> LatestDeck(h)],
                 sees <- [r \in Seats |-> [hand |-> hand[r], deck |-> Current(sess[r])]]

\* Every step of every replica extends the one shared deck or catches up with it.
ImplementsSharedShuffle == Shared!Spec
=============================================================================
