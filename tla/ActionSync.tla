----------------------------- MODULE ActionSync -----------------------------
(***************************************************************************)
(* How the replicas of a table apply the same betting actions: the         *)
(* actionSequencer, the handlers that feed it and the folds of seats that  *)
(* were voted out (cmd/poker/main.go), over table-topic envelopes that     *)
(* carry a number per sender (internal/network/node.go, gossip.go).        *)
(*                                                                         *)
(* game.Machine is reduced to what the sequencer depends on: whose turn it *)
(* is, which street is open and when the hand is over; PokerHand models    *)
(* the machine itself. The cards come from the distributed deal.           *)
(***************************************************************************)
EXTENDS Seating, Sequences

CONSTANTS Silent,      \* seats whose process may have stopped
          Slow,        \* seats that play but are voted out all the same
          Reorder,     \* gossip may deliver one sender's envelopes out of order
          Turns,       \* actions that close a street
          Streets,     \* streets that settle a hand
          MaxHands,    \* bound: hands played
          MaxTicks     \* bound: next-hand timers a replica has running

ASSUME SyncAssumption ==
  /\ Silent \subseteq Seats /\ Slow \subseteq Seats
  /\ Reorder \in BOOLEAN
  /\ {Turns, Streets, MaxHands, MaxTicks} \subseteq Nat \ {0}

VARIABLES
  handNum,   \* handNum[r]: p2pGameModel.handNum
  machine,   \* machine[r]: what machinePtr points to
  nextSeq,   \* nextSeq[r], pending[r]: the actionSequencer
  pending,
  gone,      \* gone[r]: seats noted as gone
  passes,    \* passes[r]: runs of foldGoneIfCurrent still due
  betting,   \* betting[r]: the UI asks its player for an action (ModeBetting)
  ticks,     \* ticks[r]: next-hand timers running
  outbox,    \* outbox[r]: actions to broadcast once machineMu is released
  envSeq,    \* envSeq[r]: Node.seq
  mark,      \* mark[r][s]: the highest envelope of s seen (seqNums)
  wire,      \* envelopes on their way
  missed,    \* history: replicas that lost an action they needed
  silent     \* the seats whose process has stopped

vars == <<handNum, machine, nextSeq, pending, gone, passes, betting, ticks,
          outbox, envSeq, mark, wire, missed, silent>>

Present == Seats \ silent

\* The message that tells the others of the action a of replica r.
PlayerAction(r, a) == [hand |-> handNum[r], seq |-> nextSeq[r], act |-> a]

-----------------------------------------------------------------------------
(* The machine *)

NoMachine == [hand |-> 0, street |-> 0, done |-> <<>>]

\* StartHandCrypto: the first street is open.
NewMachine(h) == [hand |-> h, street |-> 1, done |-> <<>>]

Folded(m) == {m.done[i].by : i \in {j \in 1 .. Len(m.done) : m.done[j].type = "fold"}}

Settled(m) ==
  \/ Len(m.done) = Turns * Streets
  \/ Cardinality(Seats \ Folded(m)) = 1

\* PhaseAwaitingStreet: betting is closed and the street's cards are missing.
Awaiting(m) == m.hand > 0 /\ ~ Settled(m) /\ Len(m.done) = Turns * m.street

InBetting(m) == m.hand > 0 /\ ~ Settled(m) /\ ~ Awaiting(m)

Dealer(m) == (m.hand - 1) % N

CurrentPlayer(m) ==
  FirstAfter(Seats \ Folded(m),
             IF m.done = <<>> THEN Dealer(m) ELSE m.done[Len(m.done)].by)

Accepts(m, a) == InBetting(m) /\ a.by = CurrentPlayer(m)

ApplyAction(m, a) ==
  IF Accepts(m, a) THEN [m EXCEPT !.done = Append(@, a)] ELSE m

-----------------------------------------------------------------------------
(* The sequencer *)

\* pending[msg.Seq] = msg: a second action with a number replaces the first.
Put(p, msg) == {q \in p : q.seq # msg.seq} \cup {msg}

\* Mutant: only the action that came in is released, not those it was awaited by.
ReadyOne(n, p) ==
  IF \E q \in p : q.seq = n THEN <<CHOOSE q \in p : q.seq = n>> ELSE <<>>

\* push: the actions that are now in order.
Ready(n, p) ==
  LET k == Least({j \in 0 .. Cardinality(p) : \A q \in p : q.seq # n + j})
  IN  [i \in 1 .. k |-> CHOOSE q \in p : q.seq = n + i - 1]

\* The machine after the first i actions of `ready`.
ApplyAll(m, ready) ==
  LET after[i \in 0 .. Len(ready)] ==
        IF i = 0 THEN m ELSE ApplyAction(after[i - 1], ready[i].act)
  IN  after[Len(ready)]

-----------------------------------------------------------------------------
Init ==
  /\ silent \in SUBSET Silent
  /\ handNum = [r \in Seats |-> 1]
  /\ machine = [r \in Seats |-> NoMachine]
  /\ nextSeq = [r \in Seats |-> 1]
  /\ pending = [r \in Seats |-> {}]
  /\ gone = [r \in Seats |-> {}]
  /\ passes = [r \in Seats |-> 0]
  /\ betting = [r \in Seats |-> FALSE]
  /\ ticks = [r \in Seats |-> 0]
  /\ outbox = [r \in Seats |-> {}]
  /\ envSeq = [r \in Seats |-> 0]
  /\ mark = [r \in Seats |-> [s \in Seats |-> 0]]
  /\ wire = {}
  /\ missed = {}

\* dealCryptoHand returns and its machine is installed under machineMu; only
\* the first hand is followed by a foldGoneIfCurrent. The deal of a later hand
\* needs every seat in it; a seat that is silent still dealt the first one.
Install(r) ==
  /\ machine[r].hand < handNum[r]
  /\ handNum[r] > 1 => \A s \in Seats : s \in Present /\ handNum[s] = handNum[r]
  /\ machine' = [machine EXCEPT ![r] = NewMachine(handNum[r])]
  /\ passes' = [passes EXCEPT ![r] = IF handNum[r] = 1 /\ @ = 0 THEN 1 ELSE @]
  /\ UNCHANGED <<handNum, nextSeq, pending, gone, betting, ticks,
                 outbox, envSeq, mark, wire, missed, silent>>

\* AdvanceCryptoLocked has the street's cards: every seat that is present has
\* closed the street before and has sent its peels. A foldGoneIfCurrent follows.
OpenStreet(r) ==
  /\ Awaiting(machine[r])
  /\ \A s \in Present : /\ machine[s].hand = machine[r].hand
                        /\ Len(machine[s].done) >= Len(machine[r].done)
  /\ machine' = [machine EXCEPT ![r].street = @ + 1]
  /\ passes' = [passes EXCEPT ![r] = IF @ = 0 THEN 1 ELSE @]
  /\ UNCHANGED <<handNum, nextSeq, pending, gone, betting, ticks,
                 outbox, envSeq, mark, wire, missed, silent>>

\* Numbering an action and leaving it for the broadcast after the unlock.
Emit(r, a) ==
  /\ nextSeq' = [nextSeq EXCEPT ![r] = @ + 1]
  /\ outbox' = [outbox EXCEPT ![r] = @ \cup {PlayerAction(r, a)}]

\* kickCryptoAdvance: foldGoneIfCurrent before and after the advance.
Kick(r) == passes' = [passes EXCEPT ![r] = 2]

\* applyAndBroadcast: the number is taken whether or not the machine accepts.
ApplyAndBroadcast(r, type) ==
  /\ betting[r]
  /\ machine[r] # NoMachine
  /\ betting' = [betting EXCEPT ![r] = FALSE]
  /\ machine' = [machine EXCEPT ![r] = ApplyAction(@, [by |-> r, type |-> type])]
  /\ Emit(r, [by |-> r, type |-> type])
  /\ Kick(r)
  /\ UNCHANGED <<handNum, pending, gone, ticks, envSeq, mark, wire, missed, silent>>

\* Mutant: the seat is folded at once, whosever turn it is.
FoldAtOnce(r, s) ==
  IF InBetting(machine[r]) /\ s \notin Folded(machine[r])
  THEN /\ machine' = [machine EXCEPT ![r].done = Append(@, [by |-> s, type |-> "fold"])]
       /\ Emit(r, [by |-> s, type |-> "fold"])
  ELSE UNCHANGED <<machine, nextSeq, outbox>>

\* The machine accepts the fold of seat s, or nothing is done.
Fold(r, s) ==
  IF Accepts(machine[r], [by |-> s, type |-> "fold"])
  THEN /\ machine' = [machine EXCEPT ![r] = ApplyAction(@, [by |-> s, type |-> "fold"])]
       /\ Emit(r, [by |-> s, type |-> "fold"])
  ELSE UNCHANGED <<machine, nextSeq, outbox>>

\* forceFold, once the vote on s is confirmed at r; without a machine it
\* returns before the kick.
ForceFold(r, s) ==
  /\ s \notin {r} \cup gone[r]
  /\ gone' = [gone EXCEPT ![r] = @ \cup {s}]
  /\ Fold(r, s)
  /\ IF machine[r] = NoMachine THEN UNCHANGED passes ELSE Kick(r)
  /\ UNCHANGED <<handNum, pending, betting, ticks, envSeq, mark, wire, missed, silent>>

FoldGoneIfCurrent(r) ==
  /\ passes[r] > 0
  /\ passes' = [passes EXCEPT ![r] = @ - 1]
  /\ IF InBetting(machine[r]) /\ CurrentPlayer(machine[r]) \in gone[r]
     THEN Fold(r, CurrentPlayer(machine[r]))
     ELSE UNCHANGED <<machine, nextSeq, outbox>>
  /\ UNCHANGED <<handNum, pending, gone, betting, ticks, envSeq, mark, wire, missed, silent>>

\* BroadcastAction and publish: one envelope number for all receivers.
Broadcast(r, msg) ==
  /\ msg \in outbox[r]
  /\ outbox' = [outbox EXCEPT ![r] = @ \ {msg}]
  /\ envSeq' = [envSeq EXCEPT ![r] = @ + 1]
  /\ wire' = wire \cup {[from |-> r, to |-> q, seq |-> envSeq[r] + 1, msg |-> msg]
                          : q \in Present \ {r}}
  /\ UNCHANGED <<handNum, machine, nextSeq, pending, gone, passes, betting, ticks, mark, missed, silent>>

\* dispatch drops an envelope that is not above the sender's watermark.
DropStale(r, e) ==
  /\ e \in wire /\ e.to = r /\ e.seq <= mark[r][e.from]
  /\ wire' = wire \ {e}
  /\ missed' = missed \cup {r}
  /\ UNCHANGED <<handNum, machine, nextSeq, pending, gone, passes, betting, ticks,
                 outbox, envSeq, mark, silent>>

\* OnPlayerAction. It does not look at the hand of the message, and what the
\* machine answers is dropped.
OnPlayerAction(r, e) ==
  LET held == Put(pending[r], e.msg)
      ready == Ready(nextSeq[r], held)
      after == ApplyAll(machine[r], ready)
  IN  /\ e \in wire /\ e.to = r /\ e.seq > mark[r][e.from]
      /\ Reorder \/ \A f \in wire : f.to = r /\ f.from = e.from => e.seq <= f.seq
      /\ wire' = wire \ {e}
      /\ mark' = [mark EXCEPT ![r][e.from] = e.seq]
      /\ IF machine[r] = NoMachine
         THEN /\ missed' = missed \cup {r}
              /\ UNCHANGED <<machine, nextSeq, pending, passes>>
         ELSE /\ pending' = [pending EXCEPT ![r] = held \ {ready[i] : i \in 1 .. Len(ready)}]
              /\ nextSeq' = [nextSeq EXCEPT ![r] = @ + Len(ready)]
              /\ machine' = [machine EXCEPT ![r] = after]
              /\ missed' = IF Len(after.done) < Len(machine[r].done) + Len(ready)
                           THEN missed \cup {r} ELSE missed
              /\ Kick(r)
      /\ UNCHANGED <<handNum, gone, betting, ticks, outbox, envSeq, silent>>

\* Update on a GameStateMsg: the UI mode follows the state; a settled hand
\* starts a timer, with every message anew.
Update(r) ==
  LET m == machine[r] IN
  /\ m # NoMachine
  /\ IF Settled(m)
     THEN /\ ticks[r] < MaxTicks
          /\ ticks' = [ticks EXCEPT ![r] = @ + 1]
          /\ betting' = [betting EXCEPT ![r] = FALSE]
     ELSE /\ betting' = [betting EXCEPT ![r] = InBetting(m) /\ CurrentPlayer(m) = r]
          /\ UNCHANGED ticks
  /\ UNCHANGED <<handNum, machine, nextSeq, pending, gone, passes, outbox, envSeq,
                 mark, wire, missed, silent>>

\* startNextHand; the machine of the last hand stays in place until Install.
StartNextHand(r) ==
  /\ ticks[r] > 0 /\ handNum[r] < MaxHands
  /\ ticks' = [ticks EXCEPT ![r] = @ - 1]
  /\ handNum' = [handNum EXCEPT ![r] = @ + 1]
  /\ nextSeq' = [nextSeq EXCEPT ![r] = 1]
  /\ pending' = [pending EXCEPT ![r] = {}]
  /\ missed' = IF \E q \in pending[r] : q.hand > handNum[r] THEN missed \cup {r} ELSE missed
  /\ UNCHANGED <<machine, gone, passes, betting, outbox, envSeq, mark, wire, silent>>

\* What goes on by itself at replica r: its goroutines run, gossip delivers,
\* its player decides, and the votes on the seats `voted` are confirmed.
Progress(r, voted) ==
  \/ Install(r)
  \/ OpenStreet(r)
  \/ \E type \in {"play", "fold"} : ApplyAndBroadcast(r, type)
  \/ \E s \in voted : ForceFold(r, s)
  \/ FoldGoneIfCurrent(r)
  \/ \E msg \in outbox[r] : Broadcast(r, msg)
  \/ \E e \in wire : DropStale(r, e) \/ OnPlayerAction(r, e)
  \/ Update(r)

Next == \E r \in Present : Progress(r, silent \cup Slow) \/ StartNextHand(r)

Spec == Init /\ [][Next]_vars

\* The table does not stand still while some replica can go on; a vote need
\* only be confirmed on a seat that stopped.
Fairness == WF_vars(\E r \in Present : Progress(r, silent))

FairSpec == Spec /\ Fairness

-----------------------------------------------------------------------------
\* Two replicas that play the same hand and lost no action have applied the
\* same ones, as far as both have come (actionSequencer, forceFold).
SameHistory ==
  \A r, s \in Present \ missed :
    machine[r].hand = machine[s].hand =>
      \A i \in 1 .. Len(machine[r].done) :
        i <= Len(machine[s].done) => machine[r].done[i] = machine[s].done[i]

\* Unless a replica loses an action, every seat that is present sees the first
\* hand settle (push, foldGoneIfCurrent, kickCryptoAdvance).
HandSettles ==
  <>(missed # {} \/ \A r \in Present : machine[r].hand > 1 \/ Settled(machine[r]))

=============================================================================
