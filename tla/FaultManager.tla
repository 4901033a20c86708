---------------------------- MODULE FaultManager ----------------------------
(***************************************************************************)
(* How a table gets rid of a seat that went silent: every replica's        *)
(* HeartbeatMonitor, TimeoutManager and KeyShareStore (internal/fault),    *)
(* wired together by fault.FaultManager and cmd/poker/main.go.             *)
(*                                                                         *)
(* A share of a key is named by the seat it was made for. Two copies of a  *)
(* message that are on their way together count as one. A seat stops only  *)
(* once the deck is shuffled; before that its silence aborts the hand      *)
(* (ShuffleSession). What a fold does to the betting is in ActionSync, the *)
(* peels made with a rebuilt key are in DealSession.                       *)
(***************************************************************************)
EXTENDS Seating

CONSTANTS Accused,    \* seats that may stop
          Late,       \* bound: seats that may still be starting when a share arrives
          Impatient   \* bound: seats whose recovery may run out of time

ASSUME FaultAssumption ==
  Accused \subseteq Seats /\ Late \subseteq Seats /\ Impatient \subseteq Seats

VARIABLES
  up,        \* seats that run and have a FaultManager
  stopped,   \* seats whose process has stopped
  status,    \* status[r][p]: PeerLiveness.Status, suspects counted as alive
  alarm,     \* alarm[r][p]: what the goroutine of OnTimeout does next
  ballot,    \* ballot[r][p]: TimeoutManager.votes
  due,       \* due[r]: runs of OnConfirmed still to come
  folded,    \* folded[r]: seats handed to OnPlayerFolded
  kept,      \* kept[r]: owners of the shares in sharesReceived
  held,      \* held[r][p]: indices of the shares in sharesHeld
  recovery,  \* recovery[r][p]: what beginRecovery is at
  mail,      \* votes and shares on their way
  cast       \* history: the votes told to the table

vars == <<up, stopped, status, alarm, ballot, due, folded, kept, held,
          recovery, mail, cast>>

Vote == [kind : {"vote"}, to : Seats, by : Seats, on : Accused]
Share == [kind : {"direct", "gossip"}, to : Seats, by : Seats, on : Accused]
Ballot == [votes : SUBSET Seats, status : {"none", "pending", "confirmed"}]

NoBallot == [votes |-> {}, status |-> "none"]

\* AddVote: int(2/3 of the others + 0.5); "at least one" never applies.
VoteThreshold == (4 * (N - 1) + 3) \div 6

\* SplitAndDistribute
ShamirThreshold == IF N + 1 >= 4 THEN (N + 1) \div 2 ELSE 2

\* Mutant: more than the threshold is asked for.
AddVoteAbove(b, voter) ==
  IF b.status = "confirmed" THEN b
  ELSE LET votes == b.votes \cup {voter}
       IN  [votes |-> votes,
            status |-> IF Cardinality(votes) > VoteThreshold THEN "confirmed" ELSE "pending"]

\* Mutant: any vote will do.
AddVoteAny(b, voter) == [votes |-> b.votes \cup {voter}, status |-> "confirmed"]

\* AddVote of a yes; a no is never sent.
AddVote(b, voter) ==
  IF b.status = "confirmed" THEN b
  ELSE LET votes == b.votes \cup {voter}
       IN  [votes |-> votes,
            status |-> IF Cardinality(votes) >= VoteThreshold THEN "confirmed" ELSE "pending"]

\* Mutant: the seats are counted from one.
ToOthersFromOne(r, kind, p) ==
  [kind : {kind}, to : (1 .. N) \ (stopped \cup {r}), by : {r}, on : {p}]

\* The copies of a message of r for the other seats.
ToOthers(r, kind, p) == [kind : {kind}, to : Seats \ (stopped \cup {r}), by : {r}, on : {p}]

-----------------------------------------------------------------------------
Init ==
  /\ up = {} /\ stopped = {}
  /\ status = [r \in Seats |-> [p \in Accused |-> "alive"]]
  /\ alarm = [r \in Seats |-> [p \in Accused |-> "idle"]]
  /\ ballot = [r \in Seats |-> [p \in Accused |-> NoBallot]]
  /\ due = [r \in Seats |-> {}]
  /\ folded = [r \in Seats |-> {}]
  /\ kept = [r \in Seats |-> {}]
  /\ held = [r \in Seats |-> [p \in Accused |-> {}]]
  /\ recovery = [r \in Seats |-> [p \in Accused |-> "no"]]
  /\ mail = {} /\ cast = {}

\* NewFaultManager, RegisterPlayers and DistributeLocalShares.
Start(r) ==
  /\ r \notin up
  /\ up' = up \cup {r}
  /\ kept' = [kept EXCEPT ![r] = @ \cup ({r} \cap Accused)]
  /\ mail' = IF r \in Accused THEN mail \cup ToOthers(r, "direct", r) ELSE mail
  /\ UNCHANGED <<stopped, status, alarm, ballot, due, folded, held, recovery, cast>>

\* Nobody is done with the shuffle before all have given away their shares.
Shuffled == up = Seats /\ \A m \in mail : m.kind # "direct"

Stop(p) ==
  /\ Shuffled
  /\ p \in (up \cap Accused) \ stopped
  /\ stopped' = stopped \cup {p}
  /\ mail' = {m \in mail : m.to # p}
  /\ UNCHANGED <<up, status, alarm, ballot, due, folded, kept, held, recovery, cast>>

\* One look at all peers, some of which have not been heard of for
\* HeartbeatTimeout; while a seat runs, its beats are not late. OnTimeout runs in
\* a goroutine for each peer that is newly timed out.
CheckTimeouts(r) ==
  \E new \in SUBSET {p \in stopped : status[r][p] = "alive"} :
    /\ new # {}
    /\ status' = [status EXCEPT ![r] = [p \in Accused |-> IF p \in new THEN "timedOut" ELSE @[p]]]
    /\ alarm' = [alarm EXCEPT ![r] = [p \in Accused |-> IF p \in new THEN "tell" ELSE @[p]]]
    /\ UNCHANGED <<up, stopped, ballot, due, folded, kept, held, recovery, mail, cast>>

\* OnTimeoutVoteNeeded: BroadcastTimeoutVote comes before the own vote.
TellVote(r, p) ==
  /\ alarm[r][p] = "tell"
  /\ alarm' = [alarm EXCEPT ![r][p] = "start"]
  /\ mail' = mail \cup ToOthers(r, "vote", p)
  /\ cast' = cast \cup {[by |-> r, on |-> p]}
  /\ UNCHANGED <<up, stopped, status, ballot, due, folded, kept, held, recovery>>

\* The ballot b of seat p at r; OnConfirmed runs in a goroutine.
SetBallot(r, p, b) ==
  /\ ballot' = [ballot EXCEPT ![r][p] = b]
  /\ due' = IF b.status = "confirmed" /\ b # ballot[r][p]
            THEN [due EXCEPT ![r] = @ \cup {p}] ELSE due

\* StartVote: a pending ballot is returned as it is, without the caller's vote;
\* a confirmed one is replaced.
StartVote(r, p) ==
  /\ alarm[r][p] = "start"
  /\ alarm' = [alarm EXCEPT ![r][p] = "idle"]
  /\ IF ballot[r][p].status = "pending" THEN UNCHANGED <<ballot, due>>
     ELSE SetBallot(r, p, AddVote(NoBallot, r))
  /\ UNCHANGED <<up, stopped, status, folded, kept, held, recovery, mail, cast>>

\* HandleTimeoutVote and RecordVote.
HandleTimeoutVote(r, m) ==
  /\ m.kind = "vote"
  /\ SetBallot(r, m.on, AddVote(ballot[r][m.on], m.by))
  /\ UNCHANGED <<up, stopped, status, alarm, folded, kept, held, recovery, cast>>

\* Mutant: a direct share is collected like a gossiped one.
OnKeyShareAlike(r, m) ==
  /\ m.kind \in {"direct", "gossip"}
  /\ held' = [held EXCEPT ![r][m.on] = @ \cup {m.by}]
  /\ kept' = [kept EXCEPT ![r] = @ \cup {m.on}]
  /\ UNCHANGED <<up, stopped, status, alarm, ballot, due, folded, recovery, cast>>

\* The OnKeyShare callback: a gossiped share is collected, a direct one kept.
OnKeyShare(r, m) ==
  /\ m.kind \in {"direct", "gossip"}
  /\ IF m.kind = "gossip"
     THEN held' = [held EXCEPT ![r][m.on] = @ \cup {m.by}] /\ UNCHANGED kept
     ELSE kept' = [kept EXCEPT ![r] = @ \cup {m.on}] /\ UNCHANGED held
  /\ UNCHANGED <<up, stopped, status, alarm, ballot, due, folded, recovery, cast>>

\* The callbacks return at once while there is no FaultManager.
Receive(r) ==
  \E m \in mail :
    /\ m.to = r /\ r \in up \cup Late
    /\ mail' = mail \ {m}
    /\ IF r \in up THEN HandleTimeoutVote(r, m) \/ OnKeyShare(r, m)
       ELSE UNCHANGED <<up, stopped, status, alarm, ballot, due, folded, kept, held, recovery, cast>>

\* Mutant: the share is counted but not sent.
ReleaseToSelf(r, p) ==
  /\ held' = [held EXCEPT ![r][p] = @ \cup (IF p \in kept[r] THEN {r} ELSE {})]
  /\ UNCHANGED mail

\* BroadcastMyShareFor: a share that was kept is counted and gossiped.
Release(r, p) ==
  IF p \in kept[r]
  THEN /\ held' = [held EXCEPT ![r][p] = @ \cup {r}]
       /\ mail' = mail \cup ToOthers(r, "gossip", p)
  ELSE UNCHANGED <<held, mail>>

\* OnConfirmed: MarkDisconnected, forceFold, and the first time beginRecovery.
OnConfirmed(r, p) ==
  /\ p \in due[r]
  /\ due' = [due EXCEPT ![r] = @ \ {p}]
  /\ status' = IF p = r THEN status ELSE [status EXCEPT ![r][p] = "disconnected"]
  /\ folded' = [folded EXCEPT ![r] = @ \cup {p}]
  /\ IF recovery[r][p] = "no"
     THEN /\ recovery' = [recovery EXCEPT ![r][p] = "collecting"]
          /\ Release(r, p)
     ELSE UNCHANGED <<recovery, held, mail>>
  /\ UNCHANGED <<up, stopped, alarm, ballot, kept, cast>>

\* TryReconstructKey in the loop of beginRecovery.
TryReconstructKey(r, p) ==
  /\ recovery[r][p] = "collecting"
  /\ Cardinality(held[r][p]) >= ShamirThreshold
  /\ recovery' = [recovery EXCEPT ![r][p] = "rebuilt"]
  /\ UNCHANGED <<up, stopped, status, alarm, ballot, due, folded, kept, held, mail, cast>>

\* The loop's 30 seconds are over; it is not entered again.
GiveUp(r, p) ==
  /\ r \in Impatient
  /\ recovery[r][p] = "collecting"
  /\ recovery' = [recovery EXCEPT ![r][p] = "gaveUp"]
  /\ UNCHANGED <<up, stopped, status, alarm, ballot, due, folded, kept, held, mail, cast>>

Next ==
  \E r \in Seats \ stopped :
    \/ Start(r)
    \/ Receive(r)
    \/ /\ r \in up
       /\ \/ CheckTimeouts(r)
          \/ \E p \in Accused :
               \/ Stop(p) \/ TellVote(r, p) \/ StartVote(r, p) \/ OnConfirmed(r, p)
               \/ TryReconstructKey(r, p) \/ GiveUp(r, p)

Spec == Init /\ [][Next]_vars

\* A seat that has not stopped starts, hears what is sent and runs its
\* goroutines; the beats of a seat that has stopped stay away.
Fairness ==
  \A r \in Seats :
    LET Runs(A) == r \notin stopped /\ A
    IN  /\ WF_vars(Runs(Start(r)))
        /\ WF_vars(Runs(Receive(r)))
        /\ WF_vars(Runs(r \in up /\ CheckTimeouts(r)))
        /\ \A p \in Accused :
             /\ WF_vars(Runs(TellVote(r, p)))
             /\ WF_vars(Runs(StartVote(r, p)))
             /\ WF_vars(Runs(OnConfirmed(r, p)))
             /\ WF_vars(Runs(TryReconstructKey(r, p)))

FairSpec == Spec /\ Fairness

-----------------------------------------------------------------------------
(* Properties *)

\* Ballots, shares and messages keep their types, and only what is on the way to
\* a seat of the table is in the mail (timeout.go:19, shamir.go:12).
TypeOK ==
  /\ up \subseteq Seats /\ stopped \subseteq up \cap Accused
  /\ status \in [Seats -> [Accused -> {"alive", "timedOut", "disconnected"}]]
  /\ alarm \in [Seats -> [Accused -> {"idle", "tell", "start"}]]
  /\ ballot \in [Seats -> [Accused -> Ballot]]
  /\ due \in [Seats -> SUBSET Accused]
  /\ folded \in [Seats -> SUBSET Accused]
  /\ kept \in [Seats -> SUBSET Accused]
  /\ held \in [Seats -> [Accused -> SUBSET Seats]]
  /\ recovery \in [Seats -> [Accused -> {"no", "collecting", "rebuilt", "gaveUp"}]]
  /\ mail \subseteq Vote \cup Share
  /\ cast \subseteq [by : Seats, on : Accused]

Voters(p) == {v.by : v \in {w \in cast : w.on = p}}

\* A replica folds a seat only if enough of the others, and the seat itself is
\* none of them, have timed it out (AddVote, StartVote, RecordVote).
FoldedByVote ==
  \A r \in Seats : \A p \in folded[r] : Cardinality(Voters(p) \ {p}) >= VoteThreshold

\* The key of a seat can be put together by nobody before the table has voted
\* the seat out: every share in circulation was released by a seat that folded
\* its owner (BroadcastMyShareFor, AddReconstructionShare).
KeyStaysSplit ==
  \A r \in Seats : \A p \in Accused :
    held[r][p] \subseteq {q \in Seats : p \in folded[q]}

\* Seat r has timed p out and told the others, and its own vote is not in the
\* ballot it holds: StartVote found one that another seat's vote had opened.
OwnVoteMissing(r, p) ==
  /\ status[r][p] = "timedOut" /\ alarm[r][p] = "idle"
  /\ ballot[r][p].status = "pending" /\ r \notin ballot[r][p].votes

\* A seat that stops is folded by every other one that did not leave its own
\* vote out, and somebody folds it (CheckTimeouts, OnTimeout, RecordVote).
FoldedUnlessVoteMissing ==
  \A p \in Accused :
    p \in stopped ~> /\ \A r \in Seats \ stopped : p \in folded[r] \/ OwnVoteMissing(r, p)
                     /\ \E r \in Seats : p \in folded[r]

\* The seats that can and do give away a share of p's key.
Holders(p) == {q \in Seats \ stopped : p \in kept[q] /\ ~ OwnVoteMissing(q, p)}

\* The key of a seat that stops is rebuilt by every other one that folds it,
\* unless its time for that runs out or too few others have a share and fold it
\* as well (beginRecovery, OnKeyShare, BroadcastMyShareFor).
KeyRebuilt ==
  \A p \in Accused :
    p \in stopped ~>
      \A r \in Seats \ {p} :
        \/ recovery[r][p] \in {"rebuilt", "gaveUp"} \/ OwnVoteMissing(r, p)
        \/ Cardinality(Holders(p)) < ShamirThreshold
=============================================================================
