------------------------- MODULE FaultManagerProofs -------------------------
(***************************************************************************)
(* For any number of seats: nobody is folded without the votes of enough   *)
(* others, and no share of a key is in circulation before its owner is     *)
(* folded. The inductive invariant follows a vote from the seat that casts *)
(* it through the mail into the ballots, and a share from the fold that    *)
(* releases it into the stores.                                            *)
(***************************************************************************)
EXTENDS FaultManager, FiniteSetTheorems, TLAPS

\* Seat by has told the table that p timed out.
HasVoted(by, p) == [by |-> by, on |-> p] \in cast

\* Every vote somebody counts, carries or is about to count was cast, and by
\* another seat than the one it is about.
VotesCast ==
  /\ \A v \in cast : v.by # v.on
  /\ \A m \in mail : m.kind = "vote" => HasVoted(m.by, m.on)
  /\ \A r \in Seats : \A p \in Accused :
       /\ \A q \in ballot[r][p].votes : HasVoted(q, p)
       /\ alarm[r][p] # "idle" => r # p
       /\ alarm[r][p] = "start" => HasVoted(r, p)

Outvoted(p) == Cardinality(Voters(p)) >= VoteThreshold

\* Whoever is about to be folded, or is, was voted out.
FoldsJustified == \A r \in Seats : \A p \in due[r] \cup folded[r] : Outvoted(p)

\* A share that is collected or on its way to be was released by a fold.
SharesReleased ==
  /\ \A m \in mail : m.kind = "gossip" => m.on \in folded[m.by]
  /\ \A r \in Seats : \A p \in Accused : \A q \in held[r][p] : p \in folded[q]

IInv == TypeOK /\ VotesCast /\ FoldsJustified /\ SharesReleased

-----------------------------------------------------------------------------
(* Votes and thresholds *)

LEMMA VotersAre ==
  ASSUME cast \subseteq [by : Seats, on : Accused], NEW p \in Accused
  PROVE  Voters(p) = {q \in Seats : HasVoted(q, p)}
<1>1. ASSUME NEW q \in Voters(p) PROVE q \in Seats /\ HasVoted(q, p)
  <2>1. PICK v \in cast : v.on = p /\ v.by = q
    BY <1>1 DEF Voters
  <2>2. v = [by |-> q, on |-> p] /\ v.by \in Seats
    BY <2>1
  <2> QED BY <2>1, <2>2 DEF HasVoted
<1>2. ASSUME NEW q \in Seats, HasVoted(q, p) PROVE q \in Voters(p)
  <2> DEFINE v == [by |-> q, on |-> p]
  <2>1. v \in cast /\ v.by = q /\ v.on = p
    BY <1>2 DEF HasVoted
  <2> QED BY <2>1 DEF Voters
<1> QED BY <1>1, <1>2

LEMMA SeatsFinite == IsFiniteSet(Seats)
<1>1. 0 \in Int /\ N - 1 \in Int
  BY SeatingAssumption
<1> QED BY <1>1, FS_Interval DEF Seats

\* The threshold is a number of votes.
LEMMA ThresholdNat == VoteThreshold \in Nat
  BY SeatingAssumption DEF VoteThreshold

\* Enough votes of those that are counted make enough voters.
LEMMA EnoughVoters ==
  ASSUME cast \subseteq [by : Seats, on : Accused], NEW p \in Accused,
         NEW votes \in SUBSET Seats, \A q \in votes : HasVoted(q, p),
         Cardinality(votes) >= VoteThreshold
  PROVE  Outvoted(p)
<1>1. votes \in SUBSET Voters(p) /\ Voters(p) \in SUBSET Seats
  BY VotersAre
<1>2. IsFiniteSet(Voters(p)) /\ IsFiniteSet(votes)
  BY <1>1, SeatsFinite, FS_Subset
<1>3. Cardinality(votes) <= Cardinality(Voters(p))
  BY <1>1, <1>2, FS_Subset
<1>4. Cardinality(votes) \in Nat /\ Cardinality(Voters(p)) \in Nat
  BY <1>2, FS_CardinalityType
<1> QED BY <1>3, <1>4, ThresholdNat DEF Outvoted

\* Votes are never undone, so who is outvoted stays so.
LEMMA StaysOutvoted ==
  ASSUME cast \subseteq [by : Seats, on : Accused], cast' \subseteq [by : Seats, on : Accused],
         cast \subseteq cast', NEW p \in Accused, Outvoted(p)
  PROVE  Outvoted(p)'
<1>1. Voters(p) \subseteq Voters(p)' /\ Voters(p)' \subseteq Seats
  BY DEF Voters
<1>2. IsFiniteSet(Voters(p)') /\ IsFiniteSet(Voters(p))
  BY <1>1, SeatsFinite, FS_Subset
<1>3. Cardinality(Voters(p)) <= Cardinality(Voters(p)')
  BY <1>1, <1>2, FS_Subset
<1>4. Cardinality(Voters(p)) \in Nat /\ Cardinality(Voters(p)') \in Nat
  BY <1>2, FS_CardinalityType
<1> QED BY <1>3, <1>4, ThresholdNat DEF Outvoted, VoteThreshold

\* What a vote of a seat that has told the table makes of a ballot.
LEMMA AddVoteCounts ==
  ASSUME NEW b \in Ballot, NEW voter \in Seats
  PROVE  /\ AddVote(b, voter) \in Ballot
         /\ AddVote(b, voter).votes \subseteq b.votes \cup {voter}
         /\ AddVote(b, voter).status = "confirmed" /\ AddVote(b, voter) # b
              => Cardinality(AddVote(b, voter).votes) >= VoteThreshold
  BY DEF AddVote, Ballot

LEMMA ToOthersAre ==
  ASSUME NEW r \in Seats, NEW kind, NEW p \in Accused, NEW m \in ToOthers(r, kind, p)
  PROVE  m \in [kind : {kind}, to : Seats, by : Seats, on : Accused]
         /\ m.kind = kind /\ m.by = r /\ m.on = p
  BY DEF ToOthers

-----------------------------------------------------------------------------
(* The invariant holds at the start and is kept by every step *)

LEMMA InitEstablishes == Init => IInv
<1> SUFFICES ASSUME Init PROVE IInv
  OBVIOUS
<1>1. TypeOK
  BY DEF Init, TypeOK, NoBallot, Ballot
<1>2. VotesCast /\ FoldsJustified /\ SharesReleased
  BY DEF Init, VotesCast, FoldsJustified, SharesReleased, NoBallot
<1> QED BY <1>1, <1>2 DEF IInv

\* Folds and votes stay justified while no vote is undone and nobody is newly
\* due or folded.
LEMMA FoldsStayJustified ==
  ASSUME TypeOK, FoldsJustified, cast \subseteq cast', cast' \subseteq [by : Seats, on : Accused],
         \A r \in Seats : due'[r] \cup folded'[r] \subseteq due[r] \cup folded[r]
  PROVE  FoldsJustified'
<1> SUFFICES ASSUME NEW r \in Seats, NEW p \in due'[r] \cup folded'[r] PROVE Outvoted(p)'
  BY DEF FoldsJustified
<1>1. p \in Accused /\ Outvoted(p)
  BY DEF FoldsJustified, TypeOK
<1> QED BY <1>1, StaysOutvoted DEF TypeOK

LEMMA StartKeeps ==
  ASSUME IInv, NEW r \in Seats, Start(r) PROVE IInv'
<1>1. \A m \in mail' : m \in mail \/ (m \in Share /\ m.kind = "direct")
  BY DEF Start, ToOthers, Share
<1>2. TypeOK'
  <2>1. mail' \subseteq Vote \cup Share
    BY <1>1 DEF IInv, TypeOK
  <2>2. kept' \in [Seats -> SUBSET Accused] /\ up' \subseteq Seats /\ stopped' \subseteq up' \cap Accused
    BY DEF IInv, TypeOK, Start
  <2> QED BY <2>1, <2>2 DEF IInv, TypeOK, Start
<1>3. VotesCast'
  BY <1>1 DEF IInv, VotesCast, HasVoted, Start
<1>4. FoldsJustified'
  BY FoldsStayJustified DEF IInv, TypeOK, Start
<1>5. SharesReleased'
  BY <1>1 DEF IInv, SharesReleased, Start
<1> QED BY <1>2, <1>3, <1>4, <1>5 DEF IInv

LEMMA StopKeeps ==
  ASSUME IInv, NEW p \in Accused, Stop(p) PROVE IInv'
<1>1. mail' \subseteq mail
  BY DEF Stop
<1>2. TypeOK'
  BY <1>1 DEF IInv, TypeOK, Stop
<1>3. VotesCast'
  BY <1>1 DEF IInv, VotesCast, HasVoted, Stop
<1>4. FoldsJustified'
  BY FoldsStayJustified DEF IInv, TypeOK, Stop
<1>5. SharesReleased'
  BY <1>1 DEF IInv, SharesReleased, Stop
<1> QED BY <1>2, <1>3, <1>4, <1>5 DEF IInv

\* Only a seat that runs looks at its peers, and only seats that have stopped
\* time out: nobody is alarmed about itself.
LEMMA CheckTimeoutsKeeps ==
  ASSUME IInv, NEW r \in Seats \ stopped, CheckTimeouts(r) PROVE IInv'
<1>1. PICK new \in SUBSET stopped :
        /\ status' = [status EXCEPT ![r] = [p \in Accused |-> IF p \in new THEN "timedOut" ELSE @[p]]]
        /\ alarm' = [alarm EXCEPT ![r] = [p \in Accused |-> IF p \in new THEN "tell" ELSE @[p]]]
        /\ UNCHANGED <<up, stopped, ballot, due, folded, kept, held, recovery, mail, cast>>
  BY DEF CheckTimeouts
<1>2. r \notin new
  BY <1>1
<1>3. TypeOK'
  <2>1. status' \in [Seats -> [Accused -> {"alive", "timedOut", "disconnected"}]]
    BY <1>1 DEF IInv, TypeOK
  <2>2. alarm' \in [Seats -> [Accused -> {"idle", "tell", "start"}]]
    BY <1>1 DEF IInv, TypeOK
  <2> QED BY <1>1, <2>1, <2>2 DEF IInv, TypeOK
<1>4. VotesCast'
  <2>1. ASSUME NEW s \in Seats, NEW p \in Accused
        PROVE  /\ alarm'[s][p] # "idle" => s # p
               /\ alarm'[s][p] = "start" => HasVoted(s, p)
    BY <1>1, <1>2 DEF IInv, TypeOK, VotesCast
  <2> QED BY <1>1, <2>1 DEF IInv, VotesCast, HasVoted
<1>5. FoldsJustified'
  BY <1>1, FoldsStayJustified DEF IInv, TypeOK
<1>6. SharesReleased'
  BY <1>1 DEF IInv, SharesReleased
<1> QED BY <1>3, <1>4, <1>5, <1>6 DEF IInv

LEMMA TellVoteKeeps ==
  ASSUME IInv, NEW r \in Seats, NEW p \in Accused, TellVote(r, p) PROVE IInv'
<1> DEFINE own == [by |-> r, on |-> p]
<1>1. /\ alarm[r][p] = "tell" /\ alarm' = [alarm EXCEPT ![r][p] = "start"]
      /\ mail' = mail \cup ToOthers(r, "vote", p) /\ cast' = cast \cup {own}
      /\ UNCHANGED <<up, stopped, status, ballot, due, folded, kept, held, recovery>>
  BY DEF TellVote
<1>2. r # p
  BY <1>1 DEF IInv, VotesCast
<1>3. \A m \in mail' : m \in mail \/ (m \in Vote /\ m.kind = "vote" /\ m.by = r /\ m.on = p)
  BY <1>1, ToOthersAre DEF Vote
<1>4. cast \subseteq cast' /\ cast' \subseteq [by : Seats, on : Accused] /\ own \in cast'
  BY <1>1 DEF IInv, TypeOK
<1>5. TypeOK'
  BY <1>1, <1>3, <1>4 DEF IInv, TypeOK
<1>6. VotesCast'
  <2>1. \A v \in cast' : v.by # v.on
    BY <1>1, <1>2 DEF IInv, VotesCast
  <2>2. \A m \in mail' : m.kind = "vote" => HasVoted(m.by, m.on)'
    BY <1>3, <1>4 DEF IInv, VotesCast, HasVoted
  <2>3. ASSUME NEW s \in Seats, NEW q \in Accused
        PROVE  /\ \A t \in ballot'[s][q].votes : HasVoted(t, q)'
               /\ alarm'[s][q] # "idle" => s # q
               /\ alarm'[s][q] = "start" => HasVoted(s, q)'
    <3>1. \A t \in ballot'[s][q].votes : HasVoted(t, q)'
      BY <1>1, <1>4 DEF IInv, VotesCast, HasVoted
    <3>2. alarm'[s][q] # alarm[s][q] => s = r /\ q = p
      BY <1>1 DEF IInv, TypeOK
    <3> QED BY <1>2, <1>4, <3>1, <3>2 DEF IInv, VotesCast, HasVoted
  <2> QED BY <2>1, <2>2, <2>3 DEF VotesCast
<1>7. FoldsJustified'
  BY <1>1, <1>4, FoldsStayJustified DEF IInv
<1>8. SharesReleased'
  BY <1>1, <1>3 DEF IInv, SharesReleased
<1> QED BY <1>5, <1>6, <1>7, <1>8 DEF IInv

\* What StartVote and HandleTimeoutVote have in common: a ballot of counted
\* votes is installed, an alarm may end, messages may be taken out of the mail.
LEMMA SetBallotKeeps ==
  ASSUME IInv, NEW r \in Seats, NEW p \in Accused, NEW b \in Ballot,
         \A q \in b.votes : HasVoted(q, p),
         b.status = "confirmed" /\ b # ballot[r][p] => Cardinality(b.votes) >= VoteThreshold,
         SetBallot(r, p, b), mail' \subseteq mail,
         alarm' \in [Seats -> [Accused -> {"idle", "tell", "start"}]],
         \A s \in Seats : \A q \in Accused : alarm'[s][q] \in {alarm[s][q], "idle"},
         UNCHANGED <<up, stopped, status, folded, kept, held, recovery, cast>>
  PROVE  IInv'
<1>1. ballot' = [ballot EXCEPT ![r][p] = b]
  BY DEF SetBallot
<1>2. due' \in [Seats -> SUBSET Accused]
  BY DEF SetBallot, IInv, TypeOK
<1>3. TypeOK'
  <2>1. ballot' \in [Seats -> [Accused -> Ballot]]
    BY <1>1 DEF IInv, TypeOK
  <2> QED BY <1>2, <2>1 DEF IInv, TypeOK
<1>4. VotesCast'
  <2>1. ASSUME NEW s \in Seats, NEW q \in Accused
        PROVE  /\ \A t \in ballot'[s][q].votes : HasVoted(t, q)'
               /\ alarm'[s][q] # "idle" => s # q
               /\ alarm'[s][q] = "start" => HasVoted(s, q)'
    <3>1. ballot'[s][q] = IF s = r /\ q = p THEN b ELSE ballot[s][q]
      BY <1>1 DEF IInv, TypeOK
    <3>2. \A t \in ballot'[s][q].votes : HasVoted(t, q)'
      BY <3>1 DEF IInv, VotesCast, HasVoted
    <3> QED BY <3>2 DEF IInv, VotesCast, HasVoted
  <2>2. /\ \A v \in cast' : v.by # v.on
        /\ \A m \in mail' : m.kind = "vote" => HasVoted(m.by, m.on)'
    BY DEF IInv, VotesCast, HasVoted
  <2> QED BY <2>1, <2>2 DEF VotesCast
<1>5. FoldsJustified'
  <2> SUFFICES ASSUME NEW s \in Seats, NEW q \in due'[s] \cup folded'[s]
               PROVE  Outvoted(q)'
    BY DEF FoldsJustified
  <2>1. Outvoted(q)' <=> Outvoted(q)
    BY DEF Outvoted, Voters, VoteThreshold
  <2>2. CASE q \in due[s] \cup folded[s]
    BY <2>1, <2>2 DEF IInv, FoldsJustified
  <2>3. CASE q \notin due[s] \cup folded[s]
    <3>1. q = p /\ b.status = "confirmed" /\ b # ballot[r][p]
      BY <2>3 DEF SetBallot, IInv, TypeOK
    <3>2. b.votes \in SUBSET Seats
      BY DEF Ballot
    <3> QED BY <2>1, <3>1, <3>2, EnoughVoters DEF IInv, TypeOK
  <2> QED BY <2>2, <2>3
<1>6. SharesReleased'
  BY DEF IInv, SharesReleased
<1> QED BY <1>3, <1>4, <1>5, <1>6 DEF IInv

LEMMA StartVoteKeeps ==
  ASSUME IInv, NEW r \in Seats, NEW p \in Accused, StartVote(r, p) PROVE IInv'
<1> DEFINE b == AddVote(NoBallot, r)
<1>1. /\ alarm[r][p] = "start" /\ alarm' = [alarm EXCEPT ![r][p] = "idle"]
      /\ UNCHANGED <<up, stopped, status, folded, kept, held, recovery, mail, cast>>
  BY DEF StartVote
<1>2. HasVoted(r, p) /\ NoBallot \in Ballot
  BY <1>1 DEF IInv, VotesCast, NoBallot, Ballot
<1>3. /\ alarm' \in [Seats -> [Accused -> {"idle", "tell", "start"}]]
      /\ \A s \in Seats : \A q \in Accused : alarm'[s][q] \in {alarm[s][q], "idle"}
  BY <1>1 DEF IInv, TypeOK
<1>4. CASE SetBallot(r, p, b)
  <2>1. b = [votes |-> {r},
             status |-> IF Cardinality({r}) >= VoteThreshold THEN "confirmed" ELSE "pending"]
    BY DEF AddVote, NoBallot
  <2>2. b \in Ballot /\ \A q \in b.votes : HasVoted(q, p)
    BY <1>2, <2>1 DEF Ballot
  <2>3. b.status = "confirmed" => Cardinality(b.votes) >= VoteThreshold
    BY <2>1
  <2> HIDE DEF b
  <2> QED BY <1>1, <1>3, <1>4, <2>2, <2>3, SetBallotKeeps
<1>5. CASE UNCHANGED <<ballot, due>>
  <2>1. TypeOK'
    BY <1>1, <1>3, <1>5 DEF IInv, TypeOK
  <2>2. VotesCast'
    BY <1>1, <1>3, <1>5 DEF IInv, VotesCast, HasVoted
  <2>3. FoldsJustified' /\ SharesReleased'
    BY <1>1, <1>5, FoldsStayJustified DEF IInv, TypeOK, SharesReleased
  <2> QED BY <2>1, <2>2, <2>3 DEF IInv
<1> QED BY <1>4, <1>5 DEF StartVote

LEMMA HandleTimeoutVoteKeeps ==
  ASSUME IInv, NEW r \in Seats, NEW m \in mail, mail' \subseteq mail, HandleTimeoutVote(r, m)
  PROVE  IInv'
<1> DEFINE old == ballot[r][m.on]
           b == AddVote(old, m.by)
<1>1. m \in Vote /\ m.by \in Seats /\ m.on \in Accused /\ HasVoted(m.by, m.on)
  BY DEF HandleTimeoutVote, IInv, TypeOK, VotesCast, Vote, Share
<1>2. old \in Ballot
  BY <1>1 DEF IInv, TypeOK
<1>3. \A q \in old.votes : HasVoted(q, m.on)
  BY <1>1 DEF IInv, VotesCast
<1>4. SetBallot(r, m.on, b) /\ UNCHANGED <<up, stopped, status, alarm, folded, kept, held, recovery, cast>>
  BY DEF HandleTimeoutVote
<1> HIDE DEF old
<1>5. /\ b \in Ballot /\ b.votes \subseteq old.votes \cup {m.by}
      /\ b.status = "confirmed" /\ b # old => Cardinality(b.votes) >= VoteThreshold
  BY <1>1, <1>2, AddVoteCounts
<1>6. \A q \in b.votes : HasVoted(q, m.on)
  BY <1>1, <1>3, <1>5
<1> HIDE DEF b
<1>7. /\ alarm' \in [Seats -> [Accused -> {"idle", "tell", "start"}]]
      /\ \A s \in Seats : \A q \in Accused : alarm'[s][q] \in {alarm[s][q], "idle"}
  BY <1>4 DEF IInv, TypeOK
<1> QED BY <1>1, <1>4, <1>5, <1>6, <1>7, SetBallotKeeps DEF old

\* A share is added to one store.
LEMMA AddShareKeeps ==
  ASSUME held \in [Seats -> [Accused -> SUBSET Seats]], NEW r \in Seats, NEW p \in Accused,
         NEW x \in Seats, held' = [held EXCEPT ![r][p] = @ \cup {x}]
  PROVE  /\ held' \in [Seats -> [Accused -> SUBSET Seats]]
         /\ \A s \in Seats : \A q \in Accused : \A t \in held'[s][q] :
              t \in held[s][q] \/ (q = p /\ t = x)
<1> DEFINE more == held[r][p] \cup {x}
<1>1. more \in SUBSET Seats
  OBVIOUS
<1>2. held' = [held EXCEPT ![r][p] = more]
  OBVIOUS
<1>3. \A t \in more : t \in held[r][p] \/ t = x
  OBVIOUS
<1> HIDE DEF more
<1>4. held' \in [Seats -> [Accused -> SUBSET Seats]]
  BY <1>1, <1>2
<1>5. ASSUME NEW s \in Seats, NEW q \in Accused
      PROVE  held'[s][q] = IF s = r /\ q = p THEN more ELSE held[s][q]
  <2>1. held' = [held EXCEPT ![r] = [held[r] EXCEPT ![p] = more]]
    BY <1>2
  <2>2. CASE s = r
    <3>1. held'[s] = [held[r] EXCEPT ![p] = more]
      BY <2>1, <2>2
    <3> QED BY <2>2, <3>1
  <2>3. CASE s # r
    BY <2>1, <2>3
  <2> QED BY <2>2, <2>3
<1> QED BY <1>3, <1>4, <1>5

\* A direct share is never collected, so what is collected was gossiped.
LEMMA OnKeyShareKeeps ==
  ASSUME IInv, NEW r \in Seats, NEW m \in mail, mail' \subseteq mail, OnKeyShare(r, m)
  PROVE  IInv'
<1>1. m \in Share /\ m.by \in Seats /\ m.on \in Accused
  BY DEF OnKeyShare, IInv, TypeOK, Vote, Share
<1>2. /\ IF m.kind = "gossip"
         THEN held' = [held EXCEPT ![r][m.on] = @ \cup {m.by}] /\ kept' = kept
         ELSE kept' = [kept EXCEPT ![r] = @ \cup {m.on}] /\ held' = held
      /\ UNCHANGED <<up, stopped, status, alarm, ballot, due, folded, recovery, cast>>
  BY DEF OnKeyShare
<1>3. /\ held' \in [Seats -> [Accused -> SUBSET Seats]]
      /\ \A s \in Seats : \A p \in Accused : \A q \in held'[s][p] :
           q \in held[s][p] \/ (m.kind = "gossip" /\ p = m.on /\ q = m.by)
      /\ kept' \in [Seats -> SUBSET Accused]
  <2>1. held \in [Seats -> [Accused -> SUBSET Seats]] /\ kept \in [Seats -> SUBSET Accused]
    BY DEF IInv, TypeOK
  <2>2. CASE m.kind = "gossip"
    <3>1. held' = [held EXCEPT ![r][m.on] = @ \cup {m.by}] /\ kept' = kept
      BY <1>2, <2>2
    <3> QED BY <1>1, <2>1, <2>2, <3>1, AddShareKeeps
  <2>3. CASE m.kind # "gossip"
    <3>1. kept' = [kept EXCEPT ![r] = @ \cup {m.on}] /\ held' = held
      BY <1>2, <2>3
    <3> QED BY <1>1, <2>1, <3>1
  <2> QED BY <2>2, <2>3
<1>4. TypeOK'
  BY <1>2, <1>3 DEF IInv, TypeOK
<1>5. VotesCast'
  BY <1>2 DEF IInv, VotesCast, HasVoted
<1>6. FoldsJustified'
  BY <1>2, FoldsStayJustified DEF IInv, TypeOK
<1>7. SharesReleased'
  <2>1. ASSUME NEW s \in Seats, NEW p \in Accused, NEW q \in held'[s][p]
        PROVE  p \in folded[q]
    <3>1. q \in held[s][p] \/ (m.kind = "gossip" /\ p = m.on /\ q = m.by)
      BY <1>3
    <3> QED BY <3>1 DEF IInv, SharesReleased
  <2> QED BY <1>2, <2>1 DEF IInv, SharesReleased
<1> QED BY <1>4, <1>5, <1>6, <1>7 DEF IInv

LEMMA ReceiveKeeps ==
  ASSUME IInv, NEW r \in Seats, Receive(r) PROVE IInv'
<1>1. PICK m \in mail :
        /\ mail' = mail \ {m}
        /\ IF r \in up THEN HandleTimeoutVote(r, m) \/ OnKeyShare(r, m)
           ELSE UNCHANGED <<up, stopped, status, alarm, ballot, due, folded, kept, held,
                            recovery, cast>>
  BY DEF Receive
<1>2. CASE HandleTimeoutVote(r, m)
  BY <1>1, <1>2, HandleTimeoutVoteKeeps
<1>3. CASE OnKeyShare(r, m)
  BY <1>1, <1>3, OnKeyShareKeeps
<1>4. CASE UNCHANGED <<up, stopped, status, alarm, ballot, due, folded, kept, held, recovery, cast>>
  <2>1. TypeOK' /\ VotesCast' /\ SharesReleased'
    BY <1>1, <1>4 DEF IInv, TypeOK, VotesCast, HasVoted, SharesReleased
  <2>2. FoldsJustified'
    BY <1>4, FoldsStayJustified DEF IInv, TypeOK
  <2> QED BY <2>1, <2>2 DEF IInv
<1> QED BY <1>1, <1>2, <1>3, <1>4

LEMMA OnConfirmedKeeps ==
  ASSUME IInv, NEW r \in Seats, NEW p \in Accused, OnConfirmed(r, p) PROVE IInv'
<1>1. /\ p \in due[r] /\ due' = [due EXCEPT ![r] = @ \ {p}]
      /\ status' = IF p = r THEN status ELSE [status EXCEPT ![r][p] = "disconnected"]
      /\ folded' = [folded EXCEPT ![r] = @ \cup {p}]
      /\ UNCHANGED <<up, stopped, alarm, ballot, kept, cast>>
  BY DEF OnConfirmed
<1>2. recovery' \in [Seats -> [Accused -> {"no", "collecting", "rebuilt", "gaveUp"}]]
  <2>1. recovery' = [recovery EXCEPT ![r][p] = "collecting"] \/ recovery' = recovery
    BY DEF OnConfirmed
  <2>2. recovery \in [Seats -> [Accused -> {"no", "collecting", "rebuilt", "gaveUp"}]]
    BY DEF IInv, TypeOK
  <2>3. CASE recovery' = recovery
    BY <2>2, <2>3
  <2>4. CASE recovery' = [recovery EXCEPT ![r][p] = "collecting"]
    BY <2>2, <2>4
  <2> QED BY <2>1, <2>3, <2>4
<1>3. /\ held' = [held EXCEPT ![r][p] = @ \cup {r}] \/ held' = held
      /\ mail' = mail \cup ToOthers(r, "gossip", p) \/ mail' = mail
  BY DEF OnConfirmed, Release
<1>4. \A m \in mail' : m \in mail \/ (m \in Share /\ m.kind = "gossip" /\ m.by = r /\ m.on = p)
  BY <1>3, ToOthersAre DEF Share
<1>5. p \in folded'[r] /\ \A s \in Seats : folded[s] \subseteq folded'[s]
  BY <1>1 DEF IInv, TypeOK
<1>6. TypeOK'
  <2>1. mail' \subseteq Vote \cup Share
    BY <1>4 DEF IInv, TypeOK
  <2>2. held' \in [Seats -> [Accused -> SUBSET Seats]]
    BY <1>3, AddShareKeeps DEF IInv, TypeOK
  <2>3. status' \in [Seats -> [Accused -> {"alive", "timedOut", "disconnected"}]]
    BY <1>1 DEF IInv, TypeOK
  <2>4. due' \in [Seats -> SUBSET Accused] /\ folded' \in [Seats -> SUBSET Accused]
    BY <1>1 DEF IInv, TypeOK
  <2> QED BY <1>1, <1>2, <2>1, <2>2, <2>3, <2>4 DEF IInv, TypeOK
<1>7. VotesCast'
  BY <1>1, <1>4 DEF IInv, VotesCast, HasVoted
<1>8. FoldsJustified'
  <2>1. \A s \in Seats : due'[s] \cup folded'[s] \subseteq due[s] \cup folded[s]
    BY <1>1 DEF IInv, TypeOK
  <2> QED BY <1>1, <2>1, FoldsStayJustified DEF IInv, TypeOK
<1>9. SharesReleased'
  <2>1. \A m \in mail' : m.kind = "gossip" => m.on \in folded'[m.by]
    <3> SUFFICES ASSUME NEW m \in mail', m.kind = "gossip" PROVE m.on \in folded'[m.by]
      OBVIOUS
    <3>1. CASE m \in mail
      BY <1>5, <3>1 DEF IInv, SharesReleased, TypeOK, Vote, Share
    <3>2. CASE m.by = r /\ m.on = p
      BY <1>5, <3>2
    <3> QED BY <1>4, <3>1, <3>2
  <2>2. ASSUME NEW s \in Seats, NEW q \in Accused, NEW t \in held'[s][q]
        PROVE  q \in folded'[t]
    <3>1. t \in held[s][q] \/ (q = p /\ t = r)
      <4>1. CASE held' = held
        BY <2>2, <4>1
      <4>2. CASE held' = [held EXCEPT ![r][p] = @ \cup {r}]
        <5>1. held \in [Seats -> [Accused -> SUBSET Seats]]
          BY DEF IInv, TypeOK
        <5> QED BY <2>2, <4>2, <5>1
      <4> QED BY <1>3, <4>1, <4>2
    <3>2. t \in held[s][q] => t \in Seats /\ q \in folded[t]
      BY DEF IInv, TypeOK, SharesReleased
    <3> QED BY <1>5, <3>1, <3>2
  <2> QED BY <2>1, <2>2 DEF SharesReleased
<1> QED BY <1>6, <1>7, <1>8, <1>9 DEF IInv

\* TryReconstructKey and GiveUp.
LEMMA RecoveryKeeps ==
  ASSUME IInv, NEW r \in Seats, NEW p \in Accused, NEW how \in {"rebuilt", "gaveUp"},
         recovery' = [recovery EXCEPT ![r][p] = how],
         UNCHANGED <<up, stopped, status, alarm, ballot, due, folded, kept, held, mail, cast>>
  PROVE  IInv'
<1>1. TypeOK'
  <2>1. recovery' \in [Seats -> [Accused -> {"no", "collecting", "rebuilt", "gaveUp"}]]
    BY DEF IInv, TypeOK
  <2> QED BY <2>1 DEF IInv, TypeOK
<1>2. VotesCast' /\ SharesReleased'
  BY DEF IInv, VotesCast, HasVoted, SharesReleased
<1>3. FoldsJustified'
  BY FoldsStayJustified DEF IInv, TypeOK
<1> QED BY <1>1, <1>2, <1>3 DEF IInv

LEMMA StepKeeps == IInv /\ [Next]_vars => IInv'
<1> SUFFICES ASSUME IInv, [Next]_vars PROVE IInv'
  OBVIOUS
<1>1. ASSUME NEW r \in Seats \ stopped,
             \/ Start(r) \/ Receive(r) \/ CheckTimeouts(r)
             \/ \E p \in Accused :
                  \/ Stop(p) \/ TellVote(r, p) \/ StartVote(r, p) \/ OnConfirmed(r, p)
                  \/ TryReconstructKey(r, p) \/ GiveUp(r, p)
      PROVE  IInv'
  <2>1. CASE Start(r)
    BY <2>1, StartKeeps
  <2>2. CASE Receive(r)
    BY <2>2, ReceiveKeeps
  <2>3. CASE CheckTimeouts(r)
    BY <2>3, CheckTimeoutsKeeps
  <2>4. ASSUME NEW p \in Accused, Stop(p) PROVE IInv'
    BY <2>4, StopKeeps
  <2>5. ASSUME NEW p \in Accused, TellVote(r, p) PROVE IInv'
    BY <2>5, TellVoteKeeps
  <2>6. ASSUME NEW p \in Accused, StartVote(r, p) PROVE IInv'
    BY <2>6, StartVoteKeeps
  <2>7. ASSUME NEW p \in Accused, OnConfirmed(r, p) PROVE IInv'
    BY <2>7, OnConfirmedKeeps
  <2>8. ASSUME NEW p \in Accused, TryReconstructKey(r, p) PROVE IInv'
    BY <2>8, RecoveryKeeps DEF TryReconstructKey
  <2>9. ASSUME NEW p \in Accused, GiveUp(r, p) PROVE IInv'
    BY <2>9, RecoveryKeeps DEF GiveUp
  <2> QED BY <1>1, <2>1, <2>2, <2>3, <2>4, <2>5, <2>6, <2>7, <2>8, <2>9
<1>2. CASE UNCHANGED vars
  <2>1. TypeOK' /\ VotesCast' /\ SharesReleased'
    BY <1>2 DEF vars, IInv, TypeOK, VotesCast, HasVoted, SharesReleased
  <2>2. FoldsJustified'
    BY <1>2, FoldsStayJustified DEF vars, IInv, TypeOK
  <2> QED BY <2>1, <2>2 DEF IInv
<1> QED BY <1>1, <1>2 DEF Next

-----------------------------------------------------------------------------

LEMMA Invariance == Spec => []IInv
  BY InitEstablishes, StepKeeps, PTL DEF Spec

\* Ballots, shares and messages keep their types for any number of seats, any
\* of which may stop, start late or give up (timeout.go, shamir.go).
THEOREM FaultTypeCorrect == Spec => []TypeOK
<1>1. IInv => TypeOK
  BY DEF IInv
<1> QED BY <1>1, Invariance, PTL

\* Nobody is folded before enough of the others, itself not counted, have told
\* the table that it timed out (AddVote, StartVote, RecordVote, OnConfirmed).
THEOREM FoldedByVoteTheorem == Spec => []FoldedByVote
<1>1. IInv => FoldedByVote
  <2> SUFFICES ASSUME IInv, NEW r \in Seats, NEW p \in folded[r]
               PROVE  Cardinality(Voters(p) \ {p}) >= VoteThreshold
    BY DEF FoldedByVote
  <2>1. Outvoted(p)
    BY DEF IInv, FoldsJustified
  <2>2. p \notin Voters(p)
    BY DEF IInv, VotesCast, Voters
  <2>3. Voters(p) \ {p} = Voters(p)
    BY <2>2
  <2> QED BY <2>1, <2>3 DEF Outvoted
<1> QED BY <1>1, Invariance, PTL

\* No share of a key is collected anywhere before the seat that made it
\* available has folded the key's owner (OnKeyShare, BroadcastMyShareFor).
THEOREM KeyStaysSplitTheorem == Spec => []KeyStaysSplit
<1>1. IInv => KeyStaysSplit
  BY DEF IInv, TypeOK, SharesReleased, KeyStaysSplit
<1> QED BY <1>1, Invariance, PTL
=============================================================================
