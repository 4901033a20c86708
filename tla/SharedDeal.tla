----------------------------- MODULE SharedDeal -----------------------------
(***************************************************************************)
(* What dealing promises: the table takes the layers of encryption off its *)
(* cards one turn after the other, in the order of the plan, of the cards  *)
(* in it and of the seats that peel a card. Nobody peels ahead.            *)
(***************************************************************************)
EXTENDS Seating, Sequences

CONSTANTS Plan,           \* sequences of jobs [card, to]
          Peelers(_)      \* who peels a job, in order

VARIABLES done,           \* the turns taken
          suspects        \* seats others may peel for

TurnsOf(k, job) == {[at |-> k, card |-> job.card, seat |-> Peelers(job)[i]] :
                      i \in 1 .. Len(Peelers(job))}
Turns == UNION {UNION {TurnsOf(k, Plan[k][j]) : j \in 1 .. Len(Plan[k])} : k \in 1 .. Len(Plan)}

Before(t, u) ==
  \/ t.at < u.at
  \/ t.at = u.at /\ t.card < u.card
  \/ t.at = u.at /\ t.card = u.card /\ t.seat < u.seat

\* A player takes its turns, as many as follow each other.
Play(s) ==
  LET new == done' \ done
  IN  /\ done \subseteq done' /\ new # {} /\ new \subseteq Turns
      /\ \A t \in new : t.seat \in {s} \cup suspects
      /\ \A t \in new : \A u \in Turns : Before(u, t) => u \in done'
      /\ UNCHANGED suspects

Init == done = {} /\ suspects \in SUBSET Seats

Spec == Init /\ [][\E s \in Seats : Play(s)]_<<done, suspects>>
=============================================================================
