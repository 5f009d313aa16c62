------------------------------ MODULE FameVoting ------------------------------
(***************************************************************************)
(* fame_voting.go over the shared event map.  StartFameVoting holds fv.mu  *)
(* for the whole call, and in the engine ce.mu too, so no round pass runs  *)
(* meanwhile; processEvents may store events between two of its votes,     *)
(* because neither lock protects the map.                                  *)
(***************************************************************************)
EXTENDS RoundAssignment

CONSTANTS MinVotes,     \* minVoteCount
          VoteRounds    \* the rounds the engine asks about

ASSUME MinVotesAssumption == MinVotes \in Nat /\ MinVotes >= 2
ASSUME VoteRoundsAssumption == VoteRounds \subseteq Nat

VARIABLES votes,          \* votes: <<witness, round>> -> Choice
          famous,         \* famousWitnesses
          decided,        \* decidedRounds
          ballot,         \* witnesses the running call has still to vote on
          voting,         \* StartFameVoting is running and holds fv.mu
          voteRound,      \* its round (0 when none runs)
          fvDeadlocked    \* decideRound waits for the fv.mu its caller holds

fameVars == <<votes, famous, decided, ballot, voting, voteRound, fvDeadlocked>>

FameInit == /\ votes = <<>>
            /\ famous = {}
            /\ decided = {}
            /\ ballot = {}
            /\ voting = FALSE
            /\ voteRound = 0
            /\ fvDeadlocked = FALSE

-----------------------------------------------------------------------------
(* Share >= byzantineThreshold, the float64 2.0/3.0: correctly rounded     *)
(* quotients of counts compare as the fractions do, and 0/0 is NaN.        *)
TwoThirds(n, total) == total > 0 /\ 3 * n >= 2 * total

EventsOfRound(r) == {x \in DOMAIN events : events[x].round = r}

(* Mutant: only events of the next round see a witness. *)
CanSeeNextRoundOnly(x, w) ==
    /\ x \in DOMAIN events /\ w \in DOMAIN events
    /\ events[x].round = events[w].round + 1
    /\ IsAncestor(events, w, x)

(* canSee(), here and in clotho.go: any two events of one round see each   *)
(* other.                                                                  *)
CanSee(x, w) ==
    /\ x \in DOMAIN events /\ w \in DOMAIN events
    /\ \/ events[x].round = events[w].round
       \/ /\ events[x].round = events[w].round + 1
          /\ IsAncestor(events, w, x)

(* getWitnesses() with isWitness(): everything in round 0, the unassigned  *)
(* events included; beyond it the earliest events of their creators.       *)
GetWitnesses(r) ==
    {w \in EventsOfRound(r) : r = 0 \/ IsStructuralWitness(w, r)}

(* calculateVoteFantom(): the Choice of the one vote on w. *)
CalculateVote(w, r) ==
    TwoThirds(Cardinality({x \in EventsOfRound(r) : CanSee(x, w)}),
              Cardinality(EventsOfRound(r)))

(* Mutant: the test on the number of votes is the wrong way round. *)
CheckConsensusFlipped(vs, w, r) ==
    LET cast == {k \in DOMAIN vs : k[1] = w /\ k[2] = r}
    IN /\ Cardinality(cast) <= MinVotes
       /\ TwoThirds(Cardinality({k \in cast : vs[k]}), Cardinality(cast))

(* checkConsensusFantom(). *)
CheckConsensus(vs, w, r) ==
    LET cast == {k \in DOMAIN vs : k[1] = w /\ k[2] = r}
    IN /\ Cardinality(cast) >= MinVotes
       /\ TwoThirds(Cardinality({k \in cast : vs[k]}), Cardinality(cast))

-----------------------------------------------------------------------------
(* StartFameVoting(r): take fv.mu, return at once for a decided round or   *)
(* when there is no witness.                                               *)
BeginVoting(r) ==
    /\ ~crashed /\ ~passing /\ ~voting
    /\ r \notin decided
    /\ GetWitnesses(r) # {}
    /\ ballot' = GetWitnesses(r)
    /\ voting' = TRUE
    /\ voteRound' = r
    /\ UNCHANGED <<roundVars, votes, famous, decided, fvDeadlocked>>

(* One iteration: startVotingForWitness(w), unless w is famous already or  *)
(* has its vote.  decideRound() locks fv.mu again and never returns.       *)
VoteFor(w) ==
    /\ ~crashed /\ ~fvDeadlocked
    /\ ballot' = ballot \ {w}
    /\ IF w \in famous \/ <<w, voteRound>> \in DOMAIN votes
       THEN UNCHANGED <<votes, famous, fvDeadlocked>>
       ELSE /\ votes' = Put(votes, <<w, voteRound>>, CalculateVote(w, voteRound))
            /\ fvDeadlocked' = CheckConsensus(votes', w, voteRound)
            /\ famous' = IF fvDeadlocked' THEN famous \cup {w} ELSE famous
    /\ UNCHANGED <<roundVars, decided, voting, voteRound>>

EndVoting ==
    /\ ~crashed /\ ~fvDeadlocked
    /\ voting
    /\ ballot = {}
    /\ voting' = FALSE
    /\ voteRound' = 0
    /\ UNCHANGED <<roundVars, votes, famous, decided, ballot, fvDeadlocked>>

(* Reset(). *)
ResetFame ==
    /\ ~crashed /\ ~voting
    /\ votes' = <<>>
    /\ famous' = {}
    /\ decided' = {}
    /\ UNCHANGED <<roundVars, ballot, voting, voteRound, fvDeadlocked>>

FameStep == \/ \E r \in VoteRounds : BeginVoting(r)
            \/ \E w \in ballot : VoteFor(w)
            \/ EndVoting
            \/ ResetFame

-----------------------------------------------------------------------------
FameTypeOK == /\ IsMap(votes, EventID \X VoteRounds, BOOLEAN)
              /\ famous \subseteq EventID
              /\ decided \subseteq VoteRounds
              /\ ballot \subseteq DOMAIN events
              /\ voting \in BOOLEAN
              /\ voting => voteRound \in VoteRounds
              /\ fvDeadlocked \in BOOLEAN

(* Votes are kept per witness and round, so a witness never collects the   *)
(* minVoteCount votes that fame needs: no witness becomes famous, no round *)
(* is decided, and decideRound's second fv.mu.Lock is never reached        *)
(* (fame_voting.go:88-103, fame_voting.go:156, fame_voting.go:232).        *)
FameInert == famous = {} /\ decided = {} /\ ~fvDeadlocked

(* No vote is ever "no": the electors of a witness are the events of its   *)
(* own round, and those always see each other, whatever the DAG and        *)
(* whatever arrives during the vote (fame_voting.go:117, fame_voting.go:181).*)
VotesUnanimous == \A k \in DOMAIN votes : votes[k]

=============================================================================
