-------------------------------- MODULE StateDB --------------------------------
(***************************************************************************)
(* The StateDB of state.go: accounts, validators with their delegators,    *)
(* proposals with their votes and the cached state root, all under s.mu.   *)
(*                                                                         *)
(* GetAccount takes s.mu for reading and still writes: it enters a missing *)
(* account into the map.  Most writers hold s.mu and call GetAccount (or,  *)
(* in CreateContract, SetCode), so they wait for themselves; what follows  *)
(* the second lock is kept here behind the test whether it can be had.     *)
(* SetSINARBalance holds no lock when it writes to the account it was      *)
(* given; who calls it with which values is module SinarToken.             *)
(*                                                                         *)
(* A writer runs its body in one step, with arguments chosen there; the    *)
(* body of GetAccount takes two, look up and enter.  An account is known   *)
(* by the goroutine that made it.  The maps stakes, delegations and        *)
(* contracts are written beside these and decide nothing; left out.        *)
(***************************************************************************)
EXTENDS Goroutines, Functions, GoMap

CONSTANTS Address,
          MinStake,   \* config.MinStake
          Stakes,     \* amounts that callers stake and vote with
          Balances,   \* balances that callers set
          Nobody      \* the absent account

ASSUME StakesAssumption == /\ Stakes \subseteq Nat
                           /\ Balances \subseteq Int /\ MinStake \in Nat

VARIABLES accounts,    \* accounts: Address -> the account's maker, or Nobody
          balance,     \* Balance of the accounts
          validators,  \* validators: Address -> ValidatorState
          proposal,    \* the tally of a proposal, or NoProposal
          ballots,     \* the proposal's votes: Address -> StateVote
          root,        \* stateRootCache is set, stateRootDirty
          handle,      \* what GetAccount is asked for and has returned
          overlapped   \* two goroutines have been making accounts at once

dataVars == <<accounts, balance, validators, proposal, ballots, root>>
stateVars == <<dataVars, handle, overlapped>>

Choice == {"for", "against", "abstain"}
NoProposal == [open |-> FALSE, votesFor |-> 0, votesAgainst |-> 0, total |-> 0]
NewProposal == [NoProposal EXCEPT !.open = TRUE]
NoHandle == [address |-> Nobody, account |-> Nobody]

(* The calls of GetAccount without s.mu, the writers that take the lock    *)
(* once, and the ones that take it twice, the staking calls only behind    *)
(* their tests.                                                            *)
Finders == {"GetAccount", "SetSINARBalance"}
Plain == {"CreateProposal", "Vote", "IntermediateRoot", "Commit"}
Nesting == {"SetField", "CreateContract", "AddValidator", "RemoveValidator",
            "Delegate", "Undelegate"}
StateOps == Finders \cup Plain \cup Nesting

StateInit == /\ accounts = [a \in Address |-> Nobody]
             /\ balance = [a \in Address |-> 0]
             /\ validators = <<>>
             /\ proposal = NoProposal
             /\ ballots = <<>>
             /\ root = [cached |-> FALSE, dirty |-> TRUE]
             /\ handle = [g \in Caller |-> NoHandle]
             /\ overlapped = FALSE

-----------------------------------------------------------------------------
(* A goroutine calls. *)
CallState(g) ==
    /\ \/ \E op \in Finders : Begin(g, op, "rlock")
       \/ \E op \in Plain \cup Nesting : Begin(g, op, "lock")
    /\ UNCHANGED stateVars

(* GetAccount is at a step; it has returned, to SetSINARBalance perhaps. *)
Finding(g, at) == \E op \in Finders : In(g, op, at)
Found(g) == IF call[g].op = "SetSINARBalance" THEN GoTo(g, "write") ELSE Return(g)

(* GetAccount under the read lock: look the account up ... *)
LookUp(g) ==
    /\ Finding(g, "rlock")
    /\ CanRLock(mu["state"])
    /\ \E a \in Address :
          /\ handle' = [handle EXCEPT ![g] = [address |-> a, account |-> accounts[a]]]
          /\ IF accounts[a] # Nobody
             THEN /\ Found(g)
                  /\ UNCHANGED <<mu, overlapped>>
             ELSE /\ TakeRLock(g, "state")
                  /\ GoTo(g, "enter")
                  /\ overlapped' = (overlapped \/ \E o \in Caller : call[o].at = "enter")
    /\ UNCHANGED <<calls, died, dataVars>>

(* Mutant: a new account is returned and not entered. *)
EnterNothing(g) ==
    /\ Finding(g, "enter")
    /\ handle' = [handle EXCEPT ![g].account = g]
    /\ DropRLock(g, "state")
    /\ Found(g)
    /\ UNCHANGED <<calls, died, dataVars, overlapped>>

(* ... and enter a new one, still under the read lock. *)
Enter(g) ==
    LET a == handle[g].address IN
    /\ Finding(g, "enter")
    /\ accounts' = [accounts EXCEPT ![a] = g]
    /\ balance' = [balance EXCEPT ![a] = 0]
    /\ handle' = [handle EXCEPT ![g].account = g]
    /\ DropRLock(g, "state")
    /\ Found(g)
    /\ UNCHANGED <<calls, died, validators, proposal, ballots, root, overlapped>>

(* SetSINARBalance writes to the account it has, without a lock; nobody    *)
(* sees a write to an account that another has replaced in the map.        *)
SetSINARBalance(g) ==
    LET h == handle[g] IN
    /\ In(g, "SetSINARBalance", "write")
    /\ IF accounts[h.address] = h.account
       THEN \E v \in Balances : balance' = [balance EXCEPT ![h.address] = v]
       ELSE UNCHANGED balance
    /\ Return(g)
    /\ UNCHANGED <<mu, calls, died, accounts, validators, proposal, ballots, root,
                   handle, overlapped>>

(* Two writes of the map meet: the runtime may kill the process. *)
MapRace(g) ==
    /\ Finding(g, "enter")
    /\ \E o \in Caller \ {g} : call[o].at = "enter"
    /\ died' = TRUE
    /\ UNCHANGED <<call, mu, calls, stateVars>>

(* A writer gets on with the lock. *)
LockState(g) == /\ call[g].op \in Plain \cup Nesting
                /\ TakeLock(g, "state")
                /\ UNCHANGED stateVars

-----------------------------------------------------------------------------
(* The bodies of the writers.  Done releases the lock and returns;         *)
(* CanFindAccount tells whether GetAccount, which needs the read lock of   *)
(* the mutex the caller holds, comes back.                                 *)
Done(g) == Finish(g, "state") /\ UNCHANGED <<handle, overlapped>>
Refuse(g) == Done(g) /\ UNCHANGED dataVars
MarkDirty == root' = [root EXCEPT !.dirty = TRUE]
CanFindAccount == CanRLock(mu["state"])
Wedge(g) == Hang(g) /\ UNCHANGED stateVars

(* SetBalance, SetNonce, SetCode and SetStorage differ in the field. *)
SetField(g) ==
    /\ In(g, "SetField", "body")
    /\ IF CanFindAccount
       THEN /\ \E a \in Address, v \in Balances : balance' = [balance EXCEPT ![a] = v]
            /\ MarkDirty
            /\ Done(g)
            /\ UNCHANGED <<accounts, validators, proposal, ballots>>
       ELSE Wedge(g)

(* CreateContract calls SetCode, which locks for writing. *)
CreateContract(g) ==
    /\ In(g, "CreateContract", "body")
    /\ IF CanLock(mu["state"], g)
       THEN MarkDirty /\ Done(g) /\ UNCHANGED <<accounts, balance, validators, proposal, ballots>>
       ELSE Wedge(g)

(* AddValidator: an error below the minimum stake. *)
AddValidator(g) ==
    /\ In(g, "AddValidator", "body")
    /\ \E stake \in Stakes, a \in Address :
          \/ stake < MinStake /\ Refuse(g)
          \/ /\ stake >= MinStake
             /\ IF CanFindAccount
                THEN /\ validators' = Put(validators, a,
                           [total |-> stake, delegators |-> <<>>])
                     /\ MarkDirty
                     /\ Done(g)
                     /\ UNCHANGED <<accounts, balance, proposal, ballots>>
                ELSE Wedge(g)

RemoveValidator(g) ==
    /\ In(g, "RemoveValidator", "body")
    /\ IF CanFindAccount
       THEN /\ \E a \in Address : validators' = Delete(validators, {a})
            /\ MarkDirty
            /\ Done(g)
            /\ UNCHANGED <<accounts, balance, proposal, ballots>>
       ELSE Wedge(g)

(* What delegator d has with validator v, and the validators with amount n *)
(* of it added.                                                            *)
Delegation(v, d) == IF d \in DOMAIN validators[v].delegators
                    THEN validators[v].delegators[d] ELSE 0
Delegated(v, d, n) == [validators EXCEPT ![v].delegators = Put(@, d, Delegation(v, d) + n),
                                         ![v].total = @ + n]

(* Delegate: an error without the validator, then without the balance. *)
Delegate(g) ==
    /\ In(g, "Delegate", "body")
    /\ \E v, d \in Address, n \in Stakes :
          IF v \notin DOMAIN validators THEN Refuse(g)
          ELSE IF ~CanFindAccount THEN Wedge(g)
          ELSE IF balance[d] < n THEN Refuse(g)
          ELSE /\ balance' = [balance EXCEPT ![d] = @ - n]
               /\ validators' = Delegated(v, d, n)
               /\ MarkDirty
               /\ Done(g)
               /\ UNCHANGED <<accounts, proposal, ballots>>

(* The validators with amount n taken off; what is used up is deleted. *)
Undelegated(v, d, n) ==
    [validators EXCEPT ![v].delegators = IF Delegation(v, d) = n THEN Delete(@, {d})
                                         ELSE Put(@, d, Delegation(v, d) - n),
                       ![v].total = @ - n]

(* Undelegate: the validator's part is changed before GetAccount. *)
Undelegate(g) ==
    /\ In(g, "Undelegate", "body")
    /\ \E v, d \in Address, n \in Stakes :
          IF v \notin DOMAIN validators THEN Refuse(g)
          ELSE IF d \notin DOMAIN validators[v].delegators \/ Delegation(v, d) < n
          THEN Refuse(g)
          ELSE /\ validators' = Undelegated(v, d, n)
               /\ IF CanFindAccount
                  THEN /\ balance' = [balance EXCEPT ![d] = @ + n]
                       /\ MarkDirty
                       /\ Done(g)
                  ELSE Hang(g) /\ UNCHANGED <<balance, root, handle, overlapped>>
               /\ UNCHANGED <<accounts, proposal, ballots>>

-----------------------------------------------------------------------------
(* Mutant: the tally is replaced and the votes are kept. *)
CreateProposalKeepingVotes(g) ==
    /\ In(g, "CreateProposal", "body")
    /\ proposal' = NewProposal
    /\ MarkDirty
    /\ Done(g)
    /\ UNCHANGED <<accounts, balance, validators, ballots>>

(* CreateProposal: replaces a proposal with the same ID and its votes. *)
CreateProposal(g) ==
    /\ In(g, "CreateProposal", "body")
    /\ proposal' = NewProposal
    /\ ballots' = <<>>
    /\ MarkDirty
    /\ Done(g)
    /\ UNCHANGED <<accounts, balance, validators>>

(* Mutant: votes against are taken off the votes for. *)
TallyNet(p, choice, stake) ==
    [p EXCEPT !.votesFor = IF choice = "for" THEN @ + stake
                           ELSE IF choice = "against" THEN @ - stake ELSE @,
              !.total = @ + stake]

(* The tally with a vote added. *)
Tally(p, choice, stake) ==
    [p EXCEPT !.votesFor = IF choice = "for" THEN @ + stake ELSE @,
              !.votesAgainst = IF choice = "against" THEN @ + stake ELSE @,
              !.total = @ + stake]

(* A vote is counted; a second vote of a voter replaces the first in the   *)
(* votes and joins it in the tally.                                        *)
CastVote(voter, choice, stake) ==
    /\ ballots' = Put(ballots, voter, [choice |-> choice, stake |-> stake])
    /\ proposal' = Tally(proposal, choice, stake)
    /\ MarkDirty
    /\ UNCHANGED <<accounts, balance, validators>>

(* Mutant: the error path leaves without unlocking. *)
VoteKeepingLock(g) ==
    /\ In(g, "Vote", "body")
    /\ \/ proposal.open /\ Done(g)
          /\ \E voter \in Address, choice \in Choice, stake \in Stakes : CastVote(voter, choice, stake)
       \/ /\ Return(g)
          /\ UNCHANGED <<mu, calls, died, stateVars>>

(* Vote: an error without a proposal and outside its period, which may be  *)
(* at any time.                                                            *)
Vote(g) ==
    /\ In(g, "Vote", "body")
    /\ \/ Refuse(g)
       \/ /\ proposal.open
          /\ \E voter \in Address, choice \in Choice, stake \in Stakes : CastVote(voter, choice, stake)
          /\ Done(g)

(* IntermediateRoot, asked to keep the root or not.  The root itself does  *)
(* not depend on the state: every item is a Go map, RLP refuses maps, and  *)
(* the error is dropped.                                                   *)
IntermediateRoot(g) ==
    /\ In(g, "IntermediateRoot", "body")
    /\ \E commit \in BOOLEAN :
          root' = IF (root.dirty \/ ~root.cached) /\ commit
                  THEN [cached |-> TRUE, dirty |-> FALSE]
                  ELSE root
    /\ Done(g)
    /\ UNCHANGED <<accounts, balance, validators, proposal, ballots>>

Commit(g) ==
    /\ In(g, "Commit", "body")
    /\ MarkDirty
    /\ Done(g)
    /\ UNCHANGED <<accounts, balance, validators, proposal, ballots>>

StateStep(g) == \/ LookUp(g) \/ Enter(g) \/ SetSINARBalance(g) \/ LockState(g)
                \/ SetField(g) \/ CreateContract(g)
                \/ AddValidator(g) \/ RemoveValidator(g) \/ Delegate(g) \/ Undelegate(g)
                \/ CreateProposal(g) \/ Vote(g)
                \/ IntermediateRoot(g) \/ Commit(g)

-----------------------------------------------------------------------------
StateTypeOK ==
    /\ accounts \in [Address -> Caller \cup {Nobody}]
    /\ balance \in [Address -> Int]
    /\ DOMAIN validators \subseteq Address
    /\ proposal \in [open : BOOLEAN, votesFor : Nat, votesAgainst : Nat, total : Nat]
    /\ DOMAIN ballots \subseteq Address
    /\ ballots \in [DOMAIN ballots -> [choice : Choice, stake : Stakes]]
    /\ root \in [cached : BOOLEAN, dirty : BOOLEAN]
    /\ handle \in [Caller -> [address : Address \cup {Nobody}, account : Caller \cup {Nobody}]]
    /\ overlapped \in BOOLEAN

(* No validator is registered.  AddValidator says that it adds one         *)
(* (state.go:408); it waits for the lock it holds (state.go:417).          *)
NoValidators == DOMAIN validators = {}

(* The tally never shows less than the votes on record: repeated votes can *)
(* make it too high, a proposal created again starts both afresh           *)
(* (state.go:565, state.go:597-606).                                       *)
StakeOf(choices) ==
    FoldFunctionOnSet(+, 0, [v \in DOMAIN ballots |-> ballots[v].stake],
                      {v \in DOMAIN ballots : ballots[v].choice \in choices})
TallyCoversVotes ==
    /\ proposal.votesFor >= StakeOf({"for"})
    /\ proposal.votesAgainst >= StakeOf({"against"})
    /\ proposal.total >= StakeOf(Choice)
    /\ proposal.total >= proposal.votesFor + proposal.votesAgainst

(* The account a caller of GetAccount holds is the one in the map, unless  *)
(* two goroutines have made accounts at once, each under a read lock       *)
(* (state.go:283-305): a write through a handle is then lost.              *)
HandleIsStored ==
    overlapped \/ \A g \in Caller :
        handle[g].account # Nobody => accounts[handle[g].address] = handle[g].account

=============================================================================
