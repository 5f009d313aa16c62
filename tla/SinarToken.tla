------------------------------ MODULE SinarToken ------------------------------
(***************************************************************************)
(* The native token of state.go.  HTTP handlers (api_server.go) call       *)
(* TransferSINAR and InitializeSINARDistribution, each request in a        *)
(* goroutine of its own; MintSINAR and BurnSINAR are methods of the same   *)
(* object.  None of them holds a lock from its first read to its last      *)
(* write: GetAccount takes s.mu for the lookup alone.  Every read and      *)
(* every write of a balance or of CurrentSupply is therefore a step, the   *)
(* summation over the accounts included.                                   *)
(*                                                                         *)
(* An account that does not exist yet has balance 0, which is what         *)
(* GetAccount creates it with.  A process that the Go runtime kills for a  *)
(* concurrent map write just stops here.                                   *)
(***************************************************************************)
EXTENDS Integers, FiniteSets, Sequences, Functions

CONSTANTS Address, Callers,
          Amounts,       \* the amounts callers ask for: a big.Int has a sign, and
                         \* neither the handler nor TransferSINAR tests it
          TotalSupply,   \* SINAR_TOTAL_SUPPLY
          Groups,        \* NewInitialDistribution: the groups of wallets in order
          NoAddress,     \* a call without that argument
          MaxCalls       \* bound: the calls of one behaviour

ASSUME AddressAssumption == IsFiniteSet(Address) /\ NoAddress \notin Address
ASSUME CallersAssumption == IsFiniteSet(Callers)
ASSUME AmountsAssumption == Amounts \subseteq Int /\ TotalSupply \in Nat
ASSUME GroupsAssumption == Groups \in Seq([percent : Nat, wallets : Seq(Address)])

VARIABLES balance,     \* accounts[a].Balance
          supply,      \* sinarToken.CurrentSupply
          call,        \* what each caller is doing
          calls,       \* how many calls have begun
          overlapped,  \* history: two calls have been in progress at once
          drained      \* history: the receivers of a negative amount

tokenVars == <<balance, supply, call, calls, overlapped, drained>>

(* The payments of InitializeSINARDistribution, as positions <<group,      *)
(* wallet>>, in the order of the code.                                     *)
Slots == UNION {{<<g, i>> : i \in DOMAIN Groups[g].wallets} : g \in DOMAIN Groups}
Before(p, q) == p[1] < q[1] \/ (p[1] = q[1] /\ p[2] < q[2])

(* distributeToWallets(): equal parts, the remainder to the last wallet. *)
Wallet(p) == Groups[p[1]].wallets[p[2]]
Part(p) ==
    LET total == (TotalSupply * Groups[p[1]].percent) \div 100
        n == Len(Groups[p[1]].wallets)
    IN (total \div n) + (IF p[2] = n THEN total % n ELSE 0)

(* A call: its operation, the next step (at), the step after the current   *)
(* SetSINARBalance (next), its arguments, the value it has read (saved),   *)
(* the supply it will set (target), the running total (acc), the accounts  *)
(* it has still to add (left), and the payments it has still to make (due).*)
Call(op, at, from, to, amount) ==
    [op |-> op, at |-> at, next |-> "idle", from |-> from, to |-> to,
     amount |-> amount, saved |-> 0, target |-> 0, acc |-> 0, left |-> {}, due |-> {}]

Idle == Call("none", "idle", NoAddress, NoAddress, 0)

TokenInit == /\ balance = [a \in Address |-> 0]
             /\ supply = 0
             /\ call = [c \in Callers |-> Idle]
             /\ calls = 0
             /\ overlapped = FALSE
             /\ drained = {}

-----------------------------------------------------------------------------
Begin(c, r) ==
    /\ calls < MaxCalls
    /\ call[c] = Idle
    /\ call' = [call EXCEPT ![c] = r]
    /\ calls' = calls + 1
    /\ overlapped' = (overlapped \/ \E d \in Callers : call[d] # Idle)
    /\ UNCHANGED <<balance, supply, drained>>

(* TransferSINAR(): read and test the sender's balance. *)
TransferSINAR(c, from, to, n) ==
    /\ balance[from] >= n
    /\ Begin(c, [Call("transfer", "debit", from, to, n) EXCEPT !.saved = balance[from]])

(* BurnSINAR(): the same. *)
BurnSINAR(c, from, n) ==
    /\ balance[from] >= n
    /\ Begin(c, [Call("burn", "debit", from, NoAddress, n) EXCEPT !.saved = balance[from]])

(* MintSINAR(): test the cap, and remember the new supply. *)
MintSINAR(c, to, n) ==
    /\ supply + n <= TotalSupply
    /\ Begin(c, [Call("mint", "readTo", NoAddress, to, n) EXCEPT !.target = supply + n])

InitializeSINARDistribution(c) ==
    Begin(c, [Call("init", "distribute", NoAddress, NoAddress, 0) EXCEPT !.due = Slots])

-----------------------------------------------------------------------------
(* Caller c is at step s. *)
At(c, s) == call[c].at = s /\ UNCHANGED <<calls, overlapped>>

Goto(c, s) == call' = [call EXCEPT ![c] = IF s = "idle" THEN Idle ELSE [@ EXCEPT !.at = s]]

(* Call r goes on to add up the accounts, then to step `next`. *)
Totalling(r, next) ==
    [r EXCEPT !.at = "sum", !.next = next, !.acc = 0, !.left = Address]

(* SetSINARBalance(): set the balance, then compute the supply. *)
SetSINARBalance(c, r, a, v, next) ==
    /\ balance' = [balance EXCEPT ![a] = v]
    /\ call' = [call EXCEPT ![c] = Totalling(r, next)]
    /\ UNCHANGED supply

(* Mutant: the total is replaced instead of added to. *)
AddAccountLast(c, a) ==
    /\ At(c, "sum")
    /\ call' = [call EXCEPT ![c].acc = balance[a], ![c].left = @ \ {a}]
    /\ UNCHANGED <<balance, supply, drained>>

(* calculateTotalSINARSupply(): range over the accounts in any order. *)
AddAccount(c, a) ==
    /\ At(c, "sum")
    /\ call' = [call EXCEPT ![c].acc = @ + balance[a], ![c].left = @ \ {a}]
    /\ UNCHANGED <<balance, supply, drained>>

(* ... and assign CurrentSupply. *)
AssignTotal(c) ==
    /\ At(c, "sum")
    /\ call[c].left = {}
    /\ supply' = call[c].acc
    /\ Goto(c, call[c].next)
    /\ UNCHANGED <<balance, drained>>

AfterDebit(op) == IF op = "transfer" THEN "readTo" ELSE "readSupply"

(* Mutant: subtract from the balance in place. *)
DebitInPlace(c) ==
    LET r == call[c] IN
    /\ At(c, "debit")
    /\ SetSINARBalance(c, r, r.from, balance[r.from] - r.amount, AfterDebit(r.op))
    /\ UNCHANGED drained

(* Mutant: the receiver's balance is read before the sender is debited. *)
DebitAfterBothReads(c) ==
    LET r == call[c] IN
    /\ At(c, "debit")
    /\ SetSINARBalance(c, IF r.op = "transfer" THEN [r EXCEPT !.saved = balance[r.to]] ELSE r,
                       r.from, r.saved - r.amount,
                       IF r.op = "transfer" THEN "credit" ELSE "readSupply")
    /\ UNCHANGED drained

(* Take the amount from the balance that was read. *)
Debit(c) ==
    LET r == call[c] IN
    /\ At(c, "debit")
    /\ SetSINARBalance(c, r, r.from, r.saved - r.amount, AfterDebit(r.op))
    /\ UNCHANGED drained

ReadTo(c) ==
    /\ At(c, "readTo")
    /\ call' = [call EXCEPT ![c].at = "credit", ![c].saved = balance[call[c].to]]
    /\ UNCHANGED <<balance, supply, drained>>

(* Give the amount to the receiver; nothing has tested its sign. *)
Credit(c) ==
    LET r == call[c] IN
    /\ At(c, "credit")
    /\ SetSINARBalance(c, r, r.to, r.saved + r.amount,
                       IF r.op = "transfer" THEN "idle" ELSE "settle")
    /\ drained' = IF r.amount < 0 THEN drained \cup {r.to} ELSE drained

(* A burn takes the amount from CurrentSupply a second time. *)
ReadSupply(c) ==
    /\ At(c, "readSupply")
    /\ call' = [call EXCEPT ![c].at = "settle", ![c].target = supply - call[c].amount]
    /\ UNCHANGED <<balance, supply, drained>>

(* Mint and burn end with an assignment to CurrentSupply. *)
Settle(c) ==
    /\ At(c, "settle")
    /\ supply' = call[c].target
    /\ Goto(c, "idle")
    /\ UNCHANGED <<balance, drained>>

(* Pay the next wallet: the balance is replaced, whatever it was. *)
Distribute(c, p) ==
    /\ At(c, "distribute")
    /\ \A q \in call[c].due : q = p \/ Before(p, q)
    /\ SetSINARBalance(c, [call[c] EXCEPT !.due = @ \ {p}], Wallet(p), Part(p), "distribute")
    /\ UNCHANGED drained

(* The last statement of InitializeSINARDistribution. *)
Total(c) ==
    /\ At(c, "distribute")
    /\ call[c].due = {}
    /\ call' = [call EXCEPT ![c] = Totalling(@, "idle")]
    /\ UNCHANGED <<balance, supply, drained>>

CallStep(c) ==
    \/ \E a \in call[c].left : AddAccount(c, a)
    \/ AssignTotal(c)
    \/ Debit(c) \/ ReadTo(c) \/ Credit(c)
    \/ ReadSupply(c) \/ Settle(c)
    \/ \E p \in call[c].due : Distribute(c, p)
    \/ Total(c)

TokenNext ==
    \E c \in Callers :
        \/ \E from, to \in Address, n \in Amounts : TransferSINAR(c, from, to, n)
        \/ \E from \in Address, n \in Amounts : BurnSINAR(c, from, n)
        \/ \E to \in Address, n \in Amounts : MintSINAR(c, to, n)
        \/ InitializeSINARDistribution(c)
        \/ CallStep(c)

TokenSpec == TokenInit /\ [][TokenNext]_tokenVars

-----------------------------------------------------------------------------
Steps == {"idle", "debit", "sum", "readTo", "credit", "readSupply", "settle",
          "distribute"}

CallType ==
    [op : {"none", "transfer", "burn", "mint", "init"}, at : Steps, next : Steps,
     from : Address \cup {NoAddress}, to : Address \cup {NoAddress}, amount : Int,
     saved : Int, target : Int, acc : Int, left : SUBSET Address, due : SUBSET Slots]

TokenTypeOK == /\ balance \in [Address -> Int]
               /\ supply \in Int
               /\ call \in [Callers -> CallType]
               /\ calls \in Nat
               /\ overlapped \in BOOLEAN
               /\ drained \subseteq Address

(* A balance is below zero only when the account has received a negative  *)
(* amount, which api_server.go:701 parses and state.go:817 lets through.   *)
(* No interleaving of transfers, burns, mints and distributions overdraws  *)
(* any other account, although the test of the balance and the subtraction *)
(* are steps apart: the subtraction starts from the value that was tested  *)
(* (state.go:816-822, state.go:856-862).                                   *)
NeverOverdrawn == \A a \in Address : balance[a] < 0 => a \in drained

(* The step a call goes on with, once it has added up the accounts. *)
Ahead(r) == IF r.at = "sum" THEN r.next ELSE r.at

(* A debit is covered by the value the call has read, a credit starts      *)
(* below zero only in one of the drained accounts D, and a call has the    *)
(* arguments of the steps ahead of it.                                     *)
Covered(r, D) ==
    /\ Ahead(r) = "debit" => /\ r.at = "debit"
                             /\ r.from \in Address
                             /\ r.amount <= r.saved
    /\ Ahead(r) = "credit" => r.at = "credit" /\ (r.saved < 0 => r.to \in D)
    /\ r.op = "transfer" => r.to \in Address
    /\ Ahead(r) \in {"readTo", "credit"} => r.to \in Address
    /\ Ahead(r) # "sum"

(* The inductive invariant that contains NeverOverdrawn: no call ever      *)
(* debits more than it has read, and what a credit has read is below zero  *)
(* only in a drained account (state.go:816-826, state.go:856-862).         *)
TokenInv == /\ TokenTypeOK
            /\ NeverOverdrawn
            /\ \A c \in Callers : Covered(call[c], drained)

(* The balances, and what a transfer has taken and not yet given. *)
TotalBalance == SumFunction(balance)
InFlight ==
    [c \in Callers |->
        LET r == call[c] IN
        IF /\ r.op = "transfer"
           /\ r.at \in {"readTo", "credit"} \/ (r.at = "sum" /\ r.next = "readTo")
        THEN r.amount ELSE 0]

(* While calls do not overlap a transfer neither creates nor destroys      *)
(* money at any of its steps, a transfer to oneself included               *)
(* (state.go:814-832).                                                     *)
TransferConserves ==
    [][~overlapped' /\ (\A c \in Callers : call'[c].op \in {"none", "transfer"}) =>
          (TotalBalance + SumFunction(InFlight))' = TotalBalance + SumFunction(InFlight)
      ]_tokenVars

(* While calls do not overlap, a transfer or a distribution leaves         *)
(* CurrentSupply equal to the sum of the balances when it returns, also    *)
(* after a burn has left it too low (state.go:809-810, state.go:865,       *)
(* state.go:950).                                                          *)
SupplySettles ==
    [][\A c \in Callers :
          ~overlapped /\ call[c].op \in {"transfer", "init"} /\ call'[c] = Idle
              => supply' = TotalBalance']_tokenVars

(* "Check whether it would exceed the total supply" (state.go:836), a cap  *)
(* of "1 Billion SINAR" (state.go:22): calls that do not overlap never     *)
(* leave more than TotalSupply in the accounts.                            *)
SupplyWithinCap ==
    ~overlapped /\ (\A c \in Callers : call[c] = Idle) => TotalBalance <= TotalSupply

=============================================================================
