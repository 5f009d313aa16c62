--------------------------- MODULE SinarTokenProofs ---------------------------
(***************************************************************************)
(* A balance is negative only in an account that has received a negative   *)
(* amount, for any number of callers, addresses, amounts and calls.  Of    *)
(* calls that do not overlap: transfers conserve money at every step, and  *)
(* CurrentSupply is the sum of the balances when a transfer or a           *)
(* distribution returns.                                                   *)
(***************************************************************************)
EXTENDS SinarToken, SumProofs, FiniteSetTheorems, TLAPS

(* Quotients and remainders of the distribution are natural numbers. *)
LEMMA DivisionNat ==
    ASSUME NEW x \in Nat, NEW n \in Nat \ {0}
    PROVE  x \div n \in Nat /\ x % n \in Nat
BY SMT

(* A payment goes to an address and is not negative. *)
LEMMA SlotFacts ==
    ASSUME NEW p \in Slots
    PROVE  Wallet(p) \in Address /\ Part(p) \in Nat
<1>1. PICK g \in DOMAIN Groups : \E i \in DOMAIN Groups[g].wallets : p = <<g, i>>
  BY DEF Slots
<1>2. PICK i \in DOMAIN Groups[g].wallets : p = <<g, i>>
  BY <1>1
<1>3. Groups[g].percent \in Nat /\ Groups[g].wallets \in Seq(Address)
  <2> DEFINE R == [percent : Nat, wallets : Seq(Address)]
  <2>1. Groups \in Seq(R)
    BY GroupsAssumption
  <2>2. Groups[g] \in R
    <3> HIDE DEF R
    <3> QED BY <2>1
  <2> QED BY <2>2
<1> DEFINE n == Len(Groups[g].wallets)
           total == (TotalSupply * Groups[g].percent) \div 100
<1>4. n \in Nat \ {0}
  BY <1>3
<1>5. TotalSupply * Groups[g].percent \in Nat
  BY <1>3, AmountsAssumption
<1>6. total \in Nat
  BY <1>5, DivisionNat
<1>7. total \div n \in Nat /\ total % n \in Nat
  <2> HIDE DEF n, total
  <2> QED BY <1>4, <1>6, DivisionNat
<1>8. Wallet(p) \in Address
  BY <1>2, <1>3 DEF Wallet
<1>9. Part(p) = (total \div n) + (IF i = n THEN total % n ELSE 0)
  BY <1>2 DEF Part
<1> HIDE DEF n, total
<1> QED BY <1>7, <1>8, <1>9

(* More drained accounts leave a call covered. *)
LEMMA CoveredGrows ==
    ASSUME NEW r \in CallType, NEW D, NEW E, Covered(r, D), D \subseteq E
    PROVE  Covered(r, E)
BY DEF Covered, Ahead, CallType

(* A step that gives one caller a covered call, and makes a balance        *)
(* negative only in a drained account, keeps the invariant.                *)
LEMMA OneCall ==
    ASSUME TokenInv, NEW c \in Callers, NEW r \in CallType, Covered(r, drained'),
           call' = [call EXCEPT ![c] = r],
           balance' \in [Address -> Int],
           \A a \in Address : balance'[a] < 0 => a \in drained',
           drained \subseteq drained', drained' \subseteq Address,
           supply' \in Int, calls' \in Nat, overlapped' \in BOOLEAN
    PROVE  TokenInv'
<1>1. call' \in [Callers -> CallType]
  BY DEF TokenInv, TokenTypeOK
<1>2. \A d \in Callers : Covered(call[d], drained')
  BY CoveredGrows DEF TokenInv, TokenTypeOK
<1>3. \A d \in Callers : Covered(call'[d], drained')
  BY <1>2 DEF TokenInv, TokenTypeOK
<1> QED BY <1>1, <1>3 DEF TokenInv, TokenTypeOK, NeverOverdrawn

(* A caller that is doing nothing. *)
LEMMA IdleFacts == Idle \in CallType /\ \A D : Covered(Idle, D)
BY DEF Idle, Call, CallType, Steps, Covered, Ahead

(* A call that goes on to add up the accounts. *)
LEMMA TotallingFacts ==
    ASSUME NEW r \in CallType, NEW next \in Steps \ {"debit", "credit", "sum"}, NEW D,
           r.op = "transfer" => r.to \in Address,
           next = "readTo" => r.to \in Address
    PROVE  Totalling(r, next) \in CallType /\ Covered(Totalling(r, next), D)
<1> DEFINE t == Totalling(r, next)
           r1 == [r EXCEPT !.at = "sum", !.next = next]
           r2 == [r1 EXCEPT !.acc = 0]
<1>1. r1 \in CallType
  BY DEF CallType, Steps
<1>2. r2 \in CallType
  <2> HIDE DEF r1
  <2> QED BY <1>1 DEF CallType
<1>3. t \in CallType
  <2>1. t = [r2 EXCEPT !.left = Address]
    BY DEF Totalling, CallType
  <2> HIDE DEF r2, t
  <2> QED BY <1>2, <2>1 DEF CallType
<1>4. t.op = r.op /\ t.to = r.to /\ Ahead(t) = next
  BY DEF Totalling, Ahead, CallType
<1>5. Covered(t, D)
  <2> HIDE DEF t
  <2> QED BY <1>4 DEF Covered
<1> QED BY <1>3, <1>5

(* SetSINARBalance with a value that is negative in a drained account only. *)
LEMMA SetFacts ==
    ASSUME TokenInv, NEW c \in Callers, NEW r \in CallType, NEW a \in Address,
           NEW v \in Int, NEW next \in Steps \ {"debit", "credit", "sum"},
           r.op = "transfer" => r.to \in Address,
           next = "readTo" => r.to \in Address,
           SetSINARBalance(c, r, a, v, next),
           v < 0 => a \in drained',
           drained \subseteq drained', drained' \subseteq Address,
           UNCHANGED <<calls, overlapped>>
    PROVE  TokenInv'
<1>1. Totalling(r, next) \in CallType /\ Covered(Totalling(r, next), drained')
  BY TotallingFacts
<1>2. /\ call' = [call EXCEPT ![c] = Totalling(r, next)]
      /\ balance' = [balance EXCEPT ![a] = v]
      /\ supply' = supply /\ calls' = calls /\ overlapped' = overlapped
  BY DEF SetSINARBalance
<1>3. /\ balance' \in [Address -> Int]
      /\ \A x \in Address : balance'[x] < 0 => x \in drained'
      /\ supply' \in Int /\ calls' \in Nat /\ overlapped' \in BOOLEAN
  BY <1>2 DEF TokenInv, TokenTypeOK, NeverOverdrawn
<1> QED BY <1>1, <1>2, <1>3, OneCall

(* A call begins. *)
LEMMA BeginFacts ==
    ASSUME TokenInv, NEW c \in Callers, NEW r \in CallType, Covered(r, drained), Begin(c, r)
    PROVE  TokenInv'
<1>1. /\ call' = [call EXCEPT ![c] = r]
      /\ balance' = balance /\ supply' = supply /\ calls' = calls + 1
      /\ overlapped' \in BOOLEAN /\ drained' = drained
  BY DEF Begin, TokenInv, TokenTypeOK
<1>2. /\ balance' \in [Address -> Int]
      /\ \A x \in Address : balance'[x] < 0 => x \in drained'
      /\ supply' \in Int /\ calls' \in Nat
      /\ drained \subseteq drained' /\ drained' \subseteq Address
  BY <1>1 DEF TokenInv, TokenTypeOK, NeverOverdrawn
<1>3. Covered(r, drained')
  BY <1>1
<1> QED BY <1>1, <1>2, <1>3, OneCall

(* The first step of each operation. *)
LEMMA BeginInv ==
    ASSUME TokenInv, NEW c \in Callers,
           \/ \E from, to \in Address, n \in Amounts : TransferSINAR(c, from, to, n)
           \/ \E from \in Address, n \in Amounts : BurnSINAR(c, from, n)
           \/ \E to \in Address, n \in Amounts : MintSINAR(c, to, n)
           \/ InitializeSINARDistribution(c)
    PROVE  TokenInv'
<1>0. balance \in [Address -> Int] /\ supply \in Int /\ Amounts \subseteq Int
  BY AmountsAssumption DEF TokenInv, TokenTypeOK, NeverOverdrawn
<1>1. ASSUME NEW from \in Address, NEW to \in Address, NEW n \in Amounts,
             TransferSINAR(c, from, to, n)
      PROVE  TokenInv'
  <2> DEFINE r == [Call("transfer", "debit", from, to, n) EXCEPT !.saved = balance[from]]
  <2>1. r \in CallType /\ Covered(r, drained)
    BY <1>0, <1>1 DEF TransferSINAR, Call, CallType, Steps, Covered, Ahead
  <2>2. Begin(c, r)
    BY <1>1 DEF TransferSINAR
  <2> HIDE DEF r
  <2> QED BY <2>1, <2>2, BeginFacts
<1>2. ASSUME NEW from \in Address, NEW n \in Amounts, BurnSINAR(c, from, n)
      PROVE  TokenInv'
  <2> DEFINE r == [Call("burn", "debit", from, NoAddress, n) EXCEPT !.saved = balance[from]]
  <2>1. r \in CallType /\ Covered(r, drained)
    BY <1>0, <1>2 DEF BurnSINAR, Call, CallType, Steps, Covered, Ahead
  <2>2. Begin(c, r)
    BY <1>2 DEF BurnSINAR
  <2> HIDE DEF r
  <2> QED BY <2>1, <2>2, BeginFacts
<1>3. ASSUME NEW to \in Address, NEW n \in Amounts, MintSINAR(c, to, n)
      PROVE  TokenInv'
  <2> DEFINE r == [Call("mint", "readTo", NoAddress, to, n) EXCEPT !.target = supply + n]
  <2>1. r \in CallType /\ Covered(r, drained)
    BY <1>0, <1>3 DEF MintSINAR, Call, CallType, Steps, Covered, Ahead
  <2>2. Begin(c, r)
    BY <1>3 DEF MintSINAR
  <2> HIDE DEF r
  <2> QED BY <2>1, <2>2, BeginFacts
<1>4. ASSUME InitializeSINARDistribution(c)
      PROVE  TokenInv'
  <2> DEFINE r == [Call("init", "distribute", NoAddress, NoAddress, 0) EXCEPT !.due = Slots]
  <2>1. r \in CallType /\ Covered(r, drained)
    BY DEF Call, CallType, Steps, Covered, Ahead
  <2>2. Begin(c, r)
    BY <1>4 DEF InitializeSINARDistribution
  <2> HIDE DEF r
  <2> QED BY <2>1, <2>2, BeginFacts
<1> QED BY <1>1, <1>2, <1>3, <1>4

(* A step that leaves the balances alone and gives its caller call r. *)
LEMMA QuietFacts ==
    ASSUME TokenInv, NEW c \in Callers, NEW r \in CallType, Covered(r, drained),
           call' = [call EXCEPT ![c] = r], balance' = balance, supply' \in Int,
           UNCHANGED <<calls, overlapped, drained>>
    PROVE  TokenInv'
<1>1. /\ balance' \in [Address -> Int]
      /\ \A x \in Address : balance'[x] < 0 => x \in drained'
      /\ calls' \in Nat /\ overlapped' \in BOOLEAN
      /\ drained \subseteq drained' /\ drained' \subseteq Address
  BY DEF TokenInv, TokenTypeOK, NeverOverdrawn
<1>2. Covered(r, drained')
  OBVIOUS
<1> QED BY <1>1, <1>2, OneCall

(* Every later step of a call. *)
LEMMA StepInv ==
    ASSUME TokenInv, NEW c \in Callers, CallStep(c)
    PROVE  TokenInv'
<1> DEFINE r == call[c]
<1>0. /\ r \in CallType /\ Covered(r, drained) /\ balance \in [Address -> Int]
      /\ supply \in Int /\ drained \subseteq Address
  BY DEF TokenInv, TokenTypeOK, NeverOverdrawn
<1>1. ASSUME NEW a \in r.left, AddAccount(c, a) PROVE TokenInv'
  <2> DEFINE s == [r EXCEPT !.acc = @ + balance[a], !.left = @ \ {a}]
  <2>1. a \in Address
    BY <1>0, <1>1 DEF CallType
  <2>2. s \in CallType /\ Covered(s, drained)
    <3>1. r.acc + balance[a] \in Int /\ r.left \ {a} \in SUBSET Address
      BY <1>0, <2>1 DEF CallType
    <3>2. s \in CallType
      BY <1>0, <3>1 DEF CallType
    <3>3. Covered(s, drained)
      BY <1>0 DEF CallType, Covered, Ahead
    <3> QED BY <3>2, <3>3
  <2>3. /\ call' = [call EXCEPT ![c] = s]
        /\ balance' = balance /\ supply' \in Int /\ UNCHANGED <<calls, overlapped, drained>>
    BY <1>0, <1>1 DEF AddAccount, At, TokenInv, TokenTypeOK
  <2> HIDE DEF s
  <2> QED BY <2>2, <2>3, QuietFacts
<1>2. ASSUME AssignTotal(c) PROVE TokenInv'
  <2> DEFINE s == IF r.next = "idle" THEN Idle ELSE [r EXCEPT !.at = r.next]
  <2>1. r.at = "sum" /\ UNCHANGED <<calls, overlapped, drained>> /\ supply' = r.acc
    BY <1>2 DEF AssignTotal, At
  <2>2. s \in CallType /\ Covered(s, drained)
    BY <1>0, <2>1, IdleFacts DEF CallType, Steps, Covered, Ahead
  <2>3. call' = [call EXCEPT ![c] = s] /\ balance' = balance /\ supply' \in Int
    BY <1>0, <1>2, <2>1 DEF AssignTotal, Goto, CallType
  <2> HIDE DEF s
  <2> QED BY <2>1, <2>2, <2>3, QuietFacts
<1>3. ASSUME Debit(c) PROVE TokenInv'
  <2>1. r.at = "debit" /\ UNCHANGED <<calls, overlapped, drained>>
    BY <1>3 DEF Debit, At
  <2>2. r.from \in Address /\ r.saved - r.amount \in Int /\ ~(r.saved - r.amount < 0)
    BY <1>0, <2>1 DEF Covered, Ahead, CallType
  <2>3. /\ AfterDebit(r.op) \in Steps \ {"debit", "credit", "sum"}
        /\ r.op = "transfer" => r.to \in Address
        /\ AfterDebit(r.op) = "readTo" => r.to \in Address
    BY <1>0 DEF AfterDebit, Steps, Covered
  <2>4. SetSINARBalance(c, r, r.from, r.saved - r.amount, AfterDebit(r.op))
    BY <1>3 DEF Debit
  <2> HIDE DEF r
  <2> QED BY <1>0, <2>1, <2>2, <2>3, <2>4, SetFacts
<1>4. ASSUME ReadTo(c) PROVE TokenInv'
  <2> DEFINE s == [r EXCEPT !.at = "credit", !.saved = balance[r.to]]
  <2>1. r.at = "readTo" /\ UNCHANGED <<calls, overlapped, drained>>
    BY <1>4 DEF ReadTo, At
  <2>2. r.to \in Address
    BY <1>0, <2>1 DEF Covered, Ahead
  <2>3. s \in CallType /\ Covered(s, drained)
    <3>1. balance[r.to] \in Int /\ (balance[r.to] < 0 => r.to \in drained)
      BY <1>0, <2>2 DEF TokenInv, NeverOverdrawn
    <3>2. s \in CallType
      BY <1>0, <3>1 DEF CallType, Steps
    <3>3. /\ s.op = r.op /\ s.to = r.to /\ s.at = "credit" /\ Ahead(s) = "credit"
          /\ s.saved = balance[r.to]
      BY <1>0 DEF CallType, Ahead
    <3>4. Covered(s, drained)
      <4> HIDE DEF s, r
      <4> QED BY <2>2, <3>1, <3>3 DEF Covered
    <3> QED BY <3>2, <3>4
  <2>4. call' = [call EXCEPT ![c] = s] /\ balance' = balance /\ supply' \in Int
    BY <1>0, <1>4 DEF ReadTo, TokenInv, TokenTypeOK
  <2> HIDE DEF s
  <2> QED BY <2>1, <2>3, <2>4, QuietFacts
<1>5. ASSUME Credit(c) PROVE TokenInv'
  <2> DEFINE next == IF r.op = "transfer" THEN "idle" ELSE "settle"
  <2>1. /\ r.at = "credit" /\ UNCHANGED <<calls, overlapped>>
        /\ drained' = IF r.amount < 0 THEN drained \cup {r.to} ELSE drained
    BY <1>5 DEF Credit, At
  <2>2. /\ r.to \in Address /\ r.saved + r.amount \in Int
        /\ r.saved + r.amount < 0 => r.to \in drained'
        /\ drained \subseteq drained' /\ drained' \subseteq Address
    <3>1. /\ r.to \in Address /\ r.saved \in Int /\ r.amount \in Int
          /\ r.saved < 0 => r.to \in drained
      BY <1>0, <2>1 DEF Covered, Ahead, CallType
    <3> HIDE DEF r
    <3> QED BY <1>0, <2>1, <3>1
  <2>3. /\ next \in Steps \ {"debit", "credit", "sum"}
        /\ next # "readTo"
    BY DEF Steps
  <2>4. SetSINARBalance(c, r, r.to, r.saved + r.amount, next)
    BY <1>5 DEF Credit
  <2> HIDE DEF r, next
  <2> QED BY <1>0, <2>1, <2>2, <2>3, <2>4, SetFacts
<1>6. ASSUME ReadSupply(c) PROVE TokenInv'
  <2> DEFINE s == [r EXCEPT !.at = "settle", !.target = supply - r.amount]
  <2>1. r.at = "readSupply" /\ UNCHANGED <<calls, overlapped, drained>>
    BY <1>6 DEF ReadSupply, At
  <2>2. s \in CallType /\ Covered(s, drained)
    <3>1. supply - r.amount \in Int
      BY <1>0 DEF CallType
    <3>2. s \in CallType
      BY <1>0, <3>1 DEF CallType, Steps
    <3>3. Covered(s, drained)
      BY <1>0 DEF CallType, Covered, Ahead
    <3> QED BY <3>2, <3>3
  <2>3. call' = [call EXCEPT ![c] = s] /\ balance' = balance /\ supply' \in Int
    BY <1>0, <1>6 DEF ReadSupply, TokenInv, TokenTypeOK
  <2> HIDE DEF s
  <2> QED BY <2>1, <2>2, <2>3, QuietFacts
<1>7. ASSUME Settle(c) PROVE TokenInv'
  <2>1. UNCHANGED <<calls, overlapped, drained>> /\ balance' = balance /\ supply' \in Int
    BY <1>0, <1>7 DEF Settle, At, CallType
  <2>2. call' = [call EXCEPT ![c] = Idle]
    BY <1>7 DEF Settle, Goto
  <2> QED BY <2>1, <2>2, IdleFacts, QuietFacts
<1>8. ASSUME NEW p \in r.due, Distribute(c, p) PROVE TokenInv'
  <2> DEFINE s == [r EXCEPT !.due = @ \ {p}]
  <2>1. UNCHANGED <<calls, overlapped, drained>>
    BY <1>8 DEF Distribute, At
  <2>2. p \in Slots
    BY <1>0, <1>8 DEF CallType
  <2>3. s \in CallType /\ (s.op = "transfer" => s.to \in Address)
    BY <1>0 DEF CallType, Covered
  <2>4. Wallet(p) \in Address /\ Part(p) \in Int /\ ~(Part(p) < 0)
    BY <2>2, SlotFacts
  <2>7. drained \subseteq drained' /\ drained' \subseteq Address
    BY <1>0, <2>1
  <2>5. SetSINARBalance(c, s, Wallet(p), Part(p), "distribute")
    BY <1>8 DEF Distribute
  <2>6. "distribute" \in Steps \ {"debit", "credit", "sum"}
    BY DEF Steps
  <2> HIDE DEF s
  <2> QED BY <2>1, <2>3, <2>4, <2>5, <2>6, <2>7, SetFacts
<1>9. ASSUME Total(c) PROVE TokenInv'
  <2>1. UNCHANGED <<calls, overlapped, drained>> /\ balance' = balance /\ supply' \in Int
    BY <1>0, <1>9 DEF Total, At
  <2>2. call' = [call EXCEPT ![c] = Totalling(r, "idle")]
    BY <1>9 DEF Total
  <2>3. "idle" \in Steps \ {"debit", "credit", "sum"} /\ (r.op = "transfer" => r.to \in Address)
    BY <1>0 DEF Steps, Covered
  <2>4. Totalling(r, "idle") \in CallType /\ Covered(Totalling(r, "idle"), drained)
    <3> HIDE DEF r
    <3> QED BY <1>0, <2>3, TotallingFacts
  <2> HIDE DEF r
  <2> QED BY <2>1, <2>2, <2>4, QuietFacts
<1> QED BY <1>1, <1>2, <1>3, <1>4, <1>5, <1>6, <1>7, <1>8, <1>9 DEF CallStep

(* The inductive invariant holds for every number of callers and calls,    *)
(* whatever the interleaving (state.go:805-868).                           *)
THEOREM TokenInvariant == TokenSpec => []TokenInv
<1>1. TokenInit => TokenInv
  <2> SUFFICES ASSUME TokenInit PROVE TokenInv
    OBVIOUS
  <2>1. call \in [Callers -> CallType] /\ \A c \in Callers : Covered(call[c], drained)
    BY IdleFacts DEF TokenInit
  <2>2. /\ balance \in [Address -> Int] /\ drained \subseteq Address
        /\ \A a \in Address : balance[a] < 0 => a \in drained
    BY DEF TokenInit
  <2>3. supply \in Int /\ calls \in Nat
    BY DEF TokenInit
  <2>4. overlapped \in BOOLEAN
    BY DEF TokenInit
  <2> QED BY <2>1, <2>2, <2>3, <2>4 DEF TokenInv, TokenTypeOK, NeverOverdrawn
<1>2. TokenInv /\ [TokenNext]_tokenVars => TokenInv'
  <2> SUFFICES ASSUME TokenInv, [TokenNext]_tokenVars PROVE TokenInv'
    OBVIOUS
  <2>1. CASE TokenNext
    BY <2>1, BeginInv, StepInv DEF TokenNext
  <2>2. CASE UNCHANGED tokenVars
    BY <2>2 DEF tokenVars, TokenInv, TokenTypeOK, NeverOverdrawn, Covered, Ahead
  <2> QED BY <2>1, <2>2
<1> QED BY <1>1, <1>2, PTL DEF TokenSpec

(* A balance is below zero only in an account that has received a negative *)
(* amount: transfers and burns subtract from the value they have tested    *)
(* (state.go:816-822, state.go:856-862), and a credit adds to what it has  *)
(* read without a test of the sign (state.go:825-826).                     *)
THEOREM NoOverdraft == TokenSpec => []NeverOverdrawn
<1>1. TokenInv => NeverOverdrawn
  BY DEF TokenInv
<1> QED BY <1>1, TokenInvariant, PTL

-----------------------------------------------------------------------------
(* Calls that do not overlap.                                              *)

(* The steps that an operation goes through. *)
WellPlaced(r) ==
    \/ r = Idle
    \/ /\ r.op = "transfer"
       /\ r.at \in {"debit", "readTo", "credit"} \/ (r.at = "sum" /\ r.next \in {"readTo", "idle"})
    \/ /\ r.op = "burn"
       /\ r.at \in {"debit", "readSupply", "settle"} \/ (r.at = "sum" /\ r.next = "readSupply")
    \/ /\ r.op = "mint"
       /\ r.at \in {"readTo", "credit", "settle"} \/ (r.at = "sum" /\ r.next = "settle")
    \/ /\ r.op = "init"
       /\ r.at = "distribute" \/ (r.at = "sum" /\ r.next \in {"distribute", "idle"})

(* What call r has read of the balances b is what they are. *)
Fresh(r, b) ==
    /\ r.at = "debit" => r.saved = b[r.from]
    /\ r.at = "credit" => r.saved = b[r.to]
    /\ r.at = "sum" => r.acc = SumFunctionOnSet(b, Address \ r.left)

(* The inductive invariant of calls that do not overlap: one call at a     *)
(* time is in progress, and what it has read still holds.                  *)
SerialInv ==
    /\ \A c \in Callers : WellPlaced(call[c])
    /\ ~overlapped => /\ \A c, d \in Callers : call[c] # Idle /\ call[d] # Idle => c = d
                      /\ \A c \in Callers : Fresh(call[c], balance)

-----------------------------------------------------------------------------
(* The sums that the properties speak of. *)
TotalOf(b) == SumFunctionOnSet(b, Address)
TakenBy(r) ==
    IF /\ r.op = "transfer"
       /\ r.at \in {"readTo", "credit"} \/ (r.at = "sum" /\ r.next = "readTo")
    THEN r.amount ELSE 0
TakenIn(f) == [c \in Callers |-> TakenBy(f[c])]

(* One balance replaced. *)
LEMMA SetTotal ==
    ASSUME NEW b \in [Address -> Int], NEW a \in Address, NEW v \in Int
    PROVE  TotalOf([b EXCEPT ![a] = v]) = TotalOf(b) + v - b[a] /\ TotalOf(b) \in Int
<1> DEFINE g == [b EXCEPT ![a] = v]
<1>1. /\ \A x \in Address : b[x] \in Int
      /\ g[a] = v /\ \A x \in Address : x # a => g[x] = b[x]
  OBVIOUS
<1> HIDE DEF g
<1>2. IsFiniteSet(Address)
  BY AddressAssumption
<1>3. g[a] \in Int
  BY <1>1
<1>4. SumFunctionOnSet(g, Address) = SumFunctionOnSet(b, Address) + g[a] - b[a]
  BY <1>1, <1>2, <1>3, SumChange
<1>5. SumFunctionOnSet(b, Address) \in Int
  BY <1>1, <1>2, SumType
<1> QED BY <1>1, <1>4, <1>5 DEF TotalOf, g

(* One account more in the running total. *)
LEMMA AddOne ==
    ASSUME NEW b \in [Address -> Int], NEW L \in SUBSET Address, NEW a \in L
    PROVE  /\ SumFunctionOnSet(b, Address \ (L \ {a}))
                  = SumFunctionOnSet(b, Address \ L) + b[a]
           /\ SumFunctionOnSet(b, Address \ L) \in Int
<1> DEFINE S == Address \ L
<1>1. IsFiniteSet(S) /\ a \notin S /\ Address \ (L \ {a}) = S \cup {a}
  BY AddressAssumption, FS_Subset
<1>2. \A x \in S \cup {a} : b[x] \in Int
  OBVIOUS
<1> HIDE DEF S
<1>3. SumFunctionOnSet(b, S \cup {a}) = b[a] + SumFunctionOnSet(b, S)
  BY <1>1, <1>2, SumAdd
<1>4. SumFunctionOnSet(b, S) \in Int
  BY <1>1, <1>2, SumType
<1>5. b[a] \in Int
  BY <1>2
<1>6. SumFunctionOnSet(b, S \cup {a}) = SumFunctionOnSet(b, S) + b[a]
  BY <1>3, <1>4, <1>5
<1> QED BY <1>1, <1>4, <1>6 DEF S

-----------------------------------------------------------------------------
(* A step of the call r = call[c] that leaves it as s: what it does to the *)
(* invariant, to the money of a transfer, and to the supply when it ends.  *)
StepGoal(r, s) ==
    /\ WellPlaced(s)
    /\ ~overlapped => Fresh(s, balance')
    /\ ~overlapped /\ s.op \in {"none", "transfer"} =>
          TotalOf(balance') + TakenBy(s) = TotalOf(balance) + TakenBy(r)
    /\ ~overlapped /\ r.op \in {"transfer", "init"} /\ s = Idle =>
          supply' = TotalOf(balance')

LEMMA IdleIs == /\ Idle.op = "none" /\ Idle.at = "idle" /\ TakenBy(Idle) = 0
                /\ WellPlaced(Idle) /\ \A b : Fresh(Idle, b)
BY DEF Idle, Call, TakenBy, WellPlaced, Fresh

LEMMA TotallingIs ==
    ASSUME NEW q \in CallType, NEW next \in Steps
    PROVE  LET s == Totalling(q, next) IN
           /\ s.op = q.op /\ s.at = "sum" /\ s.next = next
           /\ s.amount = q.amount /\ s.acc = 0 /\ s.left = Address
BY DEF Totalling, CallType

(* A call that begins to add up the accounts has added none. *)
LEMMA TotallingFresh ==
    ASSUME NEW q \in CallType, NEW next \in Steps, NEW b
    PROVE  Fresh(Totalling(q, next), b)
<1> DEFINE s == Totalling(q, next)
<1>1. s.at = "sum" /\ s.acc = 0 /\ s.left = Address
  BY TotallingIs
<1>2. Address \ Address = {}
  OBVIOUS
<1>3. SumFunctionOnSet(b, Address \ Address) = 0
  BY <1>2, SumEmpty
<1> HIDE DEF s
<1> QED BY <1>1, <1>3 DEF Fresh, s

LEMMA StepFacts ==
    ASSUME TokenInv, SerialInv, NEW c \in Callers, CallStep(c)
    PROVE  \E s : call' = [call EXCEPT ![c] = s] /\ StepGoal(call[c], s)
<1> DEFINE r == call[c]
<1>0. /\ r \in CallType /\ Covered(r, drained) /\ WellPlaced(r)
      /\ balance \in [Address -> Int]
      /\ ~overlapped => Fresh(r, balance)
  BY DEF TokenInv, TokenTypeOK, SerialInv
<1>t. TotalOf(balance) \in Int /\ TakenBy(r) \in Int
  <2>1. IsFiniteSet(Address) /\ \A x \in Address : balance[x] \in Int
    BY <1>0, AddressAssumption
  <2>2. TotalOf(balance) \in Int
    BY <2>1, SumType DEF TotalOf
  <2>3. TakenBy(r) \in Int
    BY <1>0 DEF TakenBy, CallType
  <2> QED BY <2>2, <2>3
<1>1. ASSUME NEW a \in r.left, AddAccount(c, a)
      PROVE  \E s : call' = [call EXCEPT ![c] = s] /\ StepGoal(r, s)
  <2> DEFINE s == [r EXCEPT !.acc = @ + balance[a], !.left = @ \ {a}]
  <2>1. call' = [call EXCEPT ![c] = s] /\ balance' = balance /\ r.at = "sum"
    BY <1>0, <1>1 DEF AddAccount, At, TokenInv, TokenTypeOK
  <2>2. /\ s.op = r.op /\ s.at = r.at /\ s.next = r.next /\ s.amount = r.amount
        /\ s.acc = r.acc + balance[a] /\ s.left = r.left \ {a} /\ r.left \in SUBSET Address
    BY <1>0 DEF CallType
  <2>3. s # Idle /\ r # Idle
    BY <2>1, <2>2, IdleIs
  <2> HIDE DEF s, r
  <2>4. WellPlaced(s) /\ TakenBy(s) = TakenBy(r)
    BY <1>0, <2>2, <2>3 DEF WellPlaced, TakenBy
  <2>5. ~overlapped => Fresh(s, balance)
    <3>1. /\ SumFunctionOnSet(balance, Address \ s.left)
                = SumFunctionOnSet(balance, Address \ r.left) + balance[a]
          /\ SumFunctionOnSet(balance, Address \ r.left) \in Int
      BY <1>0, <1>1, <2>2, AddOne
    <3> QED BY <1>0, <2>1, <2>2, <3>1 DEF Fresh
  <2>6. StepGoal(r, s)
    BY <2>1, <2>3, <2>4, <2>5 DEF StepGoal
  <2> QED BY <2>1, <2>6
<1>2. ASSUME AssignTotal(c)
      PROVE  \E s : call' = [call EXCEPT ![c] = s] /\ StepGoal(r, s)
  <2> DEFINE s == IF r.next = "idle" THEN Idle ELSE [r EXCEPT !.at = r.next]
  <2>1. /\ call' = [call EXCEPT ![c] = s] /\ balance' = balance
        /\ r.at = "sum" /\ r.left = {} /\ supply' = r.acc
    BY <1>2 DEF AssignTotal, At, Goto
  <2>2. r # Idle
    BY <2>1, IdleIs
  <2>3. ~overlapped => supply' = TotalOf(balance)
    <3>1. Address \ r.left = Address
      BY <2>1
    <3> HIDE DEF r
    <3> QED BY <1>0, <2>1, <3>1 DEF Fresh, TotalOf
  <2>4. CASE r.next = "idle"
    <3>1. s = Idle
      BY <2>4
    <3>2. TakenBy(r) = 0
      BY <2>1, <2>4 DEF TakenBy
    <3> HIDE DEF s, r
    <3>3. StepGoal(r, s)
      BY <2>1, <2>3, <3>1, <3>2, IdleIs DEF StepGoal
    <3> QED BY <2>1, <3>3
  <2>5. CASE r.next # "idle"
    <3>1. s.op = r.op /\ s.at = r.next /\ s.next = r.next /\ s.amount = r.amount
      BY <1>0, <2>5 DEF CallType
    <3>2. s # Idle
      BY <2>5, <3>1, IdleIs
    <3> HIDE DEF s, r
    <3>3. WellPlaced(s)
      BY <1>0, <2>1, <2>2, <2>5, <3>1 DEF WellPlaced
    <3>4. TakenBy(s) = TakenBy(r)
      BY <1>0, <2>1, <2>2, <2>5, <3>1 DEF WellPlaced, TakenBy
    <3>5. Fresh(s, balance)
      BY <1>0, <2>1, <2>2, <2>5, <3>1 DEF WellPlaced, Fresh
    <3>6. StepGoal(r, s)
      BY <2>1, <3>2, <3>3, <3>4, <3>5 DEF StepGoal
    <3> QED BY <2>1, <3>6
  <2> QED BY <2>4, <2>5
<1>3. ASSUME Debit(c)
      PROVE  \E s : call' = [call EXCEPT ![c] = s] /\ StepGoal(r, s)
  <2> DEFINE next == AfterDebit(r.op)
             s == Totalling(r, next)
  <2>1. /\ call' = [call EXCEPT ![c] = s] /\ r.at = "debit"
        /\ balance' = [balance EXCEPT ![r.from] = r.saved - r.amount]
    BY <1>3 DEF Debit, At, SetSINARBalance
  <2>2. next \in Steps
    BY DEF AfterDebit, Steps
  <2>3. r.from \in Address /\ r.saved \in Int /\ r.amount \in Int
    BY <1>0, <2>1 DEF Covered, Ahead, CallType
  <2>4. r.op \in {"transfer", "burn"}
    BY <1>0, <2>1, IdleIs DEF WellPlaced
  <2>5. s.op = r.op /\ s.at = "sum" /\ s.next = next /\ s.amount = r.amount
    BY <1>0, <2>2, TotallingIs
  <2>6. Fresh(s, balance')
    <3> HIDE DEF next, r
    <3> QED BY <1>0, <2>2, TotallingFresh
  <2>7. next = IF r.op = "transfer" THEN "readTo" ELSE "readSupply"
    BY DEF AfterDebit
  <2> HIDE DEF s, next, r
  <2>8. s # Idle /\ WellPlaced(s)
    BY <2>4, <2>5, <2>7, IdleIs DEF WellPlaced
  <2>9. TotalOf(balance') = TotalOf(balance) + (r.saved - r.amount) - balance[r.from]
    <3> DEFINE v == r.saved - r.amount
               a == r.from
    <3>1. a \in Address /\ v \in Int /\ balance' = [balance EXCEPT ![a] = v]
      BY <2>1, <2>3
    <3>2. balance \in [Address -> Int]
      BY <1>0
    <3> HIDE DEF v, a
    <3>3. TotalOf([balance EXCEPT ![a] = v]) = TotalOf(balance) + v - balance[a]
      BY <3>1, <3>2, SetTotal
    <3>4. TotalOf(balance') = TotalOf(balance) + v - balance[a]
      BY <3>1, <3>3, Zenon
    <3> QED BY <3>4 DEF v, a
  <2>10. ~overlapped => r.saved = balance[r.from]
    BY <1>0, <2>1 DEF Fresh
  <2>11. TakenBy(r) = 0 /\ (s.op = "transfer" => TakenBy(s) = r.amount)
    BY <2>1, <2>5, <2>7 DEF TakenBy
  <2>12. s.op # "none"
    BY <2>4, <2>5
  <2>13. ~overlapped /\ s.op \in {"none", "transfer"} =>
           TotalOf(balance') + TakenBy(s) = TotalOf(balance) + TakenBy(r)
    BY <1>t, <2>3, <2>9, <2>10, <2>11, <2>12
  <2>14. StepGoal(r, s)
    BY <2>6, <2>8, <2>13 DEF StepGoal
  <2> QED BY <2>1, <2>14
<1>4. ASSUME ReadTo(c)
      PROVE  \E s : call' = [call EXCEPT ![c] = s] /\ StepGoal(r, s)
  <2> DEFINE s == [r EXCEPT !.at = "credit", !.saved = balance[r.to]]
  <2>1. call' = [call EXCEPT ![c] = s] /\ balance' = balance /\ r.at = "readTo"
    BY <1>0, <1>4 DEF ReadTo, At, TokenInv, TokenTypeOK
  <2>2. /\ s.op = r.op /\ s.at = "credit" /\ s.to = r.to /\ s.amount = r.amount
        /\ s.saved = balance[s.to]
    BY <1>0 DEF CallType
  <2>3. s # Idle /\ r # Idle
    BY <2>1, <2>2, IdleIs
  <2> HIDE DEF s, r
  <2>4. WellPlaced(s) /\ TakenBy(s) = TakenBy(r)
    BY <1>0, <2>1, <2>2, <2>3 DEF WellPlaced, TakenBy
  <2>5. Fresh(s, balance)
    BY <2>2 DEF Fresh
  <2>6. StepGoal(r, s)
    BY <2>1, <2>3, <2>4, <2>5 DEF StepGoal
  <2> QED BY <2>1, <2>6
<1>5. ASSUME Credit(c)
      PROVE  \E s : call' = [call EXCEPT ![c] = s] /\ StepGoal(r, s)
  <2> DEFINE next == IF r.op = "transfer" THEN "idle" ELSE "settle"
             s == Totalling(r, next)
  <2>1. /\ call' = [call EXCEPT ![c] = s] /\ r.at = "credit"
        /\ balance' = [balance EXCEPT ![r.to] = r.saved + r.amount]
    BY <1>5 DEF Credit, At, SetSINARBalance
  <2>2. next \in Steps
    BY DEF Steps
  <2>3. r.to \in Address /\ r.saved \in Int /\ r.amount \in Int
    BY <1>0, <2>1 DEF Covered, Ahead, CallType
  <2>4. r.op \in {"transfer", "mint"}
    BY <1>0, <2>1, IdleIs DEF WellPlaced
  <2>5. s.op = r.op /\ s.at = "sum" /\ s.next = next /\ s.amount = r.amount
    BY <1>0, <2>2, TotallingIs
  <2>6. Fresh(s, balance')
    <3> HIDE DEF next, r
    <3> QED BY <1>0, <2>2, TotallingFresh
  <2>7. next = IF r.op = "transfer" THEN "idle" ELSE "settle"
    OBVIOUS
  <2> HIDE DEF s, next, r
  <2>8. s # Idle /\ WellPlaced(s)
    BY <2>4, <2>5, <2>7, IdleIs DEF WellPlaced
  <2>9. TotalOf(balance') = TotalOf(balance) + (r.saved + r.amount) - balance[r.to]
    <3> DEFINE v == r.saved + r.amount
               a == r.to
    <3>1. a \in Address /\ v \in Int /\ balance' = [balance EXCEPT ![a] = v]
      BY <2>1, <2>3
    <3>2. balance \in [Address -> Int]
      BY <1>0
    <3> HIDE DEF v, a
    <3>3. TotalOf([balance EXCEPT ![a] = v]) = TotalOf(balance) + v - balance[a]
      BY <3>1, <3>2, SetTotal
    <3>4. TotalOf(balance') = TotalOf(balance) + v - balance[a]
      BY <3>1, <3>3, Zenon
    <3> QED BY <3>4 DEF v, a
  <2>10. ~overlapped => r.saved = balance[r.to]
    BY <1>0, <2>1 DEF Fresh
  <2>11. TakenBy(s) = 0 /\ (s.op = "transfer" => TakenBy(r) = r.amount)
    BY <2>1, <2>5, <2>7 DEF TakenBy
  <2>12. s.op # "none"
    BY <2>4, <2>5
  <2>13. ~overlapped /\ s.op \in {"none", "transfer"} =>
           TotalOf(balance') + TakenBy(s) = TotalOf(balance) + TakenBy(r)
    BY <1>t, <2>3, <2>9, <2>10, <2>11, <2>12
  <2>14. StepGoal(r, s)
    BY <2>6, <2>8, <2>13 DEF StepGoal
  <2> QED BY <2>1, <2>14
<1>6. ASSUME ReadSupply(c)
      PROVE  \E s : call' = [call EXCEPT ![c] = s] /\ StepGoal(r, s)
  <2> DEFINE s == [r EXCEPT !.at = "settle", !.target = supply - r.amount]
  <2>1. call' = [call EXCEPT ![c] = s] /\ balance' = balance /\ r.at = "readSupply"
    BY <1>0, <1>6 DEF ReadSupply, At, TokenInv, TokenTypeOK
  <2>2. s.op = r.op /\ s.at = "settle"
    BY <1>0 DEF CallType
  <2>3. s # Idle /\ r # Idle
    BY <2>1, <2>2, IdleIs
  <2> HIDE DEF s, r
  <2>4. WellPlaced(s) /\ TakenBy(s) = 0 /\ TakenBy(r) = 0 /\ Fresh(s, balance)
    BY <1>0, <2>1, <2>2, <2>3 DEF WellPlaced, TakenBy, Fresh
  <2>5. StepGoal(r, s)
    BY <2>1, <2>3, <2>4 DEF StepGoal
  <2> QED BY <2>1, <2>5
<1>7. ASSUME Settle(c)
      PROVE  \E s : call' = [call EXCEPT ![c] = s] /\ StepGoal(r, s)
  <2>1. call' = [call EXCEPT ![c] = Idle] /\ balance' = balance /\ r.at = "settle"
    BY <1>7 DEF Settle, At, Goto
  <2>2. r.op \notin {"transfer", "init"}
    BY <1>0, <2>1, IdleIs DEF WellPlaced
  <2> HIDE DEF r
  <2>3. TakenBy(r) = 0
    BY <2>1 DEF TakenBy
  <2>4. StepGoal(r, Idle)
    BY <2>1, <2>2, <2>3, IdleIs DEF StepGoal
  <2> QED BY <2>1, <2>4
<1>8. ASSUME NEW p \in r.due, Distribute(c, p)
      PROVE  \E s : call' = [call EXCEPT ![c] = s] /\ StepGoal(r, s)
  <2> DEFINE q == [r EXCEPT !.due = @ \ {p}]
             s == Totalling(q, "distribute")
  <2>1. call' = [call EXCEPT ![c] = s] /\ r.at = "distribute"
    BY <1>8 DEF Distribute, At, SetSINARBalance
  <2>2. q \in CallType /\ q.op = r.op /\ "distribute" \in Steps
    BY <1>0 DEF CallType, Steps
  <2>3. r.op = "init"
    BY <1>0, <2>1, IdleIs DEF WellPlaced
  <2> HIDE DEF q, r
  <2>4. s.op = "init" /\ s.at = "sum" /\ s.next = "distribute" /\ Fresh(s, balance')
    BY <2>2, <2>3, TotallingIs, TotallingFresh
  <2> HIDE DEF s
  <2>5. s # Idle /\ WellPlaced(s)
    BY <2>4, IdleIs DEF WellPlaced
  <2>6. StepGoal(r, s)
    BY <2>4, <2>5 DEF StepGoal
  <2> QED BY <2>1, <2>6
<1>9. ASSUME Total(c)
      PROVE  \E s : call' = [call EXCEPT ![c] = s] /\ StepGoal(r, s)
  <2> DEFINE s == Totalling(r, "idle")
  <2>1. call' = [call EXCEPT ![c] = s] /\ r.at = "distribute"
    BY <1>9 DEF Total, At
  <2>2. r.op = "init" /\ "idle" \in Steps
    BY <1>0, <2>1, IdleIs DEF WellPlaced, Steps
  <2> HIDE DEF r
  <2>4. s.op = "init" /\ s.at = "sum" /\ s.next = "idle" /\ Fresh(s, balance')
    BY <1>0, <2>2, TotallingIs, TotallingFresh
  <2> HIDE DEF s
  <2>5. s # Idle /\ WellPlaced(s)
    BY <2>4, IdleIs DEF WellPlaced
  <2>6. StepGoal(r, s)
    BY <2>4, <2>5 DEF StepGoal
  <2> QED BY <2>1, <2>6
<1> QED BY <1>1, <1>2, <1>3, <1>4, <1>5, <1>6, <1>7, <1>8, <1>9 DEF CallStep

(* The first step of a call has read the balances as they are, and has     *)
(* taken nothing.                                                          *)
FirstStep(c) ==
    \/ \E from, to \in Address, n \in Amounts : TransferSINAR(c, from, to, n)
    \/ \E from \in Address, n \in Amounts : BurnSINAR(c, from, n)
    \/ \E to \in Address, n \in Amounts : MintSINAR(c, to, n)
    \/ InitializeSINARDistribution(c)

LEMMA FirstFacts ==
    ASSUME NEW c \in Callers, FirstStep(c)
    PROVE  \E r : Begin(c, r) /\ WellPlaced(r) /\ Fresh(r, balance) /\ TakenBy(r) = 0
<1>1. ASSUME NEW from \in Address, NEW to \in Address, NEW n \in Amounts,
             TransferSINAR(c, from, to, n)
      PROVE  \E r : Begin(c, r) /\ WellPlaced(r) /\ Fresh(r, balance) /\ TakenBy(r) = 0
  <2> DEFINE r == [Call("transfer", "debit", from, to, n) EXCEPT !.saved = balance[from]]
  <2>1. r.op = "transfer" /\ r.at = "debit" /\ r.saved = balance[r.from]
    BY DEF Call
  <2>2. Begin(c, r)
    BY <1>1 DEF TransferSINAR
  <2> HIDE DEF r
  <2> QED BY <2>1, <2>2 DEF WellPlaced, Fresh, TakenBy
<1>2. ASSUME NEW from \in Address, NEW n \in Amounts, BurnSINAR(c, from, n)
      PROVE  \E r : Begin(c, r) /\ WellPlaced(r) /\ Fresh(r, balance) /\ TakenBy(r) = 0
  <2> DEFINE r == [Call("burn", "debit", from, NoAddress, n) EXCEPT !.saved = balance[from]]
  <2>1. r.op = "burn" /\ r.at = "debit" /\ r.saved = balance[r.from]
    BY DEF Call
  <2>2. Begin(c, r)
    BY <1>2 DEF BurnSINAR
  <2> HIDE DEF r
  <2> QED BY <2>1, <2>2 DEF WellPlaced, Fresh, TakenBy
<1>3. ASSUME NEW to \in Address, NEW n \in Amounts, MintSINAR(c, to, n)
      PROVE  \E r : Begin(c, r) /\ WellPlaced(r) /\ Fresh(r, balance) /\ TakenBy(r) = 0
  <2> DEFINE r == [Call("mint", "readTo", NoAddress, to, n) EXCEPT !.target = supply + n]
  <2>1. r.op = "mint" /\ r.at = "readTo"
    BY DEF Call
  <2>2. Begin(c, r)
    BY <1>3 DEF MintSINAR
  <2> HIDE DEF r
  <2> QED BY <2>1, <2>2 DEF WellPlaced, Fresh, TakenBy
<1>4. ASSUME InitializeSINARDistribution(c)
      PROVE  \E r : Begin(c, r) /\ WellPlaced(r) /\ Fresh(r, balance) /\ TakenBy(r) = 0
  <2> DEFINE r == [Call("init", "distribute", NoAddress, NoAddress, 0) EXCEPT !.due = Slots]
  <2>1. r.op = "init" /\ r.at = "distribute"
    BY DEF Call
  <2>2. Begin(c, r)
    BY <1>4 DEF InitializeSINARDistribution
  <2> HIDE DEF r
  <2> QED BY <2>1, <2>2 DEF WellPlaced, Fresh, TakenBy
<1> QED BY <1>1, <1>2, <1>3, <1>4 DEF FirstStep

(* A step gives one caller a call; without overlap the others are idle.    *)
LEMMA SerialStep ==
    ASSUME TokenInv, SerialInv, NEW c \in Callers, NEW s,
           call' = [call EXCEPT ![c] = s], WellPlaced(s),
           ~overlapped' => /\ ~overlapped /\ Fresh(s, balance')
                           /\ \A d \in Callers : d # c => call[d] = Idle
    PROVE  SerialInv'
<1>1. call' \in [Callers -> {call[d] : d \in Callers} \cup {s}] /\ call'[c] = s
      /\ \A d \in Callers : d # c => call'[d] = call[d]
  BY DEF TokenInv, TokenTypeOK
<1>2. \A d \in Callers : WellPlaced(call'[d])
  BY <1>1 DEF SerialInv
<1>3. ASSUME ~overlapped'
      PROVE  /\ \A x, d \in Callers : call'[x] # Idle /\ call'[d] # Idle => x = d
             /\ \A d \in Callers : Fresh(call'[d], balance')
  BY <1>1, <1>3, IdleIs
<1> QED BY <1>2, <1>3 DEF SerialInv, WellPlaced, Fresh

LEMMA OthersIdle ==
    ASSUME SerialInv, ~overlapped, NEW c \in Callers, call[c] # Idle
    PROVE  \A d \in Callers : d # c => call[d] = Idle
BY DEF SerialInv

(* A caller that takes a later step of a call is not idle. *)
LEMMA StepNotIdle ==
    ASSUME NEW c \in Callers, CallStep(c)
    PROVE  call[c].at # "idle" /\ call[c] # Idle /\ overlapped' = overlapped
<1>1. call[c].at # "idle" /\ overlapped' = overlapped
  BY DEF CallStep, AddAccount, AssignTotal, Debit, ReadTo, Credit, ReadSupply, Settle,
         Distribute, Total, At
<1> QED BY <1>1, IdleIs

(* The inductive invariant holds for any number of callers and calls: as   *)
(* long as no two calls have overlapped, what a call has read is what the  *)
(* accounts hold (state.go:805-868, state.go:940-952).                     *)
THEOREM SerialInvariant == TokenSpec => []SerialInv
<1>1. TokenInit => SerialInv
  <2> SUFFICES ASSUME TokenInit PROVE SerialInv
    OBVIOUS
  <2>1. \A c \in Callers : call[c] = Idle
    BY DEF TokenInit
  <2> QED BY <2>1, IdleIs DEF SerialInv
<1>2. TokenInv /\ SerialInv /\ [TokenNext]_tokenVars => SerialInv'
  <2> SUFFICES ASSUME TokenInv, SerialInv, [TokenNext]_tokenVars PROVE SerialInv'
    OBVIOUS
  <2>1. ASSUME NEW c \in Callers, FirstStep(c) PROVE SerialInv'
    <3>1. PICK r : Begin(c, r) /\ WellPlaced(r) /\ Fresh(r, balance)
      BY <2>1, FirstFacts
    <3>2. /\ call' = [call EXCEPT ![c] = r] /\ balance' = balance
          /\ ~overlapped' => ~overlapped /\ \A d \in Callers : call[d] = Idle
      BY <3>1 DEF Begin
    <3> QED BY <3>1, <3>2, SerialStep
  <2>2. ASSUME NEW c \in Callers, CallStep(c) PROVE SerialInv'
    <3>1. PICK s : call' = [call EXCEPT ![c] = s] /\ StepGoal(call[c], s)
      BY <2>2, StepFacts
    <3>2. call[c] # Idle /\ overlapped' = overlapped
      BY <2>2, StepNotIdle
    <3>3. WellPlaced(s) /\ (~overlapped => Fresh(s, balance'))
      BY <3>1 DEF StepGoal
    <3>4. ~overlapped => \A d \in Callers : d # c => call[d] = Idle
      BY <3>2, OthersIdle
    <3> QED BY <3>1, <3>2, <3>3, <3>4, SerialStep
  <2>3. CASE UNCHANGED tokenVars
    BY <2>3 DEF tokenVars, SerialInv, WellPlaced, Fresh
  <2> QED BY <2>1, <2>2, <2>3 DEF TokenNext, FirstStep
<1> QED BY <1>1, <1>2, TokenInvariant, PTL DEF TokenSpec

(* Money in the accounts and on its way changes by what one call does. *)
LEMMA CarriedChange ==
    ASSUME TokenInv, TokenInv', NEW c \in Callers, NEW s, call' = [call EXCEPT ![c] = s],
           TotalOf(balance') + TakenBy(s) = TotalOf(balance) + TakenBy(call[c])
    PROVE  (TotalBalance + SumFunction(InFlight))' = TotalBalance + SumFunction(InFlight)
<1> DEFINE f == TakenIn(call)
           g == TakenIn(call')
<1>0. call \in [Callers -> CallType] /\ call' \in [Callers -> CallType] /\ call'[c] = s
  BY DEF TokenInv, TokenTypeOK
<1>1. \A q \in CallType : TakenBy(q) \in Int
  BY DEF TakenBy, CallType
<1>2. /\ \A x \in Callers : f[x] \in Int
      /\ g[c] \in Int /\ f[c] = TakenBy(call[c]) /\ g[c] = TakenBy(s)
      /\ \A x \in Callers : x # c => g[x] = f[x]
  BY <1>0, <1>1 DEF TakenIn
<1> HIDE DEF f, g
<1>3. /\ SumFunctionOnSet(g, Callers) = SumFunctionOnSet(f, Callers) + g[c] - f[c]
      /\ SumFunctionOnSet(f, Callers) \in Int
  <2>1. SumFunctionOnSet(f, Callers) \in Int
    BY <1>2, CallersAssumption, SumType
  <2>2. SumFunctionOnSet(g, Callers) = SumFunctionOnSet(f, Callers) + g[c] - f[c]
    <3>1. /\ IsFiniteSet(Callers) /\ \A x \in Callers : f[x] \in Int
          /\ g[c] \in Int /\ \A x \in Callers : x # c => g[x] = f[x]
      BY <1>2, CallersAssumption
    <3> QED BY <3>1, SumChange
  <2> QED BY <2>1, <2>2
<1>4. TotalOf(balance) \in Int /\ TotalOf(balance') \in Int
  <2>1. /\ IsFiniteSet(Address)
        /\ \A x \in Address : balance[x] \in Int /\ balance'[x] \in Int
    BY AddressAssumption DEF TokenInv, TokenTypeOK
  <2> QED BY <2>1, SumType DEF TotalOf
<1>5. TotalBalance = TotalOf(balance) /\ TotalBalance' = TotalOf(balance')
  <2>1. DOMAIN balance = Address /\ DOMAIN balance' = Address
    BY DEF TokenInv, TokenTypeOK
  <2> QED BY <2>1, Zenon DEF TotalBalance, TotalOf, SumFunction
<1>6. /\ SumFunction(InFlight) = SumFunctionOnSet(f, Callers)
      /\ SumFunction(InFlight)' = SumFunctionOnSet(g, Callers)
  <2>1. InFlight = f /\ InFlight' = g
    BY Zenon DEF InFlight, TakenIn, TakenBy, f, g
  <2>2. DOMAIN f = Callers /\ DOMAIN g = Callers
    BY DEF TakenIn, f, g
  <2> QED BY <2>1, <2>2, Zenon DEF SumFunction
<1>7. TotalOf(balance') + SumFunctionOnSet(g, Callers)
        = TotalOf(balance) + SumFunctionOnSet(f, Callers)
  BY <1>1, <1>2, <1>3, <1>4
<1> QED BY <1>5, <1>6, <1>7, Zenon

(* Without overlap a transfer neither creates nor destroys money at any of *)
(* its steps, for any number of callers, addresses and amounts, a transfer *)
(* to oneself included (state.go:814-832).                                 *)
THEOREM TransfersConserve == TokenSpec => TransferConserves
<1> DEFINE Carried == TotalBalance + SumFunction(InFlight)
           Kept == ~overlapped' /\ (\A c \in Callers : call'[c].op \in {"none", "transfer"})
                       => Carried' = Carried
<1>1. TokenInv /\ TokenInv' /\ SerialInv /\ [TokenNext]_tokenVars => [Kept]_tokenVars
  <2> SUFFICES ASSUME TokenInv, TokenInv', SerialInv, TokenNext,
                      ~overlapped', \A c \in Callers : call'[c].op \in {"none", "transfer"}
               PROVE  Carried' = Carried
    OBVIOUS
  <2>1. ASSUME NEW c \in Callers, FirstStep(c) PROVE Carried' = Carried
    <3>1. PICK r : Begin(c, r) /\ TakenBy(r) = 0
      BY <2>1, FirstFacts
    <3>2. call' = [call EXCEPT ![c] = r] /\ balance' = balance /\ call[c] = Idle
      BY <3>1 DEF Begin
    <3>3. TotalOf(balance') + TakenBy(r) = TotalOf(balance) + TakenBy(call[c])
      BY <3>1, <3>2, IdleIs
    <3> QED BY <3>2, <3>3, CarriedChange
  <2>2. ASSUME NEW c \in Callers, CallStep(c) PROVE Carried' = Carried
    <3>1. PICK s : call' = [call EXCEPT ![c] = s] /\ StepGoal(call[c], s)
      BY <2>2, StepFacts
    <3>2. ~overlapped /\ s.op \in {"none", "transfer"}
      BY <2>2, <3>1, StepNotIdle DEF TokenInv, TokenTypeOK
    <3>3. TotalOf(balance') + TakenBy(s) = TotalOf(balance) + TakenBy(call[c])
      BY <3>1, <3>2 DEF StepGoal
    <3> QED BY <3>1, <3>3, CarriedChange
  <2> QED BY <2>1, <2>2 DEF TokenNext, FirstStep
<1> QED BY <1>1, TokenInvariant, SerialInvariant, PTL DEF TokenSpec, TransferConserves

(* Without overlap a transfer or a distribution leaves CurrentSupply equal *)
(* to the sum of the balances, for any number of callers, addresses and    *)
(* wallets, also after a burn has left it too low (state.go:809-810,       *)
(* state.go:865, state.go:950).                                            *)
THEOREM SupplyIsSettled == TokenSpec => SupplySettles
<1> DEFINE Settled == \A c \in Callers :
                          ~overlapped /\ call[c].op \in {"transfer", "init"} /\ call'[c] = Idle
                              => supply' = TotalBalance'
<1>1. TokenInv /\ TokenInv' /\ SerialInv /\ [TokenNext]_tokenVars => [Settled]_tokenVars
  <2> SUFFICES ASSUME TokenInv, TokenInv', SerialInv, TokenNext, ~overlapped,
                      NEW d \in Callers, call[d].op \in {"transfer", "init"}, call'[d] = Idle
               PROVE  supply' = TotalBalance'
    OBVIOUS
  <2>1. call[d] # Idle
    BY IdleIs
  <2>2. call \in [Callers -> CallType]
    BY DEF TokenInv, TokenTypeOK
  <2>3. ASSUME NEW c \in Callers, FirstStep(c) PROVE FALSE
    <3>1. PICK r : Begin(c, r)
      BY <2>3, FirstFacts
    <3> QED BY <2>1, <2>2, <3>1 DEF Begin
  <2>4. ASSUME NEW c \in Callers, CallStep(c) PROVE supply' = TotalBalance'
    <3>1. PICK s : call' = [call EXCEPT ![c] = s] /\ StepGoal(call[c], s)
      BY <2>4, StepFacts
    <3>2. c = d /\ s = Idle
      BY <2>1, <2>2, <3>1
    <3>3. supply' = TotalOf(balance')
      BY <3>1, <3>2 DEF StepGoal
    <3>4. DOMAIN balance' = Address
      BY DEF TokenInv, TokenTypeOK
    <3>5. TotalBalance' = TotalOf(balance')
      BY <3>4, Zenon DEF TotalBalance, TotalOf, SumFunction
    <3> QED BY <3>3, <3>5, Zenon
  <2> QED BY <2>3, <2>4 DEF TokenNext, FirstStep
<1> QED BY <1>1, TokenInvariant, SerialInvariant, PTL DEF TokenSpec, SupplySettles
=============================================================================
