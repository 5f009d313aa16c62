-------------------------------- MODULE TxPool --------------------------------
(***************************************************************************)
(* The TransactionPool of txpool.go.  Every method runs under tp.mu, which *)
(* none takes twice, and is one step.  Nothing ever fills queued.          *)
(***************************************************************************)
EXTENDS Integers, Sequences, SequencesExt, FiniteSetsExt, Functions

CONSTANTS Tx,             \* transactions, by hash
          GasPrice,       \* GasPrice() of a transaction
          Gas,            \* Gas() of a transaction
          Word,           \* 2^64: gas is counted modulo Word
          BlockGasLimit   \* the limits that callers pass, far below Word

ASSUME TxAssumption == /\ GasPrice \in [Tx -> Nat]
                       /\ Word \in Nat \ {0}
                       /\ Gas \in [Tx -> 0..(Word - 1)]
                       /\ BlockGasLimit \subseteq 0..((Word - 1) \div 2)

VARIABLES pending,   \* tp.pending
          selected,  \* what GetTransactionsForBlock returned last
          limit      \* the limit it was given

poolVars == <<pending, selected, limit>>

PoolInit == pending = {} /\ selected = <<>> /\ limit = 0

(* AddTransaction: an error, and no change, for one that is there. *)
AddTransaction(t) == /\ t \notin pending
                     /\ pending' = pending \cup {t}
                     /\ UNCHANGED <<selected, limit>>

(* Mutant: the comparison is turned round. *)
SortsAscending(S) == {s \in SetToSeqs(S) : \A i, j \in DOMAIN s :
                          i < j => GasPrice[s[i]] <= GasPrice[s[j]]}

(* sortTransactionsByGasPrice: highest price first; equal prices come in   *)
(* the order of the map.                                                   *)
SortsOf(S) == {s \in SetToSeqs(S) : \A i, j \in DOMAIN s :
                   i < j => GasPrice[s[i]] >= GasPrice[s[j]]}

(* Gas used by the first n transactions of s, as the code counts it. *)
CurrentGas(s, n) == FoldFunctionOnSet(LAMBDA x, y : (x + y) % Word, 0,
                                      [i \in DOMAIN s |-> Gas[s[i]]], 1..n)

(* Mutant: look whether the block is full, not whether the next one fits. *)
TakenUntilFull(s, blockGasLimit) ==
    LET full == {i \in DOMAIN s : CurrentGas(s, i - 1) >= blockGasLimit}
    IN  IF full = {} THEN s ELSE SubSeq(s, 1, Min(full) - 1)

(* The transactions taken from s: up to the first that does not fit. *)
Taken(s, blockGasLimit) ==
    LET fits(i) == (CurrentGas(s, i - 1) + Gas[s[i]]) % Word <= blockGasLimit
        stop == {i \in DOMAIN s : ~fits(i)}
    IN  IF stop = {} THEN s ELSE SubSeq(s, 1, Min(stop) - 1)

GetTransactionsForBlock ==
    \E blockGasLimit \in BlockGasLimit, s \in SortsOf(pending) :
        /\ selected' = Taken(s, blockGasLimit)
        /\ limit' = blockGasLimit
        /\ pending' = pending \ Range(selected')

RemoveTransaction(t) == /\ pending' = pending \ {t}
                        /\ UNCHANGED <<selected, limit>>

ClearPool == pending' = {} /\ UNCHANGED <<selected, limit>>

PoolStep == \/ \E t \in Tx : AddTransaction(t) \/ RemoveTransaction(t)
            \/ GetTransactionsForBlock
            \/ ClearPool

-----------------------------------------------------------------------------
PoolTypeOK == pending \subseteq Tx /\ selected \in Seq(Tx) /\ limit \in Nat

(* A selection takes the best-paying transactions: none of them pays less  *)
(* than one that is left (txpool.go:70-81).                                *)
BestPaidFirst ==
    [][selected' # selected =>
          \A t \in Range(selected'), u \in pending' : GasPrice[t] >= GasPrice[u]]_poolVars

(* A selection stays within the limit it was given, unless a transaction   *)
(* in it has more gas than the limit by itself: only such a one can make   *)
(* the 64-bit count wrap (txpool.go:73).                                   *)
WithinLimit ==
    (\A i \in DOMAIN selected : Gas[selected[i]] <= limit)
        => FoldFunctionOnSet(+, 0, [i \in DOMAIN selected |-> Gas[selected[i]]],
                             DOMAIN selected) <= limit

=============================================================================
