------------------------- MODULE MerkleDistributor -------------------------
(***************************************************************************)
(* The airdrop: parseBalanceMap (utils/) turns a table of earnings into a  *)
(* Merkle root and one claim per account, 023_deploy_merkle_distributor.ts *)
(* deploys MerkleDistributor.sol with the root, and accounts claim.        *)
(*                                                                         *)
(* A hash is the term it was computed from, written as a sequence of       *)
(* numbers: hashes of different things differ, and are ordered             *)
(* lexicographically.  A leaf's hash begins with a number that is chosen   *)
(* with the input, so that the leaves are sorted in any order; an inner    *)
(* node's begins with 0.  The empty sequence is an absent element.         *)
(***************************************************************************)
EXTENDS Integers, FiniteSets, SequencesExt

CONSTANTS
    Claimants,      \* the valid addresses, numbered in their order
    Inputs,         \* [rows, order]: a table of earnings and the order of the hashes
    WordSize,       \* 256: bits of a word of claimedBitMap
    Withdrawals,    \* amounts the owner withdraws
    MaxTokens       \* bound on the tokens ever deposited

VARIABLES
    input, published,             \* the table; what parseBalanceMap returned
    deployed, claimedBitMap,      \* the contract
    held, paid,                   \* its tokens, and what each account received
    deposited, withdrawn          \* history: by the owner

vars == <<input, published, deployed, claimedBitMap, held, paid, deposited, withdrawn>>
-----------------------------------------------------------------------------
(* utils/merkle-tree.ts                                                    *)

keccak256(x, y) == <<0, Len(x)>> \o x \o y

Less(x, y) ==
    \E k \in 1..Len(x) : k <= Len(y) /\ x[k] < y[k] /\ SubSeq(x, 1, k - 1) = SubSeq(y, 1, k - 1)

sortAndConcat(x, y) == IF Less(y, x) THEN <<y, x>> ELSE <<x, y>>

\* Mutant: the pair is not sorted.
UnsortedHash(first, second) ==
    IF first = <<>> THEN second
    ELSE IF second = <<>> THEN first
    ELSE keccak256(first, second)

combinedHash(first, second) ==
    IF first = <<>> THEN second
    ELSE IF second = <<>> THEN first
    ELSE LET s == sortAndConcat(first, second) IN keccak256(s[1], s[2])

\* arr[i] of the source, or undefined.
Element(arr, i) == IF i < Len(arr) THEN arr[i + 1] ELSE <<>>

getNextLayer(elements) ==
    [k \in 1..((Len(elements) + 1) \div 2) |->
        combinedHash(Element(elements, 2 * k - 2), Element(elements, 2 * k - 1))]

getLayers(elements) ==
    LET layer[k \in 0..Len(elements)] == IF k = 0 THEN elements ELSE getNextLayer(layer[k - 1])
        top == CHOOSE k \in 0..Len(elements) :
                  Len(layer[k]) = 1 /\ \A j \in 0..(k - 1) : Len(layer[j]) > 1
    IN [k \in 1..(top + 1) |-> layer[k - 1]]

\* The constructor: elements sorted, without duplicates, and all layers above.
MerkleTree(elements) == getLayers(SetToSortSeq(ToSet(elements), Less))

getRoot(layers) == Last(layers)[1]

getPairElement(idx, layer) == Element(layer, IF idx % 2 = 0 THEN idx + 1 ELSE idx - 1)

getProof(layers, el) ==
    LET idx == (CHOOSE i \in DOMAIN layers[1] : layers[1][i] = el) - 1
    IN SelectSeq([k \in DOMAIN layers |-> getPairElement(idx \div 2^(k - 1), layers[k])],
                 LAMBDA pair : pair # <<>>)
-----------------------------------------------------------------------------
(* utils/balance-tree.ts and utils/parse-balance-map.ts                    *)

toNode(index, account, amount) == <<input.order[index + 1], index, account, amount>>

verifyProof(index, account, amount, proof, root) ==
    FoldLeft(combinedHash, toNode(index, account, amount), proof) = root

\* The leaf of the account at index i.
BalanceTree(balances) ==
    MerkleTree([i \in DOMAIN balances |->
                   toNode(i - 1, balances[i].account, balances[i].amount)])

isAddress(address) == address[1] \in Claimants
getAddress(address) == address[1]   \* however it is spelled

Malformed(rows) ==
    \/ rows = <<>>
    \/ \E k \in DOMAIN rows :
          \/ ~isAddress(rows[k].address)
          \/ \E j \in 1..(k - 1) : getAddress(rows[j].address) = getAddress(rows[k].address)
          \/ rows[k].earnings <= 0

parseBalanceMap(rows) ==
    LET amount == [a \in {getAddress(rows[k].address) : k \in DOMAIN rows} |->
                      rows[CHOOSE k \in DOMAIN rows : getAddress(rows[k].address) = a].earnings]
        sortedAddresses == SetToSortSeq(DOMAIN amount, <)
        tree == BalanceTree([i \in DOMAIN sortedAddresses |->
                    [account |-> sortedAddresses[i], amount |-> amount[sortedAddresses[i]]]])
        index == [a \in DOMAIN amount |->
                     (CHOOSE i \in DOMAIN sortedAddresses : sortedAddresses[i] = a) - 1]
    IN [merkleRoot |-> getRoot(tree),
        tokenTotal |-> FoldLeft(LAMBDA sum, a : sum + amount[a], 0, sortedAddresses),
        claims |-> [a \in DOMAIN amount |->
                       [index |-> index[a], amount |-> amount[a],
                        proof |-> getProof(tree, toNode(index[a], a, amount[a]))]]]
-----------------------------------------------------------------------------
(* MerkleDistributor.sol                                                   *)

Nothing == [merkleRoot |-> <<>>, tokenTotal |-> 0, claims |-> <<>>]

Init ==
    /\ input \in Inputs /\ published = Nothing
    /\ deployed = FALSE
    /\ claimedBitMap = [word \in 0..(Cardinality(Claimants) \div WordSize) |-> {}]
    /\ held = 0 /\ paid = [a \in Claimants |-> 0]
    /\ deposited = 0 /\ withdrawn = 0

Publish ==
    /\ published = Nothing
    /\ ~Malformed(input.rows)
    /\ published' = parseBalanceMap(input.rows)
    /\ UNCHANGED <<input, deployed, claimedBitMap, held, paid, deposited, withdrawn>>

\* The script is given the published root.
DeployMerkleDistributor ==
    /\ published # Nothing /\ ~deployed
    /\ deployed' = TRUE
    /\ UNCHANGED <<input, published, claimedBitMap, held, paid, deposited, withdrawn>>

isClaimed(index) == index % WordSize \in claimedBitMap[index \div WordSize]

\* Mutant: the other bits of the word are cleared.
SetsTheWord(index) == [claimedBitMap EXCEPT ![index \div WordSize] = {index % WordSize}]

setClaimed(index) == [claimedBitMap EXCEPT ![index \div WordSize] = @ \cup {index % WordSize}]

claim(index, account, amount, merkleProof) ==
    /\ deployed
    /\ ~isClaimed(index)
    /\ verifyProof(index, account, amount, merkleProof, published.merkleRoot)
    /\ claimedBitMap' = setClaimed(index)
    /\ amount <= held
    /\ held' = held - amount
    /\ paid' = [paid EXCEPT ![account] = @ + amount]
    /\ UNCHANGED <<input, published, deployed, deposited, withdrawn>>

\* Anyone claims with a published proof, whatever it was published for.
Claim ==
    \E a, account \in DOMAIN published.claims :
        \E b \in DOMAIN published.claims :
            claim(published.claims[a].index, account, published.claims[b].amount,
                  published.claims[a].proof)

deposit(amount) ==
    /\ deployed /\ deposited + amount <= MaxTokens
    /\ held' = held + amount /\ deposited' = deposited + amount
    /\ UNCHANGED <<input, published, deployed, claimedBitMap, paid, withdrawn>>

\* withdrawRewardTokens, and withdrawTokens when it is given the same token.
withdrawRewardTokens(amount) ==
    /\ deployed /\ amount <= held
    /\ held' = held - amount /\ withdrawn' = withdrawn + amount
    /\ UNCHANGED <<input, published, deployed, claimedBitMap, paid, deposited>>

withdrawAllRewardTokens == held > 0 /\ withdrawRewardTokens(held)

Next ==
    \/ Publish
    \/ DeployMerkleDistributor
    \/ Claim
    \/ deposit(published.tokenTotal)
    \/ \E amount \in Withdrawals : withdrawRewardTokens(amount)
    \/ withdrawAllRewardTokens

Spec == Init /\ [][Next]_vars
-----------------------------------------------------------------------------
\* The published claims are exactly those the contract accepts: every account's
\* proof verifies, odd layers and a single leaf included, and no published proof
\* verifies for another index, account or amount.
ClaimsExact ==
    \A a \in DOMAIN published.claims :
        \A i \in 0..(Cardinality(Claimants) - 1), account \in Claimants, amount \in 1..MaxTokens :
            LET c == published.claims[a] IN
            i < Len(input.order) =>
                (verifyProof(i, account, amount, c.proof, published.merkleRoot)
                    <=> i = c.index /\ account = a /\ amount = c.amount)

\* Each account receives its amount once or nothing, and what it did not yet
\* receive is there to be claimed when tokenTotal was deposited, until the owner
\* withdraws.
ClaimsCovered ==
    LET unpaid == {a \in DOMAIN published.claims : ~isClaimed(published.claims[a].index)}
        due == FoldLeft(LAMBDA sum, a : sum + published.claims[a].amount, 0, SetToSeq(unpaid))
    IN /\ \A a \in DOMAIN published.claims :
             paid[a] = IF a \in unpaid THEN 0 ELSE published.claims[a].amount
       /\ deployed /\ deposited >= published.tokenTotal /\ withdrawn = 0 => held >= due
=============================================================================
