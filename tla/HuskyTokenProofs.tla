-------------------------- MODULE HuskyTokenProofs --------------------------
(***************************************************************************)
(* The properties of the locks and of the votes for any number of          *)
(* accounts, any cap and any release period.  Votes play no part in the    *)
(* first: an operation that moves votes and balances leaves the locks      *)
(* alone (QuietStep).  The second are about getPriorVotes, whose binary    *)
(* search is shown to find the last checkpoint not after a past block.     *)
(***************************************************************************)
EXTENDS HuskyToken, LedgerMathProofs

\* No release clock is ahead of the chain, except to wait for the start.
ClockNotAhead ==
    \A a \in Holders : lastUnlockBlock[a] <= Later(startReleaseBlock, block)

\* Before the start nothing is released, so all that was locked still is.
NothingReleasedYet ==
    block < startReleaseBlock => \A a \in Holders : locks[a] = everLocked[a]

\* At its last unlock an account was not ahead of the linear release.
Scheduled ==
    \A a \in Holders :
        lastUnlockBlock[a] <= endReleaseBlock
            => everLocked[a] * (endReleaseBlock - lastUnlockBlock[a])
                 <= locks[a] * endReleaseBlock

IInv == TypeOK /\ LocksBacked /\ ClockNotAhead /\ NothingReleasedYet /\ Scheduled

\* What the definitions make of the constants.
LEMMA Constants ==
    /\ NumAccounts \in Nat \ {0} /\ Self \in Holders /\ owner \in Accounts
    /\ Holders = 1..(NumAccounts + 1) /\ NumAccounts + 1 \in Nat
    /\ startReleaseBlock \in Nat /\ endReleaseBlock \in Nat
    /\ startReleaseBlock < endReleaseBlock
    /\ \A a \in Accounts : a \in Holders /\ a # Self
    /\ Amounts \subseteq Nat
BY HuskyTokenAssumption DEF Self, Holders, Accounts, owner

\* A transfer out of an account other than the token contract keeps balances
\* non-negative and never takes from the contract.
LEMMA MovedFrom ==
    ASSUME TypeOK, NEW a \in Holders, a # Self, NEW to \in Holders,
           NEW amount \in Nat, amount <= balance[a]
    PROVE  /\ Moved(a, to, amount) \in [Holders -> Nat]
           /\ Moved(a, to, amount)[Self] >= balance[Self]
           /\ to = Self => Moved(a, to, amount)[Self] = balance[Self] + amount
<1>1. balance \in [Holders -> Nat] /\ Self \in Holders
  BY Constants DEF TypeOK
<1> QED BY <1>1 DEF Moved

\* The constructor establishes the invariant.
LEMMA InitEstablishes == Init => IInv
<1> SUFFICES ASSUME Init PROVE IInv
  OBVIOUS
<1>1. TypeOK
  BY HuskyTokenAssumption, Constants DEF Init, TypeOK
<1>2. LocksBacked
  <2>1. NumAccounts + 1 \in Nat
    BY Constants
  <2>3. \A i \in 1..(NumAccounts + 1) : locks[i] = 0
    BY Constants DEF Init
  <2>4. totalLock = 0
    BY DEF Init
  <2>5. SumsTo(locks, NumAccounts + 1, 0)
    BY <2>1, <2>3, SumsToZero
  <2>6. totalLock <= balance[Self]
    BY <2>4, <1>1, Constants DEF TypeOK
  <2> QED BY <2>4, <2>5, <2>6 DEF LocksBacked
<1>3. ClockNotAhead
  BY Constants DEF Init, ClockNotAhead, Later
<1>4. NothingReleasedYet /\ Scheduled
  BY Constants DEF Init, NothingReleasedYet, Scheduled
<1> QED BY <1>1, <1>2, <1>3, <1>4 DEF IInv

\* A step that leaves the chain and the locks alone and takes nothing from the
\* token contract preserves the invariant.
LEMMA QuietStep ==
    ASSUME IInv, UNCHANGED <<block, lockVars>>,
           balance' \in [Holders -> Nat], balance'[Self] >= balance[Self],
           manualMinted' \in 0..MANUAL_MINT_LIMIT,
           delegates' \in [Holders -> Delegatees \cup {NoAddress}]
    PROVE  IInv'
<1>1. TypeOK'
  BY DEF IInv, TypeOK, lockVars
<1>2. LocksBacked'
  <2>1. balance[Self] \in Nat /\ balance'[Self] \in Nat /\ totalLock \in Nat
    BY Constants DEF IInv, TypeOK
  <2> QED BY <2>1 DEF IInv, LocksBacked, lockVars
<1>3. ClockNotAhead' /\ NothingReleasedYet' /\ Scheduled'
  BY DEF IInv, ClockNotAhead, NothingReleasedYet, Scheduled, Later, lockVars
<1> QED BY <1>1, <1>2, <1>3 DEF IInv

\* A new block moves no lock and no clock.
LEMMA TickStep ==
    ASSUME IInv, Tick PROVE IInv'
<1>1. TypeOK'
  BY HuskyTokenAssumption DEF IInv, TypeOK, Tick, lockVars, voteVars
<1>2. LocksBacked' /\ Scheduled'
  BY DEF IInv, Tick, LocksBacked, Scheduled, lockVars
<1>3. block \in Nat /\ block' = block + 1
  BY HuskyTokenAssumption DEF IInv, TypeOK, Tick
<1>4. UNCHANGED <<locks, lastUnlockBlock, everLocked>>
  BY DEF Tick, lockVars
<1>5. NothingReleasedYet'
  BY <1>3, <1>4, Constants DEF IInv, NothingReleasedYet
<1>6. ClockNotAhead'
  <2> SUFFICES ASSUME NEW h \in Holders
               PROVE  lastUnlockBlock[h] <= Later(startReleaseBlock, block + 1)
    BY <1>3, <1>4 DEF ClockNotAhead, Later
  <2>1. lastUnlockBlock[h] \in Nat /\ lastUnlockBlock[h] <= Later(startReleaseBlock, block)
    BY DEF IInv, TypeOK, ClockNotAhead
  <2> QED BY <2>1, <1>3, Constants DEF Later
<1> QED BY <1>1, <1>2, <1>5, <1>6 DEF IInv

\* The two helpers of the release clock are maxima.
LEMMA ClockFacts ==
    ASSUME NEW x \in Nat, NEW y \in Nat, NEW b \in Nat
    PROVE  /\ NotBeforeStart(x) \in Nat /\ x <= NotBeforeStart(x)
           /\ Later(x, y) \in Nat /\ x <= Later(x, y) /\ y <= Later(x, y)
           /\ x <= b /\ y <= b => Later(x, y) <= b
           /\ x <= Later(startReleaseBlock, b)
                => NotBeforeStart(x) <= Later(startReleaseBlock, b)
           /\ Later(startReleaseBlock, b) \in Nat
BY Constants DEF NotBeforeStart, Later

\* Adding y to what is locked, or letting the clock advance, keeps a schedule.
LEMMA ScheduleAdds ==
    ASSUME NEW e \in Nat, NEW l \in Nat, NEW x \in Nat,
           NEW e2 \in Nat, NEW l2 \in Nat, NEW x2 \in Nat,
           NEW z \in Nat, x <= z, x2 <= z, z <= endReleaseBlock,
           e * (endReleaseBlock - x) <= l * endReleaseBlock,
           e2 * (endReleaseBlock - x2) <= l2 * endReleaseBlock
    PROVE  (e + e2) * (endReleaseBlock - z) <= (l + l2) * endReleaseBlock
<1>1. e * (endReleaseBlock - z) <= e * (endReleaseBlock - x)
  BY Constants
<1>2. e2 * (endReleaseBlock - z) <= e2 * (endReleaseBlock - x2)
  BY Constants
<1>3. /\ (e + e2) * (endReleaseBlock - z)
           = e * (endReleaseBlock - z) + e2 * (endReleaseBlock - z)
      /\ (l + l2) * endReleaseBlock = l * endReleaseBlock + l2 * endReleaseBlock
  BY Constants
<1>4. /\ e * (endReleaseBlock - z) \in Int /\ e * (endReleaseBlock - x) \in Int
      /\ e2 * (endReleaseBlock - z) \in Int /\ e2 * (endReleaseBlock - x2) \in Int
      /\ l * endReleaseBlock \in Int /\ l2 * endReleaseBlock \in Int
  BY Constants
<1> QED BY <1>1, <1>2, <1>3, <1>4

\* The types of one holder's entries.
LEMMA HolderTypes ==
    ASSUME TypeOK, NEW a \in Holders
    PROVE  /\ balance[a] \in Nat /\ locks[a] \in Nat /\ everLocked[a] \in Nat
           /\ lastUnlockBlock[a] \in Nat
           /\ totalLock \in Nat /\ block \in Nat
           /\ locks \in [1..(NumAccounts + 1) -> Nat] /\ a \in 1..(NumAccounts + 1)
<1>1. balance[a] \in Nat /\ locks[a] \in Nat /\ everLocked[a] \in Nat
  BY DEF TypeOK
<1>2. lastUnlockBlock[a] \in Nat /\ totalLock \in Nat /\ locks \in [Holders -> Nat]
  BY DEF TypeOK
<1>3. block \in Nat
  BY HuskyTokenAssumption DEF TypeOK
<1> QED BY <1>1, <1>2, <1>3, Constants

\* lock adds to a lock and to the contract's balance alike.
LEMMA LockStep ==
    ASSUME IInv, NEW a \in Accounts, NEW amount \in Amounts, lock(a, amount)
    PROVE  IInv'
<1> DEFINE clock == NotBeforeStart(lastUnlockBlock[a])
<1>1. a \in Holders /\ a # Self /\ amount \in Nat /\ Self \in Holders
  BY Constants
<1>2. /\ amount <= balance[a] /\ balance' = Moved(a, Self, amount)
      /\ locks' = [locks EXCEPT ![a] = locks[a] + amount]
      /\ totalLock' = totalLock + amount
      /\ lastUnlockBlock' = [lastUnlockBlock EXCEPT ![a] = clock]
      /\ everLocked' = [everLocked EXCEPT ![a] = everLocked[a] + amount]
      /\ UNCHANGED <<block, manualMinted, delegates>>
  BY DEF lock, voteVars
<1>3. TypeOK /\ LocksBacked /\ ClockNotAhead /\ NothingReleasedYet /\ Scheduled
  BY DEF IInv
<1>4. /\ balance' \in [Holders -> Nat]
      /\ balance'[Self] = balance[Self] + amount
  BY <1>1, <1>2, <1>3, MovedFrom
<1>5. /\ locks[a] \in Nat /\ everLocked[a] \in Nat /\ lastUnlockBlock[a] \in Nat
      /\ totalLock \in Nat /\ block \in Nat /\ balance[Self] \in Nat
      /\ locks \in [1..(NumAccounts + 1) -> Nat] /\ a \in 1..(NumAccounts + 1)
  BY <1>1, <1>3, HolderTypes
<1>6. /\ clock \in Nat /\ lastUnlockBlock[a] <= clock
      /\ clock <= Later(startReleaseBlock, block)
  BY <1>1, <1>3, <1>5, ClockFacts DEF ClockNotAhead
<1> HIDE DEF clock
<1>7. TypeOK'
  <2>1. /\ locks' \in [Holders -> Nat] /\ everLocked' \in [Holders -> Nat]
        /\ lastUnlockBlock' \in [Holders -> Nat]
    <3>1. locks[a] + amount \in Nat /\ everLocked[a] + amount \in Nat
      BY <1>1, <1>5
    <3>2. /\ locks \in [Holders -> Nat] /\ everLocked \in [Holders -> Nat]
          /\ lastUnlockBlock \in [Holders -> Nat]
      BY <1>3 DEF TypeOK
    <3> QED BY <3>1, <3>2, <1>2, <1>6
  <2>2. totalLock' \in Nat
    BY <1>1, <1>2, <1>5
  <2> QED BY <1>2, <1>3, <1>4, <2>1, <2>2 DEF TypeOK
<1>8. LocksBacked'
  <2>1. SumsTo([locks EXCEPT ![a] = locks[a] + amount], NumAccounts + 1,
               totalLock - locks[a] + (locks[a] + amount))
    <3>1. locks[a] + amount \in Nat /\ NumAccounts + 1 \in Nat
      BY <1>1, <1>5, Constants
    <3> QED BY <3>1, <1>3, <1>5, SumUpdate DEF LocksBacked
  <2>2. totalLock - locks[a] + (locks[a] + amount) = totalLock + amount
    BY <1>1, <1>5
  <2> QED BY <1>1, <1>2, <1>3, <1>4, <1>5, <2>1, <2>2 DEF LocksBacked
<1>9. ClockNotAhead'
  <2> SUFFICES ASSUME NEW h \in Holders
               PROVE  lastUnlockBlock'[h] <= Later(startReleaseBlock, block)
    BY <1>2 DEF ClockNotAhead, Later
  <2> QED BY <1>1, <1>2, <1>3, <1>6 DEF TypeOK, ClockNotAhead
<1>10. NothingReleasedYet'
  BY <1>1, <1>2, <1>3 DEF TypeOK, NothingReleasedYet
<1>11. Scheduled'
  <2> SUFFICES ASSUME NEW h \in Holders, lastUnlockBlock'[h] <= endReleaseBlock
               PROVE  everLocked'[h] * (endReleaseBlock - lastUnlockBlock'[h])
                        <= locks'[h] * endReleaseBlock
    BY DEF Scheduled
  <2>1. CASE h # a
    BY <2>1, <1>1, <1>2, <1>3 DEF TypeOK, Scheduled
  <2>2. CASE h = a
    <3>1. /\ lastUnlockBlock'[h] = clock /\ locks'[h] = locks[a] + amount
          /\ everLocked'[h] = everLocked[a] + amount
      BY <2>2, <1>1, <1>2, <1>3 DEF TypeOK
    <3>2. everLocked[a] * (endReleaseBlock - lastUnlockBlock[a]) <= locks[a] * endReleaseBlock
      BY <3>1, <1>1, <1>3, <1>5, <1>6, Constants DEF Scheduled
    <3>3. amount * (endReleaseBlock - 0) <= amount * endReleaseBlock
      BY <1>1, Constants
    <3>5. clock <= endReleaseBlock /\ 0 <= clock /\ 0 \in Nat
      BY <3>1, <1>6
    <3>4. (everLocked[a] + amount) * (endReleaseBlock - clock)
            <= (locks[a] + amount) * endReleaseBlock
      BY <3>2, <3>3, <3>5, <1>1, <1>5, <1>6, ScheduleAdds, Zenon
    <3> QED BY <3>1, <3>4
  <2> QED BY <2>1, <2>2
<1> QED BY <1>7, <1>8, <1>9, <1>10, <1>11 DEF IInv

\* What unlock pays, after the start: never more than the lock, and never so
\* much that the rest falls behind the linear release.
LEMMA UnlockRounds ==
    ASSUME NEW l \in Nat, NEW e \in Nat, NEW x \in Nat, NEW b \in Nat,
           x <= b, b < endReleaseBlock,
           e * (endReleaseBlock - x) <= l * endReleaseBlock
    PROVE  LET paid == (l * (b - x)) \div (endReleaseBlock - x)
           IN  /\ paid \in 0..l
               /\ e * (endReleaseBlock - b) <= (l - paid) * endReleaseBlock
<1> DEFINE p == b - x
           q == endReleaseBlock - x
           paid == (l * p) \div q
           r == endReleaseBlock
<1>1. q \in Nat \ {0} /\ p \in 0..q /\ r \in Nat /\ endReleaseBlock - b = q - p
      /\ q - p \in Nat
  BY Constants
<1>2. e * q <= l * r
  OBVIOUS
<1> HIDE DEF p, q, r
<1>3. paid \in 0..l
  BY <1>1, FractionBounds
<1>4. l * p \in Nat /\ q * paid <= l * p
  <2>1. l * p \in Nat
    BY <1>1
  <2> QED BY <1>1, <2>1, FloorBounds
<1> HIDE DEF paid
<1>5. l * (q - p) <= (l - paid) * q
  BY <1>1, <1>3, <1>4
<1>6. (e * (q - p)) * q <= ((l - paid) * r) * q
  <2>1. (e * q) * (q - p) <= (l * r) * (q - p)
    <3>1. e * q \in Nat /\ l * r \in Nat
      BY <1>1
    <3> QED BY <1>1, <1>2, <3>1
  <2>2. (l * (q - p)) * r <= ((l - paid) * q) * r
    <3>1. l * (q - p) \in Nat /\ (l - paid) * q \in Nat
      BY <1>1, <1>3
    <3> QED BY <1>1, <1>5, <3>1
  <2>3. (e * (q - p)) * q = (e * q) * (q - p)
    BY <1>1
  <2>4. (l * r) * (q - p) = (l * (q - p)) * r
    BY <1>1
  <2>5. ((l - paid) * q) * r = ((l - paid) * r) * q
    BY <1>1, <1>3
  <2>6. /\ (e * q) * (q - p) \in Int /\ (l * r) * (q - p) \in Int
        /\ ((l - paid) * q) * r \in Int
    BY <1>1, <1>3
  <2> QED BY <2>1, <2>2, <2>3, <2>4, <2>5, <2>6
<1>7. e * (q - p) <= (l - paid) * r
  <2>1. e * (q - p) \in Nat /\ (l - paid) * r \in Nat
    BY <1>1, <1>3
  <2> QED BY <1>1, <1>6, <2>1
<1> QED BY <1>1, <1>3, <1>7 DEF p, q, r, paid

\* What an account may unlock, in each of the three periods.
LEMMA UnlockFacts ==
    ASSUME IInv, NEW a \in Holders
    PROVE  /\ canUnlockAmount(a) \in 0..locks[a]
           /\ block < startReleaseBlock => canUnlockAmount(a) = 0
           /\ block <= endReleaseBlock
                => everLocked[a] * (endReleaseBlock - block)
                     <= (locks[a] - canUnlockAmount(a)) * endReleaseBlock
<1>1. /\ locks[a] \in Nat /\ everLocked[a] \in Nat /\ lastUnlockBlock[a] \in Nat
      /\ block \in Nat
  BY HolderTypes DEF IInv
<1>2. CASE block < startReleaseBlock
  <2>1. canUnlockAmount(a) = 0
    BY <1>1, <1>2, Constants DEF canUnlockAmount
  <2>2. locks[a] = everLocked[a]
    BY <1>2 DEF IInv, NothingReleasedYet
  <2>3. locks[a] * (endReleaseBlock - block) <= (locks[a] - 0) * endReleaseBlock
    BY <1>1, <1>2, Constants
  <2> QED BY <1>1, <1>2, <2>1, <2>2, <2>3
<1>3. CASE block >= endReleaseBlock
  <2>1. canUnlockAmount(a) = locks[a] /\ ~(block < startReleaseBlock)
    BY <1>1, <1>3, Constants DEF canUnlockAmount
  <2>2. (locks[a] - locks[a]) * endReleaseBlock = 0
    BY <1>1, Constants
  <2>3. block <= endReleaseBlock => everLocked[a] * (endReleaseBlock - block) = 0
    BY <1>1, <1>3, Constants
  <2> QED BY <1>1, <2>1, <2>2, <2>3
<1>4. CASE startReleaseBlock <= block /\ block < endReleaseBlock
  <2>1. lastUnlockBlock[a] <= block
    BY <1>1, <1>4, Constants DEF IInv, ClockNotAhead, Later
  <2>2. everLocked[a] * (endReleaseBlock - lastUnlockBlock[a]) <= locks[a] * endReleaseBlock
    BY <1>1, <1>4, <2>1, Constants DEF IInv, Scheduled
  <2>3. canUnlockAmount(a) = (locks[a] * (block - lastUnlockBlock[a]))
                                \div (endReleaseBlock - lastUnlockBlock[a])
    BY <1>1, <1>4, Constants DEF canUnlockAmount
  <2>4. ~(block < startReleaseBlock)
    BY <1>1, <1>4, Constants
  <2> HIDE DEF canUnlockAmount
  <2> QED BY <1>1, <1>4, <2>1, <2>2, <2>3, <2>4, UnlockRounds
<1> QED BY <1>1, <1>2, <1>3, <1>4, Constants

\* unlock takes from the lock, the total and the contract's balance alike.
LEMMA UnlockStep ==
    ASSUME IInv, NEW a \in Accounts, unlock(a)
    PROVE  IInv'
<1> DEFINE amount == canUnlockAmount(a)
<1>1. a \in Holders /\ a # Self /\ Self \in Holders
  BY Constants
<1>2. /\ amount <= totalLock /\ balance' = Moved(Self, a, amount)
      /\ locks' = [locks EXCEPT ![a] = locks[a] - amount]
      /\ totalLock' = totalLock - amount
      /\ lastUnlockBlock' = [lastUnlockBlock EXCEPT ![a] = block]
      /\ UNCHANGED <<block, manualMinted, delegates, everLocked>>
  BY DEF unlock, voteVars, LockLeft, ClockAfterUnlock
<1>3. TypeOK /\ LocksBacked /\ ClockNotAhead /\ NothingReleasedYet /\ Scheduled
  BY DEF IInv
<1>4. /\ amount \in 0..locks[a]
      /\ block < startReleaseBlock => amount = 0
      /\ block <= endReleaseBlock
           => everLocked[a] * (endReleaseBlock - block) <= (locks[a] - amount) * endReleaseBlock
  BY <1>1, UnlockFacts
<1> HIDE DEF amount
<1>5. /\ locks[a] \in Nat /\ everLocked[a] \in Nat /\ lastUnlockBlock[a] \in Nat
      /\ totalLock \in Nat /\ block \in Nat /\ balance[Self] \in Nat /\ balance[a] \in Nat
      /\ locks \in [1..(NumAccounts + 1) -> Nat] /\ a \in 1..(NumAccounts + 1)
  BY <1>1, <1>3, HolderTypes
<1>6. amount \in Nat /\ locks[a] - amount \in Nat /\ totalLock <= balance[Self]
  BY <1>3, <1>4, <1>5 DEF LocksBacked
<1>7. balance' \in [Holders -> Nat] /\ balance'[Self] = balance[Self] - amount
  <2>1. balance[Self] - amount \in Nat /\ balance[a] + amount \in Nat
    BY <1>2, <1>5, <1>6
  <2>2. balance \in [Holders -> Nat]
    BY <1>3 DEF TypeOK
  <2> QED BY <1>1, <1>2, <2>1, <2>2 DEF Moved
<1>8. TypeOK'
  <2>1. locks' \in [Holders -> Nat] /\ lastUnlockBlock' \in [Holders -> Nat]
    <3>1. locks \in [Holders -> Nat] /\ lastUnlockBlock \in [Holders -> Nat]
      BY <1>3 DEF TypeOK
    <3> QED BY <3>1, <1>2, <1>5, <1>6
  <2>2. totalLock' \in Nat
    BY <1>2, <1>5, <1>6
  <2> QED BY <1>2, <1>3, <1>7, <2>1, <2>2 DEF TypeOK
<1>9. LocksBacked'
  <2>1. SumsTo([locks EXCEPT ![a] = locks[a] - amount], NumAccounts + 1,
               totalLock - locks[a] + (locks[a] - amount))
    <3>1. NumAccounts + 1 \in Nat
      BY Constants
    <3> QED BY <3>1, <1>3, <1>5, <1>6, SumUpdate DEF LocksBacked
  <2>2. totalLock - locks[a] + (locks[a] - amount) = totalLock - amount
    BY <1>5, <1>6
  <2>3. totalLock - amount <= balance[Self] - amount
    BY <1>5, <1>6
  <2> QED BY <1>2, <1>7, <2>1, <2>2, <2>3 DEF LocksBacked
<1>10. ClockNotAhead'
  <2> SUFFICES ASSUME NEW h \in Holders
               PROVE  lastUnlockBlock'[h] <= Later(startReleaseBlock, block)
    BY <1>2 DEF ClockNotAhead, Later
  <2>1. block <= Later(startReleaseBlock, block)
    BY <1>5, Constants DEF Later
  <2> QED BY <1>1, <1>2, <1>3, <2>1 DEF TypeOK, ClockNotAhead
<1>11. NothingReleasedYet'
  <2> SUFFICES ASSUME block < startReleaseBlock, NEW h \in Holders
               PROVE  locks'[h] = everLocked[h]
    BY <1>2 DEF NothingReleasedYet
  <2>1. locks[a] - amount = locks[a]
    BY <1>4, <1>5
  <2> QED BY <1>1, <1>2, <1>3, <2>1 DEF TypeOK, NothingReleasedYet
<1>12. Scheduled'
  <2> SUFFICES ASSUME NEW h \in Holders, lastUnlockBlock'[h] <= endReleaseBlock
               PROVE  everLocked[h] * (endReleaseBlock - lastUnlockBlock'[h])
                        <= locks'[h] * endReleaseBlock
    BY <1>2 DEF Scheduled
  <2>1. CASE h # a
    BY <2>1, <1>1, <1>2, <1>3 DEF TypeOK, Scheduled
  <2>2. CASE h = a
    <3>1. lastUnlockBlock'[h] = block /\ locks'[h] = locks[a] - amount
      BY <2>2, <1>1, <1>2, <1>3 DEF TypeOK
    <3> QED BY <3>1, <2>2, <1>4
  <2> QED BY <2>1, <2>2
<1> QED BY <1>8, <1>9, <1>10, <1>11, <1>12 DEF IInv

\* transferAll merges two locks under the later of their clocks.
LEMMA TransferAllStep ==
    ASSUME IInv, NEW a \in Accounts, NEW to \in Holders, transferAll(a, to)
    PROVE  IInv'
<1> DEFINE start == NotBeforeStart(lastUnlockBlock[to])
           clock == Later(start, lastUnlockBlock[a])
           bound == Later(startReleaseBlock, block)
<1>1. a \in Holders /\ a # Self /\ Self \in Holders /\ a # to
  BY Constants DEF transferAll
<1>2. /\ balance' = Moved(a, to, balance[a])
      /\ locks' = [locks EXCEPT ![to] = locks[to] + locks[a], ![a] = 0]
      /\ lastUnlockBlock' = [lastUnlockBlock EXCEPT ![to] = clock, ![a] = 0]
      /\ everLocked' = [everLocked EXCEPT ![to] = everLocked[to] + everLocked[a], ![a] = 0]
      /\ UNCHANGED <<block, manualMinted, delegates, totalLock>>
  BY DEF transferAll, voteVars
<1>3. TypeOK /\ LocksBacked /\ ClockNotAhead /\ NothingReleasedYet /\ Scheduled
  BY DEF IInv
<1>4. /\ locks[a] \in Nat /\ everLocked[a] \in Nat /\ lastUnlockBlock[a] \in Nat
      /\ locks[to] \in Nat /\ everLocked[to] \in Nat /\ lastUnlockBlock[to] \in Nat
      /\ totalLock \in Nat /\ block \in Nat /\ balance[Self] \in Nat /\ balance[a] \in Nat
      /\ locks \in [1..(NumAccounts + 1) -> Nat] /\ a \in 1..(NumAccounts + 1)
      /\ to \in 1..(NumAccounts + 1)
  BY <1>1, <1>3, HolderTypes
<1>5. /\ start \in Nat /\ lastUnlockBlock[to] <= start /\ bound \in Nat
      /\ start <= bound /\ lastUnlockBlock[a] <= bound
  BY <1>1, <1>3, <1>4, ClockFacts DEF ClockNotAhead
<1> HIDE DEF start, bound
<1>6. /\ clock \in Nat /\ lastUnlockBlock[to] <= clock /\ lastUnlockBlock[a] <= clock
      /\ clock <= bound
  <2>1. clock \in Nat /\ start <= clock /\ lastUnlockBlock[a] <= clock /\ clock <= bound
    BY <1>4, <1>5, ClockFacts
  <2> QED BY <2>1, <1>4, <1>5
<1> HIDE DEF clock
<1>7. balance' \in [Holders -> Nat] /\ balance'[Self] >= balance[Self]
  <2>1. balance[a] <= balance[a]
    BY <1>4
  <2> QED BY <1>1, <1>2, <1>3, <1>4, <2>1, MovedFrom
<1>8. TypeOK'
  <2>1. /\ locks' \in [Holders -> Nat] /\ everLocked' \in [Holders -> Nat]
        /\ lastUnlockBlock' \in [Holders -> Nat]
    <3>1. /\ locks[to] + locks[a] \in Nat /\ everLocked[to] + everLocked[a] \in Nat
          /\ 0 \in Nat
      BY <1>4
    <3>2. /\ locks \in [Holders -> Nat] /\ everLocked \in [Holders -> Nat]
          /\ lastUnlockBlock \in [Holders -> Nat]
      BY <1>3 DEF TypeOK
    <3> QED BY <3>1, <3>2, <1>2, <1>6
  <2> QED BY <1>2, <1>3, <1>7, <2>1 DEF TypeOK
<1>9. LocksBacked'
  <2> DEFINE n == NumAccounts + 1
             f == [locks EXCEPT ![to] = locks[to] + locks[a]]
             t == totalLock - locks[to] + (locks[to] + locks[a])
  <2>1. n \in Nat /\ t \in Nat /\ t = totalLock + locks[a]
    <3>1. n \in Nat
      BY Constants
    <3>2. t \in Nat /\ t = totalLock + locks[a]
      <4>1. totalLock \in Nat /\ locks[to] \in Nat /\ locks[a] \in Nat
        BY <1>4
      <4> QED BY <4>1
    <3> QED BY <3>1, <3>2
  <2>2. locks[to] + locks[a] \in Nat
    BY <1>4
  <2>3. f \in [1..n -> Nat] /\ f[a] = locks[a]
    BY <1>1, <1>4, <2>2
  <2>4. SumsTo(f, n, t)
    BY <1>3, <1>4, <2>1, <2>2, SumUpdate DEF LocksBacked
  <2>5. SumsTo([f EXCEPT ![a] = 0], n, t - f[a] + 0)
    <3> HIDE DEF f, t, n
    <3>1. 0 \in Nat /\ a \in 1..n
      BY <1>4 DEF n
    <3> QED BY <2>1, <2>3, <2>4, <3>1, SumUpdate
  <2>6. t - f[a] + 0 = totalLock
    BY <1>4, <2>1, <2>3
  <2>7. totalLock <= balance'[Self]
    <3>1. balance'[Self] \in Nat
      BY <1>1, <1>7
    <3> QED BY <1>3, <1>4, <1>7, <3>1 DEF LocksBacked
  <2>8. locks' = [f EXCEPT ![a] = 0]
    BY <1>2
  <2> QED BY <1>2, <2>5, <2>6, <2>7, <2>8 DEF LocksBacked
<1>10. /\ \A h \in Holders \ {a, to} :
             /\ locks'[h] = locks[h] /\ everLocked'[h] = everLocked[h]
             /\ lastUnlockBlock'[h] = lastUnlockBlock[h]
       /\ locks'[a] = 0 /\ everLocked'[a] = 0 /\ lastUnlockBlock'[a] = 0
       /\ locks'[to] = locks[to] + locks[a] /\ everLocked'[to] = everLocked[to] + everLocked[a]
       /\ lastUnlockBlock'[to] = clock
  BY <1>1, <1>2, <1>3 DEF TypeOK
<1>11. ClockNotAhead'
  <2> SUFFICES ASSUME NEW h \in Holders PROVE lastUnlockBlock'[h] <= bound
    BY <1>2 DEF ClockNotAhead, Later, bound
  <2>1. lastUnlockBlock[h] <= bound
    BY <1>3 DEF ClockNotAhead, bound
  <2> QED BY <1>5, <1>6, <1>10, <2>1
<1>12. NothingReleasedYet'
  BY <1>1, <1>2, <1>3, <1>10 DEF NothingReleasedYet
<1>13. Scheduled'
  <2> SUFFICES ASSUME NEW h \in Holders, lastUnlockBlock'[h] <= endReleaseBlock
               PROVE  everLocked'[h] * (endReleaseBlock - lastUnlockBlock'[h])
                        <= locks'[h] * endReleaseBlock
    BY DEF Scheduled
  <2>1. CASE h \notin {a, to}
    BY <2>1, <1>3, <1>10 DEF Scheduled
  <2>2. CASE h = a
    BY <2>2, <1>10, Constants
  <2>3. CASE h = to
    <3>1. clock <= endReleaseBlock
      BY <2>3, <1>10
    <3>2. lastUnlockBlock[a] <= endReleaseBlock /\ lastUnlockBlock[to] <= endReleaseBlock
      <4>1. endReleaseBlock \in Nat
        BY Constants
      <4>2. lastUnlockBlock[a] \in Nat /\ lastUnlockBlock[to] \in Nat
        BY <1>4
      <4> QED BY <3>1, <1>6, <4>1, <4>2
    <3>3. /\ everLocked[a] * (endReleaseBlock - lastUnlockBlock[a])
               <= locks[a] * endReleaseBlock
          /\ everLocked[to] * (endReleaseBlock - lastUnlockBlock[to])
               <= locks[to] * endReleaseBlock
      BY <3>2, <1>1, <1>3 DEF Scheduled
    <3>4. (everLocked[to] + everLocked[a]) * (endReleaseBlock - clock)
            <= (locks[to] + locks[a]) * endReleaseBlock
      BY <3>1, <3>3, <1>4, <1>6, ScheduleAdds, Zenon
    <3> QED BY <2>3, <3>4, <1>10
  <2> QED BY <2>1, <2>2, <2>3
<1> QED BY <1>8, <1>9, <1>11, <1>12, <1>13 DEF IInv

\* Every step preserves the invariant.
LEMMA NextPreserves == IInv /\ [Next]_vars => IInv'
<1> SUFFICES ASSUME IInv, [Next]_vars PROVE IInv'
  OBVIOUS
<1>1. /\ TypeOK /\ balance \in [Holders -> Nat] /\ Self \in Holders
      /\ manualMinted \in 0..MANUAL_MINT_LIMIT
      /\ delegates \in [Holders -> Delegatees \cup {NoAddress}]
      /\ balance[Self] \in Nat /\ MANUAL_MINT_LIMIT \in Nat
  BY Constants, HuskyTokenAssumption DEF IInv, TypeOK
<1>2. CASE Tick
  BY <1>2, TickStep
<1>3. ASSUME NEW a \in Accounts, unlock(a) PROVE IInv'
  BY <1>3, UnlockStep
<1>4. ASSUME NEW a \in Accounts, NEW to \in Holders, transferAll(a, to) PROVE IInv'
  BY <1>4, TransferAllStep
<1>5. ASSUME NEW a \in Accounts, NEW d \in Delegatees \cup {NoAddress}, delegate(a, d)
      PROVE  IInv'
  <2>1. /\ UNCHANGED <<block, lockVars>> /\ balance' = balance
        /\ manualMinted' = manualMinted /\ delegates' = [delegates EXCEPT ![a] = d]
    BY <1>5 DEF delegate
  <2>2. balance'[Self] >= balance[Self]
    BY <1>1, <2>1
  <2>3. delegates' \in [Holders -> Delegatees \cup {NoAddress}]
    BY <1>1, <2>1, Zenon
  <2> QED BY <1>1, <2>1, <2>2, <2>3, QuietStep
<1>6. ASSUME NEW a \in Accounts, NEW amount \in Amounts, mintTo(a, amount),
             manualMinted' \in 0..MANUAL_MINT_LIMIT
      PROVE  IInv'
  <2>1. a \in Holders /\ amount \in Nat /\ balance[a] \in Nat
    BY <1>1, Constants
  <2>2. /\ UNCHANGED <<block, lockVars>> /\ delegates' = delegates
        /\ balance' = [balance EXCEPT ![a] = balance[a] + amount]
    BY <1>6 DEF mintTo
  <2>3. balance[a] + amount \in Nat
    BY <2>1
  <2>4. balance' \in [Holders -> Nat] /\ balance'[Self] >= balance[Self]
    BY <1>1, <2>1, <2>2, <2>3, Constants
  <2> QED BY <1>1, <1>6, <2>2, <2>4, QuietStep
<1>7. ASSUME NEW a \in Accounts, NEW amount \in Amounts, mint(a, amount) PROVE IInv'
  BY <1>1, <1>6, <1>7 DEF mint
<1>8. ASSUME NEW a \in Accounts, NEW amount \in Amounts, manualMint(a, amount) PROVE IInv'
  <2>1. manualMinted' \in 0..MANUAL_MINT_LIMIT
    BY <1>1, <1>8, Constants DEF manualMint
  <2> QED BY <1>6, <1>8, <2>1 DEF manualMint
<1>9. ASSUME NEW a \in Accounts, NEW amount \in Amounts, burn(a, amount) PROVE IInv'
  <2>1. a \in Holders /\ a # Self /\ amount \in Nat /\ balance[a] \in Nat
    BY <1>1, Constants
  <2>2. /\ UNCHANGED <<block, lockVars>> /\ delegates' = delegates
        /\ manualMinted' = manualMinted /\ amount <= balance[a]
        /\ balance' = [balance EXCEPT ![a] = balance[a] - amount]
    BY <1>9 DEF burn, voteVars
  <2>3. balance[a] - amount \in Nat
    BY <2>1, <2>2
  <2>4. balance' \in [Holders -> Nat] /\ balance'[Self] >= balance[Self]
    BY <1>1, <2>1, <2>2, <2>3
  <2> QED BY <1>1, <2>2, <2>4, QuietStep
<1>10. ASSUME NEW a \in Accounts, NEW amount \in Amounts, lock(a, amount) PROVE IInv'
  BY <1>10, LockStep
<1>11. ASSUME NEW a \in Accounts, NEW amount \in Amounts, NEW to \in Holders,
              amount <= balance[a], balance' = Moved(a, to, amount),
              UNCHANGED <<block, manualMinted, lockVars, delegates>>
       PROVE  IInv'
  <2>1. a \in Holders /\ a # Self /\ amount \in Nat
    BY Constants
  <2>2. balance' \in [Holders -> Nat] /\ balance'[Self] >= balance[Self]
    BY <1>1, <1>11, <2>1, MovedFrom
  <2> QED BY <1>1, <1>11, <2>2, QuietStep
<1>12. ASSUME NEW a \in Accounts, NEW amount \in Amounts, lockToOwner(a, amount)
       PROVE  IInv'
  <2>1. owner \in Holders
    BY Constants
  <2> QED BY <1>11, <1>12, <2>1 DEF lockToOwner, voteVars
<1>13. ASSUME NEW a \in Accounts, NEW amount \in Amounts, NEW to \in Holders,
              transfer(a, to, amount)
       PROVE  IInv'
  BY <1>11, <1>13 DEF transfer
<1>14. CASE UNCHANGED vars
  BY <1>1, <1>14, QuietStep DEF vars, voteVars
<1> QED BY <1>2, <1>3, <1>4, <1>5, <1>7, <1>8, <1>9, <1>10, <1>12, <1>13, <1>14 DEF Next

\* The inductive invariant holds in every reachable state.
LEMMA Invariance == Spec => []IInv
BY InitEstablishes, NextPreserves, PTL DEF Spec

\* Every variable keeps its type; manual minting stays within its limit.
THEOREM TokenTypeCorrect == Spec => []TypeOK
<1>1. IInv => TypeOK
  BY DEF IInv
<1> QED BY <1>1, Invariance, PTL

\* The locks always add up to _totalLock and the token contract always holds
\* them, after any sequence of lock, unlock, transferAll and transfers.
THEOREM LocksAlwaysBacked == Spec => []LocksBacked
<1>1. IInv => LocksBacked
  BY DEF IInv
<1> QED BY <1>1, Invariance, PTL

\* canUnlockAmount never underflows and never exceeds the lock.
THEOREM UnlockAlwaysDefined == Spec => []UnlockNeverReverts
<1>1. IInv => UnlockNeverReverts
  <2> SUFFICES ASSUME IInv, NEW a \in Accounts
               PROVE  canUnlockAmount(a) \in 0..locks[a]
    BY DEF UnlockNeverReverts
  <2> QED BY UnlockFacts, Constants
<1> QED BY <1>1, Invariance, PTL

\* No sequence of unlocks, top-ups and merges releases tokens faster than
\* linearly from the first block to endReleaseBlock.
THEOREM ReleaseNeverAhead == Spec => []NeverAheadOfLinear
<1>1. IInv => NeverAheadOfLinear
  <2> SUFFICES ASSUME IInv, NEW a \in Accounts, block <= endReleaseBlock
               PROVE  everLocked[a] * (endReleaseBlock - block) <= locks[a] * endReleaseBlock
    BY DEF NeverAheadOfLinear
  <2>1. a \in Holders
    BY Constants
  <2>2. canUnlockAmount(a) \in 0..locks[a]
        /\ everLocked[a] * (endReleaseBlock - block)
             <= (locks[a] - canUnlockAmount(a)) * endReleaseBlock
    BY <2>1, UnlockFacts
  <2>3. locks[a] \in Nat /\ everLocked[a] \in Nat /\ block \in Nat /\ endReleaseBlock \in Nat
    BY <2>1, HolderTypes, Constants DEF IInv
  <2> DEFINE c == canUnlockAmount(a)
  <2> HIDE DEF c
  <2>4. \A l, r \in Nat : \A u \in 0..l : (l - u) * r <= l * r
    OBVIOUS
  <2>5. (locks[a] - c) * endReleaseBlock <= locks[a] * endReleaseBlock
    BY <2>2, <2>3, <2>4 DEF c
  <2>6. (locks[a] - c) * endReleaseBlock \in Int /\ locks[a] * endReleaseBlock \in Int
        /\ everLocked[a] * (endReleaseBlock - block) \in Int
    BY <2>2, <2>3 DEF c
  <2> QED BY <2>2, <2>5, <2>6 DEF c
<1> QED BY <1>1, Invariance, PTL
-----------------------------------------------------------------------------
(* What the binary search of getPriorVotes finds. *)

\* The search as a function of the window, and the index it looks at.
Middle(lower, upper) == upper - (upper - lower) \div 2
Centre(w) == Middle(w[1], w[2])
IsSearch(f, cps, b) ==
    f = [w \in (0..(Len(cps) - 1)) \X (0..(Len(cps) - 1)) |->
            IF w[2] <= w[1] THEN cps[w[1] + 1].votes
            ELSE IF cps[Centre(w) + 1].fromBlock = b THEN cps[Centre(w) + 1].votes
            ELSE IF cps[Centre(w) + 1].fromBlock < b THEN f[<<Centre(w), w[2]>>]
            ELSE f[<<w[1], Centre(w) - 1>>]]

\* getPriorVotes chooses such a function.
LEMMA PriorUnfold ==
    ASSUME NEW a, NEW b
    PROVE  getPriorVotes(a, b)
             = IF Len(checkpoints[a]) = 0 THEN 0
               ELSE IF checkpoints[a][Len(checkpoints[a]) - 1 + 1].fromBlock <= b
                 THEN checkpoints[a][Len(checkpoints[a]) - 1 + 1].votes
               ELSE IF checkpoints[a][0 + 1].fromBlock > b THEN 0
               ELSE (CHOOSE f : IsSearch(f, checkpoints[a], b))[<<0, Len(checkpoints[a]) - 1>>]
BY Zenon DEF getPriorVotes, IsSearch, Centre, Middle

\* i is the last index of the window whose checkpoint is not after b, or its first.
Best(F, b, lower, upper, i) ==
    /\ i \in lower..upper
    /\ i = lower \/ F[i] <= b
    /\ \A j \in (i + 1)..upper : F[j] > b

\* There is at most one.
LEMMA BestUnique ==
    ASSUME NEW n \in Nat, NEW F \in [0..n -> Nat], NEW b \in Nat,
           NEW l \in 0..n, NEW u \in 0..n, NEW i, NEW j,
           Best(F, b, l, u, i), Best(F, b, l, u, j)
    PROVE  i = j
<1>1. i \in l..u /\ j \in l..u
  BY DEF Best
<1>2. ~(i < j) /\ ~(j < i)
  BY <1>1 DEF Best
<1> QED BY <1>1, <1>2

\* There is one: the last of the window, or that of the window without its last.
LEMMA BestExists ==
    ASSUME NEW n \in Nat, NEW F \in [0..n -> Nat], NEW b \in Nat,
           NEW l \in 0..n, NEW u \in 0..n, l <= u
    PROVE  \E i \in l..u : Best(F, b, l, u, i)
<1> DEFINE T == {k \in Nat : \A v \in l..n : v - l <= k => \E i \in l..v : Best(F, b, l, v, i)}
<1>1. 0 \in T
  <2> SUFFICES ASSUME NEW v \in l..n, v - l <= 0 PROVE Best(F, b, l, v, l)
    OBVIOUS
  <2> QED BY DEF Best
<1>2. ASSUME NEW k \in T PROVE k + 1 \in T
  <2> SUFFICES ASSUME NEW v \in l..n, v - l <= k + 1
               PROVE  \E i \in l..v : Best(F, b, l, v, i)
    OBVIOUS
  <2>1. CASE v = l
    BY <2>1 DEF Best
  <2>2. CASE v > l /\ F[v] <= b
    <3>1. Best(F, b, l, v, v)
      BY <2>2 DEF Best
    <3> QED BY <2>2, <3>1
  <2>3. CASE v > l /\ ~(F[v] <= b)
    <3>1. v - 1 \in l..n /\ (v - 1) - l <= k /\ F[v] > b
      BY <2>3
    <3>2. PICK i \in l..(v - 1) : Best(F, b, l, v - 1, i)
      BY <3>1, <1>2
    <3>3. Best(F, b, l, v, i)
      BY <3>1, <3>2, <2>3 DEF Best
    <3> QED BY <3>2, <3>3
  <2> QED BY <2>1, <2>2, <2>3
<1>3. Nat \subseteq T
  <2>1. T \in SUBSET Nat /\ \A k \in T : k + 1 \in T
    BY <1>2
  <2> HIDE DEF T
  <2> QED BY <1>1, <2>1, SetInduction
<1>4. u - l \in T /\ u \in l..n
  BY <1>3
<1> QED BY <1>4

Increasing(F, n) == \A i, j \in 0..n : i < j => F[i] < F[j]

\* A step of the search keeps the best index within the window.
LEMMA BestStep ==
    ASSUME NEW n \in Nat, NEW F \in [0..n -> Nat], Increasing(F, n), NEW b \in Nat,
           NEW l \in 0..n, NEW u \in 0..n, l < u, NEW c, c = Middle(l, u)
    PROVE  /\ c \in (l + 1)..u
           /\ F[c] = b => Best(F, b, l, u, c)
           /\ F[c] < b => \A i : Best(F, b, c, u, i) => Best(F, b, l, u, i)
           /\ F[c] > b => \A i : Best(F, b, l, c - 1, i) => Best(F, b, l, u, i)
<1>1. c \in (l + 1)..u
  BY DEF Middle
<1>2. \A j \in (c + 1)..u : F[j] > F[c]
  BY <1>1 DEF Increasing
<1>3. F[c] \in Nat /\ \A j \in 0..n : F[j] \in Nat
  BY <1>1
<1>4. F[c] = b => Best(F, b, l, u, c)
  BY <1>1, <1>2, <1>3 DEF Best
<1>5. ASSUME F[c] < b, NEW i, Best(F, b, c, u, i) PROVE Best(F, b, l, u, i)
  BY <1>1, <1>3, <1>5 DEF Best
<1>6. ASSUME F[c] > b, NEW i, Best(F, b, l, c - 1, i) PROVE Best(F, b, l, u, i)
  <2>1. ASSUME NEW j \in c..u PROVE F[j] > b
    <3>1. j \in 0..n /\ F[j] \in Nat /\ (j = c \/ j \in (c + 1)..u)
      BY <1>1, <1>3
    <3>2. F[j] >= F[c]
      BY <1>2, <1>3, <3>1
    <3> QED BY <1>3, <1>6, <3>1, <3>2
  <2>2. /\ i \in l..(c - 1) /\ (i = l \/ F[i] <= b)
        /\ \A j \in (i + 1)..(c - 1) : F[j] > b
    BY <1>6 DEF Best
  <2>3. i \in l..u
    BY <1>1, <2>2
  <2>4. ASSUME NEW j \in (i + 1)..u PROVE F[j] > b
    <3>1. j \in (i + 1)..(c - 1) \/ j \in c..u
      BY <1>1, <2>2
    <3> QED BY <2>1, <2>2, <3>1
  <2> QED BY <2>2, <2>3, <2>4 DEF Best
<1> QED BY <1>1, <1>4, <1>5, <1>6

\* The blocks of a list of checkpoints, on the indices of the code.
BlocksOf(cps) == [i \in 0..(Len(cps) - 1) |-> cps[i + 1].fromBlock]

\* One step of the search, c being the index in the middle.
StepAt(f, cps, b, l, u, c) ==
    /\ u <= l => f[<<l, u>>] = cps[l + 1].votes
    /\ ~(u <= l) /\ cps[c + 1].fromBlock = b => f[<<l, u>>] = cps[c + 1].votes
    /\ ~(u <= l) /\ cps[c + 1].fromBlock # b /\ cps[c + 1].fromBlock < b
         => f[<<l, u>>] = f[<<c, u>>]
    /\ ~(u <= l) /\ cps[c + 1].fromBlock # b /\ ~(cps[c + 1].fromBlock < b)
         => f[<<l, u>>] = f[<<l, c - 1>>]

\* The search takes such steps.
LEMMA SearchAt ==
    ASSUME NEW cps, NEW m \in Nat, Len(cps) = m + 1, NEW b, NEW f, IsSearch(f, cps, b),
           NEW l \in 0..m, NEW u \in 0..m, NEW c, c = Middle(l, u)
    PROVE  StepAt(f, cps, b, l, u, c)
<1> DEFINE W == (0..(Len(cps) - 1)) \X (0..(Len(cps) - 1))
           G(w) == IF w[2] <= w[1] THEN cps[w[1] + 1].votes
                   ELSE IF cps[Centre(w) + 1].fromBlock = b THEN cps[Centre(w) + 1].votes
                   ELSE IF cps[Centre(w) + 1].fromBlock < b THEN f[<<Centre(w), w[2]>>]
                   ELSE f[<<w[1], Centre(w) - 1>>]
           v == <<l, u>>
<1>1. f = [w \in W |-> G(w)]
  BY Zenon DEF IsSearch
<1>2. v \in W /\ v[1] = l /\ v[2] = u
  <2>1. 0..(Len(cps) - 1) = 0..m
    OBVIOUS
  <2> QED BY <2>1
<1> HIDE DEF W
<1>3. f[v] = G(v)
  <2> HIDE DEF G, v
  <2> QED BY <1>1, <1>2
<1>4. Centre(v) = c
  BY <1>2 DEF Centre
<1> HIDE DEF v
<1>5. f[v] = IF u <= l THEN cps[l + 1].votes
             ELSE IF cps[c + 1].fromBlock = b THEN cps[c + 1].votes
             ELSE IF cps[c + 1].fromBlock < b THEN f[<<c, u>>]
             ELSE f[<<l, c - 1>>]
  BY <1>2, <1>3, <1>4, Zenon
<1>6. v = <<l, u>>
  BY DEF v
<1> HIDE DEF G
<1> QED BY <1>5, <1>6, Zenon DEF StepAt

\* The search has found what it should, from the window on.
Finds(f, cps, F, b, lower, upper) ==
    \A i : Best(F, b, lower, upper, i) => f[<<lower, upper>>] = cps[i + 1].votes

\* Whatever satisfies the equation of the search returns the best index's votes.
LEMMA SearchFinds ==
    ASSUME NEW cps, NEW m \in Nat, Len(cps) = m + 1, NEW F, F = BlocksOf(cps),
           F \in [0..m -> Nat], Increasing(F, m), NEW b \in Nat, NEW f, IsSearch(f, cps, b),
           NEW l \in 0..m, NEW u \in 0..m, NEW i, Best(F, b, l, u, i)
    PROVE  f[<<l, u>>] = cps[i + 1].votes
<1> DEFINE P(x, y) == Finds(f, cps, F, b, x, y)
           T == {k \in Nat : \A x, y \in 0..m : x <= y /\ y - x <= k => P(x, y)}
<1> HIDE DEF P, T
<1>0. 0..(Len(cps) - 1) = 0..m /\ \A j \in 0..m : F[j] = cps[j + 1].fromBlock
  BY DEF BlocksOf
<1>1. ASSUME NEW x \in 0..m PROVE P(x, x)
  <2> SUFFICES ASSUME NEW j, Best(F, b, x, x, j) PROVE f[<<x, x>>] = cps[j + 1].votes
    BY DEF P, Finds
  <2>1. j = x
    BY DEF Best
  <2>2. x <= x /\ x \in 0..(Len(cps) - 1)
    BY <1>0
  <2>3. PICK c : c = Middle(x, x)
    OBVIOUS
  <2>4. StepAt(f, cps, b, x, x, c)
    BY <2>3, SearchAt
  <2>5. f[<<x, x>>] = cps[x + 1].votes
    BY <2>2, <2>4, Zenon DEF StepAt
  <2> QED BY <2>1, <2>5
<1>2. 0 \in T
  <2> SUFFICES ASSUME NEW x \in 0..m, NEW y \in 0..m, x <= y, y - x <= 0 PROVE P(x, y)
    BY DEF T
  <2>1. x = y
    OBVIOUS
  <2> QED BY <1>1, <2>1
<1>3. ASSUME NEW k \in T PROVE k + 1 \in T
  <2>0. k \in Nat /\ \A x, y \in 0..m : x <= y /\ y - x <= k => P(x, y)
    BY <1>3 DEF T
  <2> SUFFICES ASSUME NEW x \in 0..m, NEW y \in 0..m, x <= y, y - x <= k + 1 PROVE P(x, y)
    BY <2>0 DEF T
  <2>1. CASE x = y
    <3> QED BY <1>1, <2>1
  <2>2. CASE x < y
    <3> SUFFICES ASSUME NEW j, Best(F, b, x, y, j) PROVE f[<<x, y>>] = cps[j + 1].votes
      BY DEF P, Finds
    <3>1. PICK c : c = Middle(x, y)
      OBVIOUS
    <3>2. /\ c \in (x + 1)..y
          /\ F[c] = b => Best(F, b, x, y, c)
          /\ F[c] < b => \A z : Best(F, b, c, y, z) => Best(F, b, x, y, z)
          /\ F[c] > b => \A z : Best(F, b, x, c - 1, z) => Best(F, b, x, y, z)
      BY <2>2, <3>1, BestStep
    <3>3. c \in 0..m /\ ~(y <= x)
      BY <2>2, <3>2
    <3>8. F[c] = cps[c + 1].fromBlock /\ F[c] \in Nat
      BY <1>0, <3>3
    <3>4. /\ F[c] = b => f[<<x, y>>] = cps[c + 1].votes
          /\ F[c] # b /\ F[c] < b => f[<<x, y>>] = f[<<c, y>>]
          /\ F[c] # b /\ ~(F[c] < b) => f[<<x, y>>] = f[<<x, c - 1>>]
      <4>1. StepAt(f, cps, b, x, y, c)
        BY <3>1, SearchAt
      <4> QED BY <3>3, <3>8, <4>1, Zenon DEF StepAt
    <3>5. CASE F[c] = b
      <4>1. c = j
        BY <3>2, <3>5, BestUnique
      <4> QED BY <3>4, <3>5, <4>1
    <3>6. CASE F[c] < b
      <4>1. c <= y /\ y - c <= k /\ c \in 0..m
        BY <2>0, <3>2, <3>3
      <4>2. PICK z : Best(F, b, c, y, z)
        BY <4>1, BestExists
      <4>3. P(c, y)
        BY <2>0, <4>1
      <4>4. z = j
        BY <3>2, <3>6, <4>2, BestUnique
      <4>5. f[<<c, y>>] = cps[j + 1].votes
        BY <4>2, <4>3, <4>4 DEF P, Finds
      <4> QED BY <3>4, <3>6, <3>8, <4>5
    <3>7. CASE F[c] > b
      <4>1. x <= c - 1 /\ (c - 1) - x <= k /\ c - 1 \in 0..m
        BY <2>0, <3>2, <3>3
      <4>2. PICK z : Best(F, b, x, c - 1, z)
        BY <4>1, BestExists
      <4>3. P(x, c - 1)
        BY <2>0, <4>1
      <4>4. z = j
        BY <3>2, <3>7, <4>2, BestUnique
      <4>5. f[<<x, c - 1>>] = cps[j + 1].votes
        BY <4>2, <4>3, <4>4 DEF P, Finds
      <4>6. F[c] # b /\ ~(F[c] < b)
        BY <3>8, <3>7
      <4> QED BY <3>4, <4>5, <4>6
    <3> QED BY <3>5, <3>6, <3>7, <3>8
  <2> QED BY <2>1, <2>2
<1>4. Nat \subseteq T
  <2>1. T \in SUBSET Nat /\ \A k \in T : k + 1 \in T
    BY <1>3 DEF T
  <2> QED BY <1>2, <2>1, SetInduction
<1>5. l <= u /\ u - l \in Nat
  BY DEF Best
<1>6. u - l \in T /\ u - l <= u - l
  BY <1>4, <1>5
<1>7. P(l, u)
  BY <1>5, <1>6 DEF T
<1> QED BY <1>7 DEF P, Finds

\* There is a function that satisfies the equation: the best index's votes.
LEMMA SearchExists ==
    ASSUME NEW cps, NEW m \in Nat, Len(cps) = m + 1, NEW F, F = BlocksOf(cps),
           F \in [0..m -> Nat], Increasing(F, m), NEW b \in Nat
    PROVE  \E f : IsSearch(f, cps, b)
<1> DEFINE W == (0..(Len(cps) - 1)) \X (0..(Len(cps) - 1))
           B(l, u) == CHOOSE i \in l..u : Best(F, b, l, u, i)
           V(l, u) == IF u <= l THEN cps[l + 1].votes ELSE cps[B(l, u) + 1].votes
           g == [w \in W |-> V(w[1], w[2])]
           G(w) == IF w[2] <= w[1] THEN cps[w[1] + 1].votes
                   ELSE IF cps[Centre(w) + 1].fromBlock = b THEN cps[Centre(w) + 1].votes
                   ELSE IF cps[Centre(w) + 1].fromBlock < b THEN g[<<Centre(w), w[2]>>]
                   ELSE g[<<w[1], Centre(w) - 1>>]
<1>0. 0..(Len(cps) - 1) = 0..m /\ \A j \in 0..m : F[j] = cps[j + 1].fromBlock
  BY DEF BlocksOf
<1>1. ASSUME NEW l \in 0..m, NEW u \in 0..m, NEW i, Best(F, b, l, u, i)
      PROVE  V(l, u) = cps[i + 1].votes
  <2>1. i \in l..u
    BY <1>1 DEF Best
  <2>2. CASE u <= l
    <3>1. i = l
      BY <2>1, <2>2
    <3> QED BY <2>2, <3>1
  <2>3. CASE ~(u <= l)
    <3>1. Best(F, b, l, u, B(l, u))
      BY <1>1, <2>1
    <3> HIDE DEF B
    <3>2. B(l, u) = i
      BY <1>1, <3>1, BestUnique
    <3> QED BY <2>3, <3>2
  <2> QED BY <2>2, <2>3
<1> HIDE DEF B
<1>2. ASSUME NEW l \in 0..m, NEW u \in 0..m PROVE g[<<l, u>>] = V(l, u)
  <2>1. <<l, u>> \in W
    BY <1>0
  <2> HIDE DEF W, V
  <2>2. g[<<l, u>>] = V(<<l, u>>[1], <<l, u>>[2])
    BY <2>1
  <2> QED BY <2>2
<1> HIDE DEF g
<1>3. ASSUME NEW w \in W PROVE V(w[1], w[2]) = G(w)
  <2>1. PICK l \in 0..m, u \in 0..m : w = <<l, u>>
    BY <1>0, <1>3
  <2>2. w[1] = l /\ w[2] = u
    BY <2>1
  <2>3. PICK c : c = Middle(l, u)
    OBVIOUS
  <2>4. Centre(w) = c
    BY <2>2, <2>3 DEF Centre
  <2>5. CASE u <= l
    BY <2>2, <2>5
  <2>6. CASE ~(u <= l)
    <3>1. l < u
      BY <2>6
    <3>2. /\ c \in (l + 1)..u
          /\ F[c] = b => Best(F, b, l, u, c)
          /\ F[c] < b => \A z : Best(F, b, c, u, z) => Best(F, b, l, u, z)
          /\ F[c] > b => \A z : Best(F, b, l, c - 1, z) => Best(F, b, l, u, z)
      BY <2>3, <3>1, BestStep
    <3>3. c \in 0..m /\ c - 1 \in 0..m /\ c <= u /\ l <= c - 1
      BY <3>2
    <3>4. F[c] = cps[c + 1].fromBlock /\ F[c] \in Nat
      BY <1>0, <3>3
    <3>5. G(w) = IF F[c] = b THEN cps[c + 1].votes
                 ELSE IF F[c] < b THEN g[<<c, u>>] ELSE g[<<l, c - 1>>]
      BY <2>2, <2>4, <2>6, <3>4, Zenon
    <3> HIDE DEF G, V
    <3>6. CASE F[c] = b
      <4>1. V(l, u) = cps[c + 1].votes
        BY <1>1, <3>2, <3>6
      <4> QED BY <2>2, <3>5, <3>6, <4>1
    <3>7. CASE F[c] < b
      <4>1. PICK z : Best(F, b, c, u, z)
        BY <3>3, BestExists
      <4>2. V(l, u) = cps[z + 1].votes /\ V(c, u) = cps[z + 1].votes
        BY <1>1, <3>2, <3>3, <3>7, <4>1
      <4>3. g[<<c, u>>] = V(c, u)
        BY <1>2, <3>3
      <4>4. F[c] # b
        BY <3>4, <3>7
      <4> QED BY <2>2, <3>5, <3>7, <4>2, <4>3, <4>4
    <3>8. CASE F[c] > b
      <4>1. PICK z : Best(F, b, l, c - 1, z)
        BY <3>3, BestExists
      <4>2. V(l, u) = cps[z + 1].votes /\ V(l, c - 1) = cps[z + 1].votes
        BY <1>1, <3>2, <3>3, <3>8, <4>1
      <4>3. g[<<l, c - 1>>] = V(l, c - 1)
        BY <1>2, <3>3
      <4>4. F[c] # b /\ ~(F[c] < b)
        BY <3>4, <3>8
      <4> QED BY <2>2, <3>5, <4>2, <4>3, <4>4
    <3> QED BY <3>4, <3>6, <3>7, <3>8
  <2> QED BY <2>5, <2>6
<1>4. g = [w \in W |-> G(w)]
  <2>1. g = [w \in W |-> V(w[1], w[2])]
    BY DEF g
  <2> HIDE DEF W, V, G
  <2> QED BY <1>3, <2>1
<1>5. IsSearch(g, cps, b)
  BY <1>4, Zenon DEF IsSearch
<1> QED BY <1>5
-----------------------------------------------------------------------------
(* The checkpoints keep the votes of past blocks. *)

Checkpoint == [fromBlock : Nat, votes : Int]

\* In the order of their blocks, which have begun.
Ordered(cps, now) ==
    /\ \A i, j \in 1..Len(cps) : i < j => cps[i].fromBlock < cps[j].fromBlock
    /\ \A i \in 1..Len(cps) : cps[i].fromBlock <= now

\* The votes v are those of the last checkpoint not after block b, if there is one.
Answers(cps, b, v) ==
    \/ v = 0 /\ \A i \in 1..Len(cps) : cps[i].fromBlock > b
    \/ \E i \in 1..Len(cps) :
          /\ cps[i].fromBlock <= b /\ v = cps[i].votes
          /\ \A j \in (i + 1)..Len(cps) : cps[j].fromBlock > b

\* getPriorVotes gives that answer.
LEMMA PriorVotesAnswer ==
    ASSUME NEW a, NEW b \in Nat, NEW v, NEW now, checkpoints[a] \in Seq(Checkpoint),
           Ordered(checkpoints[a], now), Answers(checkpoints[a], b, v)
    PROVE  getPriorVotes(a, b) = v
<1> DEFINE cps == checkpoints[a]
           n == Len(cps)
<1>1. n \in Nat /\ \A i \in 1..n : cps[i] \in Checkpoint
  OBVIOUS
<1>2. \A i \in 1..n : cps[i].fromBlock \in Nat
  BY <1>1 DEF Checkpoint
<1>3. getPriorVotes(a, b)
        = IF n = 0 THEN 0
          ELSE IF cps[n - 1 + 1].fromBlock <= b THEN cps[n - 1 + 1].votes
          ELSE IF cps[0 + 1].fromBlock > b THEN 0
          ELSE (CHOOSE f : IsSearch(f, cps, b))[<<0, n - 1>>]
  BY PriorUnfold, Zenon
<1>4. /\ Answers(cps, b, v) /\ \A i, j \in 1..n : i < j => cps[i].fromBlock < cps[j].fromBlock
  BY DEF Ordered
<1> HIDE DEF cps
<1>5. n \in Nat
  BY <1>1
<1> HIDE DEF n
<1>6. CASE n = 0
  BY <1>3, <1>4, <1>6 DEF Answers, n
<1>7. CASE n # 0
  <2>1. n \in 1..n /\ 1 \in 1..n /\ n - 1 + 1 = n /\ 0 + 1 = 1
    BY <1>5, <1>7
  <2>2. CASE cps[n].fromBlock <= b
    <3>1. getPriorVotes(a, b) = cps[n].votes
      BY <1>3, <1>7, <2>1, <2>2
    <3>2. v = cps[n].votes
      <4>1. ASSUME NEW i \in 1..n, \A j \in (i + 1)..n : cps[j].fromBlock > b PROVE i = n
        <5>1. n \in (i + 1)..n \/ i = n
          BY <1>5
        <5> QED BY <1>2, <2>1, <2>2, <4>1, <5>1
      <4>2. ~(\A i \in 1..n : cps[i].fromBlock > b)
        BY <1>2, <2>1, <2>2
      <4> QED BY <1>4, <4>1, <4>2 DEF Answers, n
    <3> QED BY <3>1, <3>2
  <2>3. CASE ~(cps[n].fromBlock <= b) /\ cps[1].fromBlock > b
    <3>1. getPriorVotes(a, b) = 0
      BY <1>3, <1>7, <2>1, <2>3
    <3>2. ASSUME NEW i \in 1..n PROVE ~(cps[i].fromBlock <= b)
      <4>1. i = 1 \/ cps[1].fromBlock < cps[i].fromBlock
        BY <1>4, <2>1
      <4> QED BY <1>2, <2>1, <2>3, <4>1
    <3>3. v = 0
      BY <1>4, <3>2 DEF Answers, n
    <3> QED BY <3>1, <3>3
  <2>4. CASE ~(cps[n].fromBlock <= b) /\ ~(cps[1].fromBlock > b)
    <3> DEFINE F == BlocksOf(cps)
               m == n - 1
               f == CHOOSE f : IsSearch(f, cps, b)
    <3>1. m \in Nat /\ n = m + 1 /\ 0..(Len(cps) - 1) = 0..m
      BY <1>5, <1>7 DEF n
    <3>2. \A j \in 0..m : F[j] = cps[j + 1].fromBlock /\ j + 1 \in 1..n
      BY <3>1 DEF BlocksOf
    <3>3. F \in [0..m -> Nat]
      <4>1. F = [j \in 0..m |-> cps[j + 1].fromBlock]
        BY <3>1 DEF BlocksOf
      <4> QED BY <1>2, <3>2, <4>1
    <3>4. Increasing(F, m)
      BY <1>4, <3>1, <3>2 DEF Increasing
    <3> HIDE DEF F, m
    <3>5. IsSearch(f, cps, b)
      <4>1. \E h : IsSearch(h, cps, b)
        BY <3>1, <3>3, <3>4, SearchExists DEF F, n
      <4> QED BY <4>1
    <3> HIDE DEF f
    <3>6. getPriorVotes(a, b) = f[<<0, n - 1>>]
      BY <1>3, <1>7, <2>1, <2>4, Zenon DEF f
    <3>7. PICK i \in 1..n : /\ cps[i].fromBlock <= b /\ v = cps[i].votes
                            /\ \A j \in (i + 1)..n : cps[j].fromBlock > b
      BY <1>4, <2>1, <2>4 DEF Answers, n
    <3>8. i - 1 \in 0..m /\ (i - 1) + 1 = i /\ i \in Nat
      BY <3>1
    <3>9. Best(F, b, 0, m, i - 1)
      <4>1. F[i - 1] <= b
        BY <3>2, <3>7, <3>8
      <4>2. ASSUME NEW j \in i..m PROVE F[j] > b
        <5>1. j + 1 \in (i + 1)..n /\ j \in 0..m
          BY <3>1, <3>8
        <5> QED BY <3>2, <3>7, <5>1
      <4> QED BY <3>8, <4>1, <4>2 DEF Best
    <3>10. f[<<0, m>>] = cps[(i - 1) + 1].votes
      <4>1. 0 \in 0..m /\ m \in 0..m /\ F = BlocksOf(cps) /\ Len(cps) = m + 1
        BY <3>1 DEF F, n
      <4>2. PICK k : k = i - 1
        OBVIOUS
      <4>3. Best(F, b, 0, m, k)
        BY <3>9, <4>2
      <4>4. f[<<0, m>>] = cps[k + 1].votes
        BY <3>1, <3>3, <3>4, <3>5, <4>1, <4>3, SearchFinds
      <4> QED BY <4>2, <4>4
    <3> QED BY <3>6, <3>7, <3>8, <3>10 DEF m
  <2> QED BY <2>2, <2>3, <2>4
<1> QED BY <1>6, <1>7

\* What the account had at the end of every past block can be read off its checkpoints.
VotesKept ==
    /\ checkpoints \in [Holders -> Seq(Checkpoint)]
    /\ votesAt \in [0..MaxBlock -> [Holders -> Int]]
    /\ \A a \in Holders : Ordered(checkpoints[a], block)
    /\ \A a \in Holders, b \in 0..MaxBlock :
          b < block => Answers(checkpoints[a], b, votesAt[b][a])

\* A list that takes the place of another in the current block and answers as it did
\* for every block before.
Replaces(new, cps) ==
    /\ new \in Seq(Checkpoint) /\ Ordered(new, block)
    /\ \A b \in Nat : \A v : b < block /\ Answers(cps, b, v) => Answers(new, b, v)

\* _writeCheckpoint changes the last checkpoint only if it is of this block.
LEMMA WriteReplaces ==
    ASSUME block \in Nat, NEW cps \in Seq(Checkpoint), Ordered(cps, block), NEW v \in Int
    PROVE  Replaces(writeCheckpoint(cps, v), cps)
<1> DEFINE n == Len(cps)
           new == writeCheckpoint(cps, v)
           last == [fromBlock |-> block, votes |-> v]
<1>1. n \in Nat /\ cps \in [1..n -> Checkpoint] /\ last \in Checkpoint
  <2>1. n \in Nat /\ cps \in [1..n -> Checkpoint]
    OBVIOUS
  <2>2. last \in Checkpoint
    BY DEF Checkpoint
  <2> QED BY <2>1, <2>2
<1>2. \A i \in 1..n : cps[i].fromBlock \in Nat
  BY <1>1 DEF Checkpoint
<1>3. /\ \A i, j \in 1..n : i < j => cps[i].fromBlock < cps[j].fromBlock
      /\ \A i \in 1..n : cps[i].fromBlock <= block
  BY DEF Ordered
<1>4. CASE cps # <<>> /\ cps[n].fromBlock = block
  <2>1. n \in 1..n
    BY <1>4
  <2>2. new = [cps EXCEPT ![n].votes = v]
    BY <1>4 DEF writeCheckpoint
  <2>3. new \in [1..n -> Checkpoint]
    BY <1>1, <2>1, <2>2 DEF Checkpoint
  <2>4. new \in Seq(Checkpoint) /\ Len(new) = n
    BY <1>1, <2>3
  <2>5. \A i \in 1..n : new[i].fromBlock = cps[i].fromBlock /\ (i # n => new[i] = cps[i])
    BY <1>1, <2>1, <2>2 DEF Checkpoint
  <2> HIDE DEF new
  <2>6. Ordered(new, block)
    BY <1>3, <2>4, <2>5 DEF Ordered
  <2>7. ASSUME NEW b \in Nat, NEW x, b < block, Answers(cps, b, x) PROVE Answers(new, b, x)
    <3>1. CASE x = 0 /\ \A i \in 1..n : cps[i].fromBlock > b
      BY <2>4, <2>5, <3>1 DEF Answers
    <3>2. ASSUME NEW i \in 1..n, cps[i].fromBlock <= b, x = cps[i].votes,
                 \A j \in (i + 1)..n : cps[j].fromBlock > b
          PROVE  Answers(new, b, x)
      <4>1. i # n
        BY <1>2, <1>4, <2>1, <2>7, <3>2
      <4>2. new[i] = cps[i] /\ \A j \in (i + 1)..n : j \in 1..n
        BY <2>5, <4>1
      <4>3. \A j \in (i + 1)..n : new[j].fromBlock > b
        BY <2>5, <3>2, <4>2
      <4> QED BY <2>4, <3>2, <4>2, <4>3 DEF Answers
    <3> QED BY <2>7, <3>1, <3>2 DEF Answers
  <2> QED BY <2>4, <2>6, <2>7 DEF Replaces, new
<1>5. CASE ~(cps # <<>> /\ cps[n].fromBlock = block)
  <2>1. new = Append(cps, last)
    BY <1>5 DEF writeCheckpoint
  <2>2. new \in Seq(Checkpoint) /\ Len(new) = n + 1
    BY <1>1, <2>1
  <2>3. new[n + 1] = last /\ \A i \in 1..n : new[i] = cps[i]
    BY <1>1, <2>1
  <2>4. \A i \in 1..n : cps[i].fromBlock < block
    <3> SUFFICES ASSUME NEW i \in 1..n PROVE cps[i].fromBlock < block
      OBVIOUS
    <3>1. n \in 1..n /\ cps # <<>> /\ cps[n].fromBlock # block
      BY <1>1, <1>5
    <3>2. cps[n].fromBlock < block
      BY <1>2, <1>3, <3>1
    <3>3. i = n \/ cps[i].fromBlock < cps[n].fromBlock
      BY <1>3, <3>1
    <3> QED BY <1>2, <3>1, <3>2, <3>3
  <2>5. new[n + 1].fromBlock = block
    BY <2>3
  <2> HIDE DEF new, last
  <2>6. Ordered(new, block)
    <3>1. ASSUME NEW i \in 1..(n + 1), NEW j \in 1..(n + 1), i < j
          PROVE  new[i].fromBlock < new[j].fromBlock
      <4>1. i \in 1..n /\ (j = n + 1 \/ j \in 1..n)
        BY <1>1, <3>1
      <4> QED BY <1>3, <2>3, <2>4, <2>5, <3>1, <4>1
    <3>2. ASSUME NEW i \in 1..(n + 1) PROVE new[i].fromBlock <= block
      <4>1. i = n + 1 \/ i \in 1..n
        BY <1>1
      <4> QED BY <1>3, <2>3, <2>5, <4>1
    <3> QED BY <2>2, <3>1, <3>2 DEF Ordered
  <2>7. ASSUME NEW b \in Nat, NEW x, b < block, Answers(cps, b, x) PROVE Answers(new, b, x)
    <3>0. new[n + 1].fromBlock > b
      BY <2>5, <2>7
    <3>1. CASE x = 0 /\ \A i \in 1..n : cps[i].fromBlock > b
      <4>1. ASSUME NEW i \in 1..(n + 1) PROVE new[i].fromBlock > b
        <5>1. i = n + 1 \/ i \in 1..n
          BY <1>1
        <5> QED BY <2>3, <3>0, <3>1, <5>1
      <4> QED BY <2>2, <3>1, <4>1 DEF Answers
    <3>2. ASSUME NEW i \in 1..n, cps[i].fromBlock <= b, x = cps[i].votes,
                 \A j \in (i + 1)..n : cps[j].fromBlock > b
          PROVE  Answers(new, b, x)
      <4>1. i \in 1..(n + 1) /\ new[i] = cps[i]
        BY <1>1, <2>3
      <4>2. ASSUME NEW j \in (i + 1)..(n + 1) PROVE new[j].fromBlock > b
        <5>1. j = n + 1 \/ (j \in (i + 1)..n /\ j \in 1..n)
          BY <1>1
        <5> QED BY <2>3, <3>0, <3>2, <5>1
      <4> QED BY <2>2, <3>2, <4>1, <4>2 DEF Answers
    <3> QED BY <2>7, <3>1, <3>2 DEF Answers
  <2> QED BY <2>2, <2>6, <2>7 DEF Replaces, new
<1> QED BY <1>4, <1>5

\* The votes of a list are an integer.
LEMMA VotesType == ASSUME NEW cps \in Seq(Checkpoint) PROVE currentVotes(cps) \in Int
<1>1. CASE cps = <<>>
  BY <1>1 DEF currentVotes
<1>2. CASE cps # <<>>
  <2>1. cps[Len(cps)] \in Checkpoint
    BY <1>2
  <2> QED BY <1>2, <2>1 DEF currentVotes, Checkpoint
<1> QED BY <1>1, <1>2

\* _moveDelegates writes at most one checkpoint for each of the two.
LEMMA MoveReplaces ==
    ASSUME block \in Nat, VotesKept, NEW src, NEW dst, NEW amount \in Int
    PROVE  /\ moveDelegates(src, dst, amount) \in [Holders -> Seq(Checkpoint)]
           /\ \A a \in Holders : Replaces(moveDelegates(src, dst, amount)[a], checkpoints[a])
<1> DEFINE new == moveDelegates(src, dst, amount)
<1>1. ASSUME NEW a \in Holders PROVE Replaces(checkpoints[a], checkpoints[a])
  BY DEF VotesKept, Replaces
<1>2. ASSUME NEW a \in Holders, NEW v \in Int
      PROVE  Replaces(writeCheckpoint(checkpoints[a], v), checkpoints[a])
  BY WriteReplaces DEF VotesKept
<1>3. checkpoints \in [Holders -> Seq(Checkpoint)]
  BY DEF VotesKept
<1>4. ASSUME NEW a \in Holders
      PROVE  /\ currentVotes(checkpoints[a]) - amount \in Int
             /\ currentVotes(checkpoints[a]) + amount \in Int
  <2>1. checkpoints[a] \in Seq(Checkpoint)
    BY <1>3
  <2>2. currentVotes(checkpoints[a]) \in Int
    BY <2>1, VotesType
  <2> QED BY <2>2
<1>5. CASE src = dst \/ amount = 0
  <2>1. new = checkpoints
    BY <1>5 DEF moveDelegates
  <2> QED BY <1>1, <1>3, <2>1
<1>6. CASE ~(src = dst \/ amount = 0)
  <2> DEFINE N(a) ==
        CASE a = src -> writeCheckpoint(checkpoints[a], currentVotes(checkpoints[a]) - amount)
          [] a = dst -> writeCheckpoint(checkpoints[a], currentVotes(checkpoints[a]) + amount)
          [] OTHER -> checkpoints[a]
  <2>1. new = [a \in Holders |-> N(a)]
    BY <1>6, Zenon DEF moveDelegates
  <2>2. ASSUME NEW a \in Holders PROVE Replaces(N(a), checkpoints[a])
    <3>1. CASE a = src
      <4>1. N(a) = writeCheckpoint(checkpoints[a], currentVotes(checkpoints[a]) - amount)
        BY <1>6, <3>1
      <4> HIDE DEF N
      <4> QED BY <1>2, <1>4, <4>1
    <3>2. CASE a # src /\ a = dst
      <4>1. N(a) = writeCheckpoint(checkpoints[a], currentVotes(checkpoints[a]) + amount)
        BY <1>6, <3>2
      <4> HIDE DEF N
      <4> QED BY <1>2, <1>4, <4>1
    <3>3. CASE a # src /\ a # dst
      <4>1. N(a) = checkpoints[a]
        BY <3>3
      <4> HIDE DEF N
      <4> QED BY <1>1, <4>1
    <3> QED BY <3>1, <3>2, <3>3
  <2> HIDE DEF N
  <2>3. \A a \in Holders : N(a) \in Seq(Checkpoint)
    BY <2>2 DEF Replaces
  <2> QED BY <2>1, <2>2, <2>3
<1> QED BY <1>5, <1>6

\* The constructor moves no votes.
LEMMA VotesInit == Init => VotesKept
<1> SUFFICES ASSUME Init PROVE VotesKept
  OBVIOUS
<1>1. checkpoints = [a \in Holders |-> <<>>] /\ block = 0
  BY DEF Init
<1>2. votesAt = [b \in 0..MaxBlock |-> [a \in Holders |-> 0]]
  BY DEF Init
<1>3. ASSUME NEW a \in Holders PROVE Ordered(checkpoints[a], block)
  BY <1>1 DEF Ordered
<1>4. checkpoints \in [Holders -> Seq(Checkpoint)]
  BY <1>1
<1>5. votesAt \in [0..MaxBlock -> [Holders -> Int]]
  BY <1>2
<1>6. \A b \in 0..MaxBlock : ~(b < block)
  BY <1>1, HuskyTokenAssumption
<1> QED BY <1>3, <1>4, <1>5, <1>6 DEF VotesKept

\* The votes at the end of a block are what its checkpoints answer for that block.
LEMMA LastAnswers ==
    ASSUME NEW cps \in Seq(Checkpoint), NEW now \in Nat, Ordered(cps, now)
    PROVE  Answers(cps, now, currentVotes(cps)) /\ Ordered(cps, now + 1)
<1>1. Len(cps) \in Nat /\ \A i \in 1..Len(cps) : cps[i] \in Checkpoint
  OBVIOUS
<1>2. \A i \in 1..Len(cps) : cps[i].fromBlock \in Nat
  BY <1>1 DEF Checkpoint
<1>3. Ordered(cps, now + 1)
  BY <1>2 DEF Ordered
<1>4. CASE cps = <<>>
  <2>1. Len(cps) = 0 /\ currentVotes(cps) = 0
    BY <1>4 DEF currentVotes
  <2> QED BY <1>3, <2>1 DEF Answers
<1>5. CASE cps # <<>>
  <2>1. Len(cps) \in 1..Len(cps) /\ (Len(cps) + 1)..Len(cps) = {}
    BY <1>1, <1>5
  <2>2. currentVotes(cps) = cps[Len(cps)].votes
    BY <1>5 DEF currentVotes
  <2>3. cps[Len(cps)].fromBlock <= now
    BY <2>1 DEF Ordered
  <2> QED BY <1>3, <2>1, <2>2, <2>3 DEF Answers
<1> QED BY <1>4, <1>5

\* The end of a block records everyone's votes.
LEMMA VotesTick ==
    ASSUME TypeOK, VotesKept, Tick
    PROVE  VotesKept'
<1>1. /\ checkpoints \in [Holders -> Seq(Checkpoint)]
      /\ votesAt \in [0..MaxBlock -> [Holders -> Int]]
      /\ \A a \in Holders : Ordered(checkpoints[a], block)
      /\ \A a \in Holders, b \in 0..MaxBlock :
            b < block => Answers(checkpoints[a], b, votesAt[b][a])
  BY DEF VotesKept
<1>2. /\ block' = block + 1 /\ checkpoints' = checkpoints
      /\ votesAt' = [votesAt EXCEPT ![block] =
                        [a \in Holders |-> currentVotes(checkpoints[a])]]
  BY DEF Tick, voteVars
<1>3. block \in 0..MaxBlock /\ MaxBlock \in Nat /\ block \in Nat
  BY HuskyTokenAssumption DEF TypeOK
<1>4. ASSUME NEW a \in Holders
      PROVE  /\ currentVotes(checkpoints[a]) \in Int
             /\ Answers(checkpoints[a], block, currentVotes(checkpoints[a]))
             /\ Ordered(checkpoints[a], block + 1)
  <2>1. checkpoints[a] \in Seq(Checkpoint)
    BY <1>1
  <2> QED BY <1>1, <1>3, <2>1, VotesType, LastAnswers
<1>5. votesAt' \in [0..MaxBlock -> [Holders -> Int]]
  BY <1>1, <1>2, <1>3, <1>4
<1>6. /\ \A b \in 0..MaxBlock : b # block => votesAt'[b] = votesAt[b]
      /\ \A a \in Holders : votesAt'[block][a] = currentVotes(checkpoints[a])
  BY <1>1, <1>2, <1>3
<1>7. ASSUME NEW a \in Holders, NEW b \in 0..MaxBlock, b < block + 1
      PROVE  Answers(checkpoints[a], b, votesAt'[b][a])
  <2>1. CASE b = block
    BY <1>4, <1>6, <2>1
  <2>2. CASE b # block
    <3>1. b < block /\ votesAt'[b][a] = votesAt[b][a]
      BY <1>3, <1>6, <1>7, <2>2
    <3> QED BY <1>1, <3>1
  <2> QED BY <2>1, <2>2
<1> QED BY <1>1, <1>2, <1>4, <1>5, <1>7 DEF VotesKept

\* No operation of a block changes what was answered for an earlier one.
LEMMA VotesReplaced ==
    ASSUME VotesKept, block' = block, votesAt' = votesAt,
           checkpoints' \in [Holders -> Seq(Checkpoint)],
           \A a \in Holders : Replaces(checkpoints'[a], checkpoints[a])
    PROVE  VotesKept'
<1>1. /\ votesAt' \in [0..MaxBlock -> [Holders -> Int]]
      /\ \A a \in Holders : Ordered(checkpoints'[a], block')
  BY DEF VotesKept, Replaces
<1>2. ASSUME NEW a \in Holders, NEW b \in 0..MaxBlock, b < block'
      PROVE  Answers(checkpoints'[a], b, votesAt'[b][a])
  <2>1. b \in Nat /\ b < block /\ Answers(checkpoints[a], b, votesAt[b][a])
    BY <1>2, HuskyTokenAssumption DEF VotesKept
  <2> QED BY <2>1 DEF Replaces
<1> QED BY <1>1, <1>2 DEF VotesKept

\* Nor does one that moves the votes of an amount.
LEMMA VotesMoved ==
    ASSUME TypeOK, VotesKept, NEW src, NEW dst, NEW amount \in Int,
           UNCHANGED <<block, votesAt>>,
           checkpoints' = moveDelegates(src, dst, amount)
    PROVE  VotesKept'
<1>1. block \in Nat
  BY HuskyTokenAssumption DEF TypeOK
<1> QED BY <1>1, MoveReplaces, VotesReplaced

\* Every step keeps the votes of the past blocks readable.
LEMMA VotesStep == TypeOK /\ VotesKept /\ [Next]_vars => VotesKept'
<1> SUFFICES ASSUME TypeOK, VotesKept, [Next]_vars PROVE VotesKept'
  OBVIOUS
<1>1. \A a \in Accounts : balance[a] \in Int
  BY Constants DEF TypeOK
<1>2. CASE Tick
  BY <1>2, VotesTick
<1>3. ASSUME UNCHANGED <<block, voteVars, votesAt>> PROVE VotesKept'
  BY <1>3 DEF VotesKept, voteVars
<1>4. ASSUME NEW a \in Accounts, NEW d, delegate(a, d) PROVE VotesKept'
  BY <1>1, <1>4, VotesMoved DEF delegate
<1>5. ASSUME NEW a \in Accounts, NEW amount \in Amounts, mintTo(a, amount) PROVE VotesKept'
  <2>1. amount \in Int
    BY Constants
  <2> QED BY <1>5, <2>1, VotesMoved DEF mintTo
<1>6. ASSUME NEW a \in Accounts, NEW to \in Holders, NEW amount \in Amounts,
             transfer(a, to, amount)
      PROVE  VotesKept'
  <2>1. amount \in Int
    BY Constants
  <2> QED BY <1>6, <2>1, VotesMoved DEF transfer
<1>7. ASSUME NEW a \in Accounts, unlock(a) PROVE VotesKept'
  BY <1>3, <1>7 DEF unlock
<1>8. ASSUME NEW a \in Accounts, NEW to \in Holders, transferAll(a, to) PROVE VotesKept'
  BY <1>3, <1>8 DEF transferAll
<1>9. ASSUME NEW a \in Accounts, NEW amount \in Amounts,
             burn(a, amount) \/ lock(a, amount) \/ lockToOwner(a, amount)
      PROVE  VotesKept'
  BY <1>3, <1>9 DEF burn, lock, lockToOwner
<1>10. CASE UNCHANGED vars
  BY <1>3, <1>10 DEF vars
<1> QED BY <1>2, <1>4, <1>5, <1>6, <1>7, <1>8, <1>9, <1>10 DEF Next, mint, manualMint

\* getPriorVotes always returns the votes an account had at the end of the past
\* block asked for: no later mint, transfer or delegation changes the answer, and the
\* binary search finds it in a list of any length.
THEOREM PriorVotesAlwaysCorrect == Spec => []PriorVotesCorrect
<1>1. Spec => []VotesKept
  BY VotesInit, VotesStep, TokenTypeCorrect, PTL DEF Spec
<1>2. VotesKept => PriorVotesCorrect
  <2> SUFFICES ASSUME VotesKept, NEW a \in Accounts, NEW b \in 0..MaxBlock, b < block
               PROVE  getPriorVotes(a, b) = votesAt[b][a]
    BY DEF PriorVotesCorrect
  <2>1. a \in Holders /\ b \in Nat
    BY Constants, HuskyTokenAssumption
  <2>2. /\ checkpoints[a] \in Seq(Checkpoint) /\ Ordered(checkpoints[a], block)
        /\ Answers(checkpoints[a], b, votesAt[b][a])
    BY <2>1 DEF VotesKept
  <2> QED BY <2>1, <2>2, PriorVotesAnswer
<1> QED BY <1>1, <1>2, PTL
=============================================================================
