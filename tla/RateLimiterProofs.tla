------------------------- MODULE RateLimiterProofs ---------------------------
(***************************************************************************)
(* Proofs about RateLimiter, for every number of futures, supply and       *)
(* window.  TypeOK needs only that a claimed window lies in the future of  *)
(* the old one (ExchangesForward).  Both bounds come from budgets that no  *)
(* step increases, the refinement of TokenBucket from the budget of the    *)
(* long run, and the window in which a sleeper wakes from arithmetic and   *)
(* what its duration reaches while the clock moves on (DurationReaches).   *)
(***************************************************************************)
EXTENDS RateLimiter, FiniteSetTheorems, TLAPS

\* A future that tries to claim a window computed a later one than it loaded.
ExchangesForward == \A t \in Task : pc[t] = "exchange" => old[t] < new[t]

Typed == TypeOK /\ ExchangesForward

-----------------------------------------------------------------------------
\* The window of the clock is a number and never moves back.
LEMMA WindowOrder ==
    ASSUME NEW a \in Nat, NEW b \in Nat, a <= b, NEW w \in Nat \ {0}
    PROVE  /\ a \div w \in Nat
           /\ b \div w \in Nat
           /\ b \div w >= a \div w
PROOF
  <1> DEFINE q == a \div w
             r == a % w
             p == b \div w
             s == b % w
  <1>1. q \in Int /\ r \in 0..(w - 1) /\ a = w * q + r
    OBVIOUS
  <1>2. p \in Int /\ s \in 0..(w - 1) /\ b = w * p + s
    OBVIOUS
  <1> HIDE DEF q, r, p, s
  <1>3. q >= 0 /\ p >= 0
    BY <1>1, <1>2
  <1>4. p >= q
    <2> SUFFICES ASSUME p < q PROVE FALSE
      BY <1>1, <1>2
    <2>1. q - p - 1 \in Nat
      BY <1>1, <1>2
    <2>2. w * (q - p - 1) >= 0
      BY <2>1
    <2>3. w * (q - p - 1) = w * q - w * p - w
      BY <1>1, <1>2
    <2> QED
      BY <1>1, <1>2, <2>2, <2>3
  <1> QED
    BY <1>1, <1>2, <1>3, <1>4 DEF q, p

LEMMA WindowMonotone ==
    ASSUME NEW a \in Nat, NEW w \in Nat \ {0}
    PROVE  /\ a \div w \in Nat
           /\ (a + 1) \div w \in Nat
           /\ (a + 1) \div w >= a \div w
PROOF
  <1>1. a + 1 \in Nat /\ a <= a + 1
    OBVIOUS
  <1> QED
    BY <1>1, WindowOrder

LEMMA WindowType ==
    ASSUME Typed
    PROVE  CurrentWindow \in Nat
BY WindowMonotone, WindowAssumption, MaxTimeAssumption DEF Typed, TypeOK, CurrentWindow

\* A step of a future leaves the clock alone.
LEMMA StepKeepsClock ==
    ASSUME NEW t \in Task, Step(t)
    PROVE  now' = now /\ CurrentWindow' = CurrentWindow
BY DEF Step, Run, LoadWindow, ReadElapsed, ExchangeWindow, StoreSupply, TakeToken,
    ReadRemainder, Sleep, Wake, Complete, CurrentWindow

LEMMA TickMovesWindowOn ==
    ASSUME Typed, Tick
    PROVE  CurrentWindow' \in Nat /\ CurrentWindow' >= CurrentWindow
PROOF
  <1>1. now \in Nat
    BY MaxTimeAssumption DEF Typed, TypeOK
  <1> QED
    BY <1>1, WindowMonotone, WindowAssumption DEF CurrentWindow, Tick

LEMMA InitTyped == Init => Typed
PROOF
  <1> SUFFICES ASSUME Init PROVE Typed
    OBVIOUS
  <1>1. CurrentWindow \in Nat
    BY WindowMonotone, WindowAssumption DEF Init, CurrentWindow
  <1>2. 0 \in 0..CurrentWindow /\ 0 \in 0..Window /\ 0 \in 0..MaxTime /\ 0 \in Nat
    BY <1>1, WindowAssumption, MaxTimeAssumption
  <1>3. refused \in [Task -> 0..CurrentWindow] /\ duration \in [Task -> 0..Window]
    BY <1>2 DEF Init
  <1> QED
    BY <1>1, <1>2, <1>3, SupplyAssumption, MaxTimeAssumption
       DEF Init, Typed, TypeOK, ExchangesForward, PC

LEMMA StepTyped ==
    ASSUME Typed, NEW t \in Task, Step(t)
    PROVE  Typed'
PROOF
  <1> USE SupplyAssumption, WindowAssumption, MaxTimeAssumption
  <1> USE DEF Typed, TypeOK, ExchangesForward, PC, Goto, sleepVars
  <1>1. CurrentWindow \in Nat /\ CurrentWindow' = CurrentWindow
    BY WindowType, StepKeepsClock
  <1> HIDE DEF CurrentWindow
  <1>2. CASE Run(t)
    BY <1>1, <1>2 DEF Run
  <1>3. CASE LoadWindow(t)
    BY <1>1, <1>3 DEF LoadWindow
  <1>4. CASE ReadElapsed(t)
    BY <1>1, <1>4 DEF ReadElapsed
  <1>5. CASE ExchangeWindow(t)
    BY <1>1, <1>5 DEF ExchangeWindow
  <1>6. CASE StoreSupply(t)
    BY <1>1, <1>6 DEF StoreSupply
  <1>7. CASE TakeToken(t)
    BY <1>1, <1>7 DEF TakeToken
  <1>8. CASE ReadRemainder(t)
    <2>1. Window - (now % Window) \in 0..Window
      OBVIOUS
    <2> QED
      BY <1>1, <1>8, <2>1 DEF ReadRemainder
  <1>9. CASE Sleep(t)
    BY <1>1, <1>9 DEF Sleep
  <1>10. CASE Wake(t)
    BY <1>1, <1>10 DEF Wake
  <1>11. CASE Complete(t)
    BY <1>1, <1>11 DEF Complete
  <1> QED
    BY <1>2, <1>3, <1>4, <1>5, <1>6, <1>7, <1>8, <1>9, <1>10, <1>11 DEF Step

LEMMA TickTyped ==
    ASSUME Typed, Tick
    PROVE  Typed'
PROOF
  <1>1. CurrentWindow \in Nat /\ CurrentWindow' \in Nat /\ CurrentWindow' >= CurrentWindow
    BY WindowType, TickMovesWindowOn
  <1> QED
    BY <1>1, MaxTimeAssumption DEF Typed, TypeOK, ExchangesForward, Tick, sleepVars

LEMMA StutterTyped ==
    ASSUME Typed, UNCHANGED vars
    PROVE  Typed'
BY DEF Typed, TypeOK, ExchangesForward, CurrentWindow, vars, sleepVars

LEMMA NextTyped ==
    ASSUME Typed, [Next]_vars
    PROVE  Typed'
BY StepTyped, TickTyped, StutterTyped DEF Next

\* Type correctness for every number of futures, supply and window.
THEOREM TypeCorrect == Spec => []TypeOK
PROOF
  <1>1. Init => Typed
    BY InitTyped
  <1>2. Typed /\ [Next]_vars => Typed'
    BY NextTyped
  <1>3. Typed => TypeOK
    BY DEF Typed
  <1> QED
    BY <1>1, <1>2, <1>3, PTL DEF Spec

-----------------------------------------------------------------------------
\* The two facts on products that the budgets need.
LEMMA SupplyTimes ==
    /\ \A n \in Nat : Supply * n \in Nat /\ Supply * (n + 1) = Supply * n + Supply
    /\ \A m, n \in Nat : m <= n => Supply * m <= Supply * n
PROOF
  <1>1. \A n \in Nat : Supply * n \in Nat /\ Supply * (n + 1) = Supply * n + Supply
    BY SupplyAssumption
  <1>2. ASSUME NEW m \in Nat, NEW n \in Nat, m <= n
        PROVE  Supply * m <= Supply * n
    <2>1. n - m \in Nat /\ Supply * (n - m) >= 0
      BY <1>2, SupplyAssumption
    <2>2. Supply * (n - m) = Supply * n - Supply * m
      BY SupplyAssumption
    <2> QED
      BY <2>1, <2>2, SupplyAssumption
  <1> QED
    BY <1>1, <1>2

LEMMA RefillingFinite ==
    /\ Refilling \in SUBSET Task /\ IsFiniteSet(Refilling)
    /\ Cardinality(Refilling) \in Nat
BY FS_Subset, FS_CardinalityType, TaskAssumption DEF Refilling

\* A future that claims a window enters Refilling, and one that stores leaves it.
LEMMA RefillingJoins ==
    ASSUME NEW t \in Task, t \notin Refilling, Refilling' = Refilling \cup {t}
    PROVE  Cardinality(Refilling') = Cardinality(Refilling) + 1
BY RefillingFinite, FS_AddElement

LEMMA RefillingLeaves ==
    ASSUME NEW t \in Task, t \in Refilling, Refilling' = Refilling \ {t}
    PROVE  Cardinality(Refilling) = Cardinality(Refilling') + 1
PROOF
  <1>1. Cardinality(Refilling \ {t}) = Cardinality(Refilling) - 1
    BY RefillingFinite, FS_RemoveElement
  <1> QED
    BY <1>1, RefillingFinite

LEMMA StepLongRunBudget ==
    ASSUME Typed, LongRunBudget, NEW t \in Task, Step(t)
    PROVE  LongRunBudget'
PROOF
  <1> DEFINE c == Cardinality(Refilling)
  <1>0. c \in Nat /\ c' \in Nat
    <2>1. Refilling' \in SUBSET Task
      BY DEF Refilling
    <2> QED
      BY <2>1, RefillingFinite, FS_Subset, FS_CardinalityType, TaskAssumption
  <1>1. /\ tokens \in Nat /\ tokens <= Supply /\ granted \in Nat
        /\ windowCount \in Nat /\ pc \in [Task -> PC]
    BY WindowType, SupplyAssumption DEF Typed, TypeOK
  <1>2. granted + tokens + Supply * c <= Supply * (1 + windowCount)
    BY DEF LongRunBudget
  <1>3. SUFFICES granted' + tokens' + Supply * c' <= Supply * (1 + windowCount')
    BY DEF LongRunBudget
  <1>4. CASE ExchangeWindow(t) /\ windowCount = old[t]
    <2>1. /\ windowCount' = new[t] /\ new[t] \in Nat /\ windowCount + 1 <= windowCount'
          /\ tokens' = tokens /\ granted' = granted
      BY <1>1, <1>4 DEF ExchangeWindow, Typed, TypeOK, ExchangesForward
    <2>2. t \notin Refilling /\ Refilling' = Refilling \cup {t}
      BY <1>1, <1>4 DEF ExchangeWindow, Refilling, Goto
    <2>3. c' = c + 1
      BY <2>2, RefillingJoins
    <2>4. /\ Supply * c' = Supply * c + Supply
          /\ Supply * (1 + windowCount) + Supply <= Supply * (1 + windowCount')
      <3>0. /\ 1 + windowCount \in Nat /\ (1 + windowCount) + 1 \in Nat
            /\ 1 + windowCount' \in Nat /\ (1 + windowCount) + 1 <= 1 + windowCount'
        BY <1>1, <2>1
      <3>1. Supply * ((1 + windowCount) + 1) <= Supply * (1 + windowCount')
        BY <3>0, SupplyTimes, Zenon
      <3>2. Supply * ((1 + windowCount) + 1) = Supply * (1 + windowCount) + Supply
        BY <3>0, SupplyTimes, Zenon
      <3>3. Supply * (c + 1) = Supply * c + Supply
        BY <1>0, SupplyTimes, Zenon
      <3>4. Supply * (1 + windowCount) + Supply <= Supply * (1 + windowCount')
        BY <3>1, <3>2, Zenon
      <3> QED
        BY <2>3, <3>3, <3>4, Zenon
    <2>5. Supply * c \in Nat /\ Supply * (1 + windowCount) \in Nat
          /\ Supply * (1 + windowCount') \in Nat
      <3>1. 1 + windowCount \in Nat /\ 1 + windowCount' \in Nat
        BY <1>1, <2>1
      <3> QED
        BY <1>0, <3>1, SupplyTimes, Zenon
    <2> HIDE DEF c
    <2> QED
      BY <1>1, <1>2, <2>1, <2>4, <2>5, SupplyAssumption
  <1>5. CASE StoreSupply(t)
    <2>1. /\ t \in Refilling /\ Refilling' = Refilling \ {t} /\ tokens' = Supply
          /\ granted' = granted /\ windowCount' = windowCount
      BY <1>1, <1>5 DEF StoreSupply, Refilling, Goto
    <2>2. c = c' + 1
      BY <2>1, RefillingLeaves
    <2>3. Supply * c = Supply * c' + Supply
      <3>1. Supply * (c' + 1) = Supply * c' + Supply
        BY <1>0, SupplyTimes, Zenon
      <3> QED
        BY <2>2, <3>1, Zenon
    <2>4. Supply * c' \in Nat /\ Supply * (1 + windowCount) \in Nat
      <3>1. 1 + windowCount \in Nat
        BY <1>1
      <3> QED
        BY <1>0, <3>1, SupplyTimes, Zenon
    <2> HIDE DEF c
    <2> QED
      BY <1>1, <1>2, <2>1, <2>3, <2>4, SupplyAssumption
  <1>6. CASE ~StoreSupply(t) /\ ~(ExchangeWindow(t) /\ windowCount = old[t])
    <2>1. Refilling' = Refilling
      BY <1>1, <1>6 DEF Step, Run, LoadWindow, ReadElapsed, ExchangeWindow, TakeToken,
          ReadRemainder, Sleep, Wake, Complete, Refilling, Goto
    <2>2. granted' + tokens' = granted + tokens /\ windowCount' = windowCount
      BY <1>1, <1>6 DEF Step, Run, LoadWindow, ReadElapsed, ExchangeWindow, TakeToken,
          ReadRemainder, Sleep, Wake, Complete
    <2>3. c' = c
      BY <2>1
    <2> HIDE DEF c
    <2> QED
      BY <1>2, <2>2, <2>3
  <1> QED
    BY <1>4, <1>5, <1>6

LEMMA NextLongRunBudget ==
    ASSUME Typed, LongRunBudget, [Next]_vars
    PROVE  LongRunBudget'
PROOF
  <1>1. CASE Tick
    BY <1>1 DEF Tick, LongRunBudget, Refilling
  <1>2. CASE UNCHANGED vars
    BY <1>2 DEF vars, LongRunBudget, Refilling
  <1> QED
    BY <1>1, <1>2, StepLongRunBudget DEF Next

LEMMA LongRunBudgetSuffices ==
    ASSUME Typed, LongRunBudget
    PROVE  LongRunBound
PROOF
  <1>1. /\ tokens \in Nat /\ granted \in Nat /\ windowCount \in Nat
        /\ CurrentWindow \in Nat /\ windowCount <= CurrentWindow
    BY WindowType DEF Typed, TypeOK
  <1>2. /\ Supply * Cardinality(Refilling) \in Nat
        /\ Supply * (1 + windowCount) \in Nat /\ Supply * (1 + CurrentWindow) \in Nat
        /\ Supply * (1 + windowCount) <= Supply * (1 + CurrentWindow)
    BY <1>1, RefillingFinite, SupplyTimes
  <1> QED
    BY <1>1, <1>2 DEF LongRunBudget, LongRunBound

LEMMA InitLongRunBudget == Init => LongRunBudget
PROOF
  <1> SUFFICES ASSUME Init PROVE LongRunBudget
    OBVIOUS
  <1>1. Refilling = {}
    BY DEF Init, Refilling
  <1>2. Cardinality(Refilling) = 0
    BY <1>1, FS_EmptySet
  <1> QED
    BY <1>2, SupplyAssumption DEF Init, LongRunBudget

\* The limiter never lets through more futures than the supplies of the
\* windows begun so far, however its two atomics interleave.
THEOREM LongRunBounded == Spec => [](LongRunBudget /\ LongRunBound)
PROOF
  <1>1. Init => Typed /\ LongRunBudget
    BY InitTyped, InitLongRunBudget
  <1>2. Typed /\ LongRunBudget /\ [Next]_vars => (Typed /\ LongRunBudget)'
    BY NextTyped, NextLongRunBudget
  <1>3. Typed /\ LongRunBudget => LongRunBudget /\ LongRunBound
    BY LongRunBudgetSuffices
  <1> QED
    BY <1>1, <1>2, <1>3, PTL DEF Spec

-----------------------------------------------------------------------------
\* Zero is the only multiple of a number that is less than it.
LEMMA NoMultipleBelow ==
    ASSUME NEW w \in Nat \ {0}, NEW d \in Int, w * d \in 0..(w - 1)
    PROVE  d = 0
PROOF
  <1> DEFINE m == w * d
             u == w * (d - 1)
             l == w * (0 - d - 1)
  <1>1. m \in 0..(w - 1)
    OBVIOUS
  <1>2. u = m - w /\ l = (0 - m) - w
    OBVIOUS
  <1>3. (d >= 1 => u >= 0) /\ (d <= -1 => l >= 0)
    OBVIOUS
  <1> HIDE DEF m, u, l
  <1> QED
    BY <1>1, <1>2, <1>3

\* What the clock leaves of its window ends at the boundary of the next one.
LEMMA NextBoundary ==
    ASSUME NEW a \in Nat, NEW w \in Nat \ {0}
    PROVE  /\ (a + (w - (a % w))) % w = 0
           /\ (a + (w - (a % w))) \div w = (a \div w) + 1
PROOF
  <1> DEFINE q == a \div w
             r == a % w
             b == a + (w - r)
             p == b \div w
             s == b % w
  <1>1. q \in Int /\ r \in 0..(w - 1) /\ a = w * q + r
    OBVIOUS
  <1>2. b \in Nat
    BY <1>1
  <1>3. p \in Int /\ s \in 0..(w - 1) /\ b = w * p + s
    BY <1>2
  <1> SUFFICES s = 0 /\ p = q + 1
    OBVIOUS
  <1>4. b = w * q + w
    BY <1>1
  <1> HIDE DEF q, r, b, p, s
  <1>5. w * (q + 1 - p) = w * q + w - w * p
    BY <1>1, <1>3
  <1>6. w * (q + 1 - p) = s
    <2> DEFINE x == w * (q + 1 - p)
               y == w * q
               z == w * p
    <2>1. x = y + w - z /\ b = y + w /\ b = z + s /\ s \in 0..(w - 1) /\ y \in Int /\ z \in Int
      BY <1>1, <1>3, <1>4, <1>5
    <2> HIDE DEF x, y, z
    <2>2. x = s
      BY <2>1
    <2> QED
      BY <2>2 DEF x
  <1>7. q + 1 - p \in Int /\ w * (q + 1 - p) \in 0..(w - 1)
    BY <1>1, <1>3, <1>6
  <1>8. q + 1 - p = 0
    BY <1>7, NoMultipleBelow
  <1> QED
    BY <1>1, <1>3, <1>6, <1>8

\* A duration of at most a window ends in this window or in the next.
LEMMA NextWindow ==
    ASSUME NEW a \in Nat, NEW w \in Nat \ {0}, NEW d \in 0..w
    PROVE  (a + d) \div w <= (a \div w) + 1
PROOF
  <1> DEFINE q == a \div w
             r == a % w
             p == (a + d) \div w
             s == (a + d) % w
  <1>1. q \in Int /\ r \in 0..(w - 1) /\ a = w * q + r
    OBVIOUS
  <1>2. p \in Int /\ s \in 0..(w - 1) /\ a + d = w * p + s
    OBVIOUS
  <1> HIDE DEF q, r, p, s
  <1>3. SUFFICES ASSUME p > q + 1 PROVE FALSE
    BY <1>1, <1>2 DEF q, p
  <1>4. p - q - 2 \in Nat /\ w * (p - q - 2) >= 0
    BY <1>1, <1>2, <1>3
  <1>5. w * (p - q - 2) = w * p - w * q - 2 * w
    BY <1>1, <1>2
  <1> QED
    BY <1>1, <1>2, <1>4, <1>5

\* However long the timer takes to start, a duration read off the clock lasts
\* into a later window than the one that refused the future.
DurationReaches ==
    \A t \in Task : pc[t] = "sleep" => refused[t] + 1 <= (now + duration[t]) \div Window

SleepsRight == DurationReaches /\ SleepsIntoLaterWindow

LEMMA SleepTyped ==
    ASSUME Typed
    PROVE  /\ pc \in [Task -> PC] /\ now \in Nat /\ CurrentWindow \in Nat
           /\ duration \in [Task -> 0..Window] /\ deadline \in [Task -> Nat]
           /\ refused \in [Task -> 0..CurrentWindow]
           /\ \A t \in Task : /\ duration[t] \in 0..Window /\ now + duration[t] \in Nat
                              /\ (now + duration[t]) \div Window \in Nat
                              /\ deadline[t] \div Window \in Nat /\ refused[t] \in Nat
PROOF
  <1>1. /\ pc \in [Task -> PC] /\ now \in Nat /\ CurrentWindow \in Nat
        /\ duration \in [Task -> 0..Window] /\ deadline \in [Task -> Nat]
        /\ refused \in [Task -> 0..CurrentWindow]
    BY WindowType, MaxTimeAssumption DEF Typed, TypeOK
  <1>2. ASSUME NEW t \in Task
        PROVE  /\ duration[t] \in 0..Window /\ now + duration[t] \in Nat
               /\ deadline[t] \in Nat /\ refused[t] \in Nat
    BY <1>1, WindowAssumption
  <1>3. ASSUME NEW t \in Task
        PROVE  /\ (now + duration[t]) \div Window \in Nat
               /\ deadline[t] \div Window \in Nat
    BY <1>2, WindowOrder, WindowAssumption
  <1> QED
    BY <1>1, <1>2, <1>3

\* The first reading: what it leaves of the window ends at the boundary.
LEMMA ReadRemainderSleeps ==
    ASSUME Typed, NEW t \in Task, ReadRemainder(t)
    PROVE  refused'[t] + 1 <= (now' + duration'[t]) \div Window
PROOF
  <1>1. /\ now \in Nat /\ CurrentWindow \in Nat /\ refused[t] \in 0..CurrentWindow
        /\ duration \in [Task -> 0..Window]
    BY SleepTyped
  <1>2. /\ now' = now /\ refused' = refused
        /\ duration'[t] = Window - (now % Window)
    BY <1>1 DEF ReadRemainder
  <1>3. (now + (Window - (now % Window))) \div Window = CurrentWindow + 1
    BY <1>1, NextBoundary, WindowAssumption, Zenon DEF CurrentWindow
  <1>4. (now' + duration'[t]) \div Window = CurrentWindow + 1
    BY <1>2, <1>3, Zenon
  <1> QED
    BY <1>1, <1>2, <1>4

\* The second reading: the deadline is where the duration reaches by then.
LEMMA SleepSleeps ==
    ASSUME Typed, SleepsRight, NEW t \in Task, Sleep(t)
    PROVE  deadline'[t] \div Window \in (refused'[t] + 1)..(CurrentWindow' + 1)
PROOF
  <1>1. /\ now \in Nat /\ CurrentWindow \in Nat /\ refused[t] \in Nat
        /\ duration[t] \in 0..Window /\ (now + duration[t]) \div Window \in Nat
        /\ deadline \in [Task -> Nat]
    BY SleepTyped
  <1>2. /\ refused' = refused /\ deadline'[t] = now + duration[t]
        /\ CurrentWindow' = CurrentWindow
    BY <1>1 DEF Sleep, CurrentWindow
  <1>3. refused[t] + 1 <= (now + duration[t]) \div Window
    BY DEF SleepsRight, DurationReaches, Sleep
  <1>4. (now + duration[t]) \div Window <= CurrentWindow + 1
    BY <1>1, NextWindow, WindowAssumption, Zenon DEF CurrentWindow
  <1>5. (now + duration[t]) \div Window \in (refused[t] + 1)..(CurrentWindow + 1)
    BY <1>1, <1>3, <1>4
  <1> QED
    BY <1>2, <1>5, Zenon

LEMMA StepSleepsRight ==
    ASSUME Typed, SleepsRight, NEW u \in Task, Step(u)
    PROVE  SleepsRight'
PROOF
  <1>1. pc \in [Task -> PC] /\ now' = now /\ CurrentWindow' = CurrentWindow
    BY SleepTyped, StepKeepsClock
  <1>2. ASSUME NEW t \in Task, pc'[t] = "sleep"
        PROVE  refused'[t] + 1 <= (now' + duration'[t]) \div Window
    <2>1. CASE ReadRemainder(t)
      BY <2>1, ReadRemainderSleeps
    <2>2. CASE ~ReadRemainder(t)
      <3>1. pc[t] = "sleep" /\ duration'[t] = duration[t] /\ refused'[t] = refused[t]
        BY <1>1, <1>2, <2>2, SleepTyped DEF Step, Run, LoadWindow, ReadElapsed,
            ExchangeWindow, StoreSupply, TakeToken, ReadRemainder, Sleep, Wake, Complete,
            sleepVars, Goto
      <3>2. refused[t] + 1 <= (now + duration[t]) \div Window
        BY <3>1 DEF SleepsRight, DurationReaches
      <3> QED
        BY <1>1, <3>1, <3>2
    <2> QED
      BY <2>1, <2>2
  <1>3. ASSUME NEW t \in Task, pc'[t] = "asleep"
        PROVE  deadline'[t] \div Window \in (refused'[t] + 1)..(CurrentWindow' + 1)
    <2>1. CASE Sleep(t)
      BY <2>1, SleepSleeps
    <2>2. CASE ~Sleep(t)
      <3>1. pc[t] = "asleep" /\ deadline'[t] = deadline[t] /\ refused'[t] = refused[t]
        BY <1>1, <1>3, <2>2, SleepTyped DEF Step, Run, LoadWindow, ReadElapsed,
            ExchangeWindow, StoreSupply, TakeToken, ReadRemainder, Sleep, Wake, Complete,
            sleepVars, Goto
      <3>2. deadline[t] \div Window \in (refused[t] + 1)..(CurrentWindow + 1)
        BY <3>1 DEF SleepsRight, SleepsIntoLaterWindow
      <3> QED
        BY <1>1, <3>1, <3>2
    <2> QED
      BY <2>1, <2>2
  <1> QED
    BY <1>2, <1>3 DEF SleepsRight, DurationReaches, SleepsIntoLaterWindow

\* The clock only moves what a duration reaches, and the window it is in, on.
LEMMA TickSleepsRight ==
    ASSUME Typed, SleepsRight, Tick
    PROVE  SleepsRight'
PROOF
  <1>1. /\ pc' = pc /\ duration' = duration /\ deadline' = deadline /\ refused' = refused
        /\ now' = now + 1
    BY DEF Tick, sleepVars
  <1>2. /\ now \in Nat /\ CurrentWindow \in Nat /\ CurrentWindow' \in Nat
        /\ CurrentWindow' >= CurrentWindow
    BY SleepTyped, TickMovesWindowOn
  <1>3. ASSUME NEW t \in Task, pc'[t] = "sleep"
        PROVE  refused'[t] + 1 <= (now' + duration'[t]) \div Window
    <2>1. /\ now + duration[t] \in Nat /\ now' + duration[t] \in Nat
          /\ now + duration[t] <= now' + duration[t] /\ refused[t] \in Nat
      BY <1>1, <1>2, SleepTyped
    <2>2. /\ (now + duration[t]) \div Window \in Nat /\ (now' + duration[t]) \div Window \in Nat
          /\ (now + duration[t]) \div Window <= (now' + duration[t]) \div Window
      BY <2>1, WindowOrder, WindowAssumption
    <2>3. refused[t] + 1 <= (now + duration[t]) \div Window
      BY <1>1, <1>3 DEF SleepsRight, DurationReaches
    <2> QED
      BY <1>1, <2>1, <2>2, <2>3
  <1>4. ASSUME NEW t \in Task, pc'[t] = "asleep"
        PROVE  deadline'[t] \div Window \in (refused'[t] + 1)..(CurrentWindow' + 1)
    <2>1. deadline[t] \div Window \in Nat /\ refused[t] \in Nat
      BY SleepTyped
    <2>2. deadline[t] \div Window \in (refused[t] + 1)..(CurrentWindow + 1)
      BY <1>1, <1>4 DEF SleepsRight, SleepsIntoLaterWindow
    <2>3. deadline[t] \div Window \in (refused[t] + 1)..(CurrentWindow' + 1)
      BY <1>2, <2>1, <2>2
    <2> QED
      BY <1>1, <2>3, Zenon
  <1> QED
    BY <1>3, <1>4 DEF SleepsRight, DurationReaches, SleepsIntoLaterWindow

LEMMA NextSleepsRight ==
    ASSUME Typed, SleepsRight, [Next]_vars
    PROVE  SleepsRight'
PROOF
  <1>1. CASE UNCHANGED vars
    BY <1>1 DEF vars, sleepVars, SleepsRight, DurationReaches, SleepsIntoLaterWindow,
        CurrentWindow
  <1> QED
    BY <1>1, StepSleepsRight, TickSleepsRight DEF Next

\* Whatever passes between the refusal, the reading that a sleep's duration
\* comes from and the one its deadline comes from, a future wakes up in a later
\* window than the one that refused it, and at the latest in the one after that
\* in which it falls asleep.
THEOREM SleepsReachNewWindow == Spec => []SleepsIntoLaterWindow
PROOF
  <1>1. Init => Typed /\ SleepsRight
    BY InitTyped DEF Init, SleepsRight, DurationReaches, SleepsIntoLaterWindow
  <1>2. Typed /\ SleepsRight /\ [Next]_vars => (Typed /\ SleepsRight)'
    BY NextTyped, NextSleepsRight
  <1>3. SleepsRight => SleepsIntoLaterWindow
    BY DEF SleepsRight
  <1> QED
    BY <1>1, <1>2, <1>3, PTL DEF Spec

-----------------------------------------------------------------------------
\* What a step of a future does to the budget of the abstract bucket.
LEMMA StepImplements ==
    ASSUME Typed, NEW t \in Task, Step(t)
    PROVE  [Bucket!Next]_(Bucket!vars)
PROOF
  <1> DEFINE c == Cardinality(Refilling)
  <1>0. c \in Nat /\ c' \in Nat
    <2>1. Refilling' \in SUBSET Task
      BY DEF Refilling
    <2> QED
      BY <2>1, RefillingFinite, FS_Subset, FS_CardinalityType, TaskAssumption
  <1>1. /\ tokens \in Nat /\ tokens <= Supply /\ granted \in Nat
        /\ windowCount \in Nat /\ pc \in [Task -> PC]
    BY WindowType, SupplyAssumption DEF Typed, TypeOK
  <1>2. Supply * c \in Nat /\ Supply * c' \in Nat
    BY <1>0, SupplyAssumption
  <1>4. CASE ExchangeWindow(t) /\ windowCount = old[t]
    <2>1. /\ windowCount' \in Nat /\ windowCount' > windowCount
          /\ tokens' = tokens /\ granted' = granted
      BY <1>1, <1>4 DEF ExchangeWindow, Typed, TypeOK, ExchangesForward
    <2>2. t \notin Refilling /\ Refilling' = Refilling \cup {t}
      BY <1>1, <1>4 DEF ExchangeWindow, Refilling, Goto
    <2>3. c' = c + 1
      BY <2>2, RefillingJoins
    <2>4. Supply * c' = Supply * c + Supply
      BY <1>0, <2>3, SupplyTimes, Zenon
    <2>5. tokens' + Supply * c' = (tokens + Supply * c) + Supply
      <3> HIDE DEF c
      <3> QED
        BY <1>1, <1>2, <2>1, <2>4, SupplyAssumption
    <2>6. Bucket!Credit
      BY <2>1, <2>5 DEF Bucket!Credit
    <2> QED
      BY <2>6 DEF Bucket!Next
  <1>5. CASE StoreSupply(t)
    <2>1. /\ t \in Refilling /\ Refilling' = Refilling \ {t} /\ tokens' = Supply
          /\ granted' = granted /\ windowCount' = windowCount
      BY <1>1, <1>5 DEF StoreSupply, Refilling, Goto
    <2>2. c = c' + 1
      BY <2>1, RefillingLeaves
    <2>3. Supply * c = Supply * c' + Supply
      BY <1>0, <2>2, SupplyTimes, Zenon
    <2>4. /\ tokens' + Supply * c' \in Nat
          /\ \/ tokens' + Supply * c' < tokens + Supply * c
             \/ tokens' + Supply * c' = tokens + Supply * c
      <3> HIDE DEF c
      <3> QED
        BY <1>1, <1>2, <2>1, <2>3, SupplyAssumption
    <2>5. Bucket!Lose \/ UNCHANGED Bucket!vars
      BY <2>1, <2>4 DEF Bucket!Lose, Bucket!vars
    <2> QED
      BY <2>5 DEF Bucket!Next
  <1>6. CASE TakeToken(t) /\ tokens > 0
    <2>1. /\ tokens' = tokens - 1 /\ granted' = granted + 1 /\ windowCount' = windowCount
          /\ Refilling' = Refilling
      BY <1>1, <1>6 DEF TakeToken, Refilling, Goto
    <2>2. /\ tokens + Supply * c > 0
          /\ tokens' + Supply * c' = (tokens + Supply * c) - 1
      <3>1. c' = c
        BY <2>1
      <3> HIDE DEF c
      <3> QED
        BY <1>1, <1>2, <1>6, <2>1, <3>1
    <2>3. Bucket!Grant
      BY <2>1, <2>2 DEF Bucket!Grant
    <2> QED
      BY <2>3 DEF Bucket!Next
  <1>7. CASE /\ ~StoreSupply(t) /\ ~(ExchangeWindow(t) /\ windowCount = old[t])
             /\ ~(TakeToken(t) /\ tokens > 0)
    <2>1. Refilling' = Refilling
      BY <1>1, <1>7 DEF Step, Run, LoadWindow, ReadElapsed, ExchangeWindow, TakeToken,
          ReadRemainder, Sleep, Wake, Complete, Refilling, Goto
    <2>2. tokens' = tokens /\ granted' = granted /\ windowCount' = windowCount
      BY <1>1, <1>7 DEF Step, Run, LoadWindow, ReadElapsed, ExchangeWindow, TakeToken,
          ReadRemainder, Sleep, Wake, Complete
    <2> QED
      BY <2>1, <2>2 DEF Bucket!vars
  <1> QED
    BY <1>4, <1>5, <1>6, <1>7

LEMMA NextImplements ==
    ASSUME Typed, [Next]_vars
    PROVE  [Bucket!Next]_(Bucket!vars)
PROOF
  <1>1. CASE Tick
    BY <1>1 DEF Tick, Refilling, Bucket!vars
  <1>2. CASE UNCHANGED vars
    BY <1>2 DEF vars, Refilling, Bucket!vars
  <1> QED
    BY <1>1, <1>2, StepImplements DEF Next

LEMMA InitImplements == Init => Bucket!Init
PROOF
  <1> SUFFICES ASSUME Init PROVE Bucket!Init
    OBVIOUS
  <1>1. Refilling = {}
    BY DEF Init, Refilling
  <1>2. Cardinality(Refilling) = 0
    BY <1>1, FS_EmptySet
  <1> QED
    BY <1>2, SupplyAssumption DEF Init, Bucket!Init

\* The two atomics and their races implement the abstract bucket: a claimed
\* window brings one supply, a late store loses tokens and never mints any.
THEOREM Implements == Spec => ImplementsBucket
PROOF
  <1>1. Init => Typed /\ Bucket!Init
    BY InitTyped, InitImplements
  <1>2. Typed /\ [Next]_vars => Typed' /\ [Bucket!Next]_(Bucket!vars)
    BY NextTyped, NextImplements
  <1> QED
    BY <1>1, <1>2, PTL DEF Spec, ImplementsBucket, Bucket!Spec

-----------------------------------------------------------------------------
\* A set of futures is counted by a number, and one that lacks a future by a
\* smaller one than all futures.
LEMMA CountFutures ==
    ASSUME NEW A, A \subseteq Task
    PROVE  /\ IsFiniteSet(A) /\ Cardinality(A) \in Nat /\ Cardinality(Task) \in Nat
           /\ Cardinality(A) <= Cardinality(Task)
           /\ A # Task => Cardinality(A) + 1 <= Cardinality(Task)
PROOF
  <1>1. /\ IsFiniteSet(A) /\ Cardinality(A) <= Cardinality(Task)
        /\ Cardinality(Task) = Cardinality(A) => Task = A
    BY FS_Subset, TaskAssumption
  <1>2. Cardinality(A) \in Nat /\ Cardinality(Task) \in Nat
    BY <1>1, FS_CardinalityType, TaskAssumption
  <1> QED
    BY <1>1, <1>2

\* The parts of the budget are numbers, at most a supply each.
LEMMA BudgetTyped ==
    ASSUME Typed
    PROVE  /\ Claims \subseteq Task /\ burst \in Nat /\ tokens \in Nat /\ tokens <= Supply
           /\ Usable \in Nat /\ Usable <= tokens /\ Fresh \in Nat /\ Fresh <= Supply
           /\ windowCount \in Nat /\ windowCount <= CurrentWindow /\ CurrentWindow \in Nat
PROOF
  <1>1. CurrentWindow \in Nat
    BY WindowType
  <1>2. granted \in Nat /\ windowCount \in 0..CurrentWindow /\ burst \in 0..granted
        /\ tokens \in 0..Supply
    BY DEF Typed, TypeOK
  <1> QED
    BY <1>1, <1>2, SupplyAssumption DEF Claims, Usable, Fresh

\* A step that keeps the claims, the tokens and the grants keeps the budget.
LEMMA SameBudget ==
    ASSUME BurstBudget, Claims' = Claims, tokens' = tokens, burst' = burst,
           windowCount' = windowCount, CurrentWindow' = CurrentWindow
    PROVE  BurstBudget'
BY DEF BurstBudget, Usable, Fresh

\* The claimant was late: its claim becomes a refill, other late claims fall.
LEMMA LateExchangeBurst ==
    ASSUME Typed, Typed', BurstBudget, NEW t \in Task, ExchangeWindow(t),
           windowCount = old[t], new[t] < CurrentWindow
    PROVE  BurstBudget'
PROOF
  <1> DEFINE N == Cardinality(Task)
             c == Cardinality(Claims)
             d == Cardinality(Claims')
  <1>1. CurrentWindow' = CurrentWindow /\ CurrentWindow \in Nat
    BY WindowType, StepKeepsClock DEF Step
  <1>2. /\ pc \in [Task -> PC] /\ pc[t] = "exchange" /\ pc' = [pc EXCEPT ![t] = "store"]
        /\ windowCount' = new[t] /\ tokens' = tokens /\ old' = old /\ new' = new
        /\ burst' = burst
    BY DEF ExchangeWindow, Goto, Typed, TypeOK
  <1>3. \A u \in Task : /\ old[u] \in Nat /\ new[u] \in Nat
                        /\ old[u] <= windowCount
    BY DEF Typed, TypeOK
  <1>4. old[t] < new[t]
    BY <1>2 DEF Typed, ExchangesForward
  <1>5. t \in Claims
    BY <1>2 DEF Claims, Late
  <1>6. Claims' \subseteq Claims
    <2> SUFFICES ASSUME NEW u \in Claims' PROVE u \in Claims
      OBVIOUS
    <2>1. u \in Task /\ (pc'[u] = "store" \/ (pc'[u] = "exchange" /\ old[u] = new[t]))
      BY <1>2 DEF Claims, Late
    <2>2. CASE u = t
      BY <2>2, <1>5
    <2>3. CASE u # t
      <3>1. old[u] # new[t]
        BY <1>3, <1>4, <2>1
      <3> QED
        BY <1>2, <2>1, <2>3, <3>1 DEF Claims
    <2> QED
      BY <2>2, <2>3
  <1>7. Fresh' = Supply /\ Fresh = Supply
    <2>1. windowCount' < CurrentWindow' /\ windowCount < CurrentWindow
      BY <1>1, <1>2, <1>3, <1>4
    <2> QED
      BY <2>1 DEF Fresh
  <1>8. CASE Claims' = Claims
    BY <1>2, <1>7, <1>8 DEF BurstBudget, Usable
  <1>9. CASE Claims' # Claims
    <2>1. c \in Nat /\ d \in Nat /\ N \in Nat /\ d + 1 <= c
      <3>1. Claims \subseteq Task
        BY BudgetTyped
      <3>2. IsFiniteSet(Claims) /\ c \in Nat /\ N \in Nat /\ d \in Nat
        BY <1>6, <3>1, CountFutures
      <3>3. d <= c /\ (c = d => Claims = Claims')
        BY <1>6, <3>2, FS_Subset
      <3> QED
        BY <1>9, <3>2, <3>3
    <2>2. Supply * d + Supply <= Supply * c /\ Supply * d \in Nat /\ Supply * c \in Nat
          /\ Supply * (N + 1) \in Nat
      <3>1. d + 1 \in Nat /\ N + 1 \in Nat
        BY <2>1
      <3> QED
        BY <2>1, <3>1, SupplyTimes, Zenon
    <2>3. Usable' \in Nat /\ Usable' <= Supply /\ Usable \in Nat /\ burst \in Nat
      <3>1. /\ Usable \in Nat /\ burst \in Nat
            /\ tokens \in Nat /\ tokens <= Supply
        BY BudgetTyped
      <3> QED
        BY <1>2, <3>1, SupplyAssumption DEF Usable
    <2>4. burst + Usable + Supply * c + Fresh <= Supply * (N + 1)
      BY DEF BurstBudget
    <2>5. burst' + Usable' + Supply * d + Fresh' <= Supply * (N + 1)
      <3> HIDE DEF c, d, N
      <3> QED
        BY <1>2, <1>7, <2>2, <2>3, <2>4, SupplyAssumption
    <2> QED
      BY <2>5 DEF BurstBudget
  <1> QED
    BY <1>8, <1>9

\* The claimant is in time: the window's fresh supply becomes its claim.
LEMMA TimelyExchangeBurst ==
    ASSUME Typed, BurstBudget, NEW t \in Task, ExchangeWindow(t),
           windowCount = old[t], ~(new[t] < CurrentWindow)
    PROVE  BurstBudget'
PROOF
  <1> DEFINE N == Cardinality(Task)
             c == Cardinality(Claims)
             d == Cardinality(Claims')
  <1>1. CurrentWindow' = CurrentWindow /\ CurrentWindow \in Nat
    BY WindowType, StepKeepsClock DEF Step
  <1>2. /\ pc \in [Task -> PC] /\ pc[t] = "exchange" /\ pc' = [pc EXCEPT ![t] = "store"]
        /\ windowCount' = new[t] /\ tokens' = tokens /\ old' = old /\ new' = new
        /\ burst' = burst
    BY DEF ExchangeWindow, Goto, Typed, TypeOK
  <1>3. \A u \in Task : /\ old[u] \in Nat /\ new[u] \in Nat
                        /\ old[u] <= windowCount /\ new[u] <= CurrentWindow
    BY DEF Typed, TypeOK
  <1>4. old[t] < new[t] /\ new[t] = CurrentWindow
    BY <1>1, <1>2, <1>3 DEF Typed, ExchangesForward
  <1>5. t \notin Claims
    BY <1>2, <1>4 DEF Claims, Late
  <1>6. Claims' \subseteq Claims \cup {t}
    <2> SUFFICES ASSUME NEW u \in Claims', u # t PROVE u \in Claims
      OBVIOUS
    <2>1. u \in Task /\ (pc'[u] = "store" \/ (pc'[u] = "exchange" /\ old[u] = new[t]))
      BY <1>2 DEF Claims, Late
    <2>2. old[u] # new[t]
      BY <1>3, <1>4, <2>1
    <2> QED
      BY <1>2, <2>1, <2>2 DEF Claims
  <1>7. Fresh' = 0 /\ Fresh = Supply
    <2>1. ~(windowCount' < CurrentWindow') /\ windowCount < CurrentWindow
      BY <1>1, <1>2, <1>3, <1>4
    <2> QED
      BY <2>1 DEF Fresh
  <1>8. c \in Nat /\ d \in Nat /\ N \in Nat /\ d <= c + 1
    <2>1. Claims \subseteq Task /\ Claims \cup {t} \subseteq Task /\ Claims' \subseteq Task
      BY <1>6, BudgetTyped
    <2>2. IsFiniteSet(Claims) /\ c \in Nat /\ N \in Nat /\ d \in Nat
          /\ IsFiniteSet(Claims \cup {t})
      BY <2>1, CountFutures
    <2>3. Cardinality(Claims \cup {t}) = c + 1
      BY <1>5, <2>2, FS_AddElement
    <2>4. d <= Cardinality(Claims \cup {t})
      BY <1>6, <2>2, FS_Subset
    <2> QED
      BY <2>2, <2>3, <2>4
  <1>9. Supply * d <= Supply * c + Supply /\ Supply * d \in Nat /\ Supply * c \in Nat
        /\ Supply * (N + 1) \in Nat
    <2>1. c + 1 \in Nat /\ N + 1 \in Nat
      BY <1>8
    <2>2. Supply * d <= Supply * (c + 1) /\ Supply * (c + 1) = Supply * c + Supply
      BY <1>8, <2>1, SupplyTimes, Zenon
    <2>3. Supply * d <= Supply * c + Supply
      BY <2>2, Zenon
    <2> QED
      BY <1>8, <2>1, <2>3, SupplyTimes, Zenon
  <1>10. Usable' \in Nat /\ Usable' <= Usable /\ Usable \in Nat /\ burst \in Nat
    <2>1. Claims # Task /\ tokens \in Nat /\ burst \in Nat
      BY <1>5, BudgetTyped
    <2>2. Usable = tokens /\ Usable' \in {0, tokens}
      BY <1>2, <2>1 DEF Usable
    <2> QED
      BY <2>1, <2>2
  <1>11. burst + Usable + Supply * c + Fresh <= Supply * (N + 1)
    BY DEF BurstBudget
  <1>12. burst' + Usable' + Supply * d + Fresh' <= Supply * (N + 1)
    <2> HIDE DEF c, d, N
    <2> QED
      BY <1>2, <1>7, <1>9, <1>10, <1>11, SupplyAssumption
  <1> QED
    BY <1>12 DEF BurstBudget

\* A refill takes the place of its claim.
LEMMA StoreBurst ==
    ASSUME Typed, BurstBudget, NEW t \in Task, StoreSupply(t)
    PROVE  BurstBudget'
PROOF
  <1> DEFINE N == Cardinality(Task)
             c == Cardinality(Claims)
             d == Cardinality(Claims')
  <1>1. CurrentWindow' = CurrentWindow
    BY StepKeepsClock DEF Step
  <1>2. /\ pc \in [Task -> PC] /\ pc[t] = "store" /\ pc' = [pc EXCEPT ![t] = "take"]
        /\ windowCount' = windowCount /\ tokens' = Supply /\ old' = old /\ new' = new
        /\ burst' = burst
    BY DEF StoreSupply, Goto, Typed, TypeOK
  <1>3. t \in Claims /\ Claims' = Claims \ {t}
    BY <1>1, <1>2 DEF Claims, Late
  <1>4. c \in Nat /\ d \in Nat /\ N \in Nat /\ c = d + 1
    <2>1. Claims \subseteq Task /\ Claims' \subseteq Task
      BY <1>3, BudgetTyped
    <2>2. IsFiniteSet(Claims) /\ c \in Nat /\ N \in Nat /\ d \in Nat
      BY <2>1, CountFutures
    <2>3. d = c - 1
      BY <1>3, <2>2, FS_RemoveElement
    <2> QED
      BY <2>2, <2>3
  <1>5. Supply * c = Supply * d + Supply /\ Supply * d \in Nat /\ Supply * (N + 1) \in Nat
    <2>1. N + 1 \in Nat
      BY <1>4
    <2> QED
      BY <1>4, <2>1, SupplyTimes, Zenon
  <1>6. /\ Usable' \in Nat /\ Usable' <= Supply /\ Usable \in Nat /\ burst \in Nat
        /\ Fresh' = Fresh /\ Fresh \in Nat
    <2>1. Usable \in Nat /\ burst \in Nat /\ Fresh \in Nat
      BY BudgetTyped
    <2>2. Fresh' = Fresh
      BY <1>1, <1>2 DEF Fresh
    <2>3. Usable' \in {0, Supply}
      BY <1>2 DEF Usable
    <2> QED
      BY <2>1, <2>2, <2>3, SupplyAssumption
  <1>7. burst + Usable + Supply * c + Fresh <= Supply * (N + 1)
    BY DEF BurstBudget
  <1>8. burst' + Usable' + Supply * d + Fresh' <= Supply * (N + 1)
    <2> HIDE DEF c, d, N
    <2> QED
      BY <1>2, <1>5, <1>6, <1>7, SupplyAssumption
  <1> QED
    BY <1>8 DEF BurstBudget

\* A grant spends a usable token: its taker is not late with a refill.
LEMMA GrantBurst ==
    ASSUME Typed, BurstBudget, NEW t \in Task, TakeToken(t), tokens > 0
    PROVE  BurstBudget'
PROOF
  <1>1. CurrentWindow' = CurrentWindow
    BY StepKeepsClock DEF Step
  <1>2. /\ pc \in [Task -> PC] /\ pc[t] = "take" /\ pc' = [pc EXCEPT ![t] = "run"]
        /\ windowCount' = windowCount /\ tokens' = tokens - 1 /\ old' = old /\ new' = new
        /\ burst' = burst + 1
    BY DEF TakeToken, Goto, Typed, TypeOK
  <1>3. t \notin Claims /\ Claims' = Claims
    BY <1>1, <1>2 DEF Claims, Late
  <1>4. Usable = tokens /\ Usable' = tokens - 1 /\ Fresh' = Fresh
    BY <1>1, <1>2, <1>3 DEF Usable, Fresh
  <1>5. burst \in Nat /\ tokens \in Nat
    BY BudgetTyped
  <1>6. burst' + Usable' = burst + Usable
    BY <1>2, <1>4, <1>5
  <1> QED
    BY <1>3, <1>4, <1>6 DEF BurstBudget

\* A new window clears the grants, and at worst every future but one is late
\* and a supply of tokens is left.
LEMMA TickBurst ==
    ASSUME Typed, BurstBudget, Tick
    PROVE  BurstBudget'
PROOF
  <1> DEFINE N == Cardinality(Task)
             d == Cardinality(Claims')
  <1>1. /\ CurrentWindow \in Nat /\ CurrentWindow' \in Nat
        /\ CurrentWindow <= CurrentWindow'
    BY WindowType, TickMovesWindowOn
  <1>2. /\ tokens' = tokens /\ windowCount' = windowCount /\ pc' = pc /\ old' = old
        /\ new' = new /\ tokens \in Nat /\ tokens <= Supply
        /\ windowCount \in Nat /\ windowCount <= CurrentWindow
    BY BudgetTyped DEF Tick
  <1>3. burst' = IF CurrentWindow' > CurrentWindow THEN 0 ELSE burst
    BY DEF Tick, CurrentWindow
  <1>4. CASE CurrentWindow' = CurrentWindow
    <2>1. Claims' = Claims
      BY <1>2, <1>4 DEF Claims, Late
    <2>2. burst' = burst
      BY <1>1, <1>3, <1>4
    <2> QED
      BY <1>2, <1>4, <2>1, <2>2, SameBudget
  <1>5. CASE CurrentWindow' # CurrentWindow
    <2>1. burst' = 0 /\ Fresh' = Supply
      BY <1>1, <1>2, <1>3, <1>5 DEF Fresh
    <2>2. Claims' \subseteq Task
      BY DEF Claims
    <2>3. N \in Nat /\ d \in Nat /\ d <= N /\ (Claims' # Task => d + 1 <= N)
      BY <2>2, CountFutures
    <2>4. /\ Supply * d \in Nat /\ Supply * N \in Nat
          /\ Supply * (N + 1) = Supply * N + Supply
          /\ Supply * d <= Supply * N /\ Supply * (d + 1) = Supply * d + Supply
      BY <2>3, SupplyTimes, Zenon
    <2>5. CASE Claims' = Task
      <3>1. Usable' = 0
        BY <2>5 DEF Usable
      <3>2. burst' + Usable' + Supply * d + Fresh' <= Supply * (N + 1)
        <4> HIDE DEF d, N
        <4> QED
          BY <2>1, <2>4, <3>1, SupplyAssumption
      <3> QED
        BY <3>2 DEF BurstBudget
    <2>6. CASE Claims' # Task
      <3>1. Usable' = tokens
        BY <1>2, <2>6 DEF Usable
      <3>2. Supply * d + Supply <= Supply * N
        <4>1. d + 1 \in Nat /\ d + 1 <= N
          BY <2>3, <2>6
        <4>2. Supply * (d + 1) <= Supply * N
          BY <2>3, <4>1, SupplyTimes, Zenon
        <4> QED
          BY <2>4, <4>2, Zenon
      <3>3. burst' + Usable' + Supply * d + Fresh' <= Supply * (N + 1)
        <4> HIDE DEF d, N
        <4> QED
          BY <1>2, <2>1, <2>4, <3>1, <3>2, SupplyAssumption
      <3> QED
        BY <3>3 DEF BurstBudget
    <2> QED
      BY <2>5, <2>6
  <1> QED
    BY <1>4, <1>5

LEMMA StepBurst ==
    ASSUME Typed, Typed', BurstBudget, NEW t \in Task, Step(t)
    PROVE  BurstBudget'
PROOF
  <1>1. CASE ExchangeWindow(t) /\ windowCount = old[t]
    BY <1>1, LateExchangeBurst, TimelyExchangeBurst
  <1>2. CASE StoreSupply(t)
    BY <1>2, StoreBurst
  <1>3. CASE TakeToken(t) /\ tokens > 0
    BY <1>3, GrantBurst
  <1>4. CASE /\ ~StoreSupply(t) /\ ~(ExchangeWindow(t) /\ windowCount = old[t])
             /\ ~(TakeToken(t) /\ tokens > 0)
    <2>1. CurrentWindow' = CurrentWindow /\ CurrentWindow \in Nat
      BY WindowType, StepKeepsClock
    <2>2. pc \in [Task -> PC] /\ old \in [Task -> Nat] /\ new \in [Task -> Nat]
      BY DEF Typed, TypeOK
    <2>3. tokens' = tokens /\ burst' = burst /\ windowCount' = windowCount
      BY <1>4 DEF Step, Run, LoadWindow, ReadElapsed, ExchangeWindow, TakeToken,
          ReadRemainder, Sleep, Wake, Complete
    <2>4. \A u \in Task :
              /\ (pc'[u] = "store") <=> (pc[u] = "store")
              /\ Late(u)' <=> Late(u)
      <3> SUFFICES ASSUME NEW u \in Task
                   PROVE  /\ (pc'[u] = "store") <=> (pc[u] = "store")
                          /\ Late(u)' <=> Late(u)
        OBVIOUS
      <3>1. CASE LoadWindow(t)
        BY <2>1, <2>2, <3>1 DEF LoadWindow, Goto, Late
      <3>2. CASE ReadElapsed(t)
        BY <2>1, <2>2, <3>2 DEF ReadElapsed, Goto, Late
      <3>3. CASE ExchangeWindow(t)
        BY <1>4, <2>1, <2>2, <3>3 DEF ExchangeWindow, Goto, Late
      <3>4. CASE TakeToken(t)
        BY <1>4, <2>1, <2>2, <3>4 DEF TakeToken, Goto, Late
      <3>5. CASE Run(t) \/ ReadRemainder(t) \/ Sleep(t) \/ Wake(t) \/ Complete(t)
        BY <2>1, <2>2, <3>5 DEF Run, ReadRemainder, Sleep, Wake, Complete, Goto, Late
      <3> QED
        BY <1>4, <3>1, <3>2, <3>3, <3>4, <3>5 DEF Step
    <2>5. Claims' = Claims
      BY <2>4 DEF Claims
    <2> QED
      BY <2>1, <2>3, <2>5, SameBudget
  <1> QED
    BY <1>1, <1>2, <1>3, <1>4

LEMMA NextBurst ==
    ASSUME Typed, Typed', BurstBudget, [Next]_vars
    PROVE  BurstBudget'
PROOF
  <1>1. CASE UNCHANGED vars
    <2>1. Claims' = Claims /\ CurrentWindow' = CurrentWindow
      BY <1>1 DEF vars, Claims, Late, CurrentWindow
    <2> QED
      BY <1>1, <2>1, SameBudget DEF vars
  <1> QED
    BY <1>1, StepBurst, TickBurst DEF Next

LEMMA InitBurst == Init => BurstBudget
PROOF
  <1> SUFFICES ASSUME Init PROVE BurstBudget
    OBVIOUS
  <1> DEFINE N == Cardinality(Task)
  <1>1. Claims = {} /\ burst = 0 /\ tokens = Supply
    BY DEF Init, Claims, Late
  <1>2. Cardinality(Claims) = 0
    BY <1>1, FS_EmptySet
  <1>3. Fresh = 0
    <2>1. CurrentWindow = 0 /\ windowCount = 0
      BY WindowAssumption DEF Init, CurrentWindow
    <2> QED
      BY <2>1 DEF Fresh
  <1>4. Usable \in {0, Supply}
    BY <1>1 DEF Usable
  <1>5. N \in Nat
    BY TaskAssumption, FS_CardinalityType
  <1>6. Supply * (N + 1) = Supply * N + Supply /\ Supply * N \in Nat
    BY <1>5, SupplyTimes, Zenon
  <1>7. burst + Usable + Supply * 0 + Fresh <= Supply * (N + 1)
    <2> HIDE DEF N
    <2> QED
      BY <1>1, <1>3, <1>4, <1>6, SupplyAssumption
  <1> QED
    BY <1>2, <1>7 DEF BurstBudget

LEMMA BurstBudgetSuffices ==
    ASSUME Typed, BurstBudget
    PROVE  BurstBound
PROOF
  <1> DEFINE N == Cardinality(Task)
             c == Cardinality(Claims)
  <1>1. burst \in Nat /\ Usable \in Nat /\ Fresh \in Nat /\ Claims \subseteq Task
    BY BudgetTyped
  <1>2. c \in Nat /\ N + 1 \in Nat
    BY <1>1, CountFutures
  <1>3. Supply * c \in Nat /\ Supply * (N + 1) \in Nat
    BY <1>2, SupplyTimes, Zenon
  <1>4. burst + Usable + Supply * c + Fresh <= Supply * (N + 1)
    BY DEF BurstBudget
  <1>5. burst <= Supply * (N + 1)
    <2> HIDE DEF c, N
    <2> QED
      BY <1>1, <1>3, <1>4
  <1> QED
    BY <1>5 DEF BurstBound

\* However late the refills of earlier windows are stored, one window of the
\* clock lets through at most its supply and one more for each future.
THEOREM BurstBounded == Spec => []BurstBound
PROOF
  <1>1. Init => Typed /\ BurstBudget
    BY InitTyped, InitBurst
  <1>2. Typed /\ BurstBudget /\ [Next]_vars => (Typed /\ BurstBudget)'
    BY NextTyped, NextBurst
  <1>3. Typed /\ BurstBudget => BurstBound
    BY BurstBudgetSuffices
  <1> QED
    BY <1>1, <1>2, <1>3, PTL DEF Spec

==============================================================================
