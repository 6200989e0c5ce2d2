----------------------- MODULE ReconnectBackoffProofs -----------------------
(***************************************************************************)
(* Proofs about ReconnectBackoff, for every configured interval and every  *)
(* value of the policy's constants.                                        *)
(***************************************************************************)
EXTENDS ReconnectBackoff, NaturalsInduction, WellFoundedInduction, TLAPS

\* A set of numbers that is not empty has a least element: induction, in the form the
\* provers can use.
LEMMA LeastElement ==
    ASSUME NEW T \in SUBSET Nat, T # {}
    PROVE  \E x \in T : \A y \in T : ~(y < x)
<1>1. PICK x \in T : \A y \in T : ~(<<y, x>> \in OpToRel(<, Nat))
  BY WFMin, NatLessThanWellFounded, Zenon
<1>2. \A y \in T : ~(y < x)
  BY <1>1, Zenon DEF OpToRel
<1> QED BY <1>2

\* g is an initial piece, up to n, of the powers of two.
Powers(n, g) ==
    /\ g \in [0 .. n -> Nat]
    /\ g[0] = 1
    /\ \A i \in 1 .. n : g[i] = 2 * g[i - 1]

LEMMA PowersExist == \A n \in Nat : \E g : Powers(n, g)
<1> DEFINE T == {n \in Nat : ~\E g : Powers(n, g)}
<1> SUFFICES ASSUME T # {} PROVE FALSE
    OBVIOUS
<1>1. PICK n \in T : \A m \in T : ~(m < n)
  BY LeastElement
<1>2. CASE n = 0
  <2>1. Powers(0, [i \in 0 .. 0 |-> 1])
    BY DEF Powers
  <2> QED BY <1>2, <2>1
<1>3. CASE n # 0
  <2>1. n \in Nat /\ n - 1 \in Nat /\ n - 1 \notin T
    BY <1>1, <1>3
  <2>2. PICK g : Powers(n - 1, g)
    BY <2>1
  <2> DEFINE h == [i \in 0 .. n |-> IF i = n THEN 2 * g[n - 1] ELSE g[i]]
  <2>3. Powers(n, h)
    BY <1>3, <2>1, <2>2 DEF Powers
  <2> QED BY <2>3
<1> QED BY <1>2, <1>3

\* Two initial pieces agree where both are defined.
LEMMA PowersAgree ==
    ASSUME NEW n \in Nat, NEW m \in Nat, NEW g, NEW h, Powers(n, g), Powers(m, h),
           NEW i \in Nat, i <= n, i <= m
    PROVE  g[i] = h[i]
<1> DEFINE T == {k \in Nat : k <= n /\ k <= m /\ g[k] # h[k]}
<1> SUFFICES ASSUME T # {} PROVE FALSE
    OBVIOUS
<1>1. PICK k \in T : \A j \in T : ~(j < k)
  BY LeastElement
<1>2. k # 0
  BY <1>1 DEF Powers
<1>3. g[k - 1] = h[k - 1]
  BY <1>1, <1>2
<1> QED BY <1>1, <1>2, <1>3 DEF Powers

\* The recursive function is what its definition says.
LEMMA PowerOfTwoUnfolds ==
    \A n \in Nat : PowerOfTwo[n] = IF n = 0 THEN 1 ELSE 2 * PowerOfTwo[n - 1]
<1> DEFINE G(n) == CHOOSE g : Powers(n, g)
           f == [n \in Nat |-> G(n)[n]]
<1>1. \A n \in Nat : Powers(n, G(n))
  BY PowersExist, Zenon
<1> HIDE DEF G
<1>2. ASSUME NEW n \in Nat PROVE f[n] = IF n = 0 THEN 1 ELSE 2 * f[n - 1]
  <2>1. CASE n = 0
    BY <1>1, <2>1 DEF Powers
  <2>2. CASE n # 0
    <3>1. n - 1 \in Nat /\ n - 1 <= n /\ Powers(n, G(n)) /\ Powers(n - 1, G(n - 1))
      BY <1>1, <2>2
    <3>2. G(n)[n - 1] = G(n - 1)[n - 1]
      BY <3>1, PowersAgree
    <3>3. G(n)[n] = 2 * G(n)[n - 1]
      BY <2>2, <3>1 DEF Powers
    <3> QED BY <2>2, <3>1, <3>2, <3>3
  <2> QED BY <2>1, <2>2
<1>3. f = [n \in Nat |-> IF n = 0 THEN 1 ELSE 2 * f[n - 1]]
  BY <1>2
<1>4. PowerOfTwo = [n \in Nat |-> IF n = 0 THEN 1 ELSE 2 * PowerOfTwo[n - 1]]
  <2> HIDE DEF f
  <2> QED BY <1>3, Zenon DEF PowerOfTwo
<1> QED BY <1>4

LEMMA PowerOfTwoPositive == \A n \in Nat : PowerOfTwo[n] \in Nat /\ PowerOfTwo[n] >= 1
<1> DEFINE T == {n \in Nat : ~(PowerOfTwo[n] \in Nat /\ PowerOfTwo[n] >= 1)}
<1> SUFFICES ASSUME T # {} PROVE FALSE
    OBVIOUS
<1>1. PICK n \in T : \A m \in T : ~(m < n)
  BY LeastElement
<1>2. n # 0
  BY <1>1, PowerOfTwoUnfolds
<1>3. n - 1 \in Nat /\ PowerOfTwo[n - 1] \in Nat /\ PowerOfTwo[n - 1] >= 1
  BY <1>1, <1>2
<1> QED BY <1>1, <1>2, <1>3, PowerOfTwoUnfolds

LEMMA CappedPowerBounds ==
    ASSUME NEW n \in Nat
    PROVE  CappedPower(n) \in Nat /\ 1 <= CappedPower(n) /\ CappedPower(n) <= BackoffMax
<1>1. PowerOfTwo[n] \in Nat /\ PowerOfTwo[n] >= 1
  BY PowerOfTwoPositive
<1> QED BY <1>1, PolicyAssumption DEF CappedPower

LEMMA CappedPowerGrows ==
    ASSUME NEW n \in Nat
    PROVE  CappedPower(n) <= CappedPower(n + 1)
<1>1. /\ PowerOfTwo[n] \in Nat /\ PowerOfTwo[n + 1] \in Nat
      /\ PowerOfTwo[n + 1] = 2 * PowerOfTwo[n]
  BY PowerOfTwoPositive, PowerOfTwoUnfolds
<1>2. CASE \E k \in 0 .. n : PowerOfTwo[k] >= BackoffMax
  <2>1. \E k \in 0 .. n + 1 : PowerOfTwo[k] >= BackoffMax
    BY <1>2
  <2> QED BY <1>2, <2>1, PolicyAssumption DEF CappedPower
<1>3. CASE ~\E k \in 0 .. n : PowerOfTwo[k] >= BackoffMax
  <2>1. CappedPower(n) = PowerOfTwo[n] /\ PowerOfTwo[n] < BackoffMax
    BY <1>1, <1>3, PolicyAssumption DEF CappedPower
  <2>2. CappedPower(n + 1) \in {BackoffMax, PowerOfTwo[n + 1]}
    BY DEF CappedPower
  <2> QED BY <1>1, <2>1, <2>2, PolicyAssumption
<1> QED BY <1>2, <1>3

\* The delay after n failures: at least a second, the interval and the cooldown, at
\* most the cap, and no shorter after one failure more.
LEMMA BackoffDelayBounds ==
    ASSUME NEW n \in Nat, n >= 1, interval \in Int
    PROVE  /\ BackoffDelay(n) \in Nat
           /\ 1 <= BackoffDelay(n) /\ BackoffDelay(n) <= BackoffMax
           /\ BackoffDelay(n) >= AtMost(interval, BackoffMax)
           /\ n >= CooldownThreshold => BackoffDelay(n) >= Cooldown
<1>1. /\ CappedPower(n - 1) \in Nat /\ 1 <= CappedPower(n - 1)
      /\ CappedPower(n - 1) <= BackoffMax
  BY CappedPowerBounds
<1> QED BY <1>1, PolicyAssumption DEF BackoffDelay, AtLeast, AtMost

LEMMA BackoffDelayGrows ==
    ASSUME NEW n \in Nat, n >= 1, interval \in Int
    PROVE  BackoffDelay(n) <= BackoffDelay(n + 1)
<1>1. /\ CappedPower(n - 1) \in Nat /\ CappedPower(n) \in Nat
      /\ CappedPower(n - 1) <= CappedPower(n)
  BY CappedPowerBounds, CappedPowerGrows
<1>2. (n + 1) - 1 = n
  OBVIOUS
<1> QED BY <1>1, <1>2, PolicyAssumption DEF BackoffDelay, AtLeast, AtMost

-----------------------------------------------------------------------------
(* The inductive invariant *)

\* The types of the variables that are numbers.
Numbers ==
    /\ phase \in {"connect", "running", "sleeping", "exited"}
    /\ interval \in Int /\ delay \in Int
    /\ failures \in Nat /\ attempts \in Nat /\ cooldowns \in Nat /\ connects \in Nat

\* Failures are counted while the loop sleeps and reconnects, never while it runs, and
\* the delay belongs to that number of failures.
DelayKnown ==
    /\ phase = "running" => failures = 0
    /\ phase = "sleeping" => failures >= 1
    /\ failures >= 1 /\ phase # "exited" => delay = BackoffDelay(failures)

\* CountersHonest, and what makes it inductive: a loop that runs has connected once more
\* than it has cooled down, because cooldowns come with failures.
CountersKnown ==
    /\ CountersHonest
    /\ phase # "connect" => connects >= 1
    /\ phase = "running" => cooldowns < connects
    /\ failures >= 1 => connects >= 1

\* The first call of connect is the one that sets has_attempted_connection.
AttemptedKnown == attempted \in BOOLEAN /\ (attempted <=> connects >= 1)

Inv == Numbers /\ interval \in Intervals /\ DelayKnown /\ CountersKnown /\ AttemptedKnown

LEMMA InvInit == Init => Inv
<1> SUFFICES ASSUME Init PROVE Inv
    OBVIOUS
<1>1. Numbers /\ interval \in Intervals /\ DelayKnown
  BY PolicyAssumption DEF Init, Numbers, DelayKnown
<1>2. CountersKnown
  BY PolicyAssumption DEF Init, CountersKnown, CountersHonest, AtLeast
<1>3. AttemptedKnown
  <2>1. ~(connects >= 1)
    BY DEF Init
  <2> QED BY <2>1, Zenon DEF Init, AttemptedKnown
<1> QED BY <1>1, <1>2, <1>3 DEF Inv

\* CountAttempt counts every connect but the first.
LEMMA CountAttemptStep ==
    ASSUME Inv, CountAttempt
    PROVE  /\ attempts' \in Nat /\ connects' = connects + 1
           /\ attempts' = AtLeast(connects' - 1, 0)
           /\ AttemptedKnown'
<1>1. connects \in Nat /\ attempts \in Nat /\ attempts = AtLeast(connects - 1, 0)
  BY DEF Inv, Numbers, CountersKnown, CountersHonest
<1>2. connects' = connects + 1
  BY DEF CountAttempt
<1>3. attempts' = IF connects >= 1 THEN attempts + 1 ELSE attempts
  BY Zenon DEF Inv, AttemptedKnown, CountAttempt
<1>4. connects' >= 1
  BY <1>1, <1>2
<1>5. AttemptedKnown'
  BY <1>4, Zenon DEF AttemptedKnown, CountAttempt
<1> QED BY <1>1, <1>2, <1>3, <1>5 DEF AtLeast

\* The except handler, entered with or without a new connect.
LEMMA PenaliseStep ==
    ASSUME Inv, Penalise, AfterError, connects' \in Nat, attempts' \in Nat, connects' >= 1,
           attempts' = AtLeast(connects' - 1, 0),
           \/ phase = "running" /\ connects' = connects
           \/ phase = "connect" /\ connects' = connects + 1
    PROVE  Numbers' /\ interval' \in Intervals /\ DelayKnown' /\ CountersKnown'
<1>0. Numbers /\ DelayKnown /\ CountersKnown /\ interval \in Intervals
  BY DEF Inv
<1>1. failures' = failures + 1 /\ interval' = interval /\ interval' \in Int
  BY <1>0 DEF Penalise, Numbers
<1>2. CASE Overflows(failures + 1)
  <2>1. phase' = "exited" /\ delay' = delay /\ cooldowns' = cooldowns
    BY <1>2 DEF AfterError, Penalise
  <2> QED BY <1>0, <1>1, <2>1
          DEF Numbers, DelayKnown, CountersKnown, CountersHonest
<1>3. CASE ~Overflows(failures + 1)
  <2>1. /\ phase' = "sleeping"
        /\ delay' = BackoffDelay(failures + 1)
        /\ cooldowns' = IF failures + 1 >= CooldownThreshold THEN cooldowns + 1
                                                              ELSE cooldowns
    BY <1>3 DEF AfterError, Penalise
  <2>2. delay' \in Int
    BY <1>0, <2>1, BackoffDelayBounds DEF Numbers
  <2>3. Numbers'
    BY <1>0, <1>1, <2>1, <2>2 DEF Numbers
  <2>4. BackoffDelay(failures)' = BackoffDelay(failures + 1)
    BY <1>1 DEF BackoffDelay
  <2>5. DelayKnown'
    BY <1>0, <1>1, <2>1, <2>4 DEF DelayKnown, Numbers
  <2>6. CountersKnown'
    BY <1>0, <1>1, <2>1, PolicyAssumption
       DEF Numbers, DelayKnown, CountersKnown, CountersHonest
  <2> QED BY <1>0, <1>1, <2>3, <2>5, <2>6
<1> QED BY <1>2, <1>3

LEMMA InvStep == Inv /\ [Next]_vars => Inv'
<1> SUFFICES ASSUME Inv, [Next]_vars PROVE Inv'
    OBVIOUS
<1>0. Numbers /\ DelayKnown /\ CountersKnown /\ interval \in Intervals
  BY DEF Inv
<1>1. CASE Connects
  <2>1. CountAttempt /\ Reset /\ phase' = "running"
    BY <1>1 DEF Connects
  <2>2. /\ attempts' \in Nat /\ connects' = connects + 1
        /\ attempts' = AtLeast(connects' - 1, 0)
        /\ AttemptedKnown'
    BY <2>1, CountAttemptStep
  <2>3. /\ failures' = 0 /\ delay' = interval /\ interval' = interval
        /\ cooldowns' = cooldowns
    BY <2>1 DEF Reset
  <2>4. Numbers' /\ interval' \in Intervals /\ DelayKnown'
    BY <1>0, <2>1, <2>2, <2>3 DEF Numbers, DelayKnown
  <2>5. CountersKnown'
    BY <1>0, <2>1, <2>2, <2>3, PolicyAssumption DEF Numbers, CountersKnown, CountersHonest
  <2> QED BY <2>2, <2>4, <2>5 DEF Inv
<1>2. CASE ConnectFails
  <2>1. phase = "connect" /\ CountAttempt /\ Penalise /\ AfterError
    BY <1>2 DEF ConnectFails
  <2>2. /\ attempts' \in Nat /\ connects' = connects + 1
        /\ attempts' = AtLeast(connects' - 1, 0)
        /\ AttemptedKnown'
    BY <2>1, CountAttemptStep
  <2>3. connects' \in Nat /\ connects' >= 1
    BY <1>0, <2>2 DEF Numbers
  <2> QED BY <2>1, <2>2, <2>3, PenaliseStep DEF Inv
<1>3. CASE LoopFails
  <2>1. /\ phase = "running" /\ Penalise /\ AfterError
        /\ UNCHANGED <<attempted, attempts, connects>>
    BY <1>3 DEF LoopFails
  <2>2. /\ attempts' \in Nat /\ connects' \in Nat /\ connects' >= 1
        /\ attempts' = AtLeast(connects' - 1, 0)
    BY <1>0, <2>1 DEF Numbers, CountersKnown, CountersHonest
  <2>3. AttemptedKnown'
    BY <2>1, Zenon DEF Inv, AttemptedKnown
  <2> QED BY <2>1, <2>2, <2>3, PenaliseStep DEF Inv
<1>4. CASE Wakes
  <2>1. phase = "sleeping" /\ phase' = "connect" /\ UNCHANGED policyVars
    BY <1>4 DEF Wakes
  <2>2. AttemptedKnown'
    BY <2>1, Zenon DEF Inv, AttemptedKnown, policyVars
  <2>3. Numbers' /\ interval' \in Intervals
    BY <1>0, <2>1 DEF policyVars, Numbers
  <2>4. DelayKnown'
    BY <1>0, <2>1 DEF policyVars, DelayKnown, BackoffDelay
  <2>5. CountersKnown'
    BY <1>0, <2>1 DEF policyVars, CountersKnown, CountersHonest, AtLeast
  <2> QED BY <2>2, <2>3, <2>4, <2>5 DEF Inv
<1>5. CASE UNCHANGED vars
  <2>1. UNCHANGED phase /\ UNCHANGED policyVars
    BY <1>5 DEF vars
  <2>2. AttemptedKnown'
    BY <2>1, Zenon DEF Inv, AttemptedKnown, policyVars
  <2>3. Numbers' /\ interval' \in Intervals
    BY <1>0, <2>1 DEF policyVars, Numbers
  <2>4. DelayKnown'
    BY <1>0, <2>1 DEF policyVars, DelayKnown, BackoffDelay
  <2>5. CountersKnown'
    BY <1>0, <2>1 DEF policyVars, CountersKnown, CountersHonest, AtLeast
  <2> QED BY <2>2, <2>3, <2>4, <2>5 DEF Inv
<1> QED BY <1>1, <1>2, <1>3, <1>4, <1>5 DEF Next

LEMMA InvAlways == Spec => []Inv
BY InvInit, InvStep, PTL DEF Spec

-----------------------------------------------------------------------------
(* Theorems *)

\* The variables of the reconnect policy of collect_events keep their types.
THEOREM PolicyTypeCorrect == Spec => []TypeOK
<1>1. Inv => TypeOK
  <2> SUFFICES ASSUME Inv PROVE TypeOK
      OBVIOUS
  <2>1. attempted \in BOOLEAN
    BY Zenon DEF Inv, AttemptedKnown
  <2> QED BY <2>1 DEF Inv, Numbers, TypeOK
<1> QED BY <1>1, InvAlways, PTL

\* The loop never sleeps less than a second, nor less than the interval and the cooldown
\* ask for, nor longer than the cap, whatever the interval and however often it failed.
THEOREM SleepBounded == Spec => []SleepInBounds
<1>1. Inv => SleepInBounds
  <2> SUFFICES ASSUME Inv, phase = "sleeping" PROVE SleepInBounds
      BY DEF SleepInBounds
  <2>1. failures \in Nat /\ failures >= 1 /\ interval \in Int /\ delay = BackoffDelay(failures)
    BY DEF Inv, Numbers, DelayKnown
  <2> QED BY <2>1, BackoffDelayBounds DEF SleepInBounds
<1> QED BY <1>1, InvAlways, PTL

\* The reconnect counters of the health log say what the loop has done.
THEOREM CountersAlwaysHonest == Spec => []CountersHonest
<1>1. Inv => CountersHonest
  BY DEF Inv, CountersKnown
<1> QED BY <1>1, InvAlways, PTL

\* Within a run of failures the backoff never shrinks; only a connect resets it.
THEOREM BackoffMonotone == Spec => DelayOnlyGrows
<1> DEFINE Grows == /\ failures > 0 /\ failures' > 0 => delay' >= delay
                    /\ failures' < failures => delay' = interval /\ phase' = "running"
<1>1. Inv /\ [Next]_vars => [Grows]_vars
  <2> SUFFICES ASSUME Inv, Next PROVE Grows
      OBVIOUS
  <2>0. Numbers /\ DelayKnown
    BY DEF Inv
  <2>1. CASE Connects
    BY <2>0, <2>1 DEF Connects, Reset, Numbers
  <2>2. CASE ConnectFails \/ LoopFails
    <3>1. Penalise /\ AfterError /\ phase \in {"connect", "running"}
      BY <2>2 DEF ConnectFails, LoopFails
    <3>2. failures' = failures + 1
      BY <3>1 DEF Penalise
    <3>3. CASE Overflows(failures + 1)
      BY <2>0, <3>1, <3>2, <3>3 DEF Penalise, Numbers
    <3>4. CASE ~Overflows(failures + 1) /\ failures > 0
      <4>1. delay' = BackoffDelay(failures + 1) /\ delay = BackoffDelay(failures)
        BY <2>0, <3>1, <3>4 DEF Penalise, DelayKnown, Numbers
      <4>2. BackoffDelay(failures) <= BackoffDelay(failures + 1)
        BY <2>0, <3>4, BackoffDelayGrows DEF Numbers
      <4> QED BY <2>0, <3>2, <4>1, <4>2 DEF Numbers
    <3>5. CASE failures = 0
      BY <3>2, <3>5
    <3> QED BY <2>0, <3>3, <3>4, <3>5 DEF Numbers
  <2>3. CASE Wakes
    BY <2>0, <2>3 DEF Wakes, policyVars, Numbers
  <2> QED BY <2>1, <2>2, <2>3 DEF Next
<1> QED BY <1>1, InvAlways, PTL DEF Spec, DelayOnlyGrows
=============================================================================
