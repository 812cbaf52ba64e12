----------------------------- MODULE Parts_proofs -----------------------------
(***************************************************************************)
(* Proofs about the parts of wfantund beside the instance and its tasks    *)
(* (the timers on a clock of any width, the local dataset, the outbound    *)
(* pump, packet capture, firmware upgrades, the commissioning firewall and *)
(* the registered properties) and about the parts of linux-host (what      *)
(* comes out of a FIFO of any depth is what went in, the mutex excludes    *)
(* any number of threads that it can tell apart, blocks of messages on a   *)
(* line that loses frames are put together to the message that was sent).  *)
(* Each part has an inductive invariant of its own.                        *)
(***************************************************************************)
EXTENDS WfTimer, WfDataset, WfPump, WfCapture, WfUpgrade, WfFirewall, WfProps,
        LhFifo, LhLock, LhMt, Integers, FiniteSetTheorems,
        WellFoundedInduction, TLAPS

-----------------------------------------------------------------------------
(* WfTimer: arithmetic of the wrapping clock.                              *)

\* Division with remainder.
LEMMA DivMod ==
    ASSUME NEW a \in Int, NEW t \in Nat \ {0}
    PROVE  /\ a = t * (a \div t) + (a % t)
           /\ a % t \in 0 .. t - 1
           /\ a \div t \in Int
BY SMT

\* A multiple of t is not strictly between 0 and t.
LEMMA NoMultipleBetween ==
    ASSUME NEW t \in Nat \ {0}, NEW q \in Int, NEW d \in Int,
           t * q = d, 0 < d, d < t
    PROVE  FALSE
BY SMT

\* A remainder is determined by its range.
LEMMA ModUnique ==
    ASSUME NEW a \in Int, NEW t \in Nat \ {0}, NEW q \in Int, NEW m \in 0 .. t - 1,
           a = t * q + m
    PROVE  a % t = m
<1> DEFINE p == a \div t
           r == a % t
<1>1. a = t * p + r /\ p \in Int /\ r \in 0 .. t - 1
  BY DivMod
<1> HIDE DEF p, r
<1>2. t * (q - p) = r - m /\ t * (p - q) = m - r
  BY <1>1, SMT
<1>3. q - p \in Int /\ p - q \in Int /\ r - m \in Int /\ m - r \in Int
      /\ r - m < t /\ m - r < t
  BY <1>1
<1>4. ~(0 < r - m)
  BY <1>2, <1>3, NoMultipleBetween
<1>5. ~(0 < m - r)
  BY <1>2, <1>3, NoMultipleBetween
<1>6. r = m
  BY <1>1, <1>4, <1>5
<1> QED
  BY <1>6 DEF r

\* Two times that are x apart, whatever number of wraps between them.
Apart(a, b, x) == \E q \in Int : a = b + x + TimerWrap * q

\* cms_t holds a difference of less than half its range.
LEMMA SignedIsDifference ==
    ASSUME NEW a \in Int, NEW b \in Int, NEW x \in Int, Apart(a, b, x),
           2 * x < TimerWrap, -TimerWrap < 2 * x
    PROVE  Signed(a - b) = x
<1>1. PICK q \in Int : a = b + x + TimerWrap * q
  BY DEF Apart
<1>2. TimerWrap \in Nat \ {0}
  BY TimerAssumption
<1>3. a - b \in Int
  OBVIOUS
<1>4. CASE x >= 0
  <2>1. a - b = TimerWrap * q + x /\ x \in 0 .. TimerWrap - 1
    BY <1>1, <1>2, <1>4
  <2>2. (a - b) % TimerWrap = x
    BY <1>2, <1>3, <2>1, ModUnique
  <2> QED
    BY <1>2, <2>2 DEF Signed
<1>5. CASE x < 0
  <2> DEFINE m == x + TimerWrap
  <2>1. a - b = TimerWrap * (q - 1) + m /\ m \in 0 .. TimerWrap - 1 /\ q - 1 \in Int
    BY <1>1, <1>2, <1>5
  <2>2. (a - b) % TimerWrap = m
    BY <1>2, <1>3, <2>1, ModUnique
  <2> QED
    BY <1>2, <2>2 DEF Signed
<1> QED
  BY <1>4, <1>5

-----------------------------------------------------------------------------
(* WfTimer: the list.                                                      *)

\* A timer that is as far off as tDue says.
Timed(t, now, fire, due) ==
    /\ due[t] \in -MaxLate .. MaxInterval
    /\ fire[t] \in Int /\ Apart(fire[t], now, due[t])

\* No timer is listed twice and none before one that is due earlier.
Sorted(list, due) ==
    \A i, j \in DOMAIN list : i < j => list[i] # list[j] /\ due[list[i]] <= due[list[j]]

\* Comparing the wrapped times of two timers compares when they are due.
LEMMA EarlierIsDueBefore ==
    ASSUME NEW t, NEW u, NEW now \in Int, NEW fire, NEW due,
           Timed(t, now, fire, due), Timed(u, now, fire, due)
    PROVE  Earlier(fire[t], fire[u]) <=> due[t] < due[u]
<1> DEFINE ft == fire[t]
           fu == fire[u]
           dt == due[t]
           du == due[u]
<1>0. /\ ft \in Int /\ fu \in Int /\ dt \in -MaxLate .. MaxInterval
      /\ du \in -MaxLate .. MaxInterval /\ Apart(ft, now, dt) /\ Apart(fu, now, du)
  BY DEF Timed
<1> HIDE DEF ft, fu, dt, du
<1>1. PICK p \in Int : ft = now + dt + TimerWrap * p
  BY <1>0 DEF Apart
<1>2. PICK q \in Int : fu = now + du + TimerWrap * q
  BY <1>0 DEF Apart
<1>3. /\ dt \in Int /\ du \in Int /\ TimerWrap \in Nat /\ p - q \in Int
      /\ 2 * (dt - du) < TimerWrap /\ -TimerWrap < 2 * (dt - du) /\ dt - du \in Int
  BY <1>0, TimerAssumption
<1>4. TimerWrap * p - TimerWrap * q = TimerWrap * (p - q)
  BY <1>3, SMT
<1>5. TimerWrap * p \in Int /\ TimerWrap * q \in Int
  BY <1>3
<1>6. ft = fu + (dt - du) + TimerWrap * (p - q)
  <2> DEFINE wp == TimerWrap * p
             wq == TimerWrap * q
             wd == TimerWrap * (p - q)
  <2>1. wp - wq = wd /\ wp \in Int /\ wq \in Int /\ ft = now + dt + wp /\ fu = now + du + wq
    BY <1>1, <1>2, <1>4, <1>5
  <2> HIDE DEF wp, wq, wd
  <2>2. ft = fu + (dt - du) + wd
    BY <1>3, <2>1
  <2> QED
    BY <2>2 DEF wd
<1>7. Apart(ft, fu, dt - du)
  BY <1>3, <1>6 DEF Apart
<1>8. Signed(ft - fu) = dt - du
  BY <1>0, <1>3, <1>7, SignedIsDifference
<1>9. Signed(ft - fu) < 0 <=> dt < du
  BY <1>3, <1>8
<1> QED
  BY <1>9 DEF Earlier, ft, fu, dt, du

\* A nonempty set of naturals has a least element.
LEMMA LeastExists ==
    ASSUME NEW T \in SUBSET Nat, T # {}
    PROVE  \E x \in T : \A y \in T : x <= y
<1> DEFINE R == OpToRel(<, Nat)
<1>1. PICK x \in T : \A y \in T : ~(<<y, x>> \in R)
  BY NatLessThanWellFounded, WFMin
<1>2. ASSUME NEW y \in T PROVE x <= y
  <2>1. x \in Nat /\ y \in Nat
    OBVIOUS
  <2>2. ~(<<y, x>> \in R)
    BY <1>1
  <2>3. ~(y < x)
    BY <2>1, <2>2, Zenon DEF OpToRel
  <2> QED
    BY <2>1, <2>3
<1> QED
  BY <1>2

\* Timer::add finds a place.
LEMMA PlaceFound ==
    ASSUME NEW list \in Seq(Timers), NEW t, NEW fire
    PROVE  /\ PlaceOf(list, t, fire) \in 1 .. Len(list) + 1
           /\ \A j \in 1 .. PlaceOf(list, t, fire) - 1 : ~Earlier(fire[t], fire[list[j]])
           /\ PlaceOf(list, t, fire) <= Len(list) =>
                 Earlier(fire[t], fire[list[PlaceOf(list, t, fire)]])
<1> DEFINE E(k) == Earlier(fire[t], fire[list[k]])
           T == {k \in 1 .. Len(list) + 1 : k <= Len(list) => E(k)}
<1> HIDE DEF E
<1>1. Len(list) + 1 \in T /\ T \in SUBSET Nat /\ Len(list) \in Nat
  OBVIOUS
<1>2. PICK k \in T : \A y \in T : k <= y
  BY <1>1, LeastExists
<1>3. \A j \in 1 .. k - 1 : ~E(j)
  BY <1>1, <1>2
<1>4. /\ k \in 1 .. Len(list) + 1 /\ \A j \in 1 .. k - 1 : ~E(j)
      /\ k <= Len(list) => E(k)
  BY <1>2, <1>3
<1> QED
  BY <1>4 DEF PlaceOf, E

\* Timer::add keeps the list sorted.
LEMMA AddSorts ==
    ASSUME NEW list \in Seq(Timers), NEW t \in Timers, ~OnList(list, t),
           NEW now \in Int, NEW fire, NEW due, Sorted(list, due),
           Timed(t, now, fire, due), \A i \in DOMAIN list : Timed(list[i], now, fire, due)
    PROVE  /\ TimerAdd(list, t, fire) \in Seq(Timers)
           /\ Sorted(TimerAdd(list, t, fire), due)
           /\ \A i \in DOMAIN TimerAdd(list, t, fire) :
                 TimerAdd(list, t, fire)[i] = t \/ OnList(list, TimerAdd(list, t, fire)[i])
<1> DEFINE k == PlaceOf(list, t, fire)
           n == Len(list)
           new == TimerAdd(list, t, fire)
<1>1. /\ k \in 1 .. n + 1
      /\ \A j \in 1 .. k - 1 : ~Earlier(fire[t], fire[list[j]])
      /\ k <= n => Earlier(fire[t], fire[list[k]])
  BY PlaceFound
<1>2. new = [j \in 1 .. n + 1 |-> IF j < k THEN list[j] ELSE IF j = k THEN t ELSE list[j - 1]]
  BY DEF TimerAdd
<1>3. n \in Nat /\ DOMAIN list = 1 .. n /\ \A i \in 1 .. n : list[i] \in Timers
  OBVIOUS
<1>4. \A j \in 1 .. n : due[list[j]] \in Int /\ due[t] \in Int
  BY <1>3, TimerAssumption DEF Timed
<1>5. \A j \in 1 .. k - 1 : due[list[j]] <= due[t]
  <2> TAKE j \in 1 .. k - 1
  <2>1. j \in 1 .. n
    BY <1>1, <1>3
  <2>2. Timed(list[j], now, fire, due)
    BY <1>3, <2>1
  <2>3. ~(due[t] < due[list[j]])
    BY <1>1, <2>2, EarlierIsDueBefore
  <2> QED
    BY <1>4, <2>1, <2>3
<1>6. k <= n => due[t] < due[list[k]]
  <2> SUFFICES ASSUME k <= n PROVE due[t] < due[list[k]]
    OBVIOUS
  <2>1. Timed(list[k], now, fire, due)
    BY <1>1, <1>3
  <2> QED
    BY <1>1, <2>1, EarlierIsDueBefore
<1> HIDE DEF k, n, new
<1>7. \A j \in k .. n : due[t] < due[list[j]]
  <2> TAKE j \in k .. n
  <2>0. k \in 1 .. n /\ j \in 1 .. n
    BY <1>1, <1>3
  <2>1. due[t] < due[list[k]]
    BY <1>6, <2>0
  <2>2. due[list[k]] <= due[list[j]]
    <3>1. CASE j = k
      BY <1>4, <2>0, <3>1
    <3>2. CASE j # k
      <4>1. k < j
        BY <2>0, <3>2
      <4> QED
        BY <1>3, <2>0, <4>1 DEF Sorted
    <3> QED
      BY <3>1, <3>2
  <2> QED
    BY <1>4, <2>0, <2>1, <2>2
<1>8. new \in Seq(Timers) /\ DOMAIN new = 1 .. n + 1
  <2>1. \A j \in 1 .. n + 1 : new[j] \in Timers
    BY <1>1, <1>2, <1>3
  <2>2. new \in [1 .. n + 1 -> Timers] /\ n + 1 \in Nat
    BY <1>2, <1>3, <2>1
  <2> QED
    BY <2>2
<1>9. Sorted(new, due)
  <2> SUFFICES ASSUME NEW i \in 1 .. n + 1, NEW j \in 1 .. n + 1, i < j
               PROVE  new[i] # new[j] /\ due[new[i]] <= due[new[j]]
    BY <1>8 DEF Sorted
  <2>o. \A u \in 1 .. n : list[u] # t
    BY <1>3 DEF OnList
  <2>1. CASE j < k
    <3>1. new[i] = list[i] /\ new[j] = list[j] /\ i \in 1 .. n /\ j \in 1 .. n
      BY <1>1, <1>2, <1>3, <2>1
    <3> QED
      BY <1>3, <3>1 DEF Sorted
  <2>2. CASE j = k
    <3>1. new[i] = list[i] /\ new[j] = t /\ i \in 1 .. n /\ i \in 1 .. k - 1
      BY <1>1, <1>2, <1>3, <2>2
    <3> QED
      BY <1>5, <3>1, <2>o
  <2>3. CASE j > k /\ i < k
    <3>1. new[i] = list[i] /\ new[j] = list[j - 1] /\ i \in 1 .. n /\ j - 1 \in 1 .. n
          /\ i < j - 1
      BY <1>1, <1>2, <1>3, <2>3
    <3> QED
      BY <1>3, <3>1 DEF Sorted
  <2>4. CASE j > k /\ i = k
    <3>1. new[i] = t /\ new[j] = list[j - 1] /\ j - 1 \in 1 .. n /\ j - 1 \in k .. n
      BY <1>1, <1>2, <1>3, <2>4
    <3>2. due[t] < due[list[j - 1]]
      BY <1>7, <3>1
    <3> QED
      BY <1>4, <2>o, <3>1, <3>2
  <2>5. CASE j > k /\ i > k
    <3>1. new[i] = list[i - 1] /\ new[j] = list[j - 1] /\ i - 1 \in 1 .. n
          /\ j - 1 \in 1 .. n /\ i - 1 < j - 1
      BY <1>1, <1>2, <1>3, <2>5
    <3> QED
      BY <1>3, <3>1 DEF Sorted
  <2> QED
    BY <1>1, <1>3, <2>1, <2>2, <2>3, <2>4, <2>5
<1>10. \A i \in DOMAIN new : new[i] = t \/ OnList(list, new[i])
  <2> SUFFICES ASSUME NEW i \in 1 .. n + 1 PROVE new[i] = t \/ OnList(list, new[i])
    BY <1>8
  <2>1. CASE i < k
    <3>1. new[i] = list[i] /\ i \in 1 .. n
      BY <1>1, <1>2, <1>3, <2>1
    <3> QED
      BY <1>3, <3>1 DEF OnList
  <2>2. CASE i = k
    BY <1>1, <1>2, <2>2
  <2>3. CASE i > k
    <3>1. new[i] = list[i - 1] /\ i - 1 \in 1 .. n
      BY <1>1, <1>2, <1>3, <2>3
    <3> QED
      BY <1>3, <3>1 DEF OnList
  <2> QED
    BY <1>1, <2>1, <2>2, <2>3
<1> QED
  BY <1>8, <1>9, <1>10 DEF new

\* What is left of a list: entries of it, in the same order.
Within(part, list) ==
    /\ \A i \in DOMAIN part : \E p \in DOMAIN list : part[i] = list[p]
    /\ \A i, j \in DOMAIN part : i < j =>
          \E p, q \in DOMAIN list : p < q /\ part[i] = list[p] /\ part[j] = list[q]

\* What is left of a sorted list is sorted.
LEMMA WithinSorted ==
    ASSUME NEW part, NEW list, NEW due, Within(part, list), Sorted(list, due)
    PROVE  Sorted(part, due)
BY DEF Within, Sorted

\* Timer::remove takes the timer out and nothing else.
LEMMA RemoveResult ==
    ASSUME NEW list \in Seq(Timers), NEW t \in Timers, NEW due, Sorted(list, due)
    PROVE  /\ TimerRemove(list, t) \in Seq(Timers)
           /\ ~OnList(TimerRemove(list, t), t)
           /\ Within(TimerRemove(list, t), list)
<1>1. CASE ~OnList(list, t)
  <2>1. TimerRemove(list, t) = list
    BY <1>1 DEF TimerRemove
  <2> QED
    BY <1>1, <2>1 DEF Within
<1>2. CASE OnList(list, t)
  <2> DEFINE k == CHOOSE i \in DOMAIN list : list[i] = t
             n == Len(list)
             new == TimerRemove(list, t)
  <2>1. k \in 1 .. n /\ list[k] = t
    BY <1>2 DEF OnList
  <2>2. new = [j \in 1 .. n - 1 |-> IF j < k THEN list[j] ELSE list[j + 1]]
    BY <1>2 DEF TimerRemove
  <2>3. n \in Nat /\ DOMAIN list = 1 .. n /\ \A i \in 1 .. n : list[i] \in Timers
    OBVIOUS
  <2> HIDE DEF k, n, new
  <2>4. \A j \in 1 .. n : j # k => list[j] # t
    <3> SUFFICES ASSUME NEW j \in 1 .. n, j # k PROVE list[j] # list[k]
      BY <2>1
    <3>1. j < k \/ k < j
      BY <2>1, <2>3
    <3> QED
      BY <2>1, <2>3, <3>1 DEF Sorted
  <2>5. DOMAIN new = 1 .. n - 1
    BY <2>2
  <2>6. ASSUME NEW i \in 1 .. n - 1
        PROVE  \E p \in 1 .. n : /\ new[i] = list[p] /\ p # k
                                 /\ p = IF i < k THEN i ELSE i + 1
    <3>1. CASE i < k
      BY <2>1, <2>2, <2>3, <3>1
    <3>2. CASE ~(i < k)
      BY <2>1, <2>2, <2>3, <3>2
    <3> QED
      BY <3>1, <3>2
  <2>7. new \in Seq(Timers)
    <3>1. \A i \in 1 .. n - 1 : new[i] \in Timers
      BY <2>3, <2>6
    <3>2. new \in [1 .. n - 1 -> Timers] /\ n - 1 \in Nat
      BY <2>1, <2>2, <2>3, <3>1
    <3> QED
      BY <3>2
  <2>8. ~OnList(new, t)
    BY <2>4, <2>5, <2>6 DEF OnList
  <2>9. Within(new, list)
    <3>1. ASSUME NEW i \in 1 .. n - 1, NEW j \in 1 .. n - 1, i < j
          PROVE  \E p, q \in 1 .. n : p < q /\ new[i] = list[p] /\ new[j] = list[q]
      <4>1. PICK p \in 1 .. n : new[i] = list[p] /\ p = IF i < k THEN i ELSE i + 1
        BY <2>6
      <4>2. PICK q \in 1 .. n : new[j] = list[q] /\ q = IF j < k THEN j ELSE j + 1
        BY <2>6
      <4>3. p < q
        BY <2>1, <2>3, <3>1, <4>1, <4>2
      <4> QED
        BY <4>1, <4>2, <4>3
    <3>2. \A i \in 1 .. n - 1 : \E p \in 1 .. n : new[i] = list[p]
      BY <2>6
    <3>3. \A i, j \in 1 .. n - 1 : i < j =>
             \E p, q \in 1 .. n : p < q /\ new[i] = list[p] /\ new[j] = list[q]
      BY <3>1
    <3>4. \A i \in DOMAIN new : \E p \in DOMAIN list : new[i] = list[p]
      BY <2>3, <2>5, <3>2
    <3>5. \A i, j \in DOMAIN new : i < j =>
             \E p, q \in DOMAIN list : p < q /\ new[i] = list[p] /\ new[j] = list[q]
      <4> DEFINE D == DOMAIN new
                 E == DOMAIN list
      <4>1. D = 1 .. n - 1 /\ E = 1 .. n
        BY <2>3, <2>5
      <4> HIDE DEF D, E
      <4>2. \A i, j \in D : i < j =>
               \E p, q \in E : p < q /\ new[i] = list[p] /\ new[j] = list[q]
        BY <3>3, <4>1
      <4> QED
        BY <4>2 DEF D, E
    <3> QED
      BY <3>4, <3>5 DEF Within
  <2> QED
    BY <2>7, <2>8, <2>9 DEF new
<1> QED
  BY <1>1, <1>2

\* The head of the list leaves it.
LEMMA TailResult ==
    ASSUME NEW list \in Seq(Timers), list # <<>>, NEW due, Sorted(list, due)
    PROVE  /\ Tail(list) \in Seq(Timers) /\ Head(list) \in Timers
           /\ ~OnList(Tail(list), Head(list))
           /\ Within(Tail(list), list)
<1> DEFINE n == Len(list)
           new == Tail(list)
<1>1. n \in Nat /\ n # 0 /\ DOMAIN list = 1 .. n
  OBVIOUS
<1>2. new \in Seq(Timers) /\ Head(list) \in Timers /\ Head(list) = list[1]
  OBVIOUS
<1>3. DOMAIN new = 1 .. n - 1 /\ \A i \in 1 .. n - 1 : new[i] = list[i + 1]
  OBVIOUS
<1> HIDE DEF n, new
<1>4. \A i \in 1 .. n - 1 : i + 1 \in 1 .. n /\ 1 \in 1 .. n /\ 1 < i + 1
  BY <1>1
<1>5. \A i \in 1 .. n - 1 : new[i] # list[1]
  BY <1>1, <1>3, <1>4 DEF Sorted
<1>6. ~OnList(new, Head(list))
  BY <1>2, <1>3, <1>5 DEF OnList
<1>7. Within(new, list)
  <2>1. \A i, j \in 1 .. n - 1 : i < j => i + 1 < j + 1
    BY <1>1
  <2> QED
    BY <1>1, <1>3, <1>4, <2>1 DEF Within
<1> QED
  BY <1>2, <1>6, <1>7 DEF new

-----------------------------------------------------------------------------
(* WfTimer: the inductive invariant.                                       *)

TimerTypeOK ==
    /\ tNow \in 0 .. TimerWrap - 1
    /\ tFire \in [Timers -> 0 .. TimerWrap - 1]
    /\ tInterval \in [Timers -> 0 .. MaxInterval]
    /\ tDue \in [Timers -> Int]
    /\ tList \in Seq(Timers)

\* Every listed timer has an interval and is as far off as tDue says.
ListedTimed ==
    \A i \in DOMAIN tList : /\ tInterval[tList[i]] \in 1 .. MaxInterval
                            /\ Timed(tList[i], tNow, tFire, tDue)

TimerInv == TimerTypeOK /\ ListedTimed /\ Sorted(tList, tDue)

\* A time of the clock, taken modulo its range.
LEMMA WrappedTime ==
    ASSUME NEW a \in Int
    PROVE  /\ a % TimerWrap \in 0 .. TimerWrap - 1
           /\ \E q \in Int : a % TimerWrap = a + TimerWrap * q
<1>1. TimerWrap \in Nat \ {0}
  BY TimerAssumption
<1> DEFINE p == a \div TimerWrap
           r == a % TimerWrap
<1>2. a = TimerWrap * p + r /\ p \in Int /\ r \in 0 .. TimerWrap - 1
  BY <1>1, DivMod
<1> HIDE DEF p, r
<1>3. r = a + TimerWrap * (-p) /\ -p \in Int
  BY <1>1, <1>2
<1> QED
  BY <1>2, <1>3 DEF r

\* Scheduling a timer x from a time: it is then x off, or later by what that
\* time has passed.
LEMMA AddInterval ==
    ASSUME NEW f \in Int, NEW now \in Int, NEW d \in Int, Apart(f, now, d), NEW x \in Int
    PROVE  Apart((x + f) % TimerWrap, now, d + x)
<1>0. TimerWrap \in Nat /\ x + f \in Int
  BY TimerAssumption
<1>1. PICK p \in Int : f = now + d + TimerWrap * p
  BY DEF Apart
<1>2. PICK q \in Int : (x + f) % TimerWrap = x + f + TimerWrap * q
  BY <1>0, WrappedTime
<1> DEFINE wp == TimerWrap * p
           wq == TimerWrap * q
           r == (x + f) % TimerWrap
<1>3. wp \in Int /\ wq \in Int /\ wp + wq = TimerWrap * (p + q) /\ p + q \in Int
  BY <1>0, SMT
<1>4. f = now + d + wp /\ r = x + f + wq
  BY <1>1, <1>2
<1> HIDE DEF wp, wq, r
<1>5. r = now + (d + x) + TimerWrap * (p + q)
  <2>1. r = now + (d + x) + (wp + wq)
    BY <1>3, <1>4
  <2> QED
    BY <1>3, <2>1
<1> QED
  BY <1>3, <1>5 DEF Apart, r

\* A millisecond passes.
LEMMA TickApart ==
    ASSUME NEW f \in Int, NEW now \in Int, NEW d \in Int, Apart(f, now, d)
    PROVE  Apart(f, (now + 1) % TimerWrap, d - 1)
<1>0. TimerWrap \in Nat /\ now + 1 \in Int
  BY TimerAssumption
<1>1. PICK p \in Int : f = now + d + TimerWrap * p
  BY DEF Apart
<1>2. PICK q \in Int : (now + 1) % TimerWrap = now + 1 + TimerWrap * q
  BY <1>0, WrappedTime
<1> DEFINE wp == TimerWrap * p
           wq == TimerWrap * q
           r == (now + 1) % TimerWrap
<1>3. wp \in Int /\ wq \in Int /\ wp - wq = TimerWrap * (p - q) /\ p - q \in Int
  BY <1>0, SMT
<1>4. f = now + d + wp /\ r = now + 1 + wq
  BY <1>1, <1>2
<1> HIDE DEF wp, wq, r
<1>5. f = r + (d - 1) + TimerWrap * (p - q)
  <2>1. f = r + (d - 1) + (wp - wq)
    BY <1>3, <1>4
  <2> QED
    BY <1>3, <2>1
<1> QED
  BY <1>3, <1>5 DEF Apart, r

\* A timer that enters the list, whatever was removed before.
LEMMA EntersKeeps ==
    ASSUME TimerInv, NEW t \in Timers, NEW part \in Seq(Timers), ~OnList(part, t),
           Within(part, tList), tNow' = tNow,
           tFire' \in [Timers -> 0 .. TimerWrap - 1],
           tInterval' \in [Timers -> 0 .. MaxInterval], tDue' \in [Timers -> Int],
           \A u \in Timers : u # t => /\ tFire'[u] = tFire[u] /\ tDue'[u] = tDue[u]
                                      /\ tInterval'[u] = tInterval[u],
           tInterval'[t] \in 1 .. MaxInterval, Timed(t, tNow, tFire', tDue'),
           tList' = TimerAdd(part, t, tFire')
    PROVE  TimerInv'
<1>1. \A i \in DOMAIN part : /\ part[i] \in Timers /\ part[i] # t
                             /\ tInterval[part[i]] \in 1 .. MaxInterval
                             /\ Timed(part[i], tNow, tFire, tDue)
  BY DEF TimerInv, ListedTimed, Within, OnList
<1>2. Sorted(part, tDue)
  BY WithinSorted DEF TimerInv
<1>3. Sorted(part, tDue') /\ \A i \in DOMAIN part : Timed(part[i], tNow, tFire', tDue')
  <2>1. \A i \in DOMAIN part : /\ tFire'[part[i]] = tFire[part[i]]
                               /\ tDue'[part[i]] = tDue[part[i]]
    BY <1>1
  <2> QED
    BY <1>1, <1>2, <2>1 DEF Sorted, Timed
<1>4. tNow \in Int
  BY TimerAssumption DEF TimerInv, TimerTypeOK
<1>5. /\ tList' \in Seq(Timers) /\ Sorted(tList', tDue')
      /\ \A i \in DOMAIN tList' : tList'[i] = t \/ OnList(part, tList'[i])
  BY <1>3, <1>4, AddSorts
<1>6. ListedTimed'
  <2> SUFFICES ASSUME NEW i \in DOMAIN tList'
               PROVE  /\ tInterval'[tList'[i]] \in 1 .. MaxInterval
                      /\ Timed(tList'[i], tNow, tFire', tDue')
    BY DEF ListedTimed
  <2>1. CASE tList'[i] = t
    BY <2>1
  <2>2. CASE OnList(part, tList'[i])
    <3>1. PICK j \in DOMAIN part : part[j] = tList'[i]
      BY <2>2 DEF OnList
    <3>2. tInterval'[part[j]] = tInterval[part[j]]
      BY <1>1
    <3> QED
      BY <1>1, <1>3, <3>1, <3>2
  <2> QED
    BY <1>5, <2>1, <2>2
<1>7. TimerTypeOK'
  BY <1>5 DEF TimerInv, TimerTypeOK
<1> QED
  BY <1>5, <1>6, <1>7 DEF TimerInv

\* A timer that leaves the list and is forgotten.
LEMMA LeavesKeeps ==
    ASSUME TimerInv, NEW t \in Timers, NEW part \in Seq(Timers), ~OnList(part, t),
           Within(part, tList), tNow' = tNow, Forget(t), tList' = part
    PROVE  TimerInv'
<1>0. TimerWrap \in Nat \ {0} /\ MaxInterval \in Nat
  BY TimerAssumption
<1>1. /\ tFire' \in [Timers -> 0 .. TimerWrap - 1]
      /\ tInterval' \in [Timers -> 0 .. MaxInterval] /\ tDue' \in [Timers -> Int]
      /\ \A u \in Timers : u # t => /\ tFire'[u] = tFire[u] /\ tDue'[u] = tDue[u]
                                    /\ tInterval'[u] = tInterval[u]
  BY <1>0 DEF TimerInv, TimerTypeOK, Forget
<1>2. \A i \in DOMAIN part : /\ part[i] \in Timers /\ part[i] # t
                             /\ tInterval[part[i]] \in 1 .. MaxInterval
                             /\ Timed(part[i], tNow, tFire, tDue)
  BY DEF TimerInv, ListedTimed, Within, OnList
<1>3. Sorted(part, tDue)
  BY WithinSorted DEF TimerInv
<1>4. Sorted(part, tDue') /\ \A i \in DOMAIN part : Timed(part[i], tNow, tFire', tDue')
  <2>1. \A i \in DOMAIN part : /\ tFire'[part[i]] = tFire[part[i]]
                               /\ tDue'[part[i]] = tDue[part[i]]
    BY <1>1, <1>2
  <2> QED
    BY <1>2, <1>3, <2>1 DEF Sorted, Timed
<1>5. ListedTimed'
  BY <1>1, <1>2, <1>4 DEF ListedTimed
<1>6. TimerTypeOK'
  BY <1>1 DEF TimerInv, TimerTypeOK
<1> QED
  BY <1>4, <1>5, <1>6 DEF TimerInv

\* Timer::schedule
LEMMA ScheduleKeeps ==
    ASSUME TimerInv, NEW t \in Timers, NEW i \in 1 .. MaxInterval, NEW y,
           TimerSchedule(t, i, y)
    PROVE  TimerInv'
<1> DEFINE part == TimerRemove(tList, t)
           f == (i + tNow) % TimerWrap
<1>1. part \in Seq(Timers) /\ ~OnList(part, t) /\ Within(part, tList)
  BY RemoveResult DEF TimerInv, TimerTypeOK
<1>2. i \in Int /\ i \in 0 .. MaxInterval /\ tNow \in Int /\ tNow' = tNow
  BY TimerAssumption DEF TimerInv, TimerTypeOK, TimerSchedule
<1>3. f \in 0 .. TimerWrap - 1 /\ f \in Int
  <2>1. i + tNow \in Int /\ TimerWrap \in Nat
    BY <1>2, TimerAssumption
  <2>2. f \in 0 .. TimerWrap - 1
    BY <2>1, WrappedTime
  <2> HIDE DEF f
  <2> QED
    BY <2>1, <2>2
<1>4. Apart(f, tNow, 0 + i)
  <2>1. Apart(tNow, tNow, 0)
    <3>1. tNow = tNow + 0 + TimerWrap * 0
      BY <1>2, TimerAssumption
    <3> QED
      BY <3>1 DEF Apart
  <2> QED
    BY <1>2, <2>1, AddInterval
<1> HIDE DEF f, part
<1>5. /\ tFire' = [tFire EXCEPT ![t] = f] /\ tInterval' = [tInterval EXCEPT ![t] = i]
      /\ tDue' = [tDue EXCEPT ![t] = i] /\ tList' = TimerAdd(part, t, tFire')
  BY DEF TimerSchedule, f, part
<1>6. /\ tFire' \in [Timers -> 0 .. TimerWrap - 1] /\ tFire'[t] = f
      /\ tInterval' \in [Timers -> 0 .. MaxInterval] /\ tInterval'[t] = i
      /\ tDue' \in [Timers -> Int] /\ tDue'[t] = i
  BY <1>2, <1>3, <1>5 DEF TimerInv, TimerTypeOK
<1>7. \A u \in Timers : u # t => /\ tFire'[u] = tFire[u] /\ tDue'[u] = tDue[u]
                                 /\ tInterval'[u] = tInterval[u]
  BY <1>5 DEF TimerInv, TimerTypeOK
<1>8. Timed(t, tNow, tFire', tDue')
  <2>1. i \in -MaxLate .. MaxInterval /\ 0 + i = i
    BY <1>2, TimerAssumption
  <2> QED
    BY <1>3, <1>4, <1>6, <2>1 DEF Timed
<1> QED
  BY <1>1, <1>2, <1>5, <1>6, <1>7, <1>8, EntersKeeps

\* Timer::cancel
LEMMA CancelKeeps ==
    ASSUME TimerInv, NEW t \in Timers, TimerCancel(t)
    PROVE  TimerInv'
<1> DEFINE part == TimerRemove(tList, t)
<1>1. part \in Seq(Timers) /\ ~OnList(part, t) /\ Within(part, tList)
  BY RemoveResult DEF TimerInv, TimerTypeOK
<1>2. tNow' = tNow /\ Forget(t) /\ tList' = part
  BY DEF TimerCancel
<1> HIDE DEF part
<1> QED
  BY <1>1, <1>2, LeavesKeeps

\* The timers of the list, as the steps of the loop use them.
LEMMA HeadTimed ==
    ASSUME TimerInv, tList # <<>>
    PROVE  /\ Head(tList) \in Timers /\ tNow \in Int
           /\ tInterval[Head(tList)] \in 1 .. MaxInterval
           /\ Timed(Head(tList), tNow, tFire, tDue)
           /\ Signed(tFire[Head(tList)] - tNow) = tDue[Head(tList)]
<1> DEFINE h == Head(tList)
           f == tFire[h]
           d == tDue[h]
<1>1. 1 \in DOMAIN tList /\ h = tList[1] /\ h \in Timers
  BY DEF TimerInv, TimerTypeOK
<1>2. tInterval[h] \in 1 .. MaxInterval /\ Timed(h, tNow, tFire, tDue)
  BY <1>1 DEF TimerInv, ListedTimed
<1>3. tNow \in Int
  BY TimerAssumption DEF TimerInv, TimerTypeOK
<1>4. f \in Int /\ d \in -MaxLate .. MaxInterval /\ Apart(f, tNow, d)
  BY <1>2 DEF Timed
<1> HIDE DEF f, d, h
<1>5. d \in Int /\ 2 * d < TimerWrap /\ -TimerWrap < 2 * d
  BY <1>4, TimerAssumption
<1>6. Signed(f - tNow) = d
  BY <1>3, <1>4, <1>5, SignedIsDifference
<1> QED
  BY <1>1, <1>2, <1>3, <1>6 DEF f, d, h

\* A periodic timer enters the list again.
LEMMA PeriodicKeeps ==
    ASSUME TimerInv, tList # <<>>, TimerProcess, tType[Head(tList)] # "OneShot"
    PROVE  TimerInv'
<1> DEFINE t == Head(tList)
           part == Tail(tList)
           x == tInterval[t]
           from == IF tType[t] = "PeriodicFixedRate" THEN tFire[t] ELSE tNow
           wasDue == IF tType[t] = "PeriodicFixedRate" THEN tDue[t] ELSE 0
           f == (x + from) % TimerWrap
<1>1. part \in Seq(Timers) /\ t \in Timers /\ ~OnList(part, t) /\ Within(part, tList)
  BY TailResult DEF TimerInv, TimerTypeOK
<1>2. /\ tNow \in Int /\ x \in 1 .. MaxInterval /\ Timed(t, tNow, tFire, tDue)
      /\ Signed(tFire[t] - tNow) = tDue[t]
  BY HeadTimed
<1>3. /\ tFire' = [tFire EXCEPT ![t] = f] /\ tDue' = [tDue EXCEPT ![t] = wasDue + x]
      /\ tList' = TimerAdd(part, t, tFire') /\ tInterval' = tInterval /\ tNow' = tNow
      /\ Signed(tFire[t] - tNow) <= 0
  BY DEF TimerProcess, is_now_or_in_past
<1>4. tDue[t] \in -MaxLate .. 0
  <2>1. tDue[t] \in -MaxLate .. MaxInterval /\ tDue[t] <= 0
    BY <1>2, <1>3 DEF Timed
  <2> QED
    BY <2>1, TimerAssumption
<1>5. from \in Int /\ wasDue \in -MaxLate .. 0 /\ Apart(from, tNow, wasDue)
  <2>1. CASE tType[t] = "PeriodicFixedRate"
    BY <1>2, <1>4, <2>1 DEF Timed
  <2>2. CASE tType[t] # "PeriodicFixedRate"
    <3>1. from = tNow /\ wasDue = 0
      BY <2>2
    <3>2. tNow = tNow + 0 + TimerWrap * 0 /\ 0 \in -MaxLate .. 0
      BY <1>2, TimerAssumption
    <3> QED
      BY <1>2, <3>1, <3>2 DEF Apart
  <2> QED
    BY <2>1, <2>2
<1> HIDE DEF from, wasDue, x, t, part
<1>6. /\ wasDue \in Int /\ x \in Int /\ x + from \in Int /\ TimerWrap \in Nat
      /\ wasDue + x \in -MaxLate .. MaxInterval /\ wasDue + x \in Int
  BY <1>2, <1>5, TimerAssumption
<1>7. f \in 0 .. TimerWrap - 1 /\ Apart(f, tNow, wasDue + x)
  BY <1>2, <1>5, <1>6, WrappedTime, AddInterval
<1> HIDE DEF f
<1>8. f \in Int
  BY <1>6, <1>7
<1>9. /\ tFire' \in [Timers -> 0 .. TimerWrap - 1] /\ tFire'[t] = f
      /\ tInterval' \in [Timers -> 0 .. MaxInterval]
      /\ tDue' \in [Timers -> Int] /\ tDue'[t] = wasDue + x
  BY <1>1, <1>3, <1>6, <1>7 DEF TimerInv, TimerTypeOK
<1>10. \A u \in Timers : u # t => /\ tFire'[u] = tFire[u] /\ tDue'[u] = tDue[u]
                                  /\ tInterval'[u] = tInterval[u]
  BY <1>3 DEF TimerInv, TimerTypeOK
<1>11. Timed(t, tNow, tFire', tDue')
  BY <1>6, <1>7, <1>8, <1>9 DEF Timed
<1>12. tInterval'[t] \in 1 .. MaxInterval
  BY <1>2, <1>3 DEF x
<1> QED
  BY <1>1, <1>3, <1>9, <1>10, <1>11, <1>12, EntersKeeps

\* One iteration of Timer::process
LEMMA ProcessKeeps ==
    ASSUME TimerInv, TimerProcess
    PROVE  TimerInv'
<1>1. tList # <<>>
  BY DEF TimerProcess
<1>2. CASE tType[Head(tList)] # "OneShot"
  BY <1>1, <1>2, PeriodicKeeps
<1>3. CASE tType[Head(tList)] = "OneShot"
  <2> DEFINE t == Head(tList)
             part == Tail(tList)
  <2>1. part \in Seq(Timers) /\ t \in Timers /\ ~OnList(part, t) /\ Within(part, tList)
    BY <1>1, TailResult DEF TimerInv, TimerTypeOK
  <2>2. tNow' = tNow /\ Forget(t) /\ tList' = part
    BY <1>3 DEF TimerProcess
  <2> HIDE DEF t, part
  <2> QED
    BY <2>1, <2>2, LeavesKeeps
<1> QED
  BY <1>2, <1>3

\* A millisecond passes for every timer at once, so their order stays.
LEMMA TickKeeps ==
    ASSUME TimerInv, TimerTick
    PROVE  TimerInv'
<1>1. /\ tFire' = tFire /\ tInterval' = tInterval /\ tList' = tList
      /\ tNow' = (tNow + 1) % TimerWrap
      /\ tDue' = [t \in Timers |-> IF OnList(tList, t) THEN tDue[t] - 1 ELSE 0]
      /\ \A i \in DOMAIN tList : tDue[tList[i]] > -MaxLate
  BY DEF TimerTick
<1>2. tNow \in Int /\ tNow + 1 \in Int /\ tNow' \in 0 .. TimerWrap - 1
  <2>1. tNow \in Int /\ tNow + 1 \in Int
    BY TimerAssumption DEF TimerInv, TimerTypeOK
  <2> QED
    BY <1>1, <2>1, WrappedTime
<1>3. \A i \in DOMAIN tList : /\ tList[i] \in Timers
                              /\ tDue'[tList[i]] = tDue[tList[i]] - 1
  BY <1>1 DEF TimerInv, TimerTypeOK, OnList
<1>4. tDue' \in [Timers -> Int]
  BY <1>1 DEF TimerInv, TimerTypeOK
<1>5. TimerTypeOK'
  BY <1>1, <1>2, <1>4 DEF TimerInv, TimerTypeOK
<1>6. ListedTimed'
  <2> SUFFICES ASSUME NEW i \in DOMAIN tList
               PROVE  /\ tInterval[tList[i]] \in 1 .. MaxInterval
                      /\ Timed(tList[i], tNow', tFire, tDue')
    BY <1>1 DEF ListedTimed
  <2>1. /\ tInterval[tList[i]] \in 1 .. MaxInterval
        /\ Timed(tList[i], tNow, tFire, tDue)
    BY DEF TimerInv, ListedTimed
  <2> DEFINE f == tFire[tList[i]]
             d == tDue[tList[i]]
             e == tDue'[tList[i]]
  <2>2. f \in Int /\ d \in -MaxLate .. MaxInterval /\ Apart(f, tNow, d) /\ d > -MaxLate
        /\ e = d - 1
    BY <1>1, <1>3, <2>1 DEF Timed
  <2> HIDE DEF f, d, e
  <2>3. d \in Int /\ e \in -MaxLate .. MaxInterval
    BY <2>2, TimerAssumption
  <2>4. Apart(f, tNow', e)
    BY <1>1, <1>2, <2>2, <2>3, TickApart
  <2> QED
    BY <2>1, <2>2, <2>3, <2>4 DEF Timed, f, d, e
<1>7. Sorted(tList, tDue')
  <2> SUFFICES ASSUME NEW i \in DOMAIN tList, NEW j \in DOMAIN tList, i < j
               PROVE  tList[i] # tList[j] /\ tDue'[tList[i]] <= tDue'[tList[j]]
    BY DEF Sorted
  <2>1. tList[i] # tList[j] /\ tDue[tList[i]] <= tDue[tList[j]]
    BY DEF TimerInv, Sorted
  <2>2. tDue[tList[i]] \in Int /\ tDue[tList[j]] \in Int
    BY <1>3 DEF TimerInv, TimerTypeOK
  <2> QED
    BY <1>3, <2>1, <2>2
<1> QED
  BY <1>1, <1>5, <1>6, <1>7 DEF TimerInv

\* No timer is listed at the start.
LEMMA TimerStarts ==
    TimerInit(0 .. TimerWrap - 1) => TimerInv
BY TimerAssumption DEF TimerInit, TimerInv, TimerTypeOK, ListedTimed, Sorted

\* The sorted and timed list gives the main loop the right time to sleep.
LEMMA SortedListSleeps ==
    ASSUME TimerInv PROVE SleepsUntilNextTimer
<1> SUFFICES ASSUME tList # <<>>
             PROVE  /\ \A i \in DOMAIN tList : TimerMsToNextEvent <= UntilDue(tList[i])
                    /\ \E i \in DOMAIN tList : TimerMsToNextEvent = UntilDue(tList[i])
  BY DEF SleepsUntilNextTimer
<1> DEFINE h == Head(tList)
<1>1. 1 \in DOMAIN tList /\ h = tList[1]
  BY DEF TimerInv, TimerTypeOK
<1>2. Signed(tFire[h] - tNow) = tDue[h]
  BY HeadTimed
<1>3. TimerMsToNextEvent = UntilDue(h)
  BY <1>2 DEF TimerMsToNextEvent, UntilDue
<1>4. ASSUME NEW i \in DOMAIN tList PROVE UntilDue(h) <= UntilDue(tList[i])
  <2>1. tDue[h] \in Int /\ tDue[tList[i]] \in Int
    BY <1>1 DEF TimerInv, TimerTypeOK
  <2>2. tDue[h] <= tDue[tList[i]]
    <3>1. CASE i = 1
      BY <1>1, <2>1, <3>1
    <3>2. CASE i # 1
      <4>1. 1 < i
        BY <3>2 DEF TimerInv, TimerTypeOK
      <4> QED
        BY <1>1, <4>1 DEF TimerInv, Sorted
    <3> QED
      BY <3>1, <3>2
  <2> QED
    BY <2>1, <2>2 DEF UntilDue
<1> QED
  BY <1>1, <1>3, <1>4

(***************************************************************************)
(* Whatever callbacks schedule and cancel, and however often the clock     *)
(* wraps, the main loop sleeps exactly until the next timer is due         *)
(* (Timer::get_ms_to_next_event), for any number of timers, any width of   *)
(* cms_t and any intervals that fit half of it.                            *)
(***************************************************************************)
THEOREM TimersAreOnTime ==
    ASSUME NEW CONSTANT types
    PROVE  TimerSpec(types) => []SleepsUntilNextTimer
<1>1. ASSUME TimerInv, [TimerNext(types)]_tvars PROVE TimerInv'
  <2>1. ASSUME NEW t \in Timers, NEW i \in 1 .. MaxInterval, NEW y, TimerSchedule(t, i, y)
        PROVE  TimerInv'
    BY <1>1, <2>1, ScheduleKeeps
  <2>2. ASSUME NEW t \in Timers, TimerCancel(t) PROVE TimerInv'
    BY <1>1, <2>2, CancelKeeps
  <2>3. CASE TimerProcess
    BY <1>1, <2>3, ProcessKeeps
  <2>4. CASE TimerTick
    BY <1>1, <2>4, TickKeeps
  <2>5. CASE UNCHANGED tvars
    BY <1>1, <2>5 DEF tvars, TimerInv, TimerTypeOK, ListedTimed, Sorted, Timed, Apart
  <2> QED
    BY <1>1, <2>1, <2>2, <2>3, <2>4, <2>5 DEF TimerNext
<1> QED
  BY <1>1, TimerStarts, SortedListSleeps, PTL DEF TimerSpec

-----------------------------------------------------------------------------
(* WfDataset: the local dataset and what it is made of.                    *)

\* Datasets, the local one and the NCP's, have fields of this instance only.
DatasetTypeOK ==
    /\ dHas \subseteq DatasetFields
    /\ DOMAIN dVal = DatasetFields
    /\ \A w \in Which : DOMAIN dNcp[w] \subseteq DatasetFields
    /\ DOMAIN dNcp = Which
    /\ dAsked \in Which \cup {"none"}

\* NotMixed, in terms of the variables.
MadeOfSource ==
    /\ DOMAIN dSource = dHas
    /\ \A f \in dHas \ {"SecurityPolicy"} : dVal[f] = dSource[f]
    /\ dReply = "Failure" => dHas = {}

DatasetInv == DatasetTypeOK /\ MadeOfSource

\* The local dataset is its fields' values.
LEMMA LocalFields ==
    /\ DOMAIN Local = dHas
    /\ \A f \in dHas : Local[f] = dVal[f]
    /\ dHas = {} => Local = Empty
BY DEF Local, Empty

\* The invariant on the variables gives the property.
LEMMA DatasetInvNotMixed ==
    ASSUME DatasetInv PROVE NotMixed
BY LocalFields DEF DatasetInv, MadeOfSource, NotMixed

\* The properties Dataset:*, a field or half of the security policy at a time.
LEMMA SetPropKeeps ==
    ASSUME DatasetInv, set_prop_Dataset
    PROVE  DatasetInv'
<1>0. dNcp' = dNcp /\ dAsked' = dAsked
  BY DEF set_prop_Dataset
<1>1. ASSUME NEW f \in DatasetFields, NEW v, set_field(f, v)
      PROVE  DatasetInv'
  <2>1. /\ dHas' = dHas \cup {f} /\ dVal' = [dVal EXCEPT ![f] = v]
        /\ dSource' = [g \in DOMAIN dSource \cup {f} |-> IF g = f THEN v ELSE dSource[g]]
        /\ dReply' = "Ok"
    BY <1>1 DEF set_field
  <2>2. DatasetTypeOK'
    BY <1>0, <2>1 DEF DatasetInv, DatasetTypeOK
  <2>3. DOMAIN dSource' = dHas' /\ dReply' # "Failure"
    BY <2>1 DEF DatasetInv, MadeOfSource
  <2>4. ASSUME NEW g \in dHas' \ {"SecurityPolicy"} PROVE dVal'[g] = dSource'[g]
    BY <2>1 DEF DatasetInv, DatasetTypeOK, MadeOfSource
  <2> QED
    BY <2>2, <2>3, <2>4 DEF DatasetInv, MadeOfSource
<1>2. ASSUME NEW h \in Halves, NEW v, set_half(h, v)
      PROVE  DatasetInv'
  <2> DEFINE p == [dVal["SecurityPolicy"] EXCEPT ![h] = v]
  <2>1. /\ dHas' = dHas \cup {"SecurityPolicy"}
        /\ dVal' = [dVal EXCEPT !["SecurityPolicy"] = p]
        /\ dSource' = [g \in DOMAIN dSource \cup {"SecurityPolicy"} |->
                         IF g = "SecurityPolicy" THEN dVal'[g] ELSE dSource[g]]
        /\ dReply' = "Ok" /\ "SecurityPolicy" \in DatasetFields
    BY <1>2 DEF set_half
  <2> HIDE DEF p
  <2>2. DatasetTypeOK'
    BY <1>0, <2>1 DEF DatasetInv, DatasetTypeOK
  <2>3. DOMAIN dSource' = dHas' /\ dReply' # "Failure"
    BY <2>1 DEF DatasetInv, MadeOfSource
  <2>4. ASSUME NEW g \in dHas' \ {"SecurityPolicy"} PROVE dVal'[g] = dSource'[g]
    BY <2>1 DEF DatasetInv, DatasetTypeOK, MadeOfSource
  <2> QED
    BY <2>2, <2>3, <2>4 DEF DatasetInv, MadeOfSource
<1> QED
  BY <1>1, <1>2 DEF set_prop_Dataset

\* Dataset:Command
LEMMA CommandKeeps ==
    ASSUME DatasetInv,
           \/ Erase \/ SendMgmtGet \/ SendMgmtSet \/ OtherCommand
           \/ \E w \in Which : Get(w) \/ Set(w)
    PROVE  DatasetInv'
<1>1. CASE Erase
  BY <1>1 DEF Erase, Empty, DatasetInv, DatasetTypeOK, MadeOfSource
<1>2. CASE SendMgmtGet \/ SendMgmtSet \/ OtherCommand
  BY <1>2 DEF SendMgmtGet, SendMgmtSet, OtherCommand, DatasetInv, DatasetTypeOK, MadeOfSource
<1>3. ASSUME NEW w \in Which, Get(w) PROVE DatasetInv'
  BY <1>3 DEF Get, DatasetInv, DatasetTypeOK, MadeOfSource
<1>4. ASSUME NEW w \in Which, Set(w) PROVE DatasetInv'
  <2>1. /\ dNcp' = [dNcp EXCEPT ![w] = Local] /\ dReply' = "Ok"
        /\ UNCHANGED <<dHas, dVal, dAsked, dSource>>
    BY <1>4 DEF Set
  <2>2. DOMAIN Local \subseteq DatasetFields
    BY LocalFields DEF DatasetInv, DatasetTypeOK
  <2>3. \A u \in Which : DOMAIN dNcp'[u] \subseteq DatasetFields
    BY <2>1, <2>2 DEF DatasetInv, DatasetTypeOK
  <2> QED
    BY <2>1, <2>3 DEF DatasetInv, DatasetTypeOK, MadeOfSource
<1> QED
  BY <1>1, <1>2, <1>3, <1>4

\* The answer to a Get: all of it, or nothing.
LEMMA AnswerKeeps ==
    ASSUME DatasetInv, set_from_spinel_frame
    PROVE  DatasetInv'
<1> DEFINE came == dNcp[dAsked]
           fine == \A f \in DOMAIN came : parse_dataset_entry(f, came[f])
<1>1. /\ dHas' = IF fine THEN Cleared \cup DOMAIN came ELSE {}
      /\ dVal' = [f \in DatasetFields |->
                    IF f \in DOMAIN came /\ parse_dataset_entry(f, came[f])
                    THEN came[f] ELSE dVal[f]]
      /\ dSource' = IF fine THEN came ELSE Empty
      /\ dReply' = IF fine THEN "Ok" ELSE "Failure"
      /\ dAsked' = "none" /\ dNcp' = dNcp /\ dAsked \in Which
  BY DEF set_from_spinel_frame, DatasetInv, DatasetTypeOK
<1>2. DOMAIN came \subseteq DatasetFields
  BY <1>1 DEF DatasetInv, DatasetTypeOK
<1> HIDE DEF came
<1>3. CASE fine
  BY <1>1, <1>2, <1>3 DEF Cleared, DatasetInv, DatasetTypeOK, MadeOfSource
<1>4. CASE ~fine
  BY <1>1, <1>2, <1>4 DEF Empty, DatasetInv, DatasetTypeOK, MadeOfSource
<1> QED
  BY <1>3, <1>4

(***************************************************************************)
(* Whatever clients set, erase and exchange with the NCP, the local        *)
(* dataset is never a mixture of two (ThreadDataset::set_from_spinel_frame *)
(* and Dataset:Command), for every set of fields and whatever datasets the *)
(* NCP holds at first.                                                     *)
(***************************************************************************)
THEOREM DatasetIsNotMixed ==
    ASSUME NEW CONSTANT sets,
           \A s \in sets : /\ DOMAIN s = Which
                           /\ \A w \in Which : DOMAIN s[w] \subseteq DatasetFields
    PROVE  DatasetSpec(sets) => []NotMixed
<1>1. DatasetInit(sets) => DatasetInv
  BY DEF DatasetInit, Empty, DatasetInv, DatasetTypeOK, MadeOfSource
<1>2. DatasetInv /\ [DatasetNext]_dvars => DatasetInv'
  <2> SUFFICES ASSUME DatasetInv, [DatasetNext]_dvars PROVE DatasetInv'
    OBVIOUS
  <2>1. CASE UNCHANGED dvars
    BY <2>1 DEF dvars, DatasetInv, DatasetTypeOK, MadeOfSource
  <2> QED
    BY <2>1, SetPropKeeps, CommandKeeps, AnswerKeeps DEF DatasetNext
<1> QED
  BY <1>1, <1>2, DatasetInvNotMixed, PTL DEF DatasetSpec

-----------------------------------------------------------------------------
(* WfPump: the slot of the outbound pump.                                  *)

PumpTypeOK ==
    /\ commands \in Seq(Seq({"Ok", "Canceled", "Failure"}))
    /\ callback \in 0 .. Len(commands)
    /\ outPump \in {"start", "wait", "write1", "write2"}

\* A callback belongs to the command in the slot, which has no answer yet.
SlotOwned ==
    callback # 0 => out = <<"command", callback>> /\ commands[callback] = <<>>

\* The pump writes what is in the slot; half way, that was the last to be written.
WritesSlot ==
    /\ outPump \in {"write1", "write2"} => out # Nothing
    /\ outPump = "write2" => wire = <<out, "write1">>

PumpInv == PumpTypeOK /\ SlotOwned /\ WritesSlot /\ OkMeansSentWhole

\* An answer that is not Ok, or is the answer to a whole frame.
LEMMA AnswerKeepsSlot ==
    ASSUME PumpInv, NEW status \in {"Ok", "Canceled", "Failure"}, AnswerOutbound(status),
           whole \subseteq whole', status = "Ok" => callback = 0 \/ out \in whole'
    PROVE  /\ commands' \in Seq(Seq({"Ok", "Canceled", "Failure"}))
           /\ callback' = 0 /\ callback' \in 0 .. Len(commands')
           /\ OkMeansSentWhole'
<1>0. callback' = 0
  BY DEF AnswerOutbound
<1>1. CASE callback = 0
  <2>1. commands' = commands
    BY <1>1 DEF AnswerOutbound
  <2> QED
    BY <1>0, <2>1 DEF PumpInv, PumpTypeOK, OkMeansSentWhole
<1>2. CASE callback # 0
  <2> DEFINE A == {"Ok", "Canceled", "Failure"}
             n == Len(commands)
  <2>1. commands' = [commands EXCEPT ![callback] = Append(@, status)]
    BY <1>2 DEF AnswerOutbound
  <2>2. n \in Nat /\ DOMAIN commands = 1 .. n /\ callback \in 1 .. n /\ commands \in Seq(Seq(A))
    BY <1>2 DEF PumpInv, PumpTypeOK
  <2>3. out = <<"command", callback>> /\ commands[callback] = <<>>
    BY <1>2 DEF PumpInv, SlotOwned
  <2>4. commands' = [commands EXCEPT ![callback] = <<status>>]
    BY <2>1, <2>3
  <2>5. <<status>> \in Seq(A) /\ Len(<<status>>) = 1 /\ (<<status>> = <<"Ok">> => status = "Ok")
    OBVIOUS
  <2>6. commands' \in Seq(Seq(A)) /\ Len(commands') = n /\ DOMAIN commands' = 1 .. n
    BY <2>2, <2>4, <2>5
  <2>7. OkMeansSentWhole'
    <3> SUFFICES ASSUME NEW c \in 1 .. n
                 PROVE  /\ Len(commands'[c]) <= 1
                        /\ commands'[c] = <<"Ok">> => <<"command", c>> \in whole'
      BY <2>6 DEF OkMeansSentWhole
    <3>1. CASE c = callback
      <4>1. commands'[c] = <<status>>
        BY <2>2, <2>4, <3>1
      <4> QED
        BY <1>2, <2>3, <2>5, <3>1, <4>1
    <3>2. CASE c # callback
      <4>1. commands'[c] = commands[c]
        BY <2>2, <2>4, <3>2
      <4> QED
        BY <2>2, <4>1 DEF PumpInv, OkMeansSentWhole
    <3> QED
      BY <3>1, <3>2
  <2> QED
    BY <1>0, <2>2, <2>6, <2>7
<1> QED
  BY <1>1, <1>2

\* Steps that leave the commands and their callback alone.
LEMMA SameCommands ==
    ASSUME PumpInv, commands' = commands, callback' = callback, out' = out,
           whole \subseteq whole', outPump' \in {"start", "wait", "write1", "write2"},
           WritesSlot'
    PROVE  PumpInv'
BY DEF PumpInv, PumpTypeOK, SlotOwned, OkMeansSentWhole

\* SpinelNCPTask::vprocess_send_command
LEMMA SendKeeps ==
    ASSUME PumpInv, vprocess_send_command PROVE PumpInv'
<1> DEFINE A == {"Ok", "Canceled", "Failure"}
           n == Len(commands)
<1>1. /\ commands' = Append(commands, <<>>) /\ out' = <<"command", Len(commands')>>
      /\ callback' = Len(commands') /\ outPump' = outPump /\ wire' = wire /\ whole' = whole
      /\ out = Nothing
  BY DEF vprocess_send_command
<1>2. n \in Nat /\ DOMAIN commands = 1 .. n /\ commands \in Seq(Seq(A))
  BY DEF PumpInv, PumpTypeOK
<1>3. <<>> \in Seq(A)
  OBVIOUS
<1>4. /\ commands' \in Seq(Seq(A)) /\ Len(commands') = n + 1 /\ DOMAIN commands' = 1 .. n + 1
      /\ commands'[n + 1] = <<>> /\ \A c \in 1 .. n : commands'[c] = commands[c]
  BY <1>1, <1>2, <1>3
<1>5. PumpTypeOK' /\ SlotOwned'
  BY <1>1, <1>2, <1>4 DEF PumpInv, PumpTypeOK, SlotOwned
<1>6. OkMeansSentWhole'
  <2> SUFFICES ASSUME NEW c \in 1 .. n + 1
               PROVE  /\ Len(commands'[c]) <= 1
                      /\ commands'[c] = <<"Ok">> => <<"command", c>> \in whole
    BY <1>1, <1>4 DEF OkMeansSentWhole
  <2>1. CASE c = n + 1
    <3>1. commands'[c] = <<>>
      BY <1>4, <2>1
    <3>2. Len(<<>>) = 0 /\ <<>> # <<"Ok">>
      OBVIOUS
    <3> QED
      BY <3>1, <3>2
  <2>2. CASE c # n + 1
    <3>1. c \in 1 .. n
      BY <1>2, <2>2
    <3> QED
      BY <1>2, <1>4, <3>1 DEF PumpInv, OkMeansSentWhole
  <2> QED
    BY <2>1, <2>2
<1>7. WritesSlot'
  BY <1>1 DEF PumpInv, WritesSlot
<1> QED
  BY <1>5, <1>6, <1>7 DEF PumpInv

\* driver_to_ncp_pump from its start to the last byte of a frame.
LEMMA OutboundKeeps ==
    ASSUME PumpInv, OutboundStarts \/ TakeOutbound \/ WriteOutbound \/ WriteFails
    PROVE  PumpInv'
<1>1. CASE OutboundStarts
  <2>1. PICK status \in {"Canceled", "Failure"} : AnswerOutbound(status)
    BY <1>1 DEF OutboundStarts
  <2>2. outPump' \in {"start", "wait"} /\ out' = out /\ wire' = wire /\ whole' = whole
    BY <1>1 DEF OutboundStarts
  <2>3. /\ commands' \in Seq(Seq({"Ok", "Canceled", "Failure"}))
        /\ callback' = 0 /\ callback' \in 0 .. Len(commands') /\ OkMeansSentWhole'
    BY <2>1, <2>2, AnswerKeepsSlot
  <2> QED
    BY <2>2, <2>3 DEF PumpInv, PumpTypeOK, SlotOwned, WritesSlot
<1>2. CASE TakeOutbound
  <2>0. /\ commands' = commands /\ callback' = callback /\ wire' = wire /\ whole' = whole
        /\ outPump = "wait"
    BY <1>2 DEF TakeOutbound
  <2>1. CASE out # Nothing /\ outPump' = "write1" /\ out' = out
    <3>1. WritesSlot'
      BY <2>0, <2>1 DEF WritesSlot
    <3> QED
      BY <2>0, <2>1, <3>1, SameCommands
  <2>2. CASE out = Nothing /\ out' = out /\ outPump' = outPump
    <3>1. WritesSlot'
      BY <2>0, <2>2 DEF WritesSlot
    <3> QED
      BY <2>0, <2>2, <3>1, SameCommands
  <2>3. CASE out = Nothing /\ outPump' = "write1" /\ out' = <<"packet", waiting>>
    <3>1. callback = 0
      BY <2>3 DEF PumpInv, SlotOwned, Nothing
    <3>2. out' # Nothing
      BY <2>3 DEF Nothing
    <3> QED
      BY <2>0, <2>3, <3>1, <3>2 DEF PumpInv, PumpTypeOK, SlotOwned, WritesSlot, OkMeansSentWhole
  <2> QED
    BY <1>2, <2>1, <2>2, <2>3 DEF TakeOutbound
<1>3. CASE WriteOutbound
  <2>0. /\ wire' = <<out, outPump>> /\ outPump \in {"write1", "write2"}
        /\ whole' = whole \cup {f \in {out} : wire = <<f, "write1">> /\ outPump = "write2"}
    BY <1>3 DEF WriteOutbound
  <2>1. CASE outPump = "write1"
    <3>1. outPump' = "write2" /\ out' = out /\ callback' = callback /\ commands' = commands
      BY <1>3, <2>1 DEF WriteOutbound
    <3>2. WritesSlot'
      BY <2>0, <2>1, <3>1 DEF PumpInv, WritesSlot
    <3> QED
      BY <2>0, <3>1, <3>2, SameCommands
  <2>2. CASE outPump = "write2"
    <3>1. outPump' = "wait" /\ AnswerOutbound("Ok")
      BY <1>3, <2>2 DEF WriteOutbound
    <3>2. out \in whole' /\ whole \subseteq whole'
      BY <2>0, <2>2 DEF PumpInv, WritesSlot
    <3>3. /\ commands' \in Seq(Seq({"Ok", "Canceled", "Failure"}))
          /\ callback' = 0 /\ callback' \in 0 .. Len(commands') /\ OkMeansSentWhole'
      BY <3>1, <3>2, AnswerKeepsSlot
    <3> QED
      BY <3>1, <3>3 DEF PumpInv, PumpTypeOK, SlotOwned, WritesSlot
  <2> QED
    BY <2>0, <2>1, <2>2
<1>4. CASE WriteFails
  <2>1. AnswerOutbound("Failure") /\ outPump' = "start" /\ whole' = whole
    BY <1>4 DEF WriteFails
  <2>2. /\ commands' \in Seq(Seq({"Ok", "Canceled", "Failure"}))
        /\ callback' = 0 /\ callback' \in 0 .. Len(commands') /\ OkMeansSentWhole'
    BY <2>1, AnswerKeepsSlot
  <2> QED
    BY <2>1, <2>2 DEF PumpInv, PumpTypeOK, SlotOwned, WritesSlot
<1> QED
  BY <1>1, <1>2, <1>3, <1>4

\* The line is reset, or the daemon leaves the NCP alone or returns to it.
LEMMA StartOverKeeps ==
    ASSUME PumpInv, LineResets \/ Detaches \/ Attaches PROVE PumpInv'
<1>1. PumpsStartOver
  BY DEF LineResets, Detaches, Attaches
<1>2. /\ outPump' = "start" /\ commands' = commands /\ callback' = callback
      /\ out' = out /\ whole' = whole
  BY <1>1 DEF PumpsStartOver
<1>3. WritesSlot'
  BY <1>2 DEF WritesSlot
<1> QED
  BY <1>2, <1>3, SameCommands

(***************************************************************************)
(* A task whose command was answered with Ok can rely on the NCP having    *)
(* got the frame in one piece (driver_to_ncp_pump, mOutboundCallback),     *)
(* whatever resets of the line, failures of writes, packets and other      *)
(* commands came before, in between and after.                             *)
(***************************************************************************)
THEOREM OkIsSentWhole == PumpSpec => []OkMeansSentWhole
<1>1. PumpInit({"in", "out"}) => PumpInv
  <2> SUFFICES ASSUME PumpInit({"in", "out"}) PROVE PumpInv
    OBVIOUS
  <2>1. commands = <<>> /\ callback = 0 /\ outPump = "start"
    BY DEF PumpInit
  <2>2. commands \in Seq(Seq({"Ok", "Canceled", "Failure"})) /\ Len(commands) = 0
        /\ DOMAIN commands = {}
    BY <2>1
  <2> QED
    BY <2>1, <2>2 DEF PumpInv, PumpTypeOK, SlotOwned, WritesSlot, OkMeansSentWhole
<1>2. PumpInv /\ [PumpNext]_pumpvars => PumpInv'
  <2> SUFFICES ASSUME PumpInv, [PumpNext]_pumpvars PROVE PumpInv'
    OBVIOUS
  <2>1. CASE NcpSendsFrame \/ ncp_to_driver_pump \/ UNCHANGED pumpvars
    <3>1. UNCHANGED outvars
      BY <2>1 DEF NcpSendsFrame, ncp_to_driver_pump, pumpvars
    <3> QED
      BY <3>1 DEF outvars, PumpInv, PumpTypeOK, SlotOwned, WritesSlot, OkMeansSentWhole
  <2> QED
    BY <2>1, SendKeeps, OutboundKeeps, StartOverKeeps DEF PumpNext
<1>3. PumpInv => OkMeansSentWhole
  BY DEF PumpInv
<1> QED
  BY <1>1, <1>2, <1>3, PTL DEF PumpSpec

-----------------------------------------------------------------------------
(* WfCapture: the belief of the daemon and the settings of the NCP.        *)

CaptureTypeOK ==
    /\ host \in [initializing : BOOLEAN, state : NCPState, inProgress : BOOLEAN,
                 queue : Seq(Commands), obeyed : BOOLEAN, slipped : BOOLEAN]
    /\ ncp \in [raw : BOOLEAN, promiscuous : BOOLEAN]
    /\ notice \in BOOLEAN

\* What is left of a task that switches a capture on: before raw frames are
\* asked for, and before the promiscuous mode is.
BeforeRaw == {<<"raw_on", "if_up">>, <<"raw_on", "if_up", "promiscuous">>}
BeforePromiscuous ==
    {<<"raw_on", "if_up", "promiscuous">>, <<"if_up", "promiscuous">>, <<"promiscuous">>}
SwitchesOn == BeforeRaw \cup BeforePromiscuous \cup {<<"if_up">>, <<>>}

\* While a capture is believed to run no task switches it off.
TaskSwitchesOn == host.inProgress => host.queue \in SwitchesOn

\* No reset and no refusal came since the capture was switched on.
Trusted == ~host.initializing /\ host.inProgress /\ host.obeyed /\ ~notice

\* The NCP does what the daemon believes, or is going to be told.
RawToldOrSet == Trusted => ncp.raw \/ host.queue \in BeforeRaw
PromiscuousToldOrSet ==
    Trusted /\ ~host.slipped /\ ~ncp_state_is_joining_or_joined(host.state) =>
        ncp.promiscuous \/ host.queue \in BeforePromiscuous

CaptureInv == CaptureTypeOK /\ TaskSwitchesOn /\ RawToldOrSet /\ PromiscuousToldOrSet

\* The fields of the records.
LEMMA CaptureFields ==
    ASSUME CaptureTypeOK
    PROVE  /\ host.initializing \in BOOLEAN /\ host.inProgress \in BOOLEAN
           /\ host.obeyed \in BOOLEAN /\ host.slipped \in BOOLEAN
           /\ host.state \in NCPState /\ host.queue \in Seq(Commands)
           /\ ncp.raw \in BOOLEAN /\ ncp.promiscuous \in BOOLEAN
BY DEF CaptureTypeOK

\* Steps of clients and of their streams.
LEMMA SameHost ==
    ASSUME CaptureInv, UNCHANGED <<host, ncp, notice>> PROVE CaptureInv'
BY DEF CaptureInv, CaptureTypeOK, TaskSwitchesOn, Trusted, RawToldOrSet, PromiscuousToldOrSet

\* Nothing is claimed of a capture that is not trusted.
LEMMA NotTrustedKeeps ==
    ASSUME CaptureTypeOK', TaskSwitchesOn', ~Trusted' PROVE CaptureInv'
BY DEF CaptureInv, RawToldOrSet, PromiscuousToldOrSet

\* SpinelNCPInstance::process
LEMMA ProcessKeepsCapture ==
    ASSUME CaptureInv, Process PROVE CaptureInv'
<1> DEFINE x == streams' # {}
           changes == ~host.initializing /\ host.queue = <<>> /\ host.inProgress # x
<1>0. CaptureTypeOK /\ ncp' = ncp /\ notice' = notice /\ host' = UpdateCapture(x)
  BY DEF Process, CaptureInv
<1>x. x \in BOOLEAN
  OBVIOUS
<1> HIDE DEF x
<1>1. CASE ~changes
  <2>1. host' = host
    BY <1>0, <1>1 DEF UpdateCapture
  <2> QED
    BY <1>0, <2>1, SameHost
<1>2. CASE changes
  <2>1. host' = [host EXCEPT !.inProgress = x, !.queue = Composed(x),
                             !.obeyed = TRUE, !.slipped = FALSE]
    BY <1>0, <1>2 DEF UpdateCapture
  <2>3. Composed(TRUE) = IF ncp_state_is_joining_or_joined(host.state)
                         THEN <<"raw_on", "if_up">> ELSE <<"raw_on", "if_up", "promiscuous">>
    BY DEF Composed
  <2>4. Composed(FALSE) = <<"raw_off", "promiscuous_off">>
    BY DEF Composed
  <2>5. Composed(x) \in Seq(Commands)
    <3>1. /\ <<"raw_off", "promiscuous_off">> \in Seq(Commands)
          /\ <<"raw_on", "if_up">> \in Seq(Commands)
          /\ <<"raw_on", "if_up", "promiscuous">> \in Seq(Commands)
      BY DEF Commands
    <3> QED
      BY <1>x, <3>1 DEF Composed
  <2>6. /\ host'.queue = Composed(x) /\ host'.inProgress = x
        /\ host'.state = host.state
    BY <1>0, <2>1 DEF CaptureTypeOK
  <2>7. CaptureTypeOK'
    BY <1>0, <1>x, <2>1, <2>5 DEF CaptureTypeOK
  <2>8. CASE x
    <3>1. Composed(x) \in BeforeRaw
      BY <2>3, <2>8 DEF BeforeRaw
    <3>2. ~ncp_state_is_joining_or_joined(host.state) => Composed(x) \in BeforePromiscuous
      BY <2>3, <2>8 DEF BeforePromiscuous
    <3>3. host'.queue \in SwitchesOn /\ host'.queue \in BeforeRaw
      BY <2>6, <3>1 DEF SwitchesOn
    <3>4. ~ncp_state_is_joining_or_joined(host'.state) => host'.queue \in BeforePromiscuous
      BY <2>6, <3>2
    <3> QED
      BY <2>7, <3>3, <3>4 DEF CaptureInv, TaskSwitchesOn, RawToldOrSet, PromiscuousToldOrSet
  <2>9. CASE ~x
    <3>1. ~host'.inProgress
      BY <2>6, <2>9
    <3> QED
      BY <2>7, <3>1, NotTrustedKeeps DEF TaskSwitchesOn, Trusted
  <2> QED
    BY <2>8, <2>9
<1> QED
  BY <1>1, <1>2

\* The tail of a task.
LEMMA TaskTail ==
    ASSUME NEW q \in SwitchesOn, q # <<>>
    PROVE  /\ Tail(q) \in SwitchesOn
           /\ Head(q) \notin {"raw_off", "promiscuous_off"}
           /\ q \in BeforeRaw => Head(q) = "raw_on"
           /\ q \in BeforePromiscuous => Head(q) = "promiscuous" \/ Tail(q) \in BeforePromiscuous
           /\ Tail(q) \notin BeforeRaw
<1>1. q \in {<<"raw_on", "if_up">>, <<"raw_on", "if_up", "promiscuous">>,
             <<"if_up", "promiscuous">>, <<"promiscuous">>, <<"if_up">>}
  BY DEF SwitchesOn, BeforeRaw, BeforePromiscuous
<1>2. CASE q = <<"raw_on", "if_up">>
  <2>1. Head(q) = "raw_on" /\ Tail(q) = <<"if_up">> /\ Len(q) = 2
    BY <1>2
  <2> QED
    BY <1>2, <2>1 DEF SwitchesOn, BeforeRaw, BeforePromiscuous
<1>3. CASE q = <<"raw_on", "if_up", "promiscuous">>
  <2>1. Head(q) = "raw_on" /\ Tail(q) = <<"if_up", "promiscuous">>
    BY <1>3
  <2> QED
    BY <2>1 DEF SwitchesOn, BeforeRaw, BeforePromiscuous
<1>4. CASE q = <<"if_up", "promiscuous">>
  <2>1. Head(q) = "if_up" /\ Tail(q) = <<"promiscuous">> /\ q[1] = "if_up"
    BY <1>4
  <2> QED
    BY <1>4, <2>1 DEF SwitchesOn, BeforeRaw, BeforePromiscuous
<1>5. CASE q = <<"promiscuous">>
  <2>1. Head(q) = "promiscuous" /\ Tail(q) = <<>> /\ q[1] = "promiscuous"
    BY <1>5
  <2> QED
    BY <1>5, <2>1 DEF SwitchesOn, BeforeRaw, BeforePromiscuous
<1>6. CASE q = <<"if_up">>
  <2>1. Head(q) = "if_up" /\ Tail(q) = <<>> /\ q[1] = "if_up" /\ Len(q) = 1
    BY <1>6
  <2> QED
    BY <1>6, <2>1 DEF SwitchesOn, BeforeRaw, BeforePromiscuous
<1> QED
  BY <1>1, <1>2, <1>3, <1>4, <1>5, <1>6

\* The NCP obeys a command.
LEMMA ObeysKeeps ==
    ASSUME CaptureInv, Obeys PROVE CaptureInv'
<1> DEFINE c == Head(host.queue)
           q == host.queue
           r == (ncp.raw \/ c = "raw_on") /\ c # "raw_off"
           p == (ncp.promiscuous \/ c = "promiscuous") /\ c # "promiscuous_off"
<1>0. CaptureTypeOK /\ notice' = notice /\ q # <<>>
  BY DEF Obeys, CaptureInv
<1>1. host' = [host EXCEPT !.queue = Tail(@)] /\ ncp' = [raw |-> r, promiscuous |-> p]
  BY DEF Obeys
<1>2. q \in Seq(Commands) /\ Tail(q) \in Seq(Commands)
  BY <1>0, CaptureFields
<1>3. r \in BOOLEAN /\ p \in BOOLEAN
  OBVIOUS
<1>4. /\ host'.queue = Tail(q) /\ host'.inProgress = host.inProgress
      /\ host'.initializing = host.initializing /\ host'.obeyed = host.obeyed
      /\ host'.slipped = host.slipped /\ host'.state = host.state
  BY <1>0, <1>1 DEF CaptureTypeOK
<1>5. ncp'.raw = r /\ ncp'.promiscuous = p
  BY <1>1
<1>6. CaptureTypeOK'
  BY <1>0, <1>1, <1>2, <1>3 DEF CaptureTypeOK
<1>7. Trusted' => Trusted
  BY <1>0, <1>4 DEF Trusted
<1>8. CASE ~host.inProgress
  BY <1>4, <1>6, <1>8, NotTrustedKeeps DEF TaskSwitchesOn, Trusted
<1>9. CASE host.inProgress
  <2>1. q \in SwitchesOn
    BY <1>9 DEF CaptureInv, TaskSwitchesOn
  <2>2. /\ Tail(q) \in SwitchesOn /\ c # "raw_off" /\ c # "promiscuous_off"
        /\ q \in BeforeRaw => c = "raw_on"
        /\ q \in BeforePromiscuous => c = "promiscuous" \/ Tail(q) \in BeforePromiscuous
    BY <1>0, <2>1, TaskTail
  <2>3. Trusted => r
    BY <2>2 DEF CaptureInv, RawToldOrSet
  <2>4. Trusted /\ ~host.slipped /\ ~ncp_state_is_joining_or_joined(host.state)
          => p \/ Tail(q) \in BeforePromiscuous
    BY <2>2 DEF CaptureInv, PromiscuousToldOrSet
  <2>5. RawToldOrSet'
    BY <1>5, <1>7, <2>3 DEF RawToldOrSet
  <2>6. PromiscuousToldOrSet'
    BY <1>4, <1>5, <1>7, <2>4 DEF PromiscuousToldOrSet
  <2>7. TaskSwitchesOn'
    BY <1>4, <2>2 DEF TaskSwitchesOn
  <2> QED
    BY <1>6, <2>5, <2>6, <2>7 DEF CaptureInv
<1> QED
  BY <1>8, <1>9

\* A command is refused or lost.
LEMMA DisobeysKeeps ==
    ASSUME CaptureInv, Disobeys PROVE CaptureInv'
<1> DEFINE q == host.queue
<1>0. CaptureTypeOK /\ notice' = notice /\ q # <<>> /\ ncp' = ncp
      /\ host' = [host EXCEPT !.queue = Tail(@), !.obeyed = FALSE]
  BY DEF Disobeys, CaptureInv
<1>1. q \in Seq(Commands) /\ Tail(q) \in Seq(Commands)
  BY <1>0, CaptureFields
<1>2. host'.queue = Tail(q) /\ host'.inProgress = host.inProgress /\ host'.obeyed = FALSE
  BY <1>0 DEF CaptureTypeOK
<1>3. CaptureTypeOK'
  BY <1>0, <1>1 DEF CaptureTypeOK
<1>4. TaskSwitchesOn'
  BY <1>0, <1>2, TaskTail DEF CaptureInv, TaskSwitchesOn
<1> QED
  BY <1>2, <1>3, <1>4, NotTrustedKeeps DEF Trusted

\* SpinelNCPInstance::handle_ncp_state_change
LEMMA StateChangeKeeps ==
    ASSUME CaptureInv, StateChange PROVE CaptureInv'
<1> DEFINE joined == ncp_state_is_joining_or_joined(host.state)
<1>1. PICK m \in Moves : m[1] = host.state /\ host' = handle_ncp_state_change(m[2])
  BY DEF StateChange
<1> DEFINE s == m[2]
<1>0. CaptureTypeOK /\ notice' = notice /\ ncp' = ncp
  BY DEF StateChange, CaptureInv
<1>2. /\ host' = [host EXCEPT !.state = s, !.inProgress = @ /\ ~(joined /\ s = "OFFLINE"),
                              !.slipped = @ \/ (joined /\ s = "COMMISSIONED")]
  BY <1>1 DEF handle_ncp_state_change
<1>3. s \in NCPState /\ s \in {"OFFLINE", "COMMISSIONED", "CREDENTIALS_NEEDED",
                               "ASSOCIATED", "ISOLATED"}
  BY DEF Moves, NCPState
<1>4. s \in {"CREDENTIALS_NEEDED", "ASSOCIATED", "ISOLATED"} => ncp_state_is_joining_or_joined(s)
  BY DEF ncp_state_is_joining_or_joined
<1> HIDE DEF s, joined
<1>5. /\ host'.queue = host.queue /\ host'.initializing = host.initializing
      /\ host'.obeyed = host.obeyed /\ host'.state = s
      /\ host'.inProgress = (host.inProgress /\ ~(joined /\ s = "OFFLINE"))
      /\ host'.slipped = (host.slipped \/ (joined /\ s = "COMMISSIONED"))
  BY <1>0, <1>2 DEF CaptureTypeOK
<1>6. CaptureTypeOK'
  BY <1>0, <1>2, <1>3 DEF CaptureTypeOK
<1>7. Trusted' => Trusted
  BY <1>0, <1>5 DEF Trusted
<1>8. TaskSwitchesOn' /\ RawToldOrSet'
  BY <1>0, <1>5, <1>7 DEF CaptureInv, TaskSwitchesOn, RawToldOrSet
<1>9. PromiscuousToldOrSet'
  <2> SUFFICES ASSUME Trusted', ~host'.slipped, ~ncp_state_is_joining_or_joined(s)
               PROVE  ncp.promiscuous \/ host.queue \in BeforePromiscuous
    BY <1>0, <1>5 DEF PromiscuousToldOrSet
  <2>1. s = "OFFLINE" \/ s = "COMMISSIONED"
    BY <1>3, <1>4
  <2>2. ~joined /\ ~host.slipped /\ Trusted
    BY <1>5, <1>7, <2>1 DEF Trusted
  <2> QED
    BY <2>2 DEF CaptureInv, PromiscuousToldOrSet, joined
<1> QED
  BY <1>6, <1>8, <1>9 DEF CaptureInv

\* The NCP is reset, the daemon notices, or starts over.
LEMMA ResetKeeps ==
    ASSUME CaptureInv, NcpResets \/ NoticeReset \/ Reinitialize \/ InitEnds
    PROVE  CaptureInv'
<1>0. CaptureTypeOK
  BY DEF CaptureInv
<1>1. CASE NcpResets
  <2>1. host' = host /\ notice' = TRUE /\ ncp' = [raw |-> FALSE, promiscuous |-> FALSE]
    BY <1>1 DEF NcpResets
  <2>2. CaptureTypeOK'
    BY <1>0, <2>1 DEF CaptureTypeOK
  <2>3. TaskSwitchesOn'
    BY <2>1 DEF CaptureInv, TaskSwitchesOn
  <2> QED
    BY <2>1, <2>2, <2>3, NotTrustedKeeps DEF Trusted
<1>2. ASSUME NEW q \in {<<>>, host.queue}, host' = Reinitialized(q), ncp' = ncp,
             notice' \in BOOLEAN
      PROVE  CaptureInv'
  <2>1. q \in Seq(Commands)
    <3>1. <<>> \in Seq(Commands)
      OBVIOUS
    <3> QED
      BY <1>0, <3>1, CaptureFields
  <2>2. host' = [host EXCEPT !.initializing = TRUE, !.state = "UNINITIALIZED", !.queue = q]
    BY <1>2 DEF Reinitialized
  <2>3. host'.initializing = TRUE /\ host'.queue = q /\ host'.inProgress = host.inProgress
    BY <1>0, <2>2 DEF CaptureTypeOK
  <2>4. CaptureTypeOK'
    BY <1>0, <1>2, <2>1, <2>2 DEF CaptureTypeOK, NCPState
  <2>5. TaskSwitchesOn'
    BY <2>3 DEF CaptureInv, TaskSwitchesOn, SwitchesOn
  <2> QED
    BY <2>3, <2>4, <2>5, NotTrustedKeeps DEF Trusted
<1>3. CASE NoticeReset
  <2>1. notice' = FALSE /\ ncp' = ncp
    BY <1>3 DEF NoticeReset
  <2>2. CASE host.initializing
    <3>1. host' = host
      BY <1>3, <2>2 DEF NoticeReset
    <3>2. CaptureTypeOK' /\ TaskSwitchesOn'
      BY <2>1, <3>1 DEF CaptureInv, CaptureTypeOK, TaskSwitchesOn
    <3> QED
      BY <2>2, <3>1, <3>2, NotTrustedKeeps DEF Trusted
  <2>3. CASE ~host.initializing
    <3>1. PICK q \in {<<>>, host.queue} : host' = Reinitialized(q)
      BY <1>3, <2>3 DEF NoticeReset
    <3> QED
      BY <1>2, <2>1, <3>1
  <2> QED
    BY <2>2, <2>3
<1>4. CASE Reinitialize
  <2>1. host' = Reinitialized(<<>>) /\ ncp' = ncp /\ notice' \in BOOLEAN
    BY <1>0, <1>4 DEF Reinitialize, CaptureTypeOK
  <2> QED
    BY <1>2, <2>1
<1>5. CASE InitEnds
  <2>1. PICK s \in {"OFFLINE", "ASSOCIATED"} :
          host' = [host EXCEPT !.initializing = FALSE, !.inProgress = FALSE, !.state = s]
    BY <1>5 DEF InitEnds
  <2>2. ncp' = [ncp EXCEPT !.raw = @ \/ host.inProgress] /\ notice' = notice
    BY <1>5 DEF InitEnds
  <2>3. host'.inProgress = FALSE
    BY <1>0, <2>1 DEF CaptureTypeOK
  <2>4. CaptureTypeOK'
    BY <1>0, <2>1, <2>2 DEF CaptureTypeOK, NCPState
  <2> QED
    BY <2>3, <2>4, NotTrustedKeeps DEF TaskSwitchesOn, Trusted
<1> QED
  BY <1>1, <1>3, <1>4, <1>5

(***************************************************************************)
(* A capture that the daemon believes to run does run once its commands    *)
(* are through (SpinelNCPInstance::process, handle_ncp_state_change,       *)
(* vprocess_init), whatever readers come and go, for any number of resets, *)
(* refused commands and networks.                                          *)
(***************************************************************************)
THEOREM CaptureIsFollowed ==
    ASSUME NEW CONSTANT packets
    PROVE  CaptureSpec(packets) => []CaptureFollowsStreams
<1>1. CaptureInit => CaptureInv
  <2> SUFFICES ASSUME CaptureInit PROVE CaptureInv
    OBVIOUS
  <2>1. CaptureTypeOK
    <3>1. <<>> \in Seq(Commands)
      OBVIOUS
    <3> QED
      BY <3>1 DEF CaptureInit, CaptureTypeOK, NCPState
  <2>2. ~host.inProgress
    BY DEF CaptureInit
  <2> QED
    BY <2>1, <2>2 DEF CaptureInv, TaskSwitchesOn, RawToldOrSet, PromiscuousToldOrSet, Trusted
<1>2. CaptureInv /\ [CaptureNext(packets)]_capvars => CaptureInv'
  <2> SUFFICES ASSUME CaptureInv, [CaptureNext(packets)]_capvars PROVE CaptureInv'
    OBVIOUS
  <2>1. ASSUME NEW r \in Readers, pcap_to_fd(r) \/ ReaderLeaves(r) PROVE CaptureInv'
    BY <2>1, SameHost DEF pcap_to_fd, ReaderLeaves
  <2>2. ASSUME NEW p \in packets, RawFrame(p) PROVE CaptureInv'
    BY <2>2, SameHost DEF RawFrame
  <2>3. CASE pcap_terminate \/ UNCHANGED capvars
    BY <2>3, SameHost DEF pcap_terminate, capvars
  <2> QED
    BY <2>1, <2>2, <2>3, ProcessKeepsCapture, ObeysKeeps, DisobeysKeeps,
       StateChangeKeeps, ResetKeeps DEF CaptureNext
<1>3. CaptureInv => CaptureFollowsStreams
  <2> SUFFICES ASSUME CaptureInv, Settled, host.inProgress, host.obeyed
               PROVE  /\ ncp.raw
                      /\ host.state = "OFFLINE" /\ ~host.slipped => ncp.promiscuous
    BY DEF CaptureFollowsStreams
  <2>1. Trusted /\ host.queue = <<>>
    BY DEF Settled, Trusted
  <2>2. <<>> \notin BeforeRaw /\ <<>> \notin BeforePromiscuous
    BY DEF BeforeRaw, BeforePromiscuous
  <2>3. ncp.raw
    BY <2>1, <2>2 DEF CaptureInv, RawToldOrSet
  <2>4. ~ncp_state_is_joining_or_joined("OFFLINE")
    BY DEF ncp_state_is_joining_or_joined
  <2> QED
    BY <2>1, <2>2, <2>3, <2>4 DEF CaptureInv, PromiscuousToldOrSet
<1> QED
  BY <1>1, <1>2, <1>3, PTL DEF CaptureSpec

-----------------------------------------------------------------------------
(* WfUpgrade: the helper and the status of the upgrade.                    *)

Fws == [mUpgradeStatus : Status, upgradeFD : BOOLEAN, checkFD : BOOLEAN, auto : BOOLEAN,
        version : BOOLEAN, asked : BOOLEAN, state : NCPState]
Workers == [alive : BOOLEAN, busy : BOOLEAN, in : Seq({"1", "X"}), out : Seq(Exits),
            runs : Seq(Exits)]

LastRun(w) == w.runs[Len(w.runs)]

\* The helper is asked, at work, killed at work, or has answered.
Outstanding(w) ==
    \/ w.in = <<"1">> /\ ~w.busy /\ w.out = <<>>
    \/ w.in = <<>> /\ w.out = <<>> /\ (w.busy \/ ~w.alive)
    \/ w.in = <<>> /\ ~w.busy /\ w.runs # <<>> /\ w.out = <<WEXITSTATUS(LastRun(w))>>

\* The helper has nothing to do and nothing to say.
Idle(w) == w.out = <<>> /\ ~w.busy /\ (w.alive => w.in = <<>>)

\* The helper, as the daemon knows it while it has its descriptor.
HelperKnown(f, w) ==
    f.upgradeFD => IF f.mUpgradeStatus = "EINPROGRESS" THEN Outstanding(w)
                   ELSE Idle(w) /\ (f.mUpgradeStatus = "ok" => ~f.asked)

\* What an upgrade that is reported as complete leaves.
Complete(f, w) ==
    f.asked /\ f.mUpgradeStatus = "ok" =>
        /\ w.runs # <<>> /\ LastRun(w) # "failed" /\ ~f.upgradeFD /\ ~f.checkFD
        /\ ~w.busy /\ w.in \in {<<>>, <<"X">>}

Good(f, w) == f \in Fws /\ w \in Workers /\ HelperKnown(f, w) /\ Complete(f, w)

UpgradeInv == Good(fw, worker)

\* The fields of the records.
LEMMA FwFields ==
    ASSUME NEW f \in Fws
    PROVE  /\ f.mUpgradeStatus \in Status /\ f.state \in NCPState
           /\ f.upgradeFD \in BOOLEAN /\ f.checkFD \in BOOLEAN /\ f.auto \in BOOLEAN
           /\ f.version \in BOOLEAN /\ f.asked \in BOOLEAN
BY DEF Fws

\* The fields of the records.
LEMMA WorkerFields ==
    ASSUME NEW w \in Workers
    PROVE  /\ w.alive \in BOOLEAN /\ w.busy \in BOOLEAN /\ w.in \in Seq({"1", "X"})
           /\ w.out \in Seq(Exits) /\ w.runs \in Seq(Exits)
BY DEF Workers

\* Fields that the helper does not depend on.
LEMMA SameUpgrade ==
    ASSUME NEW f, NEW w, Good(f, w), NEW g \in Fws,
           g.mUpgradeStatus = f.mUpgradeStatus, g.upgradeFD = f.upgradeFD,
           g.asked = f.asked, g.checkFD = f.checkFD
    PROVE  Good(g, w)
BY DEF Good, HelperKnown, Complete

\* FirmwareUpgrade::close_check_fd and close_upgrade_fd
LEMMA CloseKeeps ==
    ASSUME NEW f, NEW w, Good(f, w), ~(f.mUpgradeStatus = "ok" /\ f.asked)
    PROVE  Good(close_fds(f, w).f, close_fds(f, w).w)
<1> DEFINE g == [f EXCEPT !.checkFD = FALSE]
           h == [g EXCEPT !.upgradeFD = FALSE]
           v == [w EXCEPT !.in = Append(@, "X"), !.out = <<>>]
<1>0. f \in Fws /\ w \in Workers
  BY DEF Good
<1>1. g \in Fws /\ h \in Fws
  BY <1>0 DEF Fws
<1>2. /\ g.mUpgradeStatus = f.mUpgradeStatus /\ g.asked = f.asked /\ g.upgradeFD = f.upgradeFD
      /\ h.mUpgradeStatus = f.mUpgradeStatus /\ h.asked = f.asked /\ h.upgradeFD = FALSE
  BY <1>0 DEF Fws
<1>3. v \in Workers
  <2>1. w.in \in Seq({"1", "X"})
    BY <1>0, WorkerFields
  <2>2. Append(w.in, "X") \in Seq({"1", "X"}) /\ <<>> \in Seq(Exits)
    BY <2>1
  <2> QED
    BY <1>0, <2>2 DEF Workers
<1>4. CASE f.upgradeFD
  <2>1. close_fds(f, w) = [f |-> h, w |-> v]
    BY <1>2, <1>4 DEF close_fds, close_upgrade_fd, close_check_fd
  <2>2. close_fds(f, w).f = h /\ close_fds(f, w).w = v
    BY <2>1
  <2>3. Good(h, v)
    BY <1>1, <1>2, <1>3 DEF Good, HelperKnown, Complete
  <2> QED
    BY <2>2, <2>3
<1>5. CASE ~f.upgradeFD
  <2>1. close_fds(f, w) = [f |-> g, w |-> w]
    BY <1>2, <1>5 DEF close_fds, close_upgrade_fd, close_check_fd
  <2>2. close_fds(f, w).f = g /\ close_fds(f, w).w = w
    BY <2>1
  <2>3. Good(g, w)
    BY <1>0, <1>1, <1>2, <1>5 DEF Good, HelperKnown, Complete
  <2> QED
    BY <2>2, <2>3
<1> QED
  BY <1>4, <1>5

\* FirmwareUpgrade::upgrade_firmware
LEMMA UpgradeKeeps ==
    ASSUME NEW f, NEW w, Good(f, w)
    PROVE  Good(upgrade_firmware(f, w).f, upgrade_firmware(f, w).w)
<1> DEFINE r == upgrade_firmware(f, w)
<1>0. f \in Fws /\ w \in Workers
  BY DEF Good
<1>1. CASE f.mUpgradeStatus = "EINPROGRESS"
  <2>1. r = [f |-> f, w |-> w]
    BY <1>1 DEF upgrade_firmware
  <2> QED
    BY <2>1
<1>2. CASE f.mUpgradeStatus # "EINPROGRESS" /\ (~f.upgradeFD \/ ~w.alive)
  <2> DEFINE g == [f EXCEPT !.mUpgradeStatus = "EINVAL", !.asked = TRUE]
  <2>1. r = [f |-> g, w |-> w]
    BY <1>2 DEF upgrade_firmware
  <2>2. g \in Fws /\ g.mUpgradeStatus = "EINVAL" /\ g.upgradeFD = f.upgradeFD
    BY <1>0 DEF Fws, Status
  <2>3. Good(g, w)
    BY <1>0, <1>2, <2>2 DEF Good, HelperKnown, Complete
  <2> QED
    BY <2>1, <2>3
<1>3. CASE f.mUpgradeStatus # "EINPROGRESS" /\ f.upgradeFD /\ w.alive
  <2> DEFINE g == [f EXCEPT !.mUpgradeStatus = "EINPROGRESS", !.asked = TRUE]
             v == [w EXCEPT !.in = Append(@, "1")]
  <2>1. r = [f |-> g, w |-> v]
    BY <1>3 DEF upgrade_firmware
  <2>2. g \in Fws /\ g.mUpgradeStatus = "EINPROGRESS" /\ g.upgradeFD = f.upgradeFD
    BY <1>0 DEF Fws, Status
  <2>3. w.in = <<>> /\ w.out = <<>> /\ ~w.busy
    BY <1>3 DEF Good, HelperKnown, Idle
  <2>4. v.in = <<"1">> /\ v.out = <<>> /\ v.busy = w.busy
    <3>1. Append(<<>>, "1") = <<"1">>
      OBVIOUS
    <3> QED
      BY <1>0, <2>3, <3>1 DEF Workers
  <2>5. v \in Workers
    <3>1. <<"1">> \in Seq({"1", "X"}) /\ Append(<<>>, "1") = <<"1">>
      OBVIOUS
    <3> QED
      BY <1>0, <2>3, <3>1 DEF Workers
  <2>6. Good(g, v)
    BY <2>2, <2>3, <2>4, <2>5 DEF Good, HelperKnown, Outstanding, Complete
  <2> QED
    BY <2>1, <2>6
<1> QED
  BY <1>1, <1>2, <1>3

\* NCPInstanceBase::upgrade_firmware
LEMMA StartKeeps ==
    ASSUME NEW f, NEW w, Good(f, w)
    PROVE  Good(start_upgrade(f, w).f, start_upgrade(f, w).w)
<1> DEFINE g == [f EXCEPT !.state = IF ncp_state_is_detached_from_ncp(@) THEN @
                                    ELSE "UPGRADING"]
<1>0. f \in Fws
  BY DEF Good
<1>1. /\ g \in Fws /\ g.mUpgradeStatus = f.mUpgradeStatus /\ g.upgradeFD = f.upgradeFD
      /\ g.asked = f.asked /\ g.checkFD = f.checkFD
  BY <1>0 DEF Fws, NCPState
<1>2. Good(g, w)
  BY <1>1, SameUpgrade
<1> HIDE DEF g
<1> QED
  BY <1>2, UpgradeKeeps DEF start_upgrade, g

\* The check for an upgrade; after a complete one both descriptors are closed
\* already.
LEMMA CheckKeeps ==
    ASSUME NEW f, NEW w, NEW verdict, Good(f, w)
    PROVE  Good(CheckAndUpgrade(f, w, verdict).f, CheckAndUpgrade(f, w, verdict).w)
<1>0. f \in Fws
  BY DEF Good
<1>1. CASE is_firmware_upgrade_required(f, verdict)
  BY <1>1, StartKeeps DEF CheckAndUpgrade
<1>2. CASE ~is_firmware_upgrade_required(f, verdict)
  <2>1. CheckAndUpgrade(f, w, verdict) = close_fds(f, w)
    BY <1>2 DEF CheckAndUpgrade
  <2>2. CASE ~(f.mUpgradeStatus = "ok" /\ f.asked)
    BY <2>1, <2>2, CloseKeeps
  <2>3. CASE f.mUpgradeStatus = "ok" /\ f.asked
    <3> DEFINE g == [f EXCEPT !.checkFD = FALSE]
    <3>1. ~f.upgradeFD /\ ~f.checkFD
      BY <2>3 DEF Good, Complete
    <3>2. /\ g \in Fws /\ g.mUpgradeStatus = f.mUpgradeStatus /\ g.upgradeFD = f.upgradeFD
          /\ g.asked = f.asked /\ g.checkFD = FALSE
      BY <1>0 DEF Fws
    <3>3. close_fds(f, w) = [f |-> g, w |-> w]
      BY <3>1, <3>2 DEF close_fds, close_upgrade_fd, close_check_fd
    <3>4. close_fds(f, w).f = g /\ close_fds(f, w).w = w
      BY <3>3
    <3>5. Good(g, w)
      BY <3>1, <3>2 DEF Good, HelperKnown, Complete
    <3> QED
      BY <2>1, <3>4, <3>5
  <2> QED
    BY <2>2, <2>3
<1> QED
  BY <1>1, <1>2

\* FirmwareUpgrade::process
LEMMA StatusKeeps ==
    ASSUME NEW f, NEW w, Good(f, w), f.mUpgradeStatus = "EINPROGRESS"
    PROVE  Good(read_status(f, w).f, read_status(f, w).w)
<1> DEFINE r == read_status(f, w)
<1>0. f \in Fws /\ w \in Workers
  BY DEF Good
<1>1. CASE ~f.upgradeFD
  <2> DEFINE g == [f EXCEPT !.mUpgradeStatus = "EBADF"]
  <2>1. r = [f |-> g, w |-> w]
    BY <1>1 DEF read_status
  <2>2. g \in Fws /\ g.mUpgradeStatus = "EBADF" /\ g.upgradeFD = f.upgradeFD
    BY <1>0 DEF Fws, Status
  <2>3. Good(g, w)
    BY <1>0, <1>1, <2>2 DEF Good, HelperKnown, Complete
  <2> QED
    BY <2>1, <2>3
<1>2. CASE f.upgradeFD /\ w.out = <<>> /\ ~(~w.alive /\ w.in # <<>>)
  <2>1. r = [f |-> f, w |-> w]
    BY <1>2 DEF read_status
  <2> QED
    BY <2>1
<1>3. CASE f.upgradeFD /\ w.out = <<>> /\ ~w.alive /\ w.in # <<>>
  <2> DEFINE g == [f EXCEPT !.mUpgradeStatus = "ECONNRESET"]
  <2>1. r = [f |-> g, w |-> w]
    BY <1>3 DEF read_status
  <2>2. g \in Fws /\ g.mUpgradeStatus = "ECONNRESET" /\ g.upgradeFD = f.upgradeFD
    BY <1>0 DEF Fws, Status
  <2>3. Outstanding(w)
    BY <1>3 DEF Good, HelperKnown
  <2>4. Idle(w)
    BY <1>3, <2>3 DEF Outstanding, Idle
  <2>5. Good(g, w)
    BY <1>0, <2>2, <2>4 DEF Good, HelperKnown, Complete
  <2> QED
    BY <2>1, <2>5
<1>4. CASE f.upgradeFD /\ w.out # <<>>
  <2>1. w.in = <<>> /\ ~w.busy /\ w.runs # <<>> /\ w.out = <<WEXITSTATUS(LastRun(w))>>
    BY <1>4 DEF Good, HelperKnown, Outstanding
  <2>2. /\ Head(w.out) = WEXITSTATUS(LastRun(w)) /\ Tail(w.out) = <<>>
        /\ WEXITSTATUS(LastRun(w)) \in {"ok", "failed"}
    <3>1. w.out \in Seq(Exits)
      BY <1>0, WorkerFields
    <3> QED
      BY <2>1, <3>1 DEF WEXITSTATUS
  <2>3. CASE WEXITSTATUS(LastRun(w)) = "ok"
    <3> DEFINE g == [f EXCEPT !.mUpgradeStatus = "ok"]
               k == [[g EXCEPT !.checkFD = FALSE] EXCEPT !.upgradeFD = FALSE]
               v == [w EXCEPT !.in = Append(@, "X"), !.out = <<>>]
    <3>1. r = close_fds(g, w)
      BY <1>4, <2>2, <2>3 DEF read_status
    <3>2. g.upgradeFD = f.upgradeFD /\ g \in Fws
      BY <1>0 DEF Fws, Status
    <3>3. close_fds(g, w) = [f |-> k, w |-> v]
      <4> DEFINE c == [g EXCEPT !.checkFD = FALSE]
      <4>1. c.upgradeFD = g.upgradeFD
        BY <3>2 DEF Fws
      <4> QED
        BY <1>4, <3>2, <4>1 DEF close_fds, close_upgrade_fd, close_check_fd
    <3>4. r.f = k /\ r.w = v
      BY <3>1, <3>3
    <3>5. k \in Fws /\ k.upgradeFD = FALSE /\ k.checkFD = FALSE /\ k.mUpgradeStatus = "ok"
      BY <1>0 DEF Fws, Status
    <3>6. Append(<<>>, "X") = <<"X">> /\ <<"X">> \in Seq({"1", "X"}) /\ <<>> \in Seq(Exits)
      OBVIOUS
    <3>7. v \in Workers /\ v.in = <<"X">> /\ v.busy = w.busy /\ v.runs = w.runs
      BY <1>0, <2>1, <3>6 DEF Workers
    <3>8. LastRun(v) # "failed"
      BY <2>3, <3>7 DEF LastRun, WEXITSTATUS
    <3> HIDE DEF k, v, r
    <3>9. Good(k, v)
      BY <2>1, <3>5, <3>7, <3>8 DEF Good, HelperKnown, Complete
    <3> QED
      BY <3>4, <3>9 DEF r
  <2>4. CASE WEXITSTATUS(LastRun(w)) # "ok"
    <3> DEFINE g == [f EXCEPT !.mUpgradeStatus = Head(w.out)]
               v == [w EXCEPT !.out = Tail(@)]
    <3>1. r = [f |-> g, w |-> v]
      BY <1>4, <2>2, <2>4 DEF read_status
    <3>2. r.f = g /\ r.w = v
      BY <3>1
    <3>3. Head(w.out) = "failed"
      BY <2>2, <2>4
    <3>4. g \in Fws /\ g.mUpgradeStatus = "failed"
      BY <1>0, <3>3 DEF Fws, Status
    <3>5. v \in Workers /\ v.out = <<>> /\ v.busy = w.busy /\ v.in = w.in
      <4>1. <<>> \in Seq(Exits)
        OBVIOUS
      <4> QED
        BY <1>0, <2>2, <4>1 DEF Workers
    <3> HIDE DEF g, v, r
    <3>6. Good(g, v)
      BY <2>1, <3>4, <3>5 DEF Good, HelperKnown, Idle, Complete
    <3> QED
      BY <3>2, <3>6 DEF r
  <2> QED
    BY <2>3, <2>4
<1> QED
  BY <1>1, <1>2, <1>3, <1>4

\* The steps of the instance.
LEMMA InstanceKeeps ==
    ASSUME UpgradeInv,
           \/ VersionArrives \/ InitializationEnds \/ Restart \/ UpgradeDone
           \/ \E on \in BOOLEAN : set_prop_DaemonAutoFirmwareUpdate(on)
           \/ FirmwareProcess
    PROVE  UpgradeInv'
<1>0. fw \in Fws /\ worker \in Workers /\ Good(fw, worker)
  BY DEF UpgradeInv, Good
<1>r. ASSUME NEW r, Upgrading(r), Good(r.f, r.w) PROVE UpgradeInv'
  BY <1>r DEF Upgrading, UpgradeInv
<1>s. ASSUME NEW f, NEW w PROVE [f |-> f, w |-> w].f = f /\ [f |-> f, w |-> w].w = w
  OBVIOUS
<1>1. CASE VersionArrives
  <2> DEFINE f == [fw EXCEPT !.version = TRUE]
  <2>1. PICK verdict \in BOOLEAN :
          Upgrading(IF f.auto THEN CheckAndUpgrade(f, worker, verdict)
                    ELSE [f |-> f, w |-> worker])
    BY <1>1 DEF VersionArrives
  <2>2. /\ f \in Fws /\ f.mUpgradeStatus = fw.mUpgradeStatus /\ f.upgradeFD = fw.upgradeFD
        /\ f.asked = fw.asked /\ f.checkFD = fw.checkFD
    BY <1>0 DEF Fws
  <2>3. Good(f, worker)
    BY <1>0, <2>2, SameUpgrade
  <2> HIDE DEF f
  <2>4. CASE f.auto
    BY <1>r, <2>1, <2>3, <2>4, CheckKeeps
  <2>5. CASE ~f.auto
    <3>1. Upgrading([f |-> f, w |-> worker])
      BY <2>1, <2>5
    <3> QED
      BY <1>r, <1>s, <2>3, <3>1
  <2> QED
    BY <2>4, <2>5
<1>2. CASE InitializationEnds
  <2>1. PICK s \in {"OFFLINE", "ASSOCIATED", "FAULT"} : fw' = [fw EXCEPT !.state = s]
    BY <1>2 DEF InitializationEnds
  <2>2. worker' = worker
    BY <1>2 DEF InitializationEnds
  <2>3. /\ fw' \in Fws /\ fw'.mUpgradeStatus = fw.mUpgradeStatus
        /\ fw'.upgradeFD = fw.upgradeFD /\ fw'.asked = fw.asked /\ fw'.checkFD = fw.checkFD
    BY <1>0, <2>1 DEF Fws, NCPState
  <2>4. Good(fw', worker)
    BY <1>0, <2>3, SameUpgrade
  <2> QED
    BY <2>2, <2>4 DEF UpgradeInv
<1>3. CASE Restart \/ UpgradeDone
  <2>1. worker' = worker /\ fw' = [fw EXCEPT !.state = "UNINITIALIZED", !.version = FALSE]
    BY <1>3 DEF Restart, UpgradeDone
  <2>3. /\ fw' \in Fws /\ fw'.mUpgradeStatus = fw.mUpgradeStatus
        /\ fw'.upgradeFD = fw.upgradeFD /\ fw'.asked = fw.asked /\ fw'.checkFD = fw.checkFD
    BY <1>0, <2>1 DEF Fws, NCPState
  <2>4. Good(fw', worker)
    BY <1>0, <2>3, SameUpgrade
  <2> QED
    BY <2>1, <2>4 DEF UpgradeInv
<1>4. ASSUME NEW on \in BOOLEAN, set_prop_DaemonAutoFirmwareUpdate(on) PROVE UpgradeInv'
  <2> DEFINE f == [fw EXCEPT !.auto = on]
  <2>1. \/ Upgrading(start_upgrade(f, worker))
        \/ \E verdict \in BOOLEAN : Upgrading(CheckAndUpgrade(f, worker, verdict))
        \/ Upgrading([f |-> f, w |-> worker])
    BY <1>4 DEF set_prop_DaemonAutoFirmwareUpdate
  <2>2. /\ f \in Fws /\ f.mUpgradeStatus = fw.mUpgradeStatus /\ f.upgradeFD = fw.upgradeFD
        /\ f.asked = fw.asked /\ f.checkFD = fw.checkFD
    BY <1>0 DEF Fws
  <2>3. Good(f, worker)
    BY <1>0, <2>2, SameUpgrade
  <2> HIDE DEF f
  <2>4. CASE Upgrading(start_upgrade(f, worker))
    BY <1>r, <2>3, <2>4, StartKeeps
  <2>5. CASE \E verdict \in BOOLEAN : Upgrading(CheckAndUpgrade(f, worker, verdict))
    BY <1>r, <2>3, <2>5, CheckKeeps
  <2>6. CASE Upgrading([f |-> f, w |-> worker])
    BY <1>r, <1>s, <2>3, <2>6
  <2> QED
    BY <2>1, <2>4, <2>5, <2>6
<1>5. CASE FirmwareProcess
  <2>1. fw.mUpgradeStatus = "EINPROGRESS" /\ Upgrading(read_status(fw, worker))
    BY <1>5 DEF FirmwareProcess
  <2> QED
    BY <1>0, <1>r, <2>1, StatusKeeps
<1> QED
  BY <1>1, <1>2, <1>3, <1>4, <1>5

\* The steps of the helper.
LEMMA HelperKeeps ==
    ASSUME UpgradeInv, WorkerReads \/ RunEnds \/ WorkerDies
    PROVE  UpgradeInv'
<1> DEFINE w == worker
           v == worker'
<1>0. fw \in Fws /\ w \in Workers /\ HelperKnown(fw, w) /\ Complete(fw, w) /\ fw' = fw
  BY DEF UpgradeInv, Good, WorkerReads, RunEnds, WorkerDies
<1>f. /\ w.alive \in BOOLEAN /\ w.busy \in BOOLEAN /\ w.in \in Seq({"1", "X"})
      /\ w.out \in Seq(Exits) /\ w.runs \in Seq(Exits)
  BY <1>0, WorkerFields
<1>1. CASE WorkerReads
  <2>1. w.alive /\ ~w.busy /\ w.in # <<>> /\ Tail(w.in) \in Seq({"1", "X"})
    BY <1>1, <1>f DEF WorkerReads
  <2>2. CASE Head(w.in) = "1"
    <3>1. v = [w EXCEPT !.in = Tail(@), !.busy = TRUE]
      BY <1>1, <2>2 DEF WorkerReads
    <3>2. v \in Workers
      BY <1>0, <2>1, <3>1 DEF Workers
    <3>3. v.in = Tail(w.in) /\ v.busy = TRUE /\ v.out = w.out
      BY <1>0, <3>1 DEF Workers
    <3>4. fw.upgradeFD => fw.mUpgradeStatus = "EINPROGRESS" /\ Outstanding(v)
      <4> SUFFICES ASSUME fw.upgradeFD PROVE fw.mUpgradeStatus = "EINPROGRESS" /\ Outstanding(v)
        OBVIOUS
      <4>1. fw.mUpgradeStatus = "EINPROGRESS"
        BY <1>0, <2>1 DEF HelperKnown, Idle
      <4>2. w.in = <<"1">> /\ w.out = <<>>
        BY <1>0, <2>1, <4>1 DEF HelperKnown, Outstanding
      <4>3. Tail(w.in) = <<>>
        BY <4>2
      <4> QED
        BY <3>3, <4>1, <4>2, <4>3 DEF Outstanding
    <3>5. ~(fw.asked /\ fw.mUpgradeStatus = "ok")
      <4>1. Head(<<"X">>) = "X"
        OBVIOUS
      <4> QED
        BY <1>0, <2>1, <2>2, <4>1 DEF Complete
    <3> QED
      BY <1>0, <3>2, <3>4, <3>5 DEF UpgradeInv, Good, HelperKnown, Complete
  <2>3. CASE Head(w.in) # "1"
    <3>1. v = [w EXCEPT !.in = Tail(@), !.alive = FALSE, !.out = Written("ok")]
      BY <1>1, <2>3 DEF WorkerReads
    <3>2. ~fw.upgradeFD
      <4> SUFFICES ASSUME fw.upgradeFD PROVE FALSE
        OBVIOUS
      <4>1. w.in = <<"1">>
        BY <1>0, <2>1 DEF HelperKnown, Idle, Outstanding
      <4>2. Head(<<"1">>) = "1"
        OBVIOUS
      <4> QED
        BY <2>3, <4>1, <4>2
    <3>3. Written("ok") = w.out
      BY <3>2 DEF Written
    <3>4. v \in Workers
      BY <1>0, <1>f, <2>1, <3>1, <3>3 DEF Workers
    <3>5. v.in = Tail(w.in) /\ v.busy = w.busy /\ v.runs = w.runs
      BY <1>0, <3>1 DEF Workers
    <3>6. fw.asked /\ fw.mUpgradeStatus = "ok" => v.in = <<>>
      <4>1. Tail(<<"X">>) = <<>>
        OBVIOUS
      <4> QED
        BY <1>0, <2>1, <3>5, <4>1 DEF Complete
    <3>7. LastRun(v) = LastRun(w)
      BY <3>5 DEF LastRun
    <3> QED
      BY <1>0, <3>2, <3>4, <3>5, <3>6, <3>7 DEF UpgradeInv, Good, HelperKnown, Complete
  <2> QED
    BY <2>2, <2>3
<1>2. CASE RunEnds
  <2>1. PICK e \in Exits :
          v = [w EXCEPT !.busy = FALSE, !.runs = Append(@, e),
                        !.out = Written(WEXITSTATUS(e))]
    BY <1>2 DEF RunEnds
  <2>2. w.busy
    BY <1>2 DEF RunEnds
  <2>3. /\ WEXITSTATUS(e) \in Exits
        /\ Append(w.runs, e) \in Seq(Exits) /\ Append(w.out, WEXITSTATUS(e)) \in Seq(Exits)
    BY <1>f DEF WEXITSTATUS, Exits
  <2>4. v \in Workers
    BY <1>0, <1>f, <2>1, <2>3 DEF Workers, Written
  <2>5. v.in = w.in /\ v.busy = FALSE /\ v.runs = Append(w.runs, e) 
        /\ v.out = Written(WEXITSTATUS(e))
    BY <1>0, <2>1 DEF Workers
  <2>6. ~(fw.asked /\ fw.mUpgradeStatus = "ok")
    BY <1>0, <2>2 DEF Complete
  <2>7. fw.upgradeFD => fw.mUpgradeStatus = "EINPROGRESS" /\ Outstanding(v)
    <3> SUFFICES ASSUME fw.upgradeFD PROVE fw.mUpgradeStatus = "EINPROGRESS" /\ Outstanding(v)
      OBVIOUS
    <3>1. fw.mUpgradeStatus = "EINPROGRESS"
      BY <1>0, <2>2 DEF HelperKnown, Idle
    <3>2. w.in = <<>> /\ w.out = <<>>
      BY <1>0, <2>2, <3>1 DEF HelperKnown, Outstanding
    <3>3. Written(WEXITSTATUS(e)) = <<WEXITSTATUS(e)>>
      <4>1. Append(<<>>, WEXITSTATUS(e)) = <<WEXITSTATUS(e)>>
        OBVIOUS
      <4> QED
        BY <3>2, <4>1 DEF Written
    <3>4. v.runs # <<>> /\ LastRun(v) = e
      BY <1>f, <2>5 DEF LastRun
    <3> QED
      BY <2>5, <3>1, <3>2, <3>3, <3>4 DEF Outstanding
  <2> QED
    BY <1>0, <2>4, <2>6, <2>7 DEF UpgradeInv, Good, HelperKnown, Complete
<1>3. CASE WorkerDies
  <2>1. v = [w EXCEPT !.alive = FALSE, !.busy = FALSE]
    BY <1>3 DEF WorkerDies
  <2>2. /\ v \in Workers /\ v.in = w.in /\ v.out = w.out /\ v.runs = w.runs
        /\ v.busy = FALSE /\ v.alive = FALSE
    BY <1>0, <2>1 DEF Workers
  <2>3. LastRun(v) = LastRun(w)
    BY <2>2 DEF LastRun
  <2>4. Idle(w) => Idle(v)
    BY <2>2 DEF Idle
  <2>5. Outstanding(w) => Outstanding(v)
    BY <2>2, <2>3 DEF Outstanding
  <2>6. Complete(fw, v)
    BY <1>0, <2>2, <2>3 DEF Complete
  <2> QED
    BY <1>0, <2>2, <2>4, <2>5, <2>6 DEF UpgradeInv, Good, HelperKnown
<1> QED
  BY <1>1, <1>2, <1>3

(***************************************************************************)
(* An upgrade that FirmwareUpgrade reports as complete was carried out by  *)
(* a command that ended and did not exit with a failure (a signal may have *)
(* killed it), whenever the helper is killed, the upgrade is asked for     *)
(* again or the daemon starts over, for any number of upgrades.            *)
(***************************************************************************)
THEOREM OkIsUpgraded == UpgradeSpec => []OkMeansUpgraded
<1>1. UpgradeInit => UpgradeInv
  <2> SUFFICES ASSUME UpgradeInit PROVE UpgradeInv
    OBVIOUS
  <2>1. PICK u, c, a \in BOOLEAN :
         /\ fw = [mUpgradeStatus |-> "ok", upgradeFD |-> u, checkFD |-> c,
                  auto |-> a, version |-> FALSE, asked |-> FALSE,
                  state |-> "UNINITIALIZED"]
         /\ worker = [alive |-> u, busy |-> FALSE, in |-> <<>>, out |-> <<>>,
                      runs |-> <<>>]
    BY DEF UpgradeInit
  <2>2. fw \in Fws
    BY <2>1 DEF Fws, Status, NCPState
  <2>3. <<>> \in Seq({"1", "X"}) /\ <<>> \in Seq(Exits)
    OBVIOUS
  <2>4. worker \in Workers
    BY <2>1, <2>3 DEF Workers
  <2>5. fw.asked = FALSE /\ fw.mUpgradeStatus = "ok" /\ Idle(worker)
    BY <2>1 DEF Idle
  <2> QED
    BY <2>2, <2>4, <2>5 DEF UpgradeInv, Good, HelperKnown, Complete
<1>2. UpgradeInv /\ [UpgradeNext]_upvars => UpgradeInv'
  <2> SUFFICES ASSUME UpgradeInv, [UpgradeNext]_upvars PROVE UpgradeInv'
    OBVIOUS
  <2>1. CASE UNCHANGED upvars
    BY <2>1 DEF upvars, UpgradeInv
  <2> QED
    BY <2>1, InstanceKeeps, HelperKeeps DEF UpgradeNext
<1>3. UpgradeInv => OkMeansUpgraded
  BY DEF UpgradeInv, Good, Complete, LastRun, OkMeansUpgraded
<1> QED
  BY <1>1, <1>2, <1>3, PTL DEF UpgradeSpec

-----------------------------------------------------------------------------
(* WfFirewall: tracked connections.                                        *)

\* A record with the fields of a rule.
IsRule(r) ==
    r = [type |-> r.type, subtype |-> r.subtype, lport |-> r.lport, laddr |-> r.laddr,
         rport |-> r.rport, raddr |-> r.raddr]

FirewallTypeOK ==
    /\ fwTime \in Nat /\ fwExpiration \in Nat /\ fwTimer \in Nat
    /\ \A r \in fwInsecure : IsRule(r)
    /\ fwMissed \in BOOLEAN

\* What is tracked of a connection is its flow, except for ICMP.
FlowsTracked == \A r \in fwInsecure : r.type # "icmp" => r.subtype = "all"

FirewallInv == FirewallTypeOK /\ FlowsTracked /\ AnsweredWhereHeard /\ WindowEnds

\* A flow has its rule's type and no subtype.
LEMMA FlowFields ==
    ASSUME NEW r, IsRule(r)
    PROVE  /\ IsRule(FlowOf(r)) /\ FlowOf(r).type = r.type /\ FlowOf(r).subtype = "all"
           /\ FlowOf(FlowOf(r)) = FlowOf(r)
           /\ r.subtype = "all" => FlowOf(r) = r
<1> DEFINE F(x) == [type |-> x.type, subtype |-> "all", lport |-> x.lport,
                    laddr |-> x.laddr, rport |-> x.rport, raddr |-> x.raddr]
<1>1. ASSUME NEW x, IsRule(x) PROVE FlowOf(x) = F(x)
  BY <1>1 DEF IsRule, FlowOf
<1>2. IsRule(F(r)) /\ F(r).type = r.type /\ F(r).subtype = "all" /\ F(F(r)) = F(r)
  BY DEF IsRule
<1>3. r.subtype = "all" => F(r) = r
  BY DEF IsRule
<1> QED
  BY <1>1, <1>2, <1>3

\* The rules that are made of packets.
LEMMA PacketRules ==
    ASSUME NEW p
    PROVE  /\ IsRule(update_from_inbound_packet(p)) /\ IsRule(update_from_outbound_packet(p))
           /\ update_from_inbound_packet(p).type # "icmp" =>
                 update_from_inbound_packet(p).subtype = "all"
           /\ p.type # "none" => update_from_outbound_packet(p).type = p.type
<1>1. IsRule(AnyRule) /\ AnyRule.subtype = "all"
  BY DEF AnyRule, IsRule
<1>2. CASE p.type = "none"
  BY <1>1, <1>2 DEF update_from_inbound_packet, update_from_outbound_packet
<1>3. CASE p.type # "none"
  <2>1. /\ update_from_inbound_packet(p).type = p.type
        /\ update_from_inbound_packet(p).subtype = IF p.type = "icmp" THEN p.subtype ELSE "all"
        /\ update_from_outbound_packet(p).type = p.type
    BY <1>3 DEF update_from_inbound_packet, update_from_outbound_packet
  <2>2. IsRule(update_from_inbound_packet(p)) /\ IsRule(update_from_outbound_packet(p))
    BY <1>3 DEF update_from_inbound_packet, update_from_outbound_packet, IsRule
  <2> QED
    BY <2>1, <2>2
<1> QED
  BY <1>2, <1>3

\* A packet from the NCP.
LEMMA HostboundKeeps ==
    ASSUME FirewallInv, NEW p, NEW c, should_forward_hostbound_frame(p, c)
    PROVE  FirewallTypeOK' /\ FlowsTracked' /\ AnsweredWhereHeard'
<1> DEFINE rule == update_from_inbound_packet(p)
           flow == FlowOf(rule)
<1>0. /\ UNCHANGED <<fwTime, fwTimer, fwMissed, fwSent>>
      /\ FirewallTypeOK /\ FlowsTracked /\ AnsweredWhereHeard
  BY DEF should_forward_hostbound_frame, FirewallInv
<1>1. /\ IsRule(rule) /\ (rule.type # "icmp" => rule.subtype = "all")
      /\ IsRule(flow) /\ flow.type = rule.type /\ flow.subtype = "all"
      /\ FlowOf(flow) = flow /\ (rule.type # "icmp" => flow = rule)
  BY PacketRules, FlowFields
<1>2. \A r \in fwInsecure : IsRule(r) /\ (r.type # "icmp" => FlowOf(r) = r)
  BY <1>0, FlowFields DEF FirewallTypeOK, FlowsTracked
<1> HIDE DEF rule, flow
<1>3. ASSUME NEW channel
      PROVE  /\ DOMAIN Hear(flow, channel) = DOMAIN fwHeard \cup {flow}
             /\ Hear(flow, channel)[flow] = channel
             /\ \A f \in DOMAIN fwHeard : f # flow => Hear(flow, channel)[f] = fwHeard[f]
  BY DEF Hear
<1>4. CASE fwInsecure' = {} /\ fwExpiration' = 0
  BY <1>0, <1>4 DEF FirewallTypeOK, FlowsTracked, AnsweredWhereHeard
<1>5. CASE UNCHANGED <<fwExpiration, fwInsecure, fwHeard>>
  BY <1>0, <1>5 DEF FirewallTypeOK, FlowsTracked, AnsweredWhereHeard
<1>6. ASSUME NEW track \in {{}, {flow}, {rule}}, fwInsecure' \in {fwInsecure, fwInsecure \cup track},
             fwHeard' = Hear(flow, "insecure"), fwExpiration' = fwExpiration,
             track = {rule} => rule.type = "icmp" \/ rule = flow
      PROVE  FirewallTypeOK' /\ FlowsTracked' /\ AnsweredWhereHeard'
  <2>1. \A r \in fwInsecure' : \/ r \in fwInsecure
                               \/ r = flow
                               \/ r = rule /\ rule.type = "icmp"
    BY <1>6
  <2>2. FirewallTypeOK' /\ FlowsTracked'
    BY <1>0, <1>1, <1>6, <2>1 DEF FirewallTypeOK, FlowsTracked
  <2>3. ASSUME NEW r \in fwInsecure', r.type # "icmp"
        PROVE  FlowOf(r) \in DOMAIN fwHeard' /\ fwHeard'[FlowOf(r)] = "insecure"
    <3>1. CASE r = flow
      BY <1>1, <1>3, <1>6, <3>1
    <3>2. CASE r # flow
      <4>1. r \in fwInsecure /\ FlowOf(r) = r
        BY <1>2, <2>1, <2>3, <3>2
      <4>2. FlowOf(r) \in DOMAIN fwHeard /\ fwHeard[FlowOf(r)] = "insecure"
        BY <1>0, <2>3, <4>1 DEF AnsweredWhereHeard
      <4> QED
        BY <1>3, <1>6, <3>2, <4>1, <4>2
    <3> QED
      BY <3>1, <3>2
  <2> QED
    BY <1>0, <2>2, <2>3 DEF AnsweredWhereHeard
<1>7. CASE c = "insecure"
  <2> DEFINE track == IF match_inbound(fwRule, p) THEN {flow}
                      ELSE IF rule.type = "icmp" THEN {rule}
                      ELSE {}
  <2>1. track \in {{}, {flow}, {rule}} /\ (track = {rule} => rule.type = "icmp" \/ rule = flow)
    <3>1. CASE match_inbound(fwRule, p)
      BY <3>1
    <3>2. CASE ~match_inbound(fwRule, p) /\ rule.type = "icmp"
      BY <3>2
    <3>3. CASE ~match_inbound(fwRule, p) /\ rule.type # "icmp"
      BY <3>3
    <3> QED
      BY <3>1, <3>2, <3>3
  <2>2. \/ /\ fwInsecure' = IF Tracked(rule) THEN fwInsecure ELSE fwInsecure \cup track
           /\ fwHeard' = IF Tracked(rule) \/ track # {} THEN Hear(flow, "insecure") ELSE fwHeard
           /\ fwExpiration' = fwExpiration
        \/ fwExpiration' = 0 /\ fwInsecure' = {}
        \/ UNCHANGED <<fwExpiration, fwInsecure, fwHeard>>
    BY <1>7 DEF should_forward_hostbound_frame, InsecureFrame, CloseWindow, rule, flow
  <2> HIDE DEF track
  <2>3. CASE /\ fwInsecure' = IF Tracked(rule) THEN fwInsecure ELSE fwInsecure \cup track
             /\ fwHeard' = IF Tracked(rule) \/ track # {} THEN Hear(flow, "insecure") ELSE fwHeard
             /\ fwExpiration' = fwExpiration
    <3>1. CASE Tracked(rule) \/ track # {}
      <4>1. fwHeard' = Hear(flow, "insecure") /\ fwInsecure' \in {fwInsecure, fwInsecure \cup track}
        BY <2>3, <3>1
      <4> QED
        BY <1>6, <2>1, <2>3, <4>1
    <3>2. CASE ~(Tracked(rule) \/ track # {})
      <4>1. fwHeard' = fwHeard /\ fwInsecure' = fwInsecure
        BY <2>3, <3>2
      <4> QED
        BY <1>5, <2>3, <4>1
    <3> QED
      BY <3>1, <3>2
  <2> QED
    BY <1>4, <1>5, <2>2, <2>3
<1>8. CASE c # "insecure"
  <2>1. /\ fwInsecure' = fwInsecure \ {rule} /\ fwExpiration' = fwExpiration
        /\ fwHeard' = IF fwInsecure = {} THEN fwHeard ELSE Hear(flow, "secure")
    BY <1>8 DEF should_forward_hostbound_frame, SecureFrame, rule, flow
  <2>2. FirewallTypeOK' /\ FlowsTracked'
    BY <1>0, <2>1 DEF FirewallTypeOK, FlowsTracked
  <2>3. ASSUME NEW r \in fwInsecure', r.type # "icmp"
        PROVE  FlowOf(r) \in DOMAIN fwHeard' /\ fwHeard'[FlowOf(r)] = "insecure"
    <3>1. r \in fwInsecure /\ r # rule /\ FlowOf(r) = r
      BY <1>2, <2>1, <2>3
    <3>2. r # flow
      <4> SUFFICES ASSUME r = flow PROVE FALSE
        OBVIOUS
      <4>1. rule.type # "icmp"
        BY <1>1, <2>3
      <4> QED
        BY <1>1, <3>1, <4>1
    <3>3. FlowOf(r) \in DOMAIN fwHeard /\ fwHeard[FlowOf(r)] = "insecure"
      BY <1>0, <2>3, <3>1 DEF AnsweredWhereHeard
    <3>4. fwHeard' = Hear(flow, "secure")
      BY <2>1, <3>1
    <3> QED
      BY <1>3, <3>1, <3>2, <3>3, <3>4
  <2> QED
    BY <1>0, <2>2, <2>3 DEF AnsweredWhereHeard
<1> QED
  BY <1>7, <1>8

\* A packet to the NCP.
LEMMA NcpboundKeeps ==
    ASSUME FirewallInv, NEW p, should_forward_ncpbound_frame(p)
    PROVE  FirewallTypeOK' /\ FlowsTracked' /\ AnsweredWhereHeard'
<1> DEFINE rule == update_from_outbound_packet(p)
           flow == FlowOf(rule)
           sent == [type    |-> p.type,
                    channel |-> IF Tracked(flow) \/ fwState = "CREDENTIALS_NEEDED"
                                THEN "insecure" ELSE "secure",
                    heard   |-> IF flow \in DOMAIN fwHeard THEN fwHeard[flow] ELSE "",
                    joining |-> fwState = "CREDENTIALS_NEEDED"]
<1>0. /\ UNCHANGED <<fwTime, fwTimer, fwMissed>> /\ fwSent' = sent /\ p.type # "none"
      /\ FirewallTypeOK /\ FlowsTracked /\ AnsweredWhereHeard
  BY DEF should_forward_ncpbound_frame, DropsOutbound, FirewallInv
<1>1. \/ fwExpiration' = 0 /\ fwInsecure' = {}
      \/ UNCHANGED <<fwExpiration, fwInsecure, fwHeard>>
  BY DEF should_forward_ncpbound_frame, CloseWindow
<1>2. IsRule(rule) /\ IsRule(flow) /\ flow.type = p.type /\ FlowOf(flow) = flow
  BY <1>0, PacketRules, FlowFields
<1>3. /\ sent.channel = IF Tracked(flow) \/ fwState = "CREDENTIALS_NEEDED"
                        THEN "insecure" ELSE "secure"
      /\ sent.heard = IF flow \in DOMAIN fwHeard THEN fwHeard[flow] ELSE ""
      /\ sent.type = p.type /\ sent.joining = (fwState = "CREDENTIALS_NEEDED")
  OBVIOUS
<1> HIDE DEF sent, rule, flow
<1>4. sent.channel = "insecure" => sent.heard = "insecure" \/ sent.type = "icmp" \/ sent.joining
  <2> SUFFICES ASSUME sent.channel = "insecure", ~sent.joining, sent.type # "icmp"
               PROVE  sent.heard = "insecure"
    OBVIOUS
  <2>1. Tracked(flow)
    BY <1>3
  <2>2. flow \in DOMAIN fwHeard /\ fwHeard[flow] = "insecure"
    BY <1>0, <1>2, <1>3, <2>1 DEF Tracked, AnsweredWhereHeard
  <2> QED
    BY <1>3, <2>2
<1>5. FirewallTypeOK' /\ FlowsTracked'
  BY <1>0, <1>1 DEF FirewallTypeOK, FlowsTracked
<1>6. \A r \in fwInsecure' :
         r.type # "icmp" => FlowOf(r) \in DOMAIN fwHeard' /\ fwHeard'[FlowOf(r)] = "insecure"
  BY <1>0, <1>1 DEF AnsweredWhereHeard
<1> QED
  BY <1>0, <1>4, <1>5, <1>6 DEF AnsweredWhereHeard

-----------------------------------------------------------------------------
(* WfFirewall: the commissioning window.                                   *)

\* Seconds and ticks.
LEMMA SecondsBelow ==
    ASSUME NEW t \in Nat
    PROVE  /\ t \div TicksPerSecond \in Nat
           /\ (t \div TicksPerSecond) * TicksPerSecond <= t
           /\ t < (t \div TicksPerSecond + 1) * TicksPerSecond
<1>1. TicksPerSecond \in Nat \ {0}
  BY FirewallAssumption
<1> DEFINE q == t \div TicksPerSecond
           r == t % TicksPerSecond
<1>2. t = TicksPerSecond * q + r /\ r \in 0 .. TicksPerSecond - 1 /\ q \in Int
  BY <1>1, DivMod
<1> HIDE DEF q, r
<1>3. q >= 0
  <2> SUFFICES ASSUME q <= -1 PROVE FALSE
    BY <1>2
  <2>1. TicksPerSecond * q <= TicksPerSecond * (-1)
    BY <1>1, <1>2, SMT
  <2> QED
    BY <1>1, <1>2, <2>1
<1>4. TicksPerSecond * q = q * TicksPerSecond /\ (q + 1) * TicksPerSecond = q * TicksPerSecond + TicksPerSecond
      /\ q * TicksPerSecond \in Int
  BY <1>1, <1>2, SMT
<1> DEFINE m == q * TicksPerSecond
<1>5. q * TicksPerSecond <= t /\ t < (q + 1) * TicksPerSecond
  <2>1. t = m + r /\ m \in Int /\ (q + 1) * TicksPerSecond = m + TicksPerSecond
    BY <1>2, <1>4
  <2> HIDE DEF m
  <2>2. m <= t /\ t < m + TicksPerSecond
    BY <1>1, <1>2, <2>1
  <2> QED
    BY <2>1, <2>2 DEF m
<1> QED
  BY <1>2, <1>3, <1>5 DEF q

\* A product grows with a factor.
LEMMA ProductGrows ==
    ASSUME NEW a \in Nat, NEW b \in Nat, NEW c \in Nat, a <= b
    PROVE  a * c <= b * c
BY SMT

\* As time goes on, a window that is open was open before.
LEMMA SecondsGrow ==
    ASSUME NEW s \in Nat, NEW t \in Nat, s <= t
    PROVE  s \div TicksPerSecond <= t \div TicksPerSecond
<1> DEFINE a == s \div TicksPerSecond
           b == t \div TicksPerSecond
<1>1. a \in Nat /\ b \in Nat /\ a * TicksPerSecond <= s /\ t < (b + 1) * TicksPerSecond
  BY SecondsBelow
<1>2. TicksPerSecond \in Nat
  BY FirewallAssumption
<1> HIDE DEF a, b
<1>3. CASE a <= b
  BY <1>3 DEF a, b
<1>4. CASE b + 1 <= a
  <2>1. (b + 1) * TicksPerSecond <= a * TicksPerSecond
    BY <1>1, <1>2, <1>4, ProductGrows
  <2> DEFINE x == (b + 1) * TicksPerSecond
             y == a * TicksPerSecond
  <2>2. x \in Int /\ y \in Int /\ x <= y /\ y <= s /\ t < x
    BY <1>1, <1>2, <2>1
  <2> HIDE DEF x, y
  <2>3. FALSE
    BY <2>2
  <2> QED
    BY <2>3
<1> QED
  BY <1>1, <1>3, <1>4

\* The window after set_commissioniner: open with a timer that runs as long.
LEMMA WindowTimer ==
    ASSUME NEW t \in Nat, NEW s \in Nat
    PROVE  t + s * TicksPerSecond >= (t \div TicksPerSecond + s) * TicksPerSecond
<1> DEFINE q == t \div TicksPerSecond
<1>1. q \in Nat /\ q * TicksPerSecond <= t /\ TicksPerSecond \in Nat
  BY SecondsBelow, FirewallAssumption
<1> HIDE DEF q
<1>2. (q + s) * TicksPerSecond = q * TicksPerSecond + s * TicksPerSecond
      /\ q * TicksPerSecond \in Int /\ s * TicksPerSecond \in Int
  BY <1>1, SMT
<1> DEFINE x == q * TicksPerSecond
           y == s * TicksPerSecond
<1>3. x \in Int /\ y \in Int /\ x <= t /\ (q + s) * TicksPerSecond = x + y
  BY <1>1, <1>2
<1> HIDE DEF x, y
<1>4. t + y >= x + y
  BY <1>3
<1> QED
  BY <1>3, <1>4 DEF q, y

\* While the window is open its timer runs.
TimerCovers(t, expiration, timer) ==
    expiration > t \div TicksPerSecond => timer >= expiration * TicksPerSecond

\* A window with time and timer as they are, and one that is closed.
LEMMA WindowClosed ==
    ASSUME NEW t \in Nat, NEW timer PROVE TimerCovers(t, 0, timer)
<1>1. t \div TicksPerSecond \in Nat
  BY SecondsBelow
<1> QED
  BY <1>1 DEF TimerCovers

\* SpinelNCPControlInterface::permit_join
LEMMA PermitJoinResult ==
    ASSUME FirewallInv, NEW seconds \in Nat, NEW type, NEW port,
           permit_join(seconds, type, port)
    PROVE  /\ fwExpiration' \in Nat /\ fwTimer' \in Nat
           /\ TimerCovers(fwTime, fwExpiration', fwTimer')
           /\ UNCHANGED <<fwInsecure, fwHeard>> \/ fwInsecure' = {}
           /\ fwAsked' # 0 => fwTimer' # 0 \/ UNCHANGED <<fwAsked, fwTimer>>
<1> DEFINE thePort == IF port = NoPort THEN fwPort ELSE port
<1>0. /\ fwTime \in Nat /\ fwExpiration \in Nat /\ fwTimer \in Nat
      /\ TimerCovers(fwTime, fwExpiration, fwTimer) /\ TicksPerSecond \in Nat \ {0}
  BY FirewallAssumption DEF FirewallInv, FirewallTypeOK, WindowEnds, TimerCovers, Seconds
<1>1. CASE UNCHANGED <<fwExpiration, fwInsecure, fwHeard, fwTimer, fwAsked>>
  BY <1>0, <1>1
<1>2. CASE fwEnabled /\ seconds > 0 /\ thePort # NoPort
  <2>1. /\ fwExpiration' = Seconds + seconds /\ UNCHANGED <<fwInsecure, fwHeard>>
        /\ fwTimer' = fwTime + seconds * TicksPerSecond
    BY <1>2 DEF permit_join, set_commissioniner
  <2>2. Seconds \in Nat
    BY <1>0, SecondsBelow DEF Seconds
  <2>3. fwTimer' >= fwExpiration' * TicksPerSecond
    BY <1>0, <2>1, WindowTimer DEF Seconds
  <2>4. fwTimer' \in Nat /\ fwTimer' # 0
    <3>1. 1 * TicksPerSecond <= seconds * TicksPerSecond
      BY <1>0, <1>2, ProductGrows
    <3>2. seconds * TicksPerSecond \in Nat /\ seconds * TicksPerSecond # 0
      BY <1>0, <3>1
    <3> QED
      BY <1>0, <2>1, <3>2
  <2> QED
    BY <2>1, <2>2, <2>3, <2>4 DEF TimerCovers
<1>3. CASE fwEnabled /\ seconds = 0
  <2>1. fwExpiration' = 0 /\ fwInsecure' = {} /\ fwAsked' = 0 /\ fwTimer' = 0
    BY <1>3 DEF permit_join, set_commissioniner, CloseWindow
  <2> QED
    BY <1>0, <2>1, WindowClosed
<1>4. CASE ~fwEnabled \/ (seconds > 0 /\ thePort = NoPort)
  <2>1. UNCHANGED <<fwExpiration, fwInsecure, fwHeard, fwTimer, fwAsked>>
    BY <1>4 DEF permit_join, set_commissioniner
  <2> QED
    BY <1>1, <2>1
<1> QED
  BY <1>2, <1>3, <1>4

\* What the steps on the window leave of the rest.
LEMMA WindowStepKeeps ==
    ASSUME FirewallInv, fwTime' \in Nat, fwExpiration' \in Nat, fwTimer' \in Nat,
           fwMissed' \in BOOLEAN, fwSent' = fwSent,
           TimerCovers(fwTime', fwExpiration', fwTimer'),
           UNCHANGED <<fwInsecure, fwHeard>> \/ fwInsecure' = {},
           fwAsked' # 0 => fwTimer' # 0 \/ fwMissed'
    PROVE  FirewallInv'
<1>1. FirewallTypeOK' /\ FlowsTracked' /\ AnsweredWhereHeard'
  BY DEF FirewallInv, FirewallTypeOK, FlowsTracked, AnsweredWhereHeard
<1>2. WindowEnds'
  BY DEF WindowEnds, TimerCovers, Seconds
<1> QED
  BY <1>1, <1>2 DEF FirewallInv

\* Calls, timeouts and changes of the daemon's state.
LEMMA WindowKeeps ==
    ASSUME FirewallInv,
           \/ \E s \in {0, 1} : \E t, p : PermitJoin(s, t, p)
           \/ handle_permit_join_timeout
           \/ \E p : SetCommissionerPort(p)
           \/ SetEnabled
           \/ \E s : FwStateChange(s)
           \/ FwTick
    PROVE  FirewallInv'
<1>0. /\ fwTime \in Nat /\ fwExpiration \in Nat /\ fwTimer \in Nat /\ fwMissed \in BOOLEAN
      /\ TimerCovers(fwTime, fwExpiration, fwTimer)
      /\ fwAsked # 0 => fwTimer # 0 \/ fwMissed
  BY DEF FirewallInv, FirewallTypeOK, WindowEnds, TimerCovers, Seconds
<1>1. ASSUME NEW s \in {0, 1}, NEW t, NEW p, PermitJoin(s, t, p) PROVE FirewallInv'
  <2>1. /\ permit_join(s, t, p) /\ UNCHANGED <<fwTime, fwSent>>
        /\ fwMissed' = (fwMissed /\ fwAsked' # 0 /\ fwTimer' = 0)
    BY <1>1 DEF PermitJoin
  <2>2. /\ fwExpiration' \in Nat /\ fwTimer' \in Nat
        /\ TimerCovers(fwTime, fwExpiration', fwTimer')
        /\ UNCHANGED <<fwInsecure, fwHeard>> \/ fwInsecure' = {}
        /\ fwAsked' # 0 => fwTimer' # 0 \/ UNCHANGED <<fwAsked, fwTimer>>
    BY <2>1, PermitJoinResult
  <2>3. fwAsked' # 0 => fwTimer' # 0 \/ fwMissed'
    BY <1>0, <2>1, <2>2
  <2>4. fwMissed' \in BOOLEAN
    BY <2>1
  <2> QED
    BY <1>0, <2>1, <2>2, <2>3, <2>4, WindowStepKeeps
<1>2. CASE handle_permit_join_timeout
  <2>1. fwTimer # 0 /\ fwTime >= fwTimer /\ UNCHANGED <<fwTime, fwSent>>
    BY <1>2 DEF handle_permit_join_timeout
  <2>2. CASE fwEnabled
    <3>1. permit_join(0, "all", NoPort) /\ fwMissed' = fwMissed
      BY <1>2, <2>2 DEF handle_permit_join_timeout
    <3>2. /\ fwExpiration' \in Nat /\ fwTimer' \in Nat
          /\ TimerCovers(fwTime, fwExpiration', fwTimer')
          /\ UNCHANGED <<fwInsecure, fwHeard>> \/ fwInsecure' = {}
          /\ fwAsked' # 0 => fwTimer' # 0 \/ UNCHANGED <<fwAsked, fwTimer>>
      BY <3>1, PermitJoinResult
    <3> QED
      BY <1>0, <2>1, <3>1, <3>2, WindowStepKeeps
  <2>3. CASE ~fwEnabled
    <3>1. /\ fwTimer' = 0 /\ fwMissed' = (fwAsked # 0)
          /\ UNCHANGED <<fwExpiration, fwInsecure, fwHeard, fwAsked>>
      BY <1>2, <2>3 DEF handle_permit_join_timeout
    <3>2. ~(fwExpiration > fwTime \div TicksPerSecond)
      <4> SUFFICES ASSUME fwExpiration > fwTime \div TicksPerSecond PROVE FALSE
        OBVIOUS
      <4> DEFINE q == fwTime \div TicksPerSecond
                 x == (q + 1) * TicksPerSecond
                 y == fwExpiration * TicksPerSecond
      <4>1. q \in Nat /\ fwTime < x /\ TicksPerSecond \in Nat
        BY <1>0, SecondsBelow, FirewallAssumption
      <4>2. y <= fwTimer
        BY <1>0 DEF TimerCovers
      <4>3. q + 1 <= fwExpiration
        BY <1>0, <4>1
      <4> HIDE DEF q
      <4>4. x <= y
        BY <1>0, <4>1, <4>3, ProductGrows
      <4>5. x \in Int /\ y \in Int
        BY <1>0, <4>1
      <4> HIDE DEF x, y
      <4> QED
        BY <1>0, <2>1, <4>1, <4>2, <4>4, <4>5
    <3>3. TimerCovers(fwTime, fwExpiration', fwTimer')
      BY <3>1, <3>2 DEF TimerCovers
    <3> QED
      BY <1>0, <2>1, <3>1, <3>3, WindowStepKeeps
  <2> QED
    BY <2>2, <2>3
<1>3. ASSUME NEW p, SetCommissionerPort(p) \/ SetEnabled PROVE FirewallInv'
  <2>1. UNCHANGED <<fwTime, fwExpiration, fwTimer, fwMissed, fwSent, fwInsecure, fwHeard, fwAsked>>
    BY <1>3 DEF SetCommissionerPort, SetEnabled
  <2> QED
    BY <1>0, <2>1, WindowStepKeeps
<1>4. ASSUME NEW s, FwStateChange(s) PROVE FirewallInv'
  <2>1. UNCHANGED <<fwTime, fwTimer, fwAsked, fwMissed, fwSent>>
    BY <1>4 DEF FwStateChange
  <2>2. \/ fwExpiration' = 0 /\ fwInsecure' = {}
        \/ UNCHANGED <<fwExpiration, fwInsecure, fwHeard>>
    BY <1>4 DEF FwStateChange, set_commissioniner, CloseWindow
  <2>3. fwExpiration' \in Nat /\ TimerCovers(fwTime, fwExpiration', fwTimer)
    BY <1>0, <2>2, WindowClosed
  <2> QED
    BY <1>0, <2>1, <2>2, <2>3, WindowStepKeeps
<1>5. CASE FwTick
  <2>1. /\ fwTime' = fwTime + 1
        /\ UNCHANGED <<fwExpiration, fwTimer, fwMissed, fwSent, fwInsecure, fwHeard, fwAsked>>
    BY <1>5 DEF FwTick
  <2>2. fwTime' \in Nat /\ fwTime <= fwTime'
    BY <1>0, <2>1
  <2> DEFINE a == fwTime \div TicksPerSecond
             b == fwTime' \div TicksPerSecond
  <2>3. a <= b /\ a \in Nat /\ b \in Nat
    BY <1>0, <2>2, SecondsGrow, SecondsBelow
  <2> HIDE DEF a, b
  <2>4. fwExpiration > b => fwExpiration > a
    BY <1>0, <2>3
  <2>5. TimerCovers(fwTime', fwExpiration', fwTimer')
    BY <1>0, <2>1, <2>4 DEF TimerCovers, a, b
  <2> QED
    BY <1>0, <2>1, <2>2, <2>5, WindowStepKeeps
<1> QED
  BY <1>1, <1>2, <1>3, <1>4, <1>5

\* A packet in either direction leaves the window's timer alone, and the
\* window too unless its end is noticed.
LEMMA PacketKeepsWindow ==
    ASSUME FirewallInv, UNCHANGED <<fwTime, fwTimer, fwAsked, fwMissed>>,
           fwExpiration' \in {0, fwExpiration}
    PROVE  WindowEnds'
<1>0. fwTime \in Nat /\ TimerCovers(fwTime, fwExpiration, fwTimer)
      /\ (fwAsked # 0 => fwTimer # 0 \/ fwMissed)
  BY DEF FirewallInv, FirewallTypeOK, WindowEnds, TimerCovers, Seconds
<1>1. TimerCovers(fwTime, fwExpiration', fwTimer)
  BY <1>0, WindowClosed
<1> QED
  BY <1>0, <1>1 DEF WindowEnds, TimerCovers, Seconds

(***************************************************************************)
(* The insecure channel is used for the connections that spoke there, as   *)
(* long as their window lasts, and the window ends without traffic         *)
(* (should_forward_hostbound_frame, should_forward_ncpbound_frame,         *)
(* permit_join, handle_permit_join_timeout), for all packets, ports and    *)
(* sequences of states.                                                    *)
(***************************************************************************)
THEOREM InsecureIsAskedFor ==
    ASSUME NEW CONSTANT states, NEW CONSTANT ports, NEW CONSTANT types,
           NEW CONSTANT inbound, NEW CONSTANT outbound
    PROVE  FirewallSpec(states, ports, types, inbound, outbound) => []InsecureOnlyWhenAsked
<1> DEFINE N == FirewallNext(states, ports, types, inbound, outbound)
<1>1. FirewallInit(ports) => FirewallInv
  <2> SUFFICES ASSUME FirewallInit(ports) PROVE FirewallInv
    OBVIOUS
  <2>1. /\ fwTime = 0 /\ fwExpiration = 0 /\ fwTimer = 0 /\ fwInsecure = {}
        /\ fwMissed = FALSE /\ fwAsked = 0 /\ fwSent.channel = "secure"
    BY DEF FirewallInit
  <2>2. TimerCovers(fwTime, fwExpiration, fwTimer)
    BY <2>1, WindowClosed
  <2> QED
    BY <2>1, <2>2 DEF FirewallInv, FirewallTypeOK, FlowsTracked, AnsweredWhereHeard,
                      WindowEnds, TimerCovers, Seconds
<1>2. FirewallInv /\ [N]_fwvars => FirewallInv'
  <2> SUFFICES ASSUME FirewallInv, [N]_fwvars PROVE FirewallInv'
    OBVIOUS
  <2>1. ASSUME NEW p, NEW c, should_forward_hostbound_frame(p, c) PROVE FirewallInv'
    <3>1. UNCHANGED <<fwTime, fwTimer, fwAsked, fwMissed>> /\ fwExpiration' \in {0, fwExpiration}
      BY <2>1 DEF should_forward_hostbound_frame, InsecureFrame, SecureFrame, CloseWindow
    <3> QED
      BY <2>1, <3>1, HostboundKeeps, PacketKeepsWindow DEF FirewallInv
  <2>2. ASSUME NEW p, should_forward_ncpbound_frame(p) PROVE FirewallInv'
    <3>1. UNCHANGED <<fwTime, fwTimer, fwAsked, fwMissed>> /\ fwExpiration' \in {0, fwExpiration}
      BY <2>2 DEF should_forward_ncpbound_frame, CloseWindow
    <3> QED
      BY <2>2, <3>1, NcpboundKeeps, PacketKeepsWindow DEF FirewallInv
  <2>3. CASE UNCHANGED fwvars
    BY <2>3 DEF fwvars, FirewallInv, FirewallTypeOK, FlowsTracked, AnsweredWhereHeard,
                WindowEnds, Seconds
  <2> QED
    BY <2>1, <2>2, <2>3, WindowKeeps DEF FirewallNext
<1>3. FirewallInv => InsecureOnlyWhenAsked
  BY DEF FirewallInv, InsecureOnlyWhenAsked
<1> QED
  BY <1>1, <1>2, <1>3, PTL DEF FirewallSpec

-----------------------------------------------------------------------------
(* WfProps: sequences of tasks and frames, by the elements that matter.    *)

\* The last element of q that is in K has the value v.
LastIn(q, K, v) ==
    \E i \in DOMAIN q : /\ q[i] \in K /\ q[i].value = v
                        /\ \A j \in DOMAIN q : j > i => q[j] \notin K

NoneIn(q, K) == \A i \in DOMAIN q : q[i] \notin K

\* Nothing is in an empty sequence.
LEMMA NoneInEmpty ==
    ASSUME NEW K
    PROVE  NoneIn(<<>>, K)
BY DEF NoneIn

\* An element is appended.
LEMMA InAppend ==
    ASSUME NEW S, NEW q \in Seq(S), NEW x \in S, NEW K
    PROVE  /\ Append(q, x) \in Seq(S) /\ Len(Append(q, x)) = Len(q) + 1
           /\ x \in K => LastIn(Append(q, x), K, x.value) /\ ~NoneIn(Append(q, x), K)
           /\ x \notin K => \A v : LastIn(q, K, v) => LastIn(Append(q, x), K, v)
           /\ x \notin K /\ NoneIn(q, K) => NoneIn(Append(q, x), K)
           /\ ~NoneIn(q, K) => ~NoneIn(Append(q, x), K)
<1> DEFINE r == Append(q, x)
           n == Len(q)
<1>1. /\ n \in Nat /\ r \in Seq(S) /\ Len(r) = n + 1
      /\ DOMAIN q = 1 .. n /\ DOMAIN r = 1 .. n + 1
      /\ r[n + 1] = x /\ \A i \in 1 .. n : r[i] = q[i]
  OBVIOUS
<1> HIDE DEF r, n
<1>2. /\ n + 1 \in 1 .. n + 1
      /\ \A i \in 1 .. n + 1 : i = n + 1 \/ i \in 1 .. n
      /\ \A i \in 1 .. n : i \in 1 .. n + 1
      /\ \A i \in 1 .. n + 1 : ~(i > n + 1)
  BY <1>1
<1>3. x \in K => LastIn(r, K, x.value) /\ ~NoneIn(r, K)
  BY <1>1, <1>2 DEF LastIn, NoneIn
<1>4. x \notin K => \A v : LastIn(q, K, v) => LastIn(r, K, v)
  BY <1>1, <1>2 DEF LastIn
<1>5. /\ x \notin K /\ NoneIn(q, K) => NoneIn(r, K)
      /\ ~NoneIn(q, K) => ~NoneIn(r, K)
  BY <1>1, <1>2 DEF NoneIn
<1> QED
  BY <1>1, <1>3, <1>4, <1>5 DEF r, n

\* The head is removed.
LEMMA InTail ==
    ASSUME NEW S, NEW q \in Seq(S), q # <<>>, NEW K
    PROVE  /\ Tail(q) \in Seq(S) /\ Len(Tail(q)) = Len(q) - 1 /\ Head(q) \in S
           /\ \A i \in 2 .. Len(Tail(q)) : i + 1 \in 2 .. Len(q) /\ Tail(q)[i] = q[i + 1]
           /\ \A v : LastIn(q, K, v) =>
                \/ LastIn(Tail(q), K, v)
                \/ NoneIn(Tail(q), K) /\ Head(q) \in K /\ Head(q).value = v
           /\ NoneIn(q, K) => NoneIn(Tail(q), K) /\ Head(q) \notin K
           /\ ~NoneIn(q, K) => ~NoneIn(Tail(q), K) \/ Head(q) \in K
<1> DEFINE r == Tail(q)
           n == Len(q)
           h == Head(q)
<1>1. /\ n \in Nat \ {0} /\ r \in Seq(S) /\ Len(r) = n - 1
      /\ DOMAIN q = 1 .. n /\ DOMAIN r = 1 .. n - 1
      /\ h = q[1] /\ h \in S /\ \A i \in 1 .. n - 1 : r[i] = q[i + 1]
  OBVIOUS
<1> HIDE DEF r, n, h
<1>2. /\ 1 \in 1 .. n
      /\ \A i \in 1 .. n - 1 : i + 1 \in 1 .. n
      /\ \A i \in 1 .. n : i = 1 \/ (i - 1 \in 1 .. n - 1 /\ (i - 1) + 1 = i)
      /\ \A i \in 1 .. n, j \in 1 .. n - 1 : j > i - 1 => j + 1 > i
      /\ \A j \in 1 .. n - 1 : j + 1 > 1
      /\ \A i \in 2 .. n - 1 : i + 1 \in 2 .. n /\ i \in 1 .. n - 1
  BY <1>1
<1>3. ASSUME NEW v, LastIn(q, K, v)
      PROVE  LastIn(r, K, v) \/ (NoneIn(r, K) /\ h \in K /\ h.value = v)
  <2>1. PICK i \in 1 .. n : /\ q[i] \in K /\ q[i].value = v
                            /\ \A j \in 1 .. n : j > i => q[j] \notin K
    BY <1>1, <1>3 DEF LastIn
  <2>2. CASE i = 1
    BY <1>1, <1>2, <2>1, <2>2 DEF NoneIn
  <2>3. CASE i # 1
    <3>1. i - 1 \in 1 .. n - 1 /\ r[i - 1] = q[i]
      BY <1>1, <1>2, <2>3
    <3>2. \A j \in 1 .. n - 1 : j > i - 1 => r[j] \notin K
      BY <1>1, <1>2, <2>1
    <3> QED
      BY <1>1, <2>1, <3>1, <3>2 DEF LastIn
  <2> QED
    BY <2>2, <2>3
<1>4. NoneIn(q, K) => NoneIn(r, K) /\ h \notin K
  BY <1>1, <1>2 DEF NoneIn
<1>5. ~NoneIn(q, K) => ~NoneIn(r, K) \/ h \in K
  <2> SUFFICES ASSUME NEW i \in 1 .. n, q[i] \in K, i # 1 PROVE ~NoneIn(r, K)
    BY <1>1 DEF NoneIn
  <2> QED
    BY <1>1, <1>2 DEF NoneIn
<1> QED
  BY <1>1, <1>2, <1>3, <1>4, <1>5 DEF r, n, h

-----------------------------------------------------------------------------
(* WfProps: the callbacks of the tasks in a queue.                         *)

\* Callbacks() is a number.
LEMMA CallbacksAreFinite ==
    ASSUME NEW S, NEW q \in Seq(S)
    PROVE  /\ IsFiniteSet({i \in DOMAIN q : q[i].client}) /\ Callbacks(q) \in Nat
<1>1. Len(q) \in Nat /\ DOMAIN q = 1 .. Len(q)
  OBVIOUS
<1>2. IsFiniteSet(1 .. Len(q))
  BY <1>1, FS_Interval
<1>3. IsFiniteSet({i \in DOMAIN q : q[i].client})
  BY <1>1, <1>2, FS_Subset
<1> QED
  BY <1>3, FS_CardinalityType DEF Callbacks

\* An empty queue owes nothing.
LEMMA CallbacksOfNone == Callbacks(<<>>) = 0
<1>1. {i \in DOMAIN <<>> : <<>>[i].client} = {}
  OBVIOUS
<1> QED
  BY <1>1, FS_EmptySet DEF Callbacks

\* A task owes its client an answer, or nobody.
LEMMA CallbacksOfOne ==
    ASSUME NEW x
    PROVE  Callbacks(<<x>>) = IF x.client THEN 1 ELSE 0
<1> DEFINE A == {i \in DOMAIN <<x>> : <<x>>[i].client}
<1>1. A = IF x.client THEN {1} ELSE {}
  OBVIOUS
<1>2. Cardinality({1}) = 1 /\ Cardinality({}) = 0
  BY FS_Singleton, FS_EmptySet
<1> QED
  BY <1>1, <1>2 DEF Callbacks

\* A task adds its callback.
LEMMA CallbacksOfAppend ==
    ASSUME NEW S, NEW q \in Seq(S), NEW x \in S
    PROVE  Callbacks(Append(q, x)) = Callbacks(q) + (IF x.client THEN 1 ELSE 0)
<1> DEFINE n == Len(q)
           A == {i \in DOMAIN q : q[i].client}
           r == Append(q, x)
           B == {i \in DOMAIN r : r[i].client}
<1>1. /\ n \in Nat /\ DOMAIN q = 1 .. n /\ DOMAIN r = 1 .. n + 1
      /\ r[n + 1] = x /\ \A i \in 1 .. n : r[i] = q[i]
  OBVIOUS
<1> HIDE DEF n, r
<1>2. /\ \A i : i \in 1 .. n + 1 <=> i = n + 1 \/ i \in 1 .. n
      /\ n + 1 \notin 1 .. n
  BY <1>1
<1>3. B = IF x.client THEN A \cup {n + 1} ELSE A
  BY <1>1, <1>2
<1>4. n + 1 \notin A /\ IsFiniteSet(A) /\ Cardinality(A) \in Nat
  BY <1>1, <1>2, CallbacksAreFinite DEF Callbacks
<1> HIDE DEF A, B
<1>5. Cardinality(A \cup {n + 1}) = Cardinality(A) + 1
  BY <1>4, FS_AddElement
<1>6. Cardinality(B) = Cardinality(A) + (IF x.client THEN 1 ELSE 0)
  BY <1>3, <1>4, <1>5
<1> QED
  BY <1>6 DEF Callbacks, A, B, r

\* A task that ends takes its callback with it.
LEMMA CallbacksOfTail ==
    ASSUME NEW S, NEW q \in Seq(S), q # <<>>
    PROVE  Callbacks(Tail(q)) = Callbacks(q) - Callbacks(<<Head(q)>>)
<1> DEFINE n == Len(q)
           A == {i \in DOMAIN q : q[i].client}
           r == Tail(q)
           B == {i \in DOMAIN r : r[i].client}
           f == [i \in B |-> i + 1]
<1>1. /\ n \in Nat \ {0} /\ DOMAIN q = 1 .. n /\ DOMAIN r = 1 .. n - 1
      /\ Head(q) = q[1] /\ \A i \in 1 .. n - 1 : r[i] = q[i + 1]
      /\ r \in Seq(S)
  OBVIOUS
<1> HIDE DEF n, r
<1>2. /\ 1 \in 1 .. n
      /\ \A i \in 1 .. n - 1 : i + 1 \in 1 .. n /\ i + 1 # 1
      /\ \A i \in 1 .. n : i = 1 \/ (i - 1 \in 1 .. n - 1 /\ (i - 1) + 1 = i)
      /\ \A i, j \in 1 .. n - 1 : i + 1 = j + 1 => i = j
  BY <1>1
<1>3. f \in Bijection(B, A \ {1})
  <2>1. \A i \in B : i \in 1 .. n - 1 /\ i + 1 \in A \ {1}
    BY <1>1, <1>2
  <2>2. \A i \in A \ {1} : i - 1 \in B /\ (i - 1) + 1 = i
    BY <1>1, <1>2
  <2> HIDE DEF A, B
  <2>3. f \in [B -> A \ {1}]
    BY <2>1
  <2>4. \A i, j \in B : f[i] = f[j] => i = j
    BY <2>1, <1>2
  <2>5. \A i \in A \ {1} : \E j \in B : f[j] = i
    BY <2>2
  <2> QED
    BY <2>3, <2>4, <2>5, Zenon DEF Bijection, Injection, Surjection, IsInjective
<1>4. /\ IsFiniteSet(A) /\ Cardinality(A) \in Nat
      /\ IsFiniteSet(B) /\ Cardinality(B) \in Nat
  BY <1>1, CallbacksAreFinite DEF Callbacks
<1>5. 1 \in A <=> Head(q).client
  BY <1>1, <1>2
<1> HIDE DEF A, B, f
<1>6. Cardinality(A \ {1}) = Cardinality(B)
  BY <1>3, <1>4, FS_Bijection DEF ExistsBijection
<1>7. Cardinality(A \ {1}) = IF 1 \in A THEN Cardinality(A) - 1 ELSE Cardinality(A)
  BY <1>4, FS_RemoveElement
<1>8. Cardinality(B) = Cardinality(A) - (IF Head(q).client THEN 1 ELSE 0)
  BY <1>4, <1>5, <1>6, <1>7
<1> QED
  BY <1>8, CallbacksOfOne DEF Callbacks, A, B, r

-----------------------------------------------------------------------------
(* WfProps: the inductive invariant.                                       *)

Todos ==
    {t \in [op : {"get", "set", "reset"}, value : {None, Refused3} \cup Accepted, id : Nat,
            sent : BOOLEAN, client : BOOLEAN] : t.op = "set" => t.value # None}
Downs ==
    {f \in [cmd : {"get", "set", "reset"}, value : {None, Refused3} \cup Accepted, id : Nat] :
        f.cmd = "set" => f.value # None}
Ups ==
    {f \in [cmd : {"is", "status", "reset"}, value : {None, Default, OfNcp} \cup Accepted,
            id : Nat] : f.cmd = "is" => f.value # None}

\* Tasks that are still to be sent, and frames, by what they do.
SetTodo == {t \in Todos : t.op = "set" /\ ~t.sent}
GetTodo == {t \in Todos : t.op = "get" /\ ~t.sent}
SetDown == {f \in Downs : f.cmd = "set"}
GetDown == {f \in Downs : f.cmd = "get"}
IsUp == {f \in Ups : f.cmd = "is"}
ResetUp == {f \in Ups : f.cmd = "reset"}

LeftOK(l) ==
    /\ DOMAIN l = {"calls", "resets", "changes", "next"}
    /\ l.calls \in Nat /\ l.resets \in 0 .. MaxResets /\ l.changes \in Nat /\ l.next \in Nat

PropsTyped ==
    /\ pRow \in AllRows
    /\ pTodo \in Seq(Todos) /\ pDown \in Seq(Downs) /\ pUp \in Seq(Ups)
    /\ LeftOK(pLeft)
    /\ pNcp \in {Default, OfNcp} \cup Accepted
    /\ pCopy \in {Default, OfNcp, Refused3} \cup Accepted
    /\ pSaved \in {None, Refused3} \cup Accepted
    /\ pStage \in {"fetch", "restore", "restored", "ready"}

\* Only the task at the head has been sent; the queue is as long as the calls
\* and changes allow, and every callback in it is owed.
QueueOK ==
    /\ \A i \in 2 .. Len(pTodo) : ~pTodo[i].sent
    /\ Len(pTodo) + pLeft.calls + pLeft.changes <= MaxCalls + MaxChanges
    /\ pOwed = Callbacks(pTodo)

\* A saved value is on its way to the NCP or has arrived: it will be restored
\* after a reset, it is the last that will be written, or it was; or the NCP
\* has forgotten it in a reset that was ignored.
Carried ==
    pSaved \in Accepted /\ HasCap(pRow.set.cap) =>
        \/ LastIn(pTodo, SetTodo, pSaved)
        \/ /\ NoneIn(pTodo, SetTodo)
           /\ \/ ~NoneIn(pUp, ResetUp) \/ pIgnored
              \/ pStage = "fetch" \/ pStage = "restore"
              \/ LastIn(pDown, SetDown, pSaved)
              \/ NoneIn(pDown, SetDown) /\ (pTouched \/ pNcp = pSaved)

\* The last value that the NCP has reported is the one it has.
Announced ==
    \/ LastIn(pUp, IsUp, pNcp)
    \/ NoneIn(pUp, IsUp) /\ pCopy = pNcp

\* A copy follows the NCP's value, or the value is going to be read.
Followed ==
    pRow.get.from = "mirror" =>
        /\ pRow.fetched => \/ Announced \/ ~NoneIn(pUp, ResetUp)
                           \/ pStage = "fetch" \/ ~NoneIn(pDown, GetDown)
                           \/ pIgnored
        /\ pRow.associated /\ pAssoc => \/ Announced \/ ~NoneIn(pUp, ResetUp)
                                        \/ ~NoneIn(pTodo, GetTodo) \/ ~NoneIn(pDown, GetDown)
        /\ pLeft.resets = MaxResets => Announced

PropsInv ==
    /\ PropsTyped /\ QueueOK /\ Carried /\ Followed
    /\ pSaved # None => pRow.set.saved
    /\ pAssoc => pStage = "ready"

-----------------------------------------------------------------------------
(* WfProps: what each kind of element does.                                *)

\* Tasks by what they do.
LEMMA TodoFacts ==
    ASSUME NEW t \in Todos
    PROVE  /\ t.op \in {"get", "set", "reset"} /\ t.id \in Nat
           /\ t.value \in {None, Refused3} \cup Accepted
           /\ t.op = "set" => t.value # None
           /\ t \in SetTodo <=> t.op = "set" /\ ~t.sent
           /\ t \in GetTodo <=> t.op = "get" /\ ~t.sent
BY DEF Todos, SetTodo, GetTodo

\* Frames to the NCP by what they do.
LEMMA DownFacts ==
    ASSUME NEW f \in Downs
    PROVE  /\ f.cmd \in {"get", "set", "reset"} /\ f.id \in Nat
           /\ f.value \in {None, Refused3} \cup Accepted
           /\ f.cmd = "set" => f.value # None
           /\ f \in SetDown <=> f.cmd = "set"
           /\ f \in GetDown <=> f.cmd = "get"
BY DEF Downs, SetDown, GetDown

\* Frames from the NCP by what they say.
LEMMA UpFacts ==
    ASSUME NEW f \in Ups
    PROVE  /\ f.cmd \in {"is", "status", "reset"} /\ f.id \in Nat
           /\ f.value \in {None, Default, OfNcp} \cup Accepted
           /\ f.cmd = "is" => f.value # None
           /\ f \in IsUp <=> f.cmd = "is"
           /\ f \in ResetUp <=> f.cmd = "reset"
BY DEF Ups, IsUp, ResetUp

\* A new task has not been sent.
LEMMA NewTask ==
    ASSUME pLeft.next \in Nat, NEW op \in {"get", "set", "reset"},
           NEW v \in {None, Refused3} \cup Accepted, op = "set" => v # None,
           NEW client \in BOOLEAN
    PROVE  LET t == Task(op, v, client)
           IN  /\ t \in Todos /\ t.op = op /\ t.value = v /\ ~t.sent
               /\ t.client = client
BY DEF Task, Todos

\* A frame for the NCP.
LEMMA NewDown ==
    ASSUME NEW cmd \in {"get", "set", "reset"}, NEW v \in {None, Refused3} \cup Accepted,
           cmd = "set" => v # None, NEW id \in Nat
    PROVE  LET f == Frame(cmd, v, id)
           IN  f \in Downs /\ f.cmd = cmd /\ f.value = v
BY DEF Frame, Downs

\* A frame of the NCP.
LEMMA NewUp ==
    ASSUME NEW cmd \in {"is", "status", "reset"},
           NEW v \in {None, Default, OfNcp} \cup Accepted,
           cmd = "is" => v # None, NEW id \in Nat
    PROVE  LET f == Frame(cmd, v, id)
           IN  f \in Ups /\ f.cmd = cmd /\ f.value = v
BY DEF Frame, Ups

\* A call is spent.
LEMMA Use_calls ==
    ASSUME LeftOK(pLeft), pLeft.calls > 0, Use("calls")
    PROVE  /\ LeftOK(pLeft') /\ pLeft'.calls = pLeft.calls - 1
           /\ pLeft'.changes = pLeft.changes /\ pLeft'.resets = pLeft.resets
<1>1. /\ DOMAIN pLeft' = DOMAIN pLeft /\ pLeft'["calls"] = pLeft["calls"] - 1
      /\ pLeft'["next"] = pLeft["next"] + 1
      /\ \A k \in DOMAIN pLeft \ {"calls", "next"} : pLeft'[k] = pLeft[k]
  BY DEF Use, LeftOK
<1> QED
  BY <1>1, PropsAssumption DEF LeftOK

\* A change is spent.
LEMMA Use_changes ==
    ASSUME LeftOK(pLeft), pLeft.changes > 0, Use("changes")
    PROVE  /\ LeftOK(pLeft') /\ pLeft'.changes = pLeft.changes - 1
           /\ pLeft'.calls = pLeft.calls /\ pLeft'.resets = pLeft.resets
<1>1. /\ DOMAIN pLeft' = DOMAIN pLeft /\ pLeft'["changes"] = pLeft["changes"] - 1
      /\ pLeft'["next"] = pLeft["next"] + 1
      /\ \A k \in DOMAIN pLeft \ {"changes", "next"} : pLeft'[k] = pLeft[k]
  BY DEF Use, LeftOK
<1> QED
  BY <1>1, PropsAssumption DEF LeftOK

\* A reset is spent.
LEMMA Use_resets ==
    ASSUME LeftOK(pLeft), pLeft.resets > 0, Use("resets")
    PROVE  /\ LeftOK(pLeft') /\ pLeft'.resets = pLeft.resets - 1
           /\ pLeft'.calls = pLeft.calls /\ pLeft'.changes = pLeft.changes
<1>1. /\ DOMAIN pLeft' = DOMAIN pLeft /\ pLeft'["resets"] = pLeft["resets"] - 1
      /\ pLeft'["next"] = pLeft["next"] + 1
      /\ \A k \in DOMAIN pLeft \ {"resets", "next"} : pLeft'[k] = pLeft[k]
  BY DEF Use, LeftOK
<1> QED
  BY <1>1, PropsAssumption DEF LeftOK

\* The task at the head is sent.
LEMMA HeadIsSent ==
    ASSUME NEW q \in Seq(Todos), q # <<>>, ~Head(q).sent
    PROVE  LET r == [q EXCEPT ![1].sent = TRUE]
           IN  /\ r \in Seq(Todos) /\ Len(r) = Len(q) /\ Callbacks(r) = Callbacks(q)
               /\ \A i \in 2 .. Len(q) : r[i] = q[i]
               /\ Head(q) \in Todos
               /\ \A v : LastIn(q, SetTodo, v) =>
                    \/ LastIn(r, SetTodo, v)
                    \/ NoneIn(r, SetTodo) /\ Head(q).op = "set" /\ Head(q).value = v
               /\ NoneIn(q, SetTodo) => NoneIn(r, SetTodo) /\ Head(q).op # "set"
               /\ ~NoneIn(q, GetTodo) => ~NoneIn(r, GetTodo) \/ Head(q).op = "get"
<1> DEFINE h == Head(q)
           n == Len(q)
           r == [q EXCEPT ![1].sent = TRUE]
           g == [h EXCEPT !.sent = TRUE]
<1>1. /\ n \in Nat \ {0} /\ DOMAIN q = 1 .. n /\ h = q[1] /\ h \in Todos
      /\ \A i \in 1 .. n : q[i] \in Todos
  OBVIOUS
<1>2. g \in Todos /\ g.sent /\ (g.client <=> h.client) /\ g \notin SetTodo /\ g \notin GetTodo
  BY <1>1 DEF Todos, SetTodo, GetTodo
<1>3. DOMAIN r = 1 .. n /\ r[1] = g /\ \A i \in 1 .. n : i # 1 => r[i] = q[i]
  <2>1. r = [q EXCEPT ![1] = [q[1] EXCEPT !.sent = TRUE]]
    OBVIOUS
  <2>2. 1 \in DOMAIN q /\ [q[1] EXCEPT !.sent = TRUE] = g
    BY <1>1
  <2> HIDE DEF r, g, h, n
  <2> QED
    BY <1>1, <2>1, <2>2
<1>4. \A i \in 1 .. n : r[i] \in Todos
  BY <1>1, <1>2, <1>3
<1>5. r \in Seq(Todos) /\ Len(r) = n
  <2>1. r \in [1 .. n -> Todos]
    BY <1>3, <1>4
  <2> QED
    BY <1>1, <2>1
<1>6. Callbacks(r) = Callbacks(q)
  <2>1. {i \in DOMAIN r : r[i].client} = {i \in DOMAIN q : q[i].client}
    BY <1>1, <1>2, <1>3
  <2> QED
    BY <2>1 DEF Callbacks
<1>7. /\ h \in SetTodo <=> h.op = "set"
      /\ h \in GetTodo <=> h.op = "get"
  BY <1>1, TodoFacts
<1> HIDE DEF h, n, r, g
<1>8. 1 \in 1 .. n /\ (\A i \in 2 .. n : i \in 1 .. n /\ i # 1)
      /\ \A j \in 1 .. n : j # 1 => j > 1
  BY <1>1
<1>9. ASSUME NEW v, LastIn(q, SetTodo, v)
      PROVE  LastIn(r, SetTodo, v) \/ (NoneIn(r, SetTodo) /\ h.op = "set" /\ h.value = v)
  <2>1. PICK i \in 1 .. n : /\ q[i] \in SetTodo /\ q[i].value = v
                            /\ \A j \in 1 .. n : j > i => q[j] \notin SetTodo
    BY <1>1, <1>9 DEF LastIn
  <2>2. CASE i = 1
    BY <1>1, <1>2, <1>3, <1>7, <1>8, <2>1, <2>2 DEF NoneIn
  <2>3. CASE i # 1
    BY <1>1, <1>2, <1>3, <2>1, <2>3 DEF LastIn
  <2> QED
    BY <2>2, <2>3
<1>10. NoneIn(q, SetTodo) => NoneIn(r, SetTodo) /\ h.op # "set"
  BY <1>1, <1>2, <1>3, <1>7, <1>8 DEF NoneIn
<1>11. ~NoneIn(q, GetTodo) => ~NoneIn(r, GetTodo) \/ h.op = "get"
  BY <1>1, <1>2, <1>3, <1>7, <1>8 DEF NoneIn
<1>12. \A i \in 2 .. n : r[i] = q[i]
  BY <1>3, <1>8
<1> QED
  BY <1>1, <1>5, <1>6, <1>9, <1>10, <1>11, <1>12 DEF h, n, r

\* What is kept of the queue: the writes that are still to come, and the reads.
QueueServes ==
    /\ \A v : LastIn(pTodo, SetTodo, v) => LastIn(pTodo, SetTodo, v)'
    /\ NoneIn(pTodo, SetTodo) => NoneIn(pTodo, SetTodo)'
    /\ ~NoneIn(pTodo, GetTodo) => ~NoneIn(pTodo, GetTodo)'

\* A task is added at the expense of a call or a change.
LEMMA TaskIsAdded ==
    ASSUME PropsTyped, QueueOK, NEW t \in Todos, ~t.sent, LeftOK(pLeft'),
           pTodo' = Append(pTodo, t), pOwed' = pOwed + (IF t.client THEN 1 ELSE 0),
           pLeft'.calls + pLeft'.changes = pLeft.calls + pLeft.changes - 1
    PROVE  /\ pTodo' \in Seq(Todos) /\ QueueOK'
           /\ t.op = "get" => QueueServes /\ ~NoneIn(pTodo', GetTodo)
           /\ t.op = "set" => /\ LastIn(pTodo', SetTodo, t.value)
                              /\ ~NoneIn(pTodo, GetTodo) => ~NoneIn(pTodo', GetTodo)
<1>1. pTodo \in Seq(Todos) /\ LeftOK(pLeft)
  BY DEF PropsTyped
<1>2. pTodo' \in Seq(Todos) /\ Len(pTodo') = Len(pTodo) + 1 /\ Len(pTodo) \in Nat
  BY <1>1
<1>3. t.op = "get" => t \in GetTodo /\ t \notin SetTodo
  BY TodoFacts
<1>4. t.op = "set" => t \in SetTodo /\ t \notin GetTodo
  BY TodoFacts
<1>5. t.op = "get" => QueueServes /\ ~NoneIn(pTodo', GetTodo)
  BY <1>1, <1>3, InAppend DEF QueueServes
<1>6. t.op = "set" => /\ LastIn(pTodo', SetTodo, t.value)
                      /\ ~NoneIn(pTodo, GetTodo) => ~NoneIn(pTodo', GetTodo)
  BY <1>1, <1>4, InAppend
<1>7. \A i \in 2 .. Len(pTodo') : ~pTodo'[i].sent
  <2>1. \A i \in 2 .. Len(pTodo') : \/ i = Len(pTodo) + 1 /\ pTodo'[i] = t
                                    \/ i \in 2 .. Len(pTodo) /\ pTodo'[i] = pTodo[i]
    BY <1>1, <1>2
  <2> QED
    BY <2>1 DEF QueueOK
<1>8. Len(pTodo') + pLeft'.calls + pLeft'.changes <= MaxCalls + MaxChanges
  BY <1>1, <1>2, PropsAssumption, SMTT(30) DEF QueueOK, LeftOK
<1>9. pOwed' = Callbacks(pTodo')
  BY <1>1, CallbacksOfAppend DEF QueueOK
<1> QED
  BY <1>2, <1>5, <1>6, <1>7, <1>8, <1>9 DEF QueueOK

\* The call or the change is spent without a task.
LEMMA QueueIsShorter ==
    ASSUME PropsTyped, QueueOK, LeftOK(pLeft'), pTodo' = pTodo, pOwed' = pOwed,
           pLeft'.calls + pLeft'.changes <= pLeft.calls + pLeft.changes
    PROVE  QueueOK' /\ QueueServes
<1>1. Len(pTodo) \in Nat /\ LeftOK(pLeft)
  BY DEF PropsTyped
<1>2. Len(pTodo') + pLeft'.calls + pLeft'.changes <= MaxCalls + MaxChanges
  BY <1>1, PropsAssumption, SMTT(30) DEF QueueOK, LeftOK
<1>3. QueueServes
  BY Zenon DEF QueueServes
<1> QED
  BY <1>2, <1>3 DEF QueueOK

\* The running task ends.
LEMMA FinishKeeps ==
    ASSUME PropsTyped, QueueOK, NEW f, Finish(f), pLeft' = pLeft
    PROVE  pTodo' \in Seq(Todos) /\ QueueOK' /\ QueueServes
<1>1. pTodo \in Seq(Todos) /\ LeftOK(pLeft)
  BY DEF PropsTyped
<1>2. CASE ~Answers(f)
  <2>1. pTodo' = pTodo /\ pOwed' = pOwed
    BY <1>2 DEF Finish
  <2> QED
    BY <1>1, <2>1, QueueIsShorter DEF LeftOK
<1>3. CASE Answers(f)
  <2>1. /\ pTodo # <<>> /\ Head(pTodo).sent /\ pTodo' = Tail(pTodo)
        /\ pOwed' = pOwed - Callbacks(<<Head(pTodo)>>)
    BY <1>3 DEF Finish, Answers
  <2>2. Head(pTodo) \notin SetTodo /\ Head(pTodo) \notin GetTodo
    BY <2>1 DEF SetTodo, GetTodo
  <2>3. /\ pTodo' \in Seq(Todos) /\ Len(pTodo') = Len(pTodo) - 1 /\ Len(pTodo) \in Nat
        /\ \A i \in 2 .. Len(pTodo') : i + 1 \in 2 .. Len(pTodo) /\ pTodo'[i] = pTodo[i + 1]
    BY <1>1, <2>1, InTail
  <2>4. QueueServes
    BY <1>1, <2>1, <2>2, InTail DEF QueueServes
  <2>5. pOwed' = Callbacks(pTodo')
    BY <1>1, <2>1, CallbacksOfTail DEF QueueOK
  <2>6. Len(pTodo') + pLeft'.calls + pLeft'.changes <= MaxCalls + MaxChanges
    BY <1>1, <2>3, PropsAssumption DEF QueueOK, LeftOK
  <2>7. \A i \in 2 .. Len(pTodo') : ~pTodo'[i].sent
    BY <2>3 DEF QueueOK
  <2> QED
    BY <2>3, <2>4, <2>5, <2>6, <2>7 DEF QueueOK
<1> QED
  BY <1>2, <1>3

-----------------------------------------------------------------------------
(* WfProps: the steps of clients and of the daemon.                        *)

\* property_get_value() adds a read, if anything.
LEMMA GetKeeps ==
    ASSUME PropsInv, property_get_value
    PROVE  PropsInv'
<1> DEFINE t == Task("get", None, TRUE)
<1>0. PropsTyped /\ QueueOK /\ Carried /\ Followed /\ (pSaved # None => pRow.set.saved)
      /\ (pAssoc => pStage = "ready")
  BY DEF PropsInv
<1>1. /\ pLeft.calls > 0 /\ Use("calls")
      /\ UNCHANGED <<pRow, pCaps, pIgnored, pNcp, pCopy, pSaved, pDown, pUp, pStage, pAssoc,
                     pTouched>>
      /\ \/ pTodo' = pTodo /\ pOwed' = pOwed
         \/ pTodo' = Append(pTodo, t) /\ pOwed' = pOwed + 1
  BY DEF property_get_value
<1>2. LeftOK(pLeft) /\ LeftOK(pLeft') /\ pLeft'.calls = pLeft.calls - 1
      /\ pLeft'.changes = pLeft.changes /\ pLeft'.resets = pLeft.resets
  BY <1>0, <1>1, Use_calls DEF PropsTyped
<1>3. t \in Todos /\ ~t.sent /\ t.client /\ t.op = "get"
  BY <1>2, NewTask DEF LeftOK
<1> HIDE DEF t
<1>4. pLeft'.calls + pLeft'.changes = pLeft.calls + pLeft.changes - 1
  BY <1>2 DEF LeftOK
<1>5. pLeft'.calls + pLeft'.changes <= pLeft.calls + pLeft.changes
  BY <1>2, <1>4 DEF LeftOK
<1>6. pTodo' \in Seq(Todos) /\ QueueOK' /\ QueueServes
  <2>1. CASE pTodo' = pTodo /\ pOwed' = pOwed
    BY <1>0, <1>2, <1>5, <2>1, QueueIsShorter DEF PropsTyped
  <2>2. CASE pTodo' = Append(pTodo, t) /\ pOwed' = pOwed + 1
    BY <1>0, <1>2, <1>3, <1>4, <2>2, TaskIsAdded
  <2> QED
    BY <1>1, <2>1, <2>2
<1>7. PropsTyped'
  BY <1>0, <1>1, <1>2, <1>6 DEF PropsTyped
<1>8. Carried'
  BY <1>0, <1>1, <1>6, Zenon DEF Carried, QueueServes, HasCap
<1>9. Followed'
  BY <1>0, <1>1, <1>2, <1>6, Zenon DEF Followed, Announced, QueueServes
<1> QED
  BY <1>0, <1>1, <1>6, <1>7, <1>8, <1>9 DEF PropsInv

\* property_set_value(): what is saved is what is written last.
LEMMA SetKeeps ==
    ASSUME PropsInv, property_set_value
    PROVE  PropsInv'
<1>0. PropsTyped /\ QueueOK /\ Carried /\ Followed /\ (pSaved # None => pRow.set.saved)
      /\ (pAssoc => pStage = "ready")
  BY DEF PropsInv
<1>1. PICK v \in Accepted \cup {Refused3, Malformed} : set_spinel_prop(v) \/ set_own(v)
  BY DEF property_set_value
<1>2. /\ pLeft.calls > 0 /\ Use("calls")
      /\ UNCHANGED <<pRow, pCaps, pIgnored, pNcp, pDown, pUp, pStage, pAssoc, pTouched>>
  BY DEF property_set_value
<1>3. LeftOK(pLeft) /\ LeftOK(pLeft') /\ pLeft'.calls = pLeft.calls - 1
      /\ pLeft'.changes = pLeft.changes /\ pLeft'.resets = pLeft.resets
  BY <1>0, <1>2, Use_calls DEF PropsTyped
<1>4. pLeft'.calls + pLeft'.changes = pLeft.calls + pLeft.changes - 1
  BY <1>3 DEF LeftOK
<1>5. pLeft'.calls + pLeft'.changes <= pLeft.calls + pLeft.changes
  BY <1>3, <1>4 DEF LeftOK
<1>6. CASE set_own(v)
  <2>1. /\ pRow.set.to = "own" /\ pSaved' = pSaved /\ pTodo' = pTodo /\ pOwed' = pOwed
        /\ pCopy' = pCopy \/ (v # Malformed /\ pCopy' = v)
    BY <1>6 DEF set_own
  <2>2. pRow.get.from # "mirror"
    BY <1>0, <2>1, TableAssumption DEF PropsTyped
  <2>3. QueueOK' /\ QueueServes
    BY <1>0, <1>3, <1>5, <2>1, QueueIsShorter
  <2>4. PropsTyped'
    BY <1>0, <1>2, <1>3, <2>1 DEF PropsTyped
  <2>5. Carried'
    BY <1>0, <1>2, <2>1, Zenon DEF Carried, HasCap
  <2>6. Followed'
    BY <1>2, <2>2 DEF Followed
  <2> QED
    BY <1>0, <1>2, <2>1, <2>3, <2>4, <2>5, <2>6 DEF PropsInv
<1>7. CASE set_spinel_prop(v) /\ v # Malformed /\ HasCap(pRow.set.cap)
  <2> DEFINE t == Task("set", v, TRUE)
  <2>1. /\ pSaved' = IF pRow.set.saved THEN v ELSE pSaved
        /\ pTodo' = Append(pTodo, t) /\ pOwed' = pOwed + 1 /\ pCopy' = pCopy
    BY <1>7 DEF set_spinel_prop, Setting
  <2>2. v \in Accepted \cup {Refused3} /\ v # None
    BY <1>7 DEF Accepted, Refused3, Malformed, None
  <2>3. t \in Todos /\ ~t.sent /\ t.client /\ t.op = "set" /\ t.value = v
    BY <1>3, <2>2, NewTask DEF LeftOK
  <2> HIDE DEF t
  <2>4. /\ pTodo' \in Seq(Todos) /\ QueueOK' /\ LastIn(pTodo', SetTodo, v)
        /\ ~NoneIn(pTodo, GetTodo) => ~NoneIn(pTodo', GetTodo)
    BY <1>0, <1>3, <1>4, <2>1, <2>3, TaskIsAdded
  <2>5. PropsTyped' /\ (pSaved' # None => pRow'.set.saved)
    BY <1>0, <1>2, <1>3, <2>1, <2>2, <2>4 DEF PropsTyped
  <2>6. Carried'
    <3>1. pSaved' \in Accepted => pSaved' = v
      BY <1>0, <2>1 DEF Accepted, None
    <3> QED
      BY <2>4, <3>1, Zenon DEF Carried
  <2>7. Followed'
    BY <1>0, <1>2, <1>3, <2>1, <2>4, Zenon DEF Followed, Announced
  <2> QED
    BY <1>0, <1>2, <2>4, <2>5, <2>6, <2>7 DEF PropsInv
<1>8. CASE set_spinel_prop(v) /\ ~(v # Malformed /\ HasCap(pRow.set.cap))
  <2>1. /\ pTodo' = pTodo /\ pOwed' = pOwed /\ pCopy' = pCopy
        /\ pSaved' = pSaved \/ (v # Malformed /\ pSaved' = v /\ pRow.set.saved)
    BY <1>8 DEF set_spinel_prop, Setting
  <2>2. QueueOK' /\ QueueServes
    BY <1>0, <1>3, <1>5, <2>1, QueueIsShorter
  <2>3. PropsTyped' /\ (pSaved' # None => pRow'.set.saved)
    BY <1>0, <1>2, <1>3, <2>1 DEF PropsTyped, Malformed, Accepted, Refused3, None
  <2>4. Carried'
    <3>1. CASE pSaved' = pSaved
      BY <1>0, <1>2, <2>1, <3>1, Zenon DEF Carried, HasCap
    <3>2. CASE ~HasCap(pRow.set.cap)
      BY <1>2, <3>2, Zenon DEF Carried, HasCap
    <3> QED
      BY <1>8, <2>1, <3>1, <3>2
  <2>5. Followed'
    BY <1>0, <1>2, <1>3, <2>1, Zenon DEF Followed, Announced
  <2> QED
    BY <1>0, <1>2, <2>2, <2>3, <2>4, <2>5 DEF PropsInv
<1> QED
  BY <1>1, <1>6, <1>7, <1>8

\* reset() adds a task that neither reads nor writes.
LEMMA ResetCallKeeps ==
    ASSUME PropsInv, reset
    PROVE  PropsInv'
<1> DEFINE t == Task("reset", None, TRUE)
<1>0. PropsTyped /\ QueueOK /\ Carried /\ Followed /\ (pSaved # None => pRow.set.saved)
      /\ (pAssoc => pStage = "ready")
  BY DEF PropsInv
<1>1. /\ pLeft.calls > 0 /\ Use("calls")
      /\ UNCHANGED <<pRow, pCaps, pIgnored, pNcp, pCopy, pSaved, pDown, pUp, pStage, pAssoc,
                     pTouched>>
      /\ pTodo' = Append(pTodo, t) /\ pOwed' = pOwed + 1
  BY DEF reset
<1>2. LeftOK(pLeft) /\ LeftOK(pLeft') /\ pLeft'.calls = pLeft.calls - 1
      /\ pLeft'.changes = pLeft.changes /\ pLeft'.resets = pLeft.resets
  BY <1>0, <1>1, Use_calls DEF PropsTyped
<1>3. t \in Todos /\ ~t.sent /\ t.client /\ t.op = "reset"
  BY <1>2, NewTask DEF LeftOK
<1> HIDE DEF t
<1>4. pLeft'.calls + pLeft'.changes = pLeft.calls + pLeft.changes - 1
  BY <1>2 DEF LeftOK
<1>5. pTodo' \in Seq(Todos) /\ QueueOK'
  BY <1>0, <1>1, <1>2, <1>3, <1>4, TaskIsAdded
<1>6. t \notin SetTodo /\ t \notin GetTodo
  BY <1>3, TodoFacts
<1>7. QueueServes
  BY <1>0, <1>1, <1>3, <1>6, InAppend DEF QueueServes, PropsTyped
<1>8. PropsTyped'
  BY <1>0, <1>1, <1>2, <1>5 DEF PropsTyped
<1>9. Carried'
  BY <1>0, <1>1, <1>7, Zenon DEF Carried, QueueServes, HasCap
<1>10. Followed'
  BY <1>0, <1>1, <1>2, <1>7, Zenon DEF Followed, Announced, QueueServes
<1> QED
  BY <1>0, <1>1, <1>5, <1>8, <1>9, <1>10 DEF PropsInv

\* A task that is sent goes on as a frame.
LEMMA SendKeepsProps ==
    ASSUME PropsInv, SendCommand
    PROVE  PropsInv'
<1> DEFINE t == Head(pTodo)
           f == Frame(t.op, t.value, t.id)
<1>0. PropsTyped /\ QueueOK /\ Carried /\ Followed /\ (pSaved # None => pRow.set.saved)
      /\ (pAssoc => pStage = "ready")
  BY DEF PropsInv
<1>1. /\ pTodo # <<>> /\ ~t.sent
      /\ pDown' = Append(pDown, f) /\ pTodo' = [pTodo EXCEPT ![1].sent = TRUE]
      /\ UNCHANGED <<pRow, pCaps, pIgnored, pNcp, pCopy, pSaved, pUp, pStage, pAssoc, pTouched,
                     pOwed, pLeft>>
  BY DEF SendCommand
<1>2. pTodo \in Seq(Todos) /\ pDown \in Seq(Downs) /\ LeftOK(pLeft)
  BY <1>0 DEF PropsTyped
<1>3. /\ pTodo' \in Seq(Todos) /\ Len(pTodo') = Len(pTodo)
      /\ Callbacks(pTodo') = Callbacks(pTodo)
      /\ \A i \in 2 .. Len(pTodo) : pTodo'[i] = pTodo[i]
      /\ t \in Todos
      /\ \A v : LastIn(pTodo, SetTodo, v) =>
           \/ LastIn(pTodo', SetTodo, v)
           \/ NoneIn(pTodo', SetTodo) /\ t.op = "set" /\ t.value = v
      /\ NoneIn(pTodo, SetTodo) => NoneIn(pTodo', SetTodo) /\ t.op # "set"
      /\ ~NoneIn(pTodo, GetTodo) => ~NoneIn(pTodo', GetTodo) \/ t.op = "get"
  BY <1>1, <1>2, HeadIsSent
<1>4. f \in Downs /\ f.cmd = t.op /\ f.value = t.value
  <2>1. /\ t.op \in {"get", "set", "reset"} /\ t.value \in {None, Refused3} \cup Accepted
        /\ t.op = "set" => t.value # None
        /\ t.id \in Nat
    BY <1>3, TodoFacts
  <2> HIDE DEF t
  <2> QED
    BY <2>1, NewDown
<1> HIDE DEF t, f
<1>5. /\ f \in SetDown <=> t.op = "set"
      /\ f \in GetDown <=> t.op = "get"
  BY <1>4, DownFacts
<1>6. /\ pDown' \in Seq(Downs)
      /\ t.op = "set" => LastIn(pDown', SetDown, t.value)
      /\ t.op # "set" => /\ \A v : LastIn(pDown, SetDown, v) => LastIn(pDown', SetDown, v)
                         /\ NoneIn(pDown, SetDown) => NoneIn(pDown', SetDown)
      /\ t.op = "get" => ~NoneIn(pDown', GetDown)
      /\ ~NoneIn(pDown, GetDown) => ~NoneIn(pDown', GetDown)
  BY <1>1, <1>2, <1>4, <1>5, InAppend
<1>7. QueueOK'
  BY <1>0, <1>1, <1>2, <1>3 DEF QueueOK
<1>8. PropsTyped'
  BY <1>0, <1>1, <1>3, <1>6 DEF PropsTyped
<1>9. Carried'
  BY <1>0, <1>1, <1>3, <1>6, Zenon DEF Carried, HasCap
<1>10. Followed'
  BY <1>0, <1>1, <1>3, <1>6, Zenon DEF Followed, Announced
<1> QED
  BY <1>0, <1>1, <1>7, <1>8, <1>9, <1>10 DEF PropsInv

\* What is owed is a number.
LEMMA OwedIsNat ==
    ASSUME PropsTyped, QueueOK
    PROVE  pOwed \in Nat /\ pOwed = Callbacks(pTodo)
<1>1. pTodo \in Seq(Todos) /\ pOwed = Callbacks(pTodo)
  BY DEF PropsTyped, QueueOK
<1>2. Callbacks(pTodo) \in Nat
  BY <1>1, CallbacksAreFinite
<1> QED
  BY <1>1, <1>2

\* The initialisation reads what it keeps copies of.
LEMMA FetchKeeps ==
    ASSUME PropsInv, FetchProperties
    PROVE  PropsInv'
<1> DEFINE f == Frame("get", None, 0)
<1>0. PropsTyped /\ QueueOK /\ Carried /\ Followed /\ (pSaved # None => pRow.set.saved)
      /\ (pAssoc => pStage = "ready")
  BY DEF PropsInv
<1>1. /\ pStage = "fetch" /\ pStage' = "restore"
      /\ pRow.fetched => pDown' = Append(pDown, f)
      /\ ~pRow.fetched => pDown' = pDown
      /\ UNCHANGED <<pRow, pCaps, pIgnored, pNcp, pCopy, pSaved, pTodo, pUp, pAssoc, pTouched,
                     pOwed, pLeft>>
  BY DEF FetchProperties
<1>2. pDown \in Seq(Downs) /\ f \in Downs /\ f \in GetDown
  <2>1. f \in Downs /\ f.cmd = "get"
    BY NewDown
  <2>2. f \in GetDown
    BY <2>1, DownFacts
  <2> QED
    BY <1>0, <2>1, <2>2 DEF PropsTyped
<1> HIDE DEF f
<1>3. /\ pDown' \in Seq(Downs)
      /\ pRow.fetched => ~NoneIn(pDown', GetDown)
      /\ ~NoneIn(pDown, GetDown) => ~NoneIn(pDown', GetDown)
  <2>1. CASE pRow.fetched
    <3>1. pDown' = Append(pDown, f)
      BY <1>1, <2>1, Zenon
    <3> QED
      BY <1>2, <3>1, InAppend
  <2>2. CASE ~pRow.fetched
    BY <1>1, <1>2, <2>2
  <2> QED
    BY <2>1, <2>2
<1>4. PropsTyped' /\ QueueOK'
  BY <1>0, <1>1, <1>3 DEF PropsTyped, QueueOK
<1>5. Carried'
  <2>1. pStage' = "restore"
    BY <1>1
  <2> QED
    BY <1>0, <1>1, <2>1, Zenon DEF Carried, HasCap
<1>6. Followed'
  BY <1>0, <1>1, <1>3, Zenon DEF Followed, Announced
<1> QED
  BY <1>0, <1>1, <1>4, <1>5, <1>6 DEF PropsInv

\* The initialisation writes what was saved.
LEMMA RestoreKeeps ==
    ASSUME PropsInv, RestoreSettings
    PROVE  PropsInv'
<1> DEFINE f == Frame("set", pSaved, 0)
<1>0. PropsTyped /\ QueueOK /\ Carried /\ Followed /\ (pSaved # None => pRow.set.saved)
      /\ (pAssoc => pStage = "ready")
  BY DEF PropsInv
<1>1. /\ pStage = "restore" /\ pStage' = "restored"
      /\ pDown' = IF pSaved # None /\ HasCap(pRow.set.cap) THEN Append(pDown, f) ELSE pDown
      /\ UNCHANGED <<pRow, pCaps, pIgnored, pNcp, pCopy, pSaved, pTodo, pUp, pAssoc, pTouched,
                     pOwed, pLeft>>
  BY DEF RestoreSettings
<1>2. pDown \in Seq(Downs) /\ pSaved \in {None, Refused3} \cup Accepted
  BY <1>0 DEF PropsTyped
<1>3. pSaved # None => f \in Downs /\ f \in SetDown /\ f.value = pSaved
  <2> SUFFICES ASSUME pSaved # None PROVE f \in Downs /\ f \in SetDown /\ f.value = pSaved
    OBVIOUS
  <2>1. f \in Downs /\ f.cmd = "set" /\ f.value = pSaved
    BY <1>2, NewDown
  <2>2. f \in SetDown
    BY <2>1, DownFacts
  <2> QED
    BY <2>1, <2>2
<1> HIDE DEF f
<1>4. /\ pDown' \in Seq(Downs)
      /\ pSaved # None /\ HasCap(pRow.set.cap) => LastIn(pDown', SetDown, pSaved)
      /\ ~NoneIn(pDown, GetDown) => ~NoneIn(pDown', GetDown)
  BY <1>1, <1>2, <1>3, InAppend
<1>5. PropsTyped' /\ QueueOK'
  BY <1>0, <1>1, <1>4 DEF PropsTyped, QueueOK
<1>6. Carried'
  <2>1. pSaved \in Accepted => pSaved # None
    BY DEF Accepted, None
  <2> QED
    BY <1>0, <1>1, <1>4, <2>1, Zenon DEF Carried, HasCap
<1>7. Followed'
  <2>1. pStage # "fetch"
    BY <1>1
  <2> QED
    BY <1>0, <1>1, <1>4, <2>1, Zenon DEF Followed, Announced
<1> QED
  BY <1>0, <1>1, <1>5, <1>6, <1>7 DEF PropsInv

\* What is read on association is queued.
LEMMA AssociatesKeeps ==
    ASSUME PropsInv, BecomesAssociated
    PROVE  PropsInv'
<1> DEFINE t == Task("get", None, FALSE)
<1>0. PropsTyped /\ QueueOK /\ Carried /\ Followed /\ (pSaved # None => pRow.set.saved)
      /\ (pAssoc => pStage = "ready")
  BY DEF PropsInv
<1>1. /\ pLeft.changes > 0 /\ Use("changes")
      /\ UNCHANGED <<pRow, pCaps, pIgnored, pNcp, pCopy, pSaved, pDown, pUp, pStage, pTouched,
                     pOwed>>
      /\ pStage = "ready"
      /\ pRow.associated => pTodo' = Append(pTodo, t)
      /\ ~pRow.associated => pTodo' = pTodo
  BY DEF BecomesAssociated
<1>2. LeftOK(pLeft) /\ LeftOK(pLeft') /\ pLeft'.changes = pLeft.changes - 1
      /\ pLeft'.calls = pLeft.calls /\ pLeft'.resets = pLeft.resets
  BY <1>0, <1>1, Use_changes DEF PropsTyped
<1>3. t \in Todos /\ ~t.sent /\ ~t.client /\ t.op = "get"
  BY <1>2, NewTask DEF LeftOK
<1> HIDE DEF t
<1>4. pLeft'.calls + pLeft'.changes = pLeft.calls + pLeft.changes - 1
  BY <1>2 DEF LeftOK
<1>5. pLeft'.calls + pLeft'.changes <= pLeft.calls + pLeft.changes
  BY <1>2, <1>4 DEF LeftOK
<1>6. /\ pTodo' \in Seq(Todos) /\ QueueOK' /\ QueueServes
      /\ pRow.associated => ~NoneIn(pTodo', GetTodo)
  <2>1. CASE ~pRow.associated
    BY <1>0, <1>1, <1>2, <1>5, <2>1, QueueIsShorter DEF PropsTyped
  <2>2. CASE pRow.associated
    <3>1. pOwed' = pOwed + 0
      BY <1>0, <1>1, OwedIsNat
    <3> QED
      BY <1>0, <1>1, <1>2, <1>3, <1>4, <2>2, <3>1, TaskIsAdded
  <2> QED
    BY <2>1, <2>2
<1>7. PropsTyped'
  BY <1>0, <1>1, <1>2, <1>6 DEF PropsTyped
<1>8. Carried'
  BY <1>0, <1>1, <1>6, Zenon DEF Carried, QueueServes, HasCap
<1>9. Followed'
  BY <1>0, <1>1, <1>2, <1>6, Zenon DEF Followed, Announced, QueueServes
<1> QED
  BY <1>0, <1>1, <1>6, <1>7, <1>8, <1>9 DEF PropsInv

\* A value that arrives becomes the copy.
LEMMA ValueIsKeeps ==
    ASSUME PropsInv, handle_ncp_spinel_value_is
    PROVE  PropsInv'
<1> DEFINE f == Head(pUp)
<1>0. PropsTyped /\ QueueOK /\ Carried /\ Followed /\ (pSaved # None => pRow.set.saved)
      /\ (pAssoc => pStage = "ready")
  BY DEF PropsInv
<1>1. /\ pUp # <<>> /\ f.cmd = "is" /\ pUp' = Tail(pUp) /\ Finish(f)
      /\ pCopy' = IF KeepsCopy THEN f.value ELSE pCopy
      /\ UNCHANGED <<pRow, pCaps, pIgnored, pNcp, pSaved, pDown, pStage, pAssoc,
                     pTouched, pLeft>>
  BY DEF handle_ncp_spinel_value_is
<1>2. pUp \in Seq(Ups)
  BY <1>0 DEF PropsTyped
<1>3. f \in Ups
  BY <1>1, <1>2
<1>4. f \in IsUp /\ f \notin ResetUp /\ f.value \in {Default, OfNcp} \cup Accepted
  BY <1>1, <1>3, UpFacts
<1>5. /\ pUp' \in Seq(Ups)
      /\ \A v : LastIn(pUp, IsUp, v) => \/ LastIn(pUp', IsUp, v)
                                        \/ NoneIn(pUp', IsUp) /\ f.value = v
      /\ ~NoneIn(pUp, IsUp)
      /\ ~NoneIn(pUp, ResetUp) => ~NoneIn(pUp', ResetUp)
  BY <1>1, <1>2, <1>4, InTail
<1>6. pTodo' \in Seq(Todos) /\ QueueOK' /\ QueueServes
  BY <1>0, <1>1, FinishKeeps
<1>7. pRow.get.from = "mirror" => pCopy' = f.value
  BY <1>1 DEF KeepsCopy
<1>8. PropsTyped'
  BY <1>0, <1>1, <1>4, <1>5, <1>6 DEF PropsTyped
<1> HIDE DEF f
<1>9. Carried'
  BY <1>0, <1>1, <1>5, <1>6, Zenon DEF Carried, QueueServes, HasCap
<1>10. pRow.get.from = "mirror" /\ Announced => Announced'
  BY <1>1, <1>5, <1>7, Zenon DEF Announced
<1>11. Followed'
  BY <1>0, <1>1, <1>5, <1>6, <1>10, Zenon DEF Followed, QueueServes
<1> QED
  BY <1>0, <1>1, <1>6, <1>8, <1>9, <1>11 DEF PropsInv

\* A refusal ends the running task.
LEMMA RefusalKeeps ==
    ASSUME PropsInv, handle_refusal
    PROVE  PropsInv'
<1> DEFINE f == Head(pUp)
<1>0. PropsTyped /\ QueueOK /\ Carried /\ Followed /\ (pSaved # None => pRow.set.saved)
      /\ (pAssoc => pStage = "ready")
  BY DEF PropsInv
<1>1. /\ pUp # <<>> /\ f.cmd = "status" /\ pUp' = Tail(pUp) /\ Finish(f)
      /\ UNCHANGED <<pRow, pCaps, pIgnored, pNcp, pCopy, pSaved, pDown, pStage, pAssoc,
                     pTouched, pLeft>>
  BY DEF handle_refusal
<1>2. pUp \in Seq(Ups) /\ LeftOK(pLeft)
  BY <1>0 DEF PropsTyped
<1>3. f \in Ups
  BY <1>1, <1>2
<1>4. f \notin IsUp /\ f \notin ResetUp
  BY <1>1, <1>3, UpFacts
<1>5. /\ pUp' \in Seq(Ups)
      /\ \A v : LastIn(pUp, IsUp, v) => LastIn(pUp', IsUp, v)
      /\ NoneIn(pUp, IsUp) => NoneIn(pUp', IsUp)
      /\ ~NoneIn(pUp, ResetUp) => ~NoneIn(pUp', ResetUp)
  BY <1>1, <1>2, <1>4, InTail
<1>6. Announced => Announced'
  BY <1>1, <1>5, Zenon DEF Announced
<1>7. pTodo' \in Seq(Todos) /\ QueueOK' /\ QueueServes
  BY <1>0, <1>1, FinishKeeps
<1>8. PropsTyped'
  BY <1>0, <1>1, <1>5, <1>7 DEF PropsTyped
<1> HIDE DEF f
<1>9. Carried'
  BY <1>0, <1>1, <1>5, <1>7, Zenon DEF Carried, QueueServes, HasCap
<1>10. Followed'
  BY <1>0, <1>1, <1>5, <1>6, <1>7, Zenon DEF Followed, QueueServes
<1> QED
  BY <1>0, <1>1, <1>7, <1>8, <1>9, <1>10 DEF PropsInv

\* The running task gives up.
LEMMA EndsKeeps ==
    ASSUME PropsInv, SendCommand_Ends
    PROVE  PropsInv'
<1> DEFINE f == [id |-> Head(pTodo).id]
<1>0. PropsTyped /\ QueueOK /\ Carried /\ Followed /\ (pSaved # None => pRow.set.saved)
      /\ (pAssoc => pStage = "ready")
  BY DEF PropsInv
<1>1. /\ pTodo # <<>> /\ Head(pTodo).sent
      /\ pTodo' = Tail(pTodo) /\ pOwed' = pOwed - Callbacks(<<Head(pTodo)>>)
      /\ UNCHANGED <<pRow, pCaps, pIgnored, pNcp, pCopy, pSaved, pDown, pUp, pStage,
                     pAssoc, pTouched, pLeft>>
  BY DEF SendCommand_Ends
<1>2. Finish(f)
  BY <1>1 DEF Finish, Answers
<1>3. pTodo' \in Seq(Todos) /\ QueueOK' /\ QueueServes
  BY <1>0, <1>1, <1>2, FinishKeeps
<1>4. PropsTyped'
  BY <1>0, <1>1, <1>3 DEF PropsTyped
<1>5. Carried'
  BY <1>0, <1>1, <1>3, Zenon DEF Carried, QueueServes, HasCap
<1>6. Followed'
  BY <1>0, <1>1, <1>3, Zenon DEF Followed, Announced, QueueServes
<1> QED
  BY <1>0, <1>1, <1>3, <1>4, <1>5, <1>6 DEF PropsInv

\* The end of the initialisation changes neither copy nor setting.
LEMMA FinishInitKeeps ==
    ASSUME PropsInv, FinishInit
    PROVE  PropsInv'
<1>0. PropsTyped /\ QueueOK /\ Carried /\ Followed /\ (pSaved # None => pRow.set.saved)
      /\ (pAssoc => pStage = "ready")
  BY DEF PropsInv
<1>1. /\ pStage = "restored" /\ pStage' = "ready"
      /\ UNCHANGED <<pRow, pCaps, pIgnored, pNcp, pCopy, pSaved, pTodo, pDown, pUp, pAssoc,
                     pTouched, pOwed, pLeft>>
  BY DEF FinishInit
<1>2. pStage # "fetch" /\ pStage # "restore"
  BY <1>1
<1>3. (PropsTyped /\ QueueOK)'
  BY <1>0, <1>1 DEF PropsTyped, QueueOK
<1>4. Carried'
  BY <1>0, <1>1, <1>2, Zenon DEF Carried, HasCap
<1>5. Followed'
  BY <1>0, <1>1, <1>2, Zenon DEF Followed, Announced
<1> QED
  BY <1>0, <1>1, <1>3, <1>4, <1>5 DEF PropsInv

\* A reset starts the initialisation, or is ignored.
LEMMA LastStatusKeeps ==
    ASSUME PropsInv, handle_last_status
    PROVE  PropsInv'
<1> DEFINE f == Head(pUp)
<1>0. PropsTyped /\ QueueOK /\ Carried /\ Followed /\ (pSaved # None => pRow.set.saved)
      /\ (pAssoc => pStage = "ready")
  BY DEF PropsInv
<1>1. /\ pUp # <<>> /\ f.cmd = "reset" /\ pUp' = Tail(pUp)
      /\ UNCHANGED <<pRow, pCaps, pNcp, pCopy, pSaved, pDown, pTouched, pLeft>>
  BY DEF handle_last_status
<1>2. \/ pTodo' = <<>> /\ pOwed' = pOwed - Callbacks(pTodo)
      \/ pTodo' = pTodo /\ pOwed' = pOwed
  BY DEF handle_last_status
<1>3. \/ pStage' = "fetch" /\ ~pAssoc'
      \/ ~pAssoc' /\ pStage' = pStage /\ pIgnored'
  BY <1>0 DEF handle_last_status
<1>4. pUp \in Seq(Ups) /\ LeftOK(pLeft)
  BY <1>0 DEF PropsTyped
<1>5. f \in Ups
  BY <1>1, <1>4
<1>6. f \notin IsUp
  BY <1>1, <1>5, UpFacts
<1>7. /\ pUp' \in Seq(Ups)
      /\ \A v : LastIn(pUp, IsUp, v) => LastIn(pUp', IsUp, v)
      /\ NoneIn(pUp, IsUp) => NoneIn(pUp', IsUp)
  BY <1>1, <1>4, <1>6, InTail
<1>8. Announced => Announced'
  BY <1>1, <1>7, Zenon DEF Announced
<1> HIDE DEF f
<1>9. /\ pTodo' \in Seq(Todos) /\ QueueOK'
      /\ \A v : LastIn(pTodo, SetTodo, v) =>
           LastIn(pTodo, SetTodo, v)' \/ NoneIn(pTodo, SetTodo)'
      /\ NoneIn(pTodo, SetTodo) => NoneIn(pTodo, SetTodo)'
  <2>1. CASE pTodo' = pTodo /\ pOwed' = pOwed
    <3>1. pTodo' \in Seq(Todos)
      BY <1>0, <2>1 DEF PropsTyped
    <3>2. LeftOK(pLeft') /\ pLeft'.calls + pLeft'.changes <= pLeft.calls + pLeft.changes
      BY <1>1, <1>4 DEF LeftOK
    <3>3. QueueOK' /\ QueueServes
      BY <1>0, <2>1, <3>2, QueueIsShorter
    <3> QED
      BY <3>1, <3>3, Zenon DEF QueueServes
  <2>2. CASE pTodo' = <<>> /\ pOwed' = pOwed - Callbacks(pTodo)
    <3>1. pTodo' \in Seq(Todos) /\ Len(pTodo') = 0
      BY <2>2
    <3>2. pOwed' = Callbacks(pTodo')
      BY <1>0, <2>2, OwedIsNat, CallbacksOfNone
    <3>3. Len(pTodo') + pLeft'.calls + pLeft'.changes <= MaxCalls + MaxChanges
      <4>1. Len(pTodo) \in Nat
        BY <1>0 DEF PropsTyped
      <4> QED
        BY <1>0, <1>1, <1>4, <3>1, <4>1, PropsAssumption DEF QueueOK, LeftOK
    <3>4. QueueOK'
      BY <3>1, <3>2, <3>3 DEF QueueOK
    <3>5. NoneIn(pTodo', SetTodo)
      BY <2>2, NoneInEmpty
    <3> QED
      BY <3>1, <3>4, <3>5, Zenon
  <2> QED
    BY <1>2, <2>1, <2>2
<1>10. PropsTyped'
  BY <1>0, <1>1, <1>3, <1>7, <1>9 DEF PropsTyped
<1>11. Carried'
  BY <1>0, <1>1, <1>3, <1>9, Zenon DEF Carried, HasCap
<1>12. ~pAssoc'
  BY <1>3
<1>13. Followed'
  BY <1>0, <1>1, <1>3, <1>8, <1>12, Zenon DEF Followed
<1> QED
  BY <1>0, <1>1, <1>9, <1>10, <1>11, <1>12, <1>13 DEF PropsInv

-----------------------------------------------------------------------------
(* WfProps: the steps of the NCP.                                          *)

\* The NCP stores what it accepts and reports what it stores.
LEMMA HandlesKeeps ==
    ASSUME PropsInv, Ncp_Handles
    PROVE  PropsInv'
<1> DEFINE f == Head(pDown)
           ok == f.cmd = "set" /\ Parses(pRow) /\ f.value # Refused3
           g == IF f.cmd = "get" \/ ok THEN Frame("is", pNcp', f.id)
                ELSE Frame("status", None, f.id)
<1>0. PropsTyped /\ QueueOK /\ Carried /\ Followed /\ (pSaved # None => pRow.set.saved)
      /\ (pAssoc => pStage = "ready")
  BY DEF PropsInv
<1>1. /\ pDown # <<>> /\ pDown' = Tail(pDown)
      /\ pNcp' = IF ~ok THEN pNcp ELSE IF IsCommand(pRow) THEN Default ELSE f.value
      /\ pUp' = Append(pUp, g)
      /\ UNCHANGED <<pRow, pCaps, pIgnored, pCopy, pSaved, pTodo, pStage, pAssoc, pOwed, pLeft>>
  BY DEF Ncp_Handles
<1>2. pTouched /\ ~ok => pTouched'
  BY Zenon DEF Ncp_Handles
<1>3. /\ pDown \in Seq(Downs) /\ pUp \in Seq(Ups)
      /\ pNcp \in {Default, OfNcp} \cup Accepted
  BY <1>0 DEF PropsTyped
<1>4. f \in Downs
  BY <1>1, <1>3
<1>5. /\ f.cmd \in {"get", "set", "reset"} /\ f.id \in Nat
      /\ f.value \in {None, Refused3} \cup Accepted
      /\ f.cmd = "set" => f.value # None
      /\ f \in SetDown <=> f.cmd = "set"
      /\ f \in GetDown <=> f.cmd = "get"
  BY <1>4, DownFacts
<1>6. ok => f.value \in Accepted
  BY <1>5
<1>7. pNcp' \in {Default, OfNcp} \cup Accepted /\ pNcp' # None
  BY <1>1, <1>3, <1>6 DEF Default, OfNcp, Accepted, None
<1>8. /\ g \in Ups /\ g.cmd # "reset"
      /\ f.cmd = "get" \/ ok => g.cmd = "is" /\ g.value = pNcp'
      /\ ~(f.cmd = "get" \/ ok) => g.cmd = "status" /\ pNcp' = pNcp
  <2>1. CASE f.cmd = "get" \/ ok
    <3>1. g = Frame("is", pNcp', f.id)
      BY <2>1
    <3> HIDE DEF g, f, ok
    <3>2. g \in Ups /\ g.cmd = "is" /\ g.value = pNcp'
      BY <1>5, <1>7, <3>1, NewUp
    <3> QED
      BY <2>1, <3>2
  <2>2. CASE ~(f.cmd = "get" \/ ok)
    BY <1>1, <1>5, <2>2, NewUp
  <2> QED
    BY <2>1, <2>2
<1> HIDE DEF f, g, ok
<1>9. g \notin ResetUp /\ (g \in IsUp <=> g.cmd = "is")
  BY <1>8, UpFacts
<1>10. /\ pDown' \in Seq(Downs)
       /\ \A v : LastIn(pDown, SetDown, v) =>
            \/ LastIn(pDown', SetDown, v)
            \/ NoneIn(pDown', SetDown) /\ f.cmd = "set" /\ f.value = v
       /\ NoneIn(pDown, SetDown) => NoneIn(pDown', SetDown) /\ f.cmd # "set"
       /\ ~NoneIn(pDown, GetDown) => ~NoneIn(pDown', GetDown) \/ f.cmd = "get"
  <2> USE DEF f
  <2>1. /\ pDown' \in Seq(Downs)
        /\ \A v : LastIn(pDown, SetDown, v) =>
             \/ LastIn(pDown', SetDown, v)
             \/ NoneIn(pDown', SetDown) /\ f.cmd = "set" /\ f.value = v
        /\ NoneIn(pDown, SetDown) => NoneIn(pDown', SetDown) /\ f.cmd # "set"
    BY <1>1, <1>3, <1>5, InTail
  <2>2. ~NoneIn(pDown, GetDown) => ~NoneIn(pDown', GetDown) \/ f.cmd = "get"
    BY <1>1, <1>3, <1>5, InTail
  <2> QED
    BY <2>1, <2>2
<1>11. /\ pUp' \in Seq(Ups)
       /\ ~NoneIn(pUp, ResetUp) => ~NoneIn(pUp', ResetUp)
       /\ f.cmd = "get" \/ ok => LastIn(pUp', IsUp, pNcp')
       /\ ~(f.cmd = "get" \/ ok) => /\ \A v : LastIn(pUp, IsUp, v) => LastIn(pUp', IsUp, v)
                                    /\ NoneIn(pUp, IsUp) => NoneIn(pUp', IsUp)
  BY <1>1, <1>3, <1>8, <1>9, InAppend
<1>12. PropsTyped' /\ QueueOK'
  BY <1>0, <1>1, <1>7, <1>10, <1>11 DEF PropsTyped, QueueOK
<1>13. Carried'
  <2> SUFFICES ASSUME pSaved \in Accepted, HasCap(pRow.set.cap), NoneIn(pTodo, SetTodo),
                      ~LastIn(pTodo, SetTodo, pSaved), NoneIn(pUp, ResetUp), ~pIgnored,
                      pStage # "fetch", pStage # "restore"
               PROVE  \/ LastIn(pDown', SetDown, pSaved)
                      \/ NoneIn(pDown', SetDown) /\ (pTouched' \/ pNcp' = pSaved)
    BY <1>0, <1>1, <1>11, Zenon DEF Carried, HasCap
  <2>1. CASE LastIn(pDown, SetDown, pSaved)
    <3> SUFFICES ASSUME NoneIn(pDown', SetDown), f.cmd = "set", f.value = pSaved
                 PROVE  pNcp' = pSaved
      BY <1>10, <2>1
    <3>1. Parses(pRow) /\ ~IsCommand(pRow)
      BY <1>0, TableAssumption DEF PropsTyped, Accepted, None
    <3>2. ok
      BY <3>1 DEF ok, Accepted, Refused3
    <3> QED
      BY <1>1, <3>1, <3>2
  <2>2. CASE NoneIn(pDown, SetDown) /\ (pTouched \/ pNcp = pSaved)
    <3>1. ~ok
      BY <1>10, <2>2 DEF ok
    <3> QED
      BY <1>1, <1>2, <1>10, <2>2, <3>1, Zenon
  <2> QED
    BY <1>0, <2>1, <2>2, Zenon DEF Carried
<1>14. f.cmd = "get" \/ Announced => Announced'
  BY <1>1, <1>8, <1>11, Zenon DEF Announced
<1>15. Followed'
  BY <1>0, <1>1, <1>10, <1>11, <1>14, Zenon DEF Followed
<1> QED
  BY <1>0, <1>1, <1>12, <1>13, <1>15 DEF PropsInv

\* The NCP reports what it changes by itself.
LEMMA ChangesKeeps ==
    ASSUME PropsInv, Ncp_Changes
    PROVE  PropsInv'
<1> DEFINE g == Frame("is", OfNcp, 0)
<1>0. PropsTyped /\ QueueOK /\ Carried /\ Followed /\ (pSaved # None => pRow.set.saved)
      /\ (pAssoc => pStage = "ready")
  BY DEF PropsInv
<1>1. /\ pLeft.changes > 0 /\ Use("changes") /\ pNcp' = OfNcp /\ pTouched'
      /\ pUp' = Append(pUp, g)
      /\ UNCHANGED <<pRow, pCaps, pIgnored, pCopy, pSaved, pTodo, pDown, pStage, pAssoc, pOwed>>
  BY DEF Ncp_Changes
<1>2. LeftOK(pLeft) /\ LeftOK(pLeft') /\ pLeft'.changes = pLeft.changes - 1
      /\ pLeft'.calls = pLeft.calls /\ pLeft'.resets = pLeft.resets
  BY <1>0, <1>1, Use_changes DEF PropsTyped
<1>3. pLeft'.calls + pLeft'.changes <= pLeft.calls + pLeft.changes
  BY <1>2 DEF LeftOK
<1>4. g \in Ups /\ g \in IsUp /\ g \notin ResetUp /\ g.value = OfNcp
  <2>1. OfNcp # None /\ 0 \in Nat
    BY DEF OfNcp, None
  <2>2. g \in Ups /\ g.cmd = "is" /\ g.value = OfNcp
    BY <2>1, NewUp
  <2> QED
    BY <2>2, UpFacts
<1> HIDE DEF g
<1>5. /\ pUp' \in Seq(Ups) /\ LastIn(pUp', IsUp, pNcp')
      /\ ~NoneIn(pUp, ResetUp) => ~NoneIn(pUp', ResetUp)
  BY <1>0, <1>1, <1>4, InAppend DEF PropsTyped
<1>6. QueueOK'
  BY <1>0, <1>1, <1>2, <1>3, QueueIsShorter
<1>7. PropsTyped'
  BY <1>0, <1>1, <1>2, <1>5 DEF PropsTyped
<1>8. Carried'
  BY <1>0, <1>1, <1>5, Zenon DEF Carried, HasCap
<1>9. Followed'
  BY <1>5, Zenon DEF Followed, Announced
<1> QED
  BY <1>0, <1>1, <1>6, <1>7, <1>8, <1>9 DEF PropsInv

\* A reset is reported and will be followed by an initialisation.
LEMMA NcpResetsKeeps ==
    ASSUME PropsInv, Ncp_Resets
    PROVE  PropsInv'
<1> DEFINE g == Frame("reset", None, 0)
<1>0. PropsTyped /\ QueueOK /\ Carried /\ Followed /\ (pSaved # None => pRow.set.saved)
      /\ (pAssoc => pStage = "ready")
  BY DEF PropsInv
<1>1. /\ pLeft.resets > 0 /\ Use("resets") /\ pNcp' = Default /\ pDown' = <<>>
      /\ pUp' = Append(pUp, g)
      /\ UNCHANGED <<pRow, pCaps, pIgnored, pCopy, pSaved, pTodo, pStage, pAssoc, pOwed>>
  BY DEF Ncp_Resets
<1>2. LeftOK(pLeft) /\ LeftOK(pLeft') /\ pLeft'.resets = pLeft.resets - 1
      /\ pLeft'.calls = pLeft.calls /\ pLeft'.changes = pLeft.changes
  BY <1>0, <1>1, Use_resets DEF PropsTyped
<1>3. /\ pLeft'.calls + pLeft'.changes <= pLeft.calls + pLeft.changes
      /\ pLeft'.resets # MaxResets
  BY <1>2, PropsAssumption DEF LeftOK
<1>4. g \in Ups /\ g \in ResetUp
  BY NewUp, UpFacts
<1> HIDE DEF g
<1>5. pUp' \in Seq(Ups) /\ ~NoneIn(pUp', ResetUp) /\ pDown' \in Seq(Downs)
  BY <1>0, <1>1, <1>4, InAppend DEF PropsTyped
<1>6. QueueOK'
  BY <1>0, <1>1, <1>2, <1>3, QueueIsShorter
<1>7. PropsTyped'
  BY <1>0, <1>1, <1>2, <1>5 DEF PropsTyped
<1>8. Carried' /\ Followed'
  BY <1>0, <1>1, <1>3, <1>5, Zenon DEF Carried, Followed, HasCap
<1> QED
  BY <1>0, <1>1, <1>6, <1>7, <1>8 DEF PropsInv

\* The invariant holds at the start.
LEMMA PropsStarts == PropsInit(AllRows) => PropsInv
<1> SUFFICES ASSUME PropsInit(AllRows) PROVE PropsInv
  OBVIOUS
<1>1. /\ pRow \in AllRows /\ pNcp = Default /\ pCopy = Default /\ pSaved = None
      /\ pTodo = <<>> /\ pDown = <<>> /\ pUp = <<>> /\ pStage = "fetch" /\ pOwed = 0
      /\ ~pAssoc
      /\ pLeft = [calls |-> MaxCalls, resets |-> MaxResets, changes |-> MaxChanges,
                  next |-> 1]
  BY DEF PropsInit
<1>2. LeftOK(pLeft)
  BY <1>1, PropsAssumption DEF LeftOK
<1>3. PropsTyped
  BY <1>1, <1>2 DEF PropsTyped
<1>4. QueueOK
  BY <1>1, CallbacksOfNone, PropsAssumption DEF QueueOK
<1>5. Carried
  BY <1>1 DEF Carried, Accepted, None
<1>6. NoneIn(pUp, IsUp) /\ pCopy = pNcp
  BY <1>1, NoneInEmpty
<1>7. Followed
  BY <1>6, Zenon DEF Followed, Announced
<1> QED
  BY <1>1, <1>3, <1>4, <1>5, <1>7 DEF PropsInv

\* Every step keeps the invariant.
LEMMA PropsStepKeeps == PropsInv /\ [PropsNext]_pvars => PropsInv'
<1> SUFFICES ASSUME PropsInv, [PropsNext]_pvars PROVE PropsInv'
  OBVIOUS
<1>1. CASE UNCHANGED pvars
  <2>1. UNCHANGED <<pRow, pCaps, pIgnored, pNcp, pCopy, pSaved, pTodo, pDown, pUp, pStage, pAssoc,
                    pTouched, pOwed, pLeft>>
    BY <1>1 DEF pvars
  <2>2. (PropsTyped /\ QueueOK)'
    BY <2>1 DEF PropsInv, PropsTyped, QueueOK
  <2>3. (Carried /\ Followed)'
    BY <2>1, Zenon DEF PropsInv, Carried, Followed, Announced, HasCap
  <2> QED
    BY <2>1, <2>2, <2>3 DEF PropsInv
<1> QED
  BY <1>1, GetKeeps, SetKeeps, SendKeepsProps, FetchKeeps, RestoreKeeps, AssociatesKeeps,
     ValueIsKeeps, LastStatusKeeps, HandlesKeeps, ChangesKeeps, NcpResetsKeeps,
     ResetCallKeeps, RefusalKeeps, EndsKeeps, FinishInitKeeps DEF PropsNext

\* At rest the invariant says what clients may rely on.
LEMMA AtRest ==
    ASSUME PropsInv
    PROVE  ValuesHold /\ CallsAnswered
<1>0. PropsTyped /\ QueueOK /\ Carried /\ Followed
  BY DEF PropsInv
<1>1. Len(pTodo) \in Nat /\ LeftOK(pLeft) /\ pTodo \in Seq(Todos)
  BY <1>0 DEF PropsTyped
<1>2. PropsTypeOK
  <2>1. Len(pTodo) <= MaxCalls + MaxChanges
    BY <1>0, <1>1, PropsAssumption DEF QueueOK, LeftOK
  <2> QED
    BY <1>0, <2>1 DEF PropsTypeOK, PropsTyped, QueueOK
<1>3. \A K, v : ~LastIn(<<>>, K, v) /\ NoneIn(<<>>, K)
  BY DEF LastIn, NoneIn
<1>4. CopyIsCurrent
  <2> SUFFICES ASSUME Quiet, pRow.get.from = "mirror",
                      \/ pRow.fetched /\ ~pIgnored
                      \/ pRow.associated /\ pAssoc
                      \/ pLeft.resets = MaxResets
               PROVE  pCopy = pNcp
    BY Zenon DEF CopyIsCurrent
  <2>1. pTodo = <<>> /\ pDown = <<>> /\ pUp = <<>> /\ pStage # "fetch"
    BY DEF Quiet
  <2> QED
    BY <1>0, <1>3, <2>1, Zenon DEF Followed, Announced
<1>5. SettingsHold
  <2> SUFFICES ASSUME Quiet, pSaved \in Accepted, HasCap(pRow.set.cap), ~pTouched, ~pIgnored
               PROVE  pNcp = pSaved
    BY Zenon DEF SettingsHold
  <2>1. pTodo = <<>> /\ pDown = <<>> /\ pUp = <<>> /\ pStage # "fetch" /\ pStage # "restore"
    BY DEF Quiet
  <2> QED
    BY <1>0, <1>3, <2>1, Zenon DEF Carried
<1>6. CallsAnswered
  BY <1>0, OwedIsNat, CallbacksOfNone DEF CallsAnswered, Quiet
<1> QED
  BY <1>2, <1>4, <1>5, <1>6 DEF ValuesHold

(***************************************************************************)
(* For every property that wfantund registers, and any number of calls,    *)
(* resets and changes of the NCP's own: what a client reads is the NCP's   *)
(* value and what was saved is restored (SpinelNCPInstance, set_spinel_prop *)
(* and vprocess_init), unless a reset came while the NCP was initialised.  *)
(***************************************************************************)
THEOREM ValuesAreHeld == PropsSpec => []ValuesHold
<1>1. PropsInv => ValuesHold
  BY AtRest
<1> QED
  BY <1>1, PropsStarts, PropsStepKeeps, PTL DEF PropsSpec

(***************************************************************************)
(* Every call of a client is answered once, also those that a reset of the *)
(* NCP cuts off (SpinelNCPInstance::reset_tasks, SpinelNCPTask::finish).   *)
(***************************************************************************)
THEOREM CallsAreAnswered == PropsSpec => []CallsAnswered
<1>1. PropsInv => CallsAnswered
  BY AtRest
<1> QED
  BY <1>1, PropsStarts, PropsStepKeeps, PTL DEF PropsSpec

-----------------------------------------------------------------------------
(* LhFifo: the inductive invariant.                                        *)

SideType == [kind : {"app", "fd"}, at : {"idle", "setup", "move", "update", "wait", "dead"},
             cnt : Nat, left : Nat, some : BOOLEAN, wait : Timeouts]

DeviceType == [came : Nat, read : Nat, state : {"alive", "exit", "dead"},
               is_error : BOOLEAN, closed : BOOLEAN, freed : BOOLEAN]

FifoTypeOK ==
    /\ fifo \in [pBuf : [0..(FifoDepth - 1) -> Nat], cnt : 0..FifoDepth,
                 wr_idx : 0..(FifoDepth - 1), rd_idx : 0..(FifoDepth - 1),
                 in_sem : Nat, rm_sem : Nat]
    /\ producer \in SideType /\ consumer \in SideType
    /\ device \in DeviceType
    /\ fifoGot \in Seq(Nat)

\* What a side has copied and not yet reported with its update.
Copied(s) == IF s.at = "update" THEN s.cnt ELSE 0

\* The number of the byte before the one at rd_idx.
Base == Len(fifoGot) - Copied(consumer)

\* The indices are cnt apart on the ring, and the bytes read from the line
\* are those removed, those counted, and those copied and not yet counted.
Accounted ==
    /\ fifo.wr_idx = fifo.rd_idx + fifo.cnt \/ fifo.wr_idx = fifo.rd_idx + fifo.cnt - FifoDepth
    /\ device.read = Base + fifo.cnt + Copied(producer)

\* The region a side works on is its own: free items for the producer, filled
\* ones for the consumer, and it does not run over the end of the buffer.
RegionsHeld ==
    /\ producer.at \in {"move", "update"} =>
          /\ producer.cnt + fifo.cnt <= FifoDepth
          /\ producer.cnt + fifo.wr_idx <= FifoDepth
          /\ producer.kind = "app" => producer.cnt <= producer.left
    /\ consumer.at \in {"move", "update"} =>
          /\ consumer.cnt <= fifo.cnt
          /\ consumer.cnt + fifo.rd_idx <= FifoDepth
          /\ consumer.kind = "app" => consumer.cnt <= consumer.left

\* The k-th item from rd_idx on, round the end of the buffer, is the k-th
\* byte after those removed.
Content ==
    \A k \in 0..(FifoDepth - 1), i \in 0..(FifoDepth - 1) :
        /\ k < fifo.cnt + Copied(producer)
        /\ i = fifo.rd_idx + k \/ i = fifo.rd_idx + k - FifoDepth
        => fifo.pBuf[i] = Base + 1 + k

FifoInv == FifoTypeOK /\ Accounted /\ RegionsHeld /\ Content /\ FifoDelivers

\* Where an index may wrap it wraps at the end of the buffer only.
LEMMA RemainderAtEnd ==
    ASSUME NEW a \in 0..FifoDepth
    PROVE  a % FifoDepth = IF a = FifoDepth THEN 0 ELSE a
BY FifoAssumption, SMT

\* The parts of the types that the arithmetic is about.
LEMMA FifoFields ==
    ASSUME FifoTypeOK
    PROVE  /\ fifo.cnt \in 0..FifoDepth
           /\ fifo.wr_idx \in 0..(FifoDepth - 1) /\ fifo.rd_idx \in 0..(FifoDepth - 1)
           /\ fifo.in_sem \in Nat /\ fifo.rm_sem \in Nat
           /\ fifo.pBuf \in [0..(FifoDepth - 1) -> Nat]
           /\ device.came \in Nat /\ device.read \in Nat
           /\ producer.cnt \in Nat /\ producer.left \in Nat
           /\ consumer.cnt \in Nat /\ consumer.left \in Nat
           /\ Len(fifoGot) \in Nat
<1>1. /\ fifo.cnt \in 0..FifoDepth
      /\ fifo.wr_idx \in 0..(FifoDepth - 1) /\ fifo.rd_idx \in 0..(FifoDepth - 1)
      /\ fifo.in_sem \in Nat /\ fifo.rm_sem \in Nat
      /\ fifo.pBuf \in [0..(FifoDepth - 1) -> Nat]
  BY DEF FifoTypeOK
<1>2. device.came \in Nat /\ device.read \in Nat
  BY DEF FifoTypeOK, DeviceType
<1>3. /\ producer.cnt \in Nat /\ producer.left \in Nat
      /\ consumer.cnt \in Nat /\ consumer.left \in Nat
  BY DEF FifoTypeOK, SideType
<1>4. Len(fifoGot) \in Nat
  BY DEF FifoTypeOK
<1> QED
  BY <1>1, <1>2, <1>3, <1>4

\* FIFO_insertDMA_setup() offers items that are free and contiguous, and none
\* only when the buffer is full.
LEMMA InsertRegionIsFree ==
    ASSUME FifoTypeOK, Accounted
    PROVE  /\ InsertRegion \in Nat
           /\ InsertRegion + fifo.cnt <= FifoDepth
           /\ InsertRegion + fifo.wr_idx <= FifoDepth
           /\ InsertRegion = 0 => fifo.cnt = FifoDepth
<1>1. fifo.wr_idx = fifo.rd_idx + fifo.cnt \/ fifo.wr_idx = fifo.rd_idx + fifo.cnt - FifoDepth
  BY DEF Accounted
<1>2. /\ fifo.cnt \in 0..FifoDepth
      /\ fifo.wr_idx \in 0..(FifoDepth - 1) /\ fifo.rd_idx \in 0..(FifoDepth - 1)
  BY FifoFields
<1>3. CASE fifo.cnt = FifoDepth
  BY <1>2, <1>3, FifoAssumption DEF InsertRegion
<1>4. CASE fifo.cnt # FifoDepth /\ fifo.wr_idx >= fifo.rd_idx
  <2>1. InsertRegion = FifoDepth - fifo.wr_idx
    BY <1>4 DEF InsertRegion
  <2> QED
    BY <1>1, <1>2, <1>4, <2>1, FifoAssumption
<1>5. CASE fifo.cnt # FifoDepth /\ ~(fifo.wr_idx >= fifo.rd_idx)
  <2>1. InsertRegion = fifo.rd_idx - fifo.wr_idx
    BY <1>5 DEF InsertRegion
  <2> QED
    BY <1>1, <1>2, <1>5, <2>1, FifoAssumption
<1> QED
  BY <1>3, <1>4, <1>5

\* FIFO_removeDMA_setup() offers filled, contiguous items, and none only when
\* the buffer is empty.
LEMMA RemoveRegionIsFilled ==
    ASSUME FifoTypeOK, Accounted
    PROVE  /\ RemoveRegion \in Nat
           /\ RemoveRegion <= fifo.cnt
           /\ RemoveRegion + fifo.rd_idx <= FifoDepth
           /\ RemoveRegion = 0 => fifo.cnt = 0
<1>1. fifo.wr_idx = fifo.rd_idx + fifo.cnt \/ fifo.wr_idx = fifo.rd_idx + fifo.cnt - FifoDepth
  BY DEF Accounted
<1>2. /\ fifo.cnt \in 0..FifoDepth
      /\ fifo.wr_idx \in 0..(FifoDepth - 1) /\ fifo.rd_idx \in 0..(FifoDepth - 1)
  BY FifoFields
<1> QED
  BY <1>1, <1>2, FifoAssumption DEF RemoveRegion

\* A side that gives up goes on or rests.
LEMMA GivesUpResult ==
    ASSUME NEW s \in SideType
    PROVE  /\ GivesUp(s) \in SideType
           /\ GivesUp(s).at \in {"idle", "setup"}
           /\ GivesUp(s).kind = s.kind /\ GivesUp(s).left = s.left
BY DEF SideType, GivesUp

\* A side moves no more than the region holds and than it has left to move,
\* and waits only when there is no region.
LEMMA SetupResult ==
    ASSUME NEW s \in SideType, NEW region \in Nat
    PROVE  /\ Setup(s, region) \in SideType
           /\ Setup(s, region).kind = s.kind /\ Setup(s, region).left = s.left
           /\ Setup(s, region).at \in {"idle", "setup", "move", "wait"}
           /\ Setup(s, region).at = "move" =>
                 /\ Setup(s, region).cnt <= region
                 /\ s.kind = "app" => Setup(s, region).cnt <= s.left
           /\ Setup(s, region).at = "wait" => region = 0
<1>1. CASE region > 0
  <2> DEFINE n == IF s.kind = "app" /\ s.left < region THEN s.left ELSE region
  <2>1. s.left \in Nat
    BY DEF SideType
  <2>2. n \in Nat /\ n <= region /\ (s.kind = "app" => n <= s.left)
    BY <2>1
  <2>3. Setup(s, region) = [s EXCEPT !.at = "move", !.cnt = n]
    BY <1>1 DEF Setup
  <2> HIDE DEF n
  <2>4. /\ [s EXCEPT !.at = "move", !.cnt = n] \in SideType
        /\ [s EXCEPT !.at = "move", !.cnt = n].at = "move"
        /\ [s EXCEPT !.at = "move", !.cnt = n].cnt = n
        /\ [s EXCEPT !.at = "move", !.cnt = n].kind = s.kind
        /\ [s EXCEPT !.at = "move", !.cnt = n].left = s.left
    BY <2>2 DEF SideType
  <2> QED
    BY <2>2, <2>3, <2>4
<1>2. CASE region = 0 /\ s.kind = "app" /\ s.wait # "none"
  <2>1. Setup(s, region) = [s EXCEPT !.at = "wait"]
    BY <1>2 DEF Setup
  <2>2. /\ [s EXCEPT !.at = "wait"] \in SideType
        /\ [s EXCEPT !.at = "wait"].at = "wait"
        /\ [s EXCEPT !.at = "wait"].kind = s.kind
        /\ [s EXCEPT !.at = "wait"].left = s.left
    BY DEF SideType
  <2> QED
    BY <1>2, <2>1, <2>2
<1>3. CASE region = 0 /\ ~(s.kind = "app" /\ s.wait # "none")
  <2>1. Setup(s, region) = GivesUp(s)
    BY <1>3 DEF Setup
  <2> QED
    BY <1>3, <2>1, GivesUpResult
<1> QED
  BY <1>1, <1>2, <1>3

\* After an update a side goes on or rests.
LEMMA MovedResult ==
    ASSUME NEW s \in SideType, s.kind = "app" => s.cnt <= s.left
    PROVE  /\ Moved(s) \in SideType
           /\ Moved(s).at \in {"idle", "setup"}
<1>1. s.kind = "app" => s.left - s.cnt \in Nat
  BY DEF SideType
<1>2. CASE s.kind = "fd"
  BY <1>2 DEF SideType, Moved
<1>3. CASE s.kind # "fd"
  <2>1. Moved(s) = [s EXCEPT !.at = IF s.left = s.cnt THEN "idle" ELSE "setup",
                             !.left = s.left - s.cnt, !.some = s.left # s.cnt, !.cnt = 0]
    BY <1>3 DEF Moved
  <2>2. s.kind = "app"
    BY <1>3 DEF SideType
  <2>3. s.left - s.cnt \in Nat /\ 0 \in Nat
    BY <1>1, <2>2
  <2> DEFINE l == s.left - s.cnt
  <2> HIDE DEF l
  <2>4. l \in Nat /\ Moved(s) = [s EXCEPT !.at = IF s.left = s.cnt THEN "idle" ELSE "setup",
                             !.left = l, !.some = s.left # s.cnt, !.cnt = 0]
    BY <2>1, <2>3 DEF l
  <2> QED
    BY <2>3, <2>4 DEF SideType
<1> QED
  BY <1>2, <1>3

\* An empty FIFO, as FIFO_create() leaves it, satisfies the invariant.
LEMMA FifoStarts == FifoInit({"app", "fd"}, {"app", "fd"}) => FifoInv
<1> SUFFICES ASSUME FifoInit({"app", "fd"}, {"app", "fd"}) PROVE FifoInv
  OBVIOUS
<1> USE FifoAssumption
<1>1. FifoTypeOK
  BY DEF FifoInit, FifoTypeOK, Side, SideType, DeviceType, Timeouts
<1>2. Accounted /\ RegionsHeld
  BY DEF FifoInit, Accounted, RegionsHeld, Side, Base, Copied
<1>3. Content
  BY DEF FifoInit, Content, Side, Copied
<1>4. FifoDelivers
  BY DEF FifoInit, FifoDelivers, Side
<1> QED
  BY <1>1, <1>2, <1>3, <1>4 DEF FifoInv

\* A step that copies nothing and counts nothing leaves the account as it is.
LEMMA SameRing ==
    ASSUME FifoInv, fifoGot' = fifoGot, device'.read = device.read,
           fifo'.pBuf = fifo.pBuf, fifo'.cnt = fifo.cnt,
           fifo'.wr_idx = fifo.wr_idx, fifo'.rd_idx = fifo.rd_idx,
           Copied(producer)' = Copied(producer), Copied(consumer)' = Copied(consumer)
    PROVE  Accounted' /\ Content'
<1>1. Base' = Base
  BY DEF Base
<1> QED
  BY <1>1 DEF FifoInv, Accounted, Content

\* Steps of the line and of whoever closes the stream.
LEMMA DeviceStepKeeps ==
    ASSUME FifoInv, device' \in DeviceType, device'.read = device.read,
           UNCHANGED <<fifo, producer, consumer, fifoGot>>
    PROVE  FifoInv'
<1>1. Copied(producer)' = Copied(producer) /\ Copied(consumer)' = Copied(consumer)
  BY DEF Copied
<1>2. Accounted' /\ Content'
  BY <1>1, SameRing
<1>3. FifoTypeOK' /\ RegionsHeld' /\ FifoDelivers'
  BY DEF FifoInv, FifoTypeOK, RegionsHeld, FifoDelivers
<1> QED
  BY <1>2, <1>3 DEF FifoInv

\* Steps in which the producer, with nothing copied, goes where it owns no
\* region and does not wait.
LEMMA ProducerStepKeeps ==
    ASSUME FifoInv, producer.at # "update", producer' \in SideType,
           producer'.at \in {"idle", "setup", "dead"},
           device' \in DeviceType, device'.read = device.read,
           UNCHANGED <<fifo, consumer, fifoGot>>
    PROVE  FifoInv'
<1>1. Copied(producer)' = Copied(producer) /\ Copied(consumer)' = Copied(consumer)
  BY DEF Copied
<1>2. Accounted' /\ Content'
  BY <1>1, SameRing
<1>3. FifoTypeOK' /\ RegionsHeld' /\ FifoDelivers'
  BY DEF FifoInv, FifoTypeOK, RegionsHeld, FifoDelivers
<1> QED
  BY <1>2, <1>3 DEF FifoInv

\* The same of the consumer.
LEMMA ConsumerStepKeeps ==
    ASSUME FifoInv, consumer.at # "update", consumer' \in SideType,
           consumer'.at \in {"idle", "setup", "dead"},
           UNCHANGED <<fifo, producer, device, fifoGot>>
    PROVE  FifoInv'
<1>1. Copied(producer)' = Copied(producer) /\ Copied(consumer)' = Copied(consumer)
  BY DEF Copied
<1>2. Accounted' /\ Content'
  BY <1>1, SameRing
<1>3. FifoTypeOK' /\ RegionsHeld' /\ FifoDelivers'
  BY DEF FifoInv, FifoTypeOK, RegionsHeld, FifoDelivers
<1> QED
  BY <1>2, <1>3 DEF FifoInv

\* The line and the receive thread keep the invariant.
LEMMA LineStepsKeep ==
    FifoInv /\ (Arrives \/ DeviceFails \/ _uart_rx_thread \/ _uart_closePtr \/ FIFO_destroy)
        => FifoInv'
<1> SUFFICES ASSUME FifoInv
             PROVE  Arrives \/ DeviceFails \/ _uart_rx_thread \/ _uart_closePtr \/ FIFO_destroy
                      => FifoInv'
  OBVIOUS
<1> USE DEF DeviceType
<1>0. device \in DeviceType /\ producer \in SideType /\ device.came + 1 \in Nat
  BY FifoFields DEF FifoInv, FifoTypeOK
<1>1. CASE Arrives
  <2> DEFINE c == device.came + 1
  <2>1. device' = [device EXCEPT !.came = c] /\ c \in Nat
    BY <1>0, <1>1 DEF Arrives
  <2> HIDE DEF c
  <2>2. device' \in DeviceType /\ device'.read = device.read
    BY <1>0, <2>1
  <2> QED
    BY <1>1, <2>2, DeviceStepKeeps DEF Arrives
<1>2. CASE DeviceFails
  <2>1. device' \in DeviceType /\ device'.read = device.read
    BY <1>0, <1>2 DEF DeviceFails
  <2>2. producer' \in SideType /\ producer'.at = "idle" /\ producer.at # "update"
    BY <1>0, <1>2 DEF DeviceFails, SideType
  <2> QED
    BY <1>2, <2>1, <2>2, ProducerStepKeeps DEF DeviceFails
<1>3. CASE _uart_rx_thread
  <2>1. device' \in DeviceType /\ device'.read = device.read
    BY <1>0, <1>3 DEF _uart_rx_thread
  <2>2. /\ producer' \in SideType /\ producer'.at \in {"setup", "dead"}
        /\ producer.at # "update"
    BY <1>0, <1>3 DEF _uart_rx_thread, SideType
  <2> QED
    BY <1>3, <2>1, <2>2, ProducerStepKeeps DEF _uart_rx_thread
<1>4. CASE _uart_closePtr
  <2>1. device' \in DeviceType /\ device'.read = device.read
    BY <1>0, <1>4 DEF _uart_closePtr
  <2> QED
    BY <1>4, <2>1, DeviceStepKeeps DEF _uart_closePtr
<1>5. CASE FIFO_destroy
  <2>1. device' \in DeviceType /\ device'.read = device.read
    BY <1>0, <1>5 DEF FIFO_destroy
  <2> QED
    BY <1>5, <2>1, DeviceStepKeeps DEF FIFO_destroy
<1> QED
  BY <1>1, <1>2, <1>3, <1>4, <1>5

\* So do the calls of FIFO_insertWithTimeout() and FIFO_removeWithTimeout().
LEMMA CallsKeep ==
    ASSUME FifoInv, NEW n \in 1..MaxTodo, NEW w \in Timeouts,
           InsertCalled(n, w) \/ RemoveCalled(n, w)
    PROVE  FifoInv'
<1>a. device \in DeviceType /\ producer \in SideType /\ consumer \in SideType
  BY DEF FifoInv, FifoTypeOK
<1>b. device.came \in Nat
  BY FifoFields DEF FifoInv
<1>c. n \in Nat
  BY FifoAssumption
<1>0. /\ device \in DeviceType /\ producer \in SideType /\ consumer \in SideType
      /\ n \in Nat /\ device.came + n \in Nat
  BY <1>a, <1>b, <1>c
<1>1. CASE InsertCalled(n, w)
  <2> DEFINE c == device.came + n
  <2>1. device' = [device EXCEPT !.came = c] /\ c \in Nat
    BY <1>0, <1>1 DEF InsertCalled
  <2> HIDE DEF c
  <2>2. device' \in DeviceType /\ device'.read = device.read
    BY <1>0, <2>1 DEF DeviceType
  <2>3. producer' \in SideType /\ producer'.at = "setup" /\ producer.at # "update"
    BY <1>0, <1>1 DEF InsertCalled, SideType
  <2> QED
    BY <1>1, <2>2, <2>3, ProducerStepKeeps DEF InsertCalled
<1>2. CASE RemoveCalled(n, w)
  <2>1. consumer' \in SideType /\ consumer'.at = "setup" /\ consumer.at # "update"
    BY <1>0, <1>2 DEF RemoveCalled, SideType
  <2> QED
    BY <1>2, <2>1, ConsumerStepKeeps DEF RemoveCalled
<1> QED
  BY <1>1, <1>2

\* The region that FIFO_insertDMA_setup() hands out is free and in one piece.
LEMMA InsertSetupKeeps == FifoInv /\ FIFO_insertDMA_setup => FifoInv'
<1> SUFFICES ASSUME FifoInv, FIFO_insertDMA_setup PROVE FifoInv'
  OBVIOUS
<1> DEFINE r == InsertRegion
<1>1. /\ r \in Nat /\ r + fifo.cnt <= FifoDepth /\ r + fifo.wr_idx <= FifoDepth
      /\ r = 0 => fifo.cnt = FifoDepth
  BY InsertRegionIsFree DEF FifoInv
<1>2. producer \in SideType /\ producer' = Setup(producer, r)
  BY DEF FifoInv, FifoTypeOK, FIFO_insertDMA_setup
<1> HIDE DEF r
<1>3. /\ producer' \in SideType
      /\ producer'.kind = producer.kind /\ producer'.left = producer.left
      /\ producer'.at \in {"idle", "setup", "move", "wait"}
      /\ producer'.at = "move" => /\ producer'.cnt <= r
                                  /\ producer.kind = "app" => producer'.cnt <= producer.left
      /\ producer'.at = "wait" => r = 0
  BY <1>1, <1>2, SetupResult
<1>4. /\ fifo' = fifo /\ consumer' = consumer /\ fifoGot' = fifoGot
      /\ device'.read = device.read
      /\ device' \in DeviceType
  BY DEF FifoInv, FifoTypeOK, DeviceType, FIFO_insertDMA_setup
<1>5. producer.at = "setup"
  BY DEF FIFO_insertDMA_setup
<1>6. Copied(producer)' = Copied(producer) /\ Base' = Base
  BY <1>3, <1>4, <1>5 DEF Copied, Base
<1>7. FifoTypeOK'
  BY <1>3, <1>4 DEF FifoInv, FifoTypeOK
<1>8. Accounted'
  BY <1>4, <1>6 DEF FifoInv, Accounted
<1>9. RegionsHeld'
  <2>1. RegionsHeld /\ fifo.cnt \in Int /\ fifo.wr_idx \in Int /\ FifoDepth \in Int
    BY FifoFields, FifoAssumption DEF FifoInv
  <2>2. producer'.cnt \in Int
    BY <1>3 DEF SideType
  <2> QED
    BY <1>1, <1>3, <1>4, <2>1, <2>2 DEF RegionsHeld
<1>10. Content'
  BY <1>4, <1>6 DEF FifoInv, Content
<1>11. FifoDelivers'
  BY <1>1, <1>3, <1>4 DEF FifoInv, FifoTypeOK, FifoDelivers
<1> QED
  BY <1>7, <1>8, <1>9, <1>10, <1>11 DEF FifoInv

\* The region that FIFO_removeDMA_setup() hands out is filled and in one piece.
LEMMA RemoveSetupKeeps == FifoInv /\ FIFO_removeDMA_setup => FifoInv'
<1> SUFFICES ASSUME FifoInv, FIFO_removeDMA_setup PROVE FifoInv'
  OBVIOUS
<1> DEFINE r == RemoveRegion
<1>1. /\ r \in Nat /\ r <= fifo.cnt /\ r + fifo.rd_idx <= FifoDepth
      /\ r = 0 => fifo.cnt = 0
  BY RemoveRegionIsFilled DEF FifoInv
<1>2. consumer \in SideType /\ consumer' = Setup(consumer, r)
  BY DEF FifoInv, FifoTypeOK, FIFO_removeDMA_setup
<1> HIDE DEF r
<1>3. /\ consumer' \in SideType
      /\ consumer'.kind = consumer.kind /\ consumer'.left = consumer.left
      /\ consumer'.at \in {"idle", "setup", "move", "wait"}
      /\ consumer'.at = "move" => /\ consumer'.cnt <= r
                                  /\ consumer.kind = "app" => consumer'.cnt <= consumer.left
      /\ consumer'.at = "wait" => r = 0
  BY <1>1, <1>2, SetupResult
<1>4. /\ fifo' = fifo /\ producer' = producer /\ fifoGot' = fifoGot /\ device' = device
      /\ consumer.at = "setup"
  BY DEF FIFO_removeDMA_setup
<1>5. Copied(producer)' = Copied(producer) /\ Copied(consumer)' = Copied(consumer)
  BY <1>3, <1>4 DEF Copied
<1>6. Accounted' /\ Content'
  BY <1>4, <1>5, SameRing
<1>7. FifoTypeOK'
  BY <1>3, <1>4 DEF FifoInv, FifoTypeOK
<1>8. RegionsHeld'
  <2>1. RegionsHeld /\ fifo.cnt \in Int /\ fifo.rd_idx \in Int /\ FifoDepth \in Int
    BY FifoFields, FifoAssumption, SMTT(30) DEF FifoInv
  <2>2. consumer'.cnt \in Int
    BY <1>3 DEF SideType
  <2> QED
    BY <1>1, <1>3, <1>4, <2>1, <2>2 DEF RegionsHeld
<1>9. FifoDelivers'
  <2>1. fifo.cnt \in Int
    BY FifoFields DEF FifoInv
  <2> QED
    BY <1>1, <1>3, <1>4, <2>1 DEF FifoInv, FifoDelivers
<1> QED
  BY <1>6, <1>7, <1>8, <1>9 DEF FifoInv

\* A token taken by a side that then looks again.
LEMMA WaitsKeep == FifoInv /\ (ProducerWaits \/ ConsumerWaits) => FifoInv'
<1> SUFFICES ASSUME FifoInv PROVE ProducerWaits \/ ConsumerWaits => FifoInv'
  OBVIOUS
<1>0. /\ device \in DeviceType /\ producer \in SideType /\ consumer \in SideType
      /\ device.read \in Nat /\ fifo.rm_sem \in Nat /\ fifo.in_sem \in Nat
  BY FifoFields DEF FifoInv, FifoTypeOK
<1>1. ASSUME ProducerWaits, fifo.rm_sem > 0,
             fifo' = [fifo EXCEPT !.rm_sem = @ - 1],
             producer' = [producer EXCEPT !.at = "setup"], UNCHANGED device
      PROVE  FifoInv'
  <2>1. /\ consumer' = consumer /\ fifoGot' = fifoGot /\ device' = device
        /\ producer.at = "wait"
    BY <1>1 DEF ProducerWaits
  <2> DEFINE m == fifo.rm_sem - 1
  <2>2. m \in Nat /\ fifo' = [fifo EXCEPT !.rm_sem = m]
    BY <1>0, <1>1
  <2> HIDE DEF m
  <2>3. /\ fifo'.pBuf = fifo.pBuf /\ fifo'.cnt = fifo.cnt /\ fifo'.wr_idx = fifo.wr_idx
        /\ fifo'.rd_idx = fifo.rd_idx /\ fifo'.in_sem = fifo.in_sem
    BY <2>2 DEF FifoInv, FifoTypeOK
  <2>4. producer' \in SideType /\ producer'.at = "setup"
    BY <1>0, <1>1 DEF SideType
  <2>5. FifoTypeOK'
    BY <2>1, <2>2, <2>4 DEF FifoInv, FifoTypeOK
  <2>6. Copied(producer)' = Copied(producer) /\ Copied(consumer)' = Copied(consumer)
    BY <2>1, <2>4 DEF Copied
  <2>7. Accounted' /\ Content'
    BY <2>1, <2>3, <2>6, SameRing
  <2>8. RegionsHeld' /\ FifoDelivers'
    BY <2>1, <2>3, <2>4 DEF FifoInv, RegionsHeld, FifoDelivers
  <2> QED
    BY <2>5, <2>7, <2>8 DEF FifoInv
<1>2. ASSUME ProducerWaits, producer' = GivesUp(producer), UNCHANGED fifo,
             device' = IF producer.some THEN device ELSE [device EXCEPT !.came = device.read]
      PROVE  FifoInv'
  <2>1. /\ consumer' = consumer /\ fifoGot' = fifoGot /\ producer.at # "update"
    BY <1>2 DEF ProducerWaits
  <2>2. device' \in DeviceType /\ device'.read = device.read
    BY <1>0, <1>2 DEF DeviceType
  <2>3. producer' \in SideType /\ producer'.at \in {"idle", "setup"}
    BY <1>0, <1>2, GivesUpResult
  <2> QED
    BY <1>2, <2>1, <2>2, <2>3, ProducerStepKeeps
<1>3. ASSUME ConsumerWaits, fifo.in_sem > 0,
             fifo' = [fifo EXCEPT !.in_sem = @ - 1],
             consumer' = [consumer EXCEPT !.at = "setup"]
      PROVE  FifoInv'
  <2>1. /\ producer' = producer /\ fifoGot' = fifoGot /\ device' = device
        /\ consumer.at = "wait"
    BY <1>3 DEF ConsumerWaits
  <2> DEFINE m == fifo.in_sem - 1
  <2>2. m \in Nat /\ fifo' = [fifo EXCEPT !.in_sem = m]
    BY <1>0, <1>3
  <2> HIDE DEF m
  <2>3. /\ fifo'.pBuf = fifo.pBuf /\ fifo'.cnt = fifo.cnt /\ fifo'.wr_idx = fifo.wr_idx
        /\ fifo'.rd_idx = fifo.rd_idx /\ fifo'.rm_sem = fifo.rm_sem
    BY <2>2 DEF FifoInv, FifoTypeOK
  <2>4. consumer' \in SideType /\ consumer'.at = "setup"
    BY <1>0, <1>3 DEF SideType
  <2>5. FifoTypeOK'
    BY <2>1, <2>2, <2>4 DEF FifoInv, FifoTypeOK
  <2>6. Copied(producer)' = Copied(producer) /\ Copied(consumer)' = Copied(consumer)
    BY <2>1, <2>4 DEF Copied
  <2>7. Accounted' /\ Content'
    BY <2>1, <2>3, <2>6, SameRing
  <2>8. RegionsHeld' /\ FifoDelivers'
    BY <2>1, <2>3, <2>4 DEF FifoInv, RegionsHeld, FifoDelivers
  <2> QED
    BY <2>5, <2>7, <2>8 DEF FifoInv
<1>4. ASSUME ConsumerWaits, consumer' = GivesUp(consumer), UNCHANGED fifo
      PROVE  FifoInv'
  <2>1. UNCHANGED <<producer, device, fifoGot>> /\ consumer.at # "update"
    BY <1>4 DEF ConsumerWaits
  <2>2. consumer' \in SideType /\ consumer'.at \in {"idle", "setup"}
    BY <1>0, <1>4, GivesUpResult
  <2> QED
    BY <1>4, <2>1, <2>2, ConsumerStepKeeps
<1>5. ProducerWaits => FifoInv'
  BY <1>1, <1>2 DEF ProducerWaits
<1>6. ConsumerWaits => FifoInv'
  BY <1>3, <1>4 DEF ConsumerWaits
<1> QED
  BY <1>5, <1>6

\* On a ring of d items of which c are filled from r on, the n items from w on
\* are the free ones that follow.
LEMMA RingPlaces ==
    ASSUME NEW d \in Nat, NEW w \in 0..(d - 1), NEW r \in 0..(d - 1), NEW c \in 0..d,
           NEW n \in Nat, NEW k \in 0..(d - 1), NEW i \in 0..(d - 1),
           n + c <= d, n + w <= d, k < c + n,
           w = r + c \/ w = r + c - d, i = r + k \/ i = r + k - d
    PROVE  /\ k < c => ~(i >= w /\ i < w + n)
           /\ k >= c => i - w = k - c
OBVIOUS

\* The bytes a read() or memcpy() puts into the producer's region overwrite
\* nothing that is still to be removed, and are the next ones of the line.
LEMMA FillsKeeps == FifoInv /\ FillsRegion => FifoInv'
<1> SUFFICES ASSUME FifoInv, FillsRegion PROVE FifoInv'
  OBVIOUS
<1>0. /\ fifo.cnt \in 0..FifoDepth
      /\ fifo.wr_idx \in 0..(FifoDepth - 1) /\ fifo.rd_idx \in 0..(FifoDepth - 1)
      /\ device.read \in Nat /\ producer.cnt \in Nat /\ producer.left \in Nat
      /\ consumer.cnt \in Nat /\ Len(fifoGot) \in Nat /\ FifoDepth \in Nat
  BY FifoFields, FifoAssumption DEF FifoInv
<1>1. producer \in SideType /\ device \in DeviceType /\ producer.at = "move"
  BY DEF FifoInv, FifoTypeOK, FillsRegion
<1>p. fifo.pBuf \in [0..(FifoDepth - 1) -> Nat]
  BY FifoFields DEF FifoInv
<1> DEFINE Filled(n) ==
         /\ fifo' = [fifo EXCEPT !.pBuf = [i \in 0..(FifoDepth - 1) |->
                       IF i >= fifo.wr_idx /\ i < fifo.wr_idx + n
                       THEN device.read + 1 + i - fifo.wr_idx ELSE @[i]]]
         /\ device' = [device EXCEPT !.read = @ + n]
         /\ producer' = [producer EXCEPT !.cnt = n,
                                         !.at = IF n = 0 THEN "idle" ELSE "update"]
<1> HIDE DEF Filled
<1>2. \E n \in Nat : n <= producer.cnt /\ Filled(n)
  <2>1. CASE producer.kind = "app"
    <3>1. Filled(producer.cnt)
      BY <2>1 DEF FillsRegion, Filled
    <3> QED
      BY <1>0, <3>1
  <2>2. CASE producer.kind # "app"
    <3>1. \E n \in ReadResults : Filled(n)
      BY <2>2 DEF FillsRegion, Filled
    <3>2. \A n \in ReadResults : n \in Nat /\ n <= producer.cnt
      BY <1>0 DEF ReadResults
    <3> QED
      BY <3>1, <3>2
  <2> QED
    BY <2>1, <2>2
<1>f. PICK n \in Nat : n <= producer.cnt /\ Filled(n)
  BY <1>2
<1>3. n \in Nat /\ n <= producer.cnt
  BY <1>f
<1>4. /\ n + fifo.cnt <= FifoDepth /\ n + fifo.wr_idx <= FifoDepth
      /\ producer.kind = "app" => n <= producer.left
  <2>1. /\ producer.cnt + fifo.cnt <= FifoDepth /\ producer.cnt + fifo.wr_idx <= FifoDepth
        /\ producer.kind = "app" => producer.cnt <= producer.left
    BY <1>1 DEF FifoInv, RegionsHeld
  <2> QED
    BY <1>0, <1>3, <2>1, SMTT(30)
<1>5. consumer' = consumer /\ fifoGot' = fifoGot
  BY DEF FillsRegion
<1>6. /\ fifo'.cnt = fifo.cnt /\ fifo'.wr_idx = fifo.wr_idx /\ fifo'.rd_idx = fifo.rd_idx
      /\ fifo'.in_sem = fifo.in_sem /\ fifo'.rm_sem = fifo.rm_sem
      /\ fifo'.pBuf = [i \in 0..(FifoDepth - 1) |->
                         IF i >= fifo.wr_idx /\ i < fifo.wr_idx + n
                         THEN device.read + 1 + i - fifo.wr_idx ELSE fifo.pBuf[i]]
  BY <1>3, <1>f DEF FifoInv, FifoTypeOK, Filled
<1>7. device'.read = device.read + n /\ device' \in DeviceType
  <2> DEFINE d == device.read + n
  <2>1. d \in Nat /\ device' = [device EXCEPT !.read = d]
    BY <1>0, <1>3, <1>f DEF Filled
  <2> HIDE DEF d
  <2>2. device'.read = d /\ device' \in DeviceType
    BY <1>1, <2>1 DEF DeviceType
  <2> QED
    BY <2>2 DEF d
<1>8. /\ producer' \in SideType /\ producer'.kind = producer.kind
      /\ producer'.left = producer.left /\ producer'.cnt = n
      /\ producer'.at = IF n = 0 THEN "idle" ELSE "update"
  BY <1>1, <1>3, <1>f DEF SideType, Filled
<1>9. Copied(producer)' = n /\ Copied(producer) = 0 /\ Base' = Base /\ Base \in Int
  <2>1. Copied(producer)' = n /\ Copied(producer) = 0
    BY <1>1, <1>8 DEF Copied
  <2>2. Base' = Base /\ Base \in Int
    BY <1>0, <1>5 DEF Copied, Base
  <2> QED
    BY <2>1, <2>2
<1>10. device.read = Base + fifo.cnt
  BY <1>0, <1>9 DEF FifoInv, Accounted
<1>i. fifo.wr_idx = fifo.rd_idx + fifo.cnt \/ fifo.wr_idx = fifo.rd_idx + fifo.cnt - FifoDepth
  BY DEF FifoInv, Accounted
<1>11. FifoTypeOK'
  <2>1. fifo'.pBuf \in [0..(FifoDepth - 1) -> Nat]
    <3>1. ASSUME NEW i \in 0..(FifoDepth - 1) PROVE fifo'.pBuf[i] \in Nat
      <4>1. CASE i >= fifo.wr_idx /\ i < fifo.wr_idx + n
        <5>1. fifo'.pBuf[i] = device.read + 1 + i - fifo.wr_idx
          BY <1>6, <4>1
        <5> QED
          BY <1>0, <4>1, <5>1, SMTT(30)
      <4>2. CASE ~(i >= fifo.wr_idx /\ i < fifo.wr_idx + n)
        <5>1. fifo'.pBuf[i] = fifo.pBuf[i]
          BY <1>6, <4>2
        <5> QED
          BY <1>p, <5>1
      <4> QED
        BY <4>1, <4>2
    <3> DEFINE f == fifo'.pBuf
    <3>2. f = [i \in 0..(FifoDepth - 1) |-> f[i]]
      BY <1>6
    <3> QED
      BY <3>1, <3>2
  <2>2. fifo' = [fifo EXCEPT !.pBuf = fifo'.pBuf]
    BY <1>3, <1>f, <1>6 DEF Filled
  <2>3. fifo' \in [pBuf : [0..(FifoDepth - 1) -> Nat], cnt : 0..FifoDepth,
                   wr_idx : 0..(FifoDepth - 1), rd_idx : 0..(FifoDepth - 1),
                   in_sem : Nat, rm_sem : Nat]
    BY <2>1, <2>2 DEF FifoInv, FifoTypeOK
  <2> QED
    BY <1>5, <1>7, <1>8, <2>3 DEF FifoInv, FifoTypeOK
<1>12. Accounted'
  <2>1. device'.read = Base' + fifo'.cnt + Copied(producer)'
    BY <1>0, <1>3, <1>6, <1>7, <1>9, <1>10
  <2> QED
    BY <1>6, <1>i, <2>1 DEF Accounted
<1>13. RegionsHeld'
  BY <1>4, <1>5, <1>6, <1>8 DEF FifoInv, RegionsHeld
<1>14. Content'
  <2> SUFFICES ASSUME NEW k \in 0..(FifoDepth - 1), NEW i \in 0..(FifoDepth - 1),
                      k < fifo.cnt + n,
                      i = fifo.rd_idx + k \/ i = fifo.rd_idx + k - FifoDepth
               PROVE  fifo'.pBuf[i] = Base + 1 + k
    BY <1>6, <1>9 DEF Content
  <2> DEFINE w == fifo.wr_idx
             r == fifo.rd_idx
             c == fifo.cnt
  <2>0. /\ w \in 0..(FifoDepth - 1) /\ r \in 0..(FifoDepth - 1) /\ c \in 0..FifoDepth
        /\ n + c <= FifoDepth /\ n + w <= FifoDepth /\ k < c + n
        /\ w = r + c \/ w = r + c - FifoDepth
        /\ i = r + k \/ i = r + k - FifoDepth
    BY <1>0, <1>4, <1>i
  <2> HIDE DEF w, r, c
  <2>p. /\ k < c => ~(i >= w /\ i < w + n)
        /\ k >= c => i - w = k - c
    BY <1>0, <1>3, <2>0, RingPlaces
  <2>1. CASE k < fifo.cnt
    <3>1. ~(i >= fifo.wr_idx /\ i < fifo.wr_idx + n)
      BY <2>1, <2>p DEF w, c
    <3>2. fifo'.pBuf[i] = fifo.pBuf[i]
      BY <1>6, <3>1
    <3>3. fifo.pBuf[i] = Base + 1 + k
      <4>1. Content
        BY DEF FifoInv
      <4>2. k < fifo.cnt + Copied(producer)
        BY ONLY <1>0, <1>9, <2>1, k \in 0..(FifoDepth - 1), FifoAssumption
      <4> QED
        BY <4>1, <4>2 DEF Content
    <3> QED
      BY <3>2, <3>3
  <2>2. CASE ~(k < fifo.cnt)
    <3>1. i - fifo.wr_idx = k - fifo.cnt
      <4>1. k >= fifo.cnt
        BY <1>0, <2>2
      <4> QED
        BY <2>p, <4>1 DEF w, c
    <3>2. i >= fifo.wr_idx /\ i < fifo.wr_idx + n
      BY <1>0, <1>3, <2>2, <3>1, SMTT(30)
    <3>3. fifo'.pBuf[i] = device.read + 1 + i - fifo.wr_idx
      BY <1>6, <3>2
    <3> QED
      BY <1>0, <1>9, <1>10, <3>1, <3>3
  <2> QED
    BY <2>1, <2>2
<1>15. FifoDelivers'
  BY <1>5, <1>6, <1>8 DEF FifoInv, FifoDelivers
<1> QED
  BY <1>11, <1>12, <1>13, <1>14, <1>15 DEF FifoInv

\* FIFO_insertDMA_update() turns what was copied into what is counted.
LEMMA InsertUpdateKeeps == FifoInv /\ FIFO_insertDMA_update => FifoInv'
<1> SUFFICES ASSUME FifoInv, FIFO_insertDMA_update PROVE FifoInv'
  OBVIOUS
<1> DEFINE n == producer.cnt
           c == fifo.cnt + n
           w == (fifo.wr_idx + n) % FifoDepth
           t == fifo.in_sem + 1
<1>0. /\ fifo.cnt \in 0..FifoDepth
      /\ fifo.wr_idx \in 0..(FifoDepth - 1) /\ fifo.rd_idx \in 0..(FifoDepth - 1)
      /\ fifo.in_sem \in Nat /\ device.read \in Nat /\ n \in Nat
      /\ consumer.cnt \in Nat /\ Len(fifoGot) \in Nat /\ FifoDepth \in Nat
  BY FifoFields, FifoAssumption DEF FifoInv
<1>1. /\ producer.at = "update" /\ fifo' = [fifo EXCEPT !.cnt = c, !.wr_idx = w, !.in_sem = t]
      /\ producer' = Moved(producer)
      /\ consumer' = consumer /\ device' = device /\ fifoGot' = fifoGot
  BY DEF FIFO_insertDMA_update
<1>2. /\ n + fifo.cnt <= FifoDepth /\ n + fifo.wr_idx <= FifoDepth
      /\ producer.kind = "app" => producer.cnt <= producer.left
  BY <1>1 DEF FifoInv, RegionsHeld
<1>3. producer' \in SideType /\ producer'.at \in {"idle", "setup"}
  BY <1>1, <1>2, MovedResult DEF FifoInv, FifoTypeOK
<1>4. w = IF fifo.wr_idx + n = FifoDepth THEN 0 ELSE fifo.wr_idx + n
  <2>1. fifo.wr_idx + n \in 0..FifoDepth
    BY <1>0, <1>2
  <2> QED
    BY <2>1, RemainderAtEnd
<1>5. w \in 0..(FifoDepth - 1) /\ c \in 0..FifoDepth /\ t \in Nat /\ t > 0
  BY <1>0, <1>2, <1>4, SMTT(30)
<1>6. Copied(producer)' = 0 /\ Copied(producer) = n /\ Base' = Base /\ Base \in Int
  <2>1. Copied(producer)' = 0 /\ Copied(producer) = n
    BY <1>1, <1>3 DEF Copied
  <2>2. Base' = Base /\ Base \in Int
    BY <1>0, <1>1 DEF Copied, Base
  <2> QED
    BY <2>1, <2>2
<1>7. w = fifo.rd_idx + c \/ w = fifo.rd_idx + c - FifoDepth
  <2>1. fifo.wr_idx = fifo.rd_idx + fifo.cnt \/ fifo.wr_idx = fifo.rd_idx + fifo.cnt - FifoDepth
    BY DEF FifoInv, Accounted
  <2> QED
    BY <1>0, <1>2, <1>4, <2>1, SMTT(30)
<1>8. device.read = Base + c
  BY <1>0, <1>6 DEF FifoInv, Accounted
<1>9. c >= fifo.cnt
  BY <1>0
<1> HIDE DEF c, w, t
<1>10. /\ fifo'.cnt = c /\ fifo'.wr_idx = w /\ fifo'.in_sem = t /\ fifo'.rm_sem = fifo.rm_sem
       /\ fifo'.rd_idx = fifo.rd_idx /\ fifo'.pBuf = fifo.pBuf
  BY <1>1 DEF FifoInv, FifoTypeOK
<1>11. FifoTypeOK'
  BY <1>1, <1>3, <1>5 DEF FifoInv, FifoTypeOK
<1>12. Accounted'
  BY <1>1, <1>5, <1>6, <1>7, <1>8, <1>10 DEF Accounted
<1>13. RegionsHeld'
  BY <1>0, <1>1, <1>3, <1>5, <1>9, <1>10, SMTT(30) DEF FifoInv, RegionsHeld
<1>14. Content'
  <2>1. \A k \in 0..(FifoDepth - 1), i \in 0..(FifoDepth - 1) :
          /\ k < c
          /\ i = fifo.rd_idx + k \/ i = fifo.rd_idx + k - FifoDepth
          => fifo.pBuf[i] = Base + 1 + k
    BY <1>6 DEF FifoInv, Content, c
  <2> QED
    BY <1>5, <1>6, <1>10, <2>1 DEF Content
<1>15. FifoDelivers'
  BY <1>1, <1>3, <1>5, <1>10 DEF FifoInv, FifoDelivers
<1> QED
  BY <1>11, <1>12, <1>13, <1>14, <1>15 DEF FifoInv

\* One run of numbers continued by the next ones.
LEMMA RunContinues ==
    ASSUME NEW s \in Seq(Nat), s = [i \in 1..Len(s) |-> i], NEW n \in Nat,
           NEW f, f = [i \in 1..n |-> Len(s) + i]
    PROVE  /\ s \o f \in Seq(Nat) /\ Len(s \o f) = Len(s) + n
           /\ s \o f = [i \in 1..Len(s \o f) |-> i]
<1>1. f \in Seq(Nat) /\ Len(f) = n
  OBVIOUS
<1>2. s \o f \in Seq(Nat) /\ Len(s \o f) = Len(s) + n
  BY <1>1
<1>3. ASSUME NEW i \in 1..Len(s \o f) PROVE (s \o f)[i] = i
  <2>1. CASE i <= Len(s)
    <3>1. (s \o f)[i] = s[i]
      BY <1>1, <1>2, <2>1
    <3> QED
      BY <1>2, <2>1, <3>1
  <2>2. CASE i > Len(s)
    <3>1. (s \o f)[i] = f[i - Len(s)] /\ i - Len(s) \in 1..n
      BY <1>1, <1>2, <2>2
    <3> QED
      BY <1>2, <3>1
  <2> QED
    BY <1>2, <2>1, <2>2
<1>4. s \o f = [i \in 1..Len(s \o f) |-> (s \o f)[i]]
  BY <1>2
<1> QED
  BY <1>2, <1>3, <1>4

\* What a memcpy() or write() takes out of the consumer's region are the next
\* bytes in order, whatever the producer has put behind them.
LEMMA DrainsKeeps == FifoInv /\ DrainsRegion => FifoInv'
<1> SUFFICES ASSUME FifoInv, DrainsRegion PROVE FifoInv'
  OBVIOUS
<1>0. /\ fifo.cnt \in 0..FifoDepth /\ fifo.rd_idx \in 0..(FifoDepth - 1)
      /\ consumer.cnt \in Nat /\ consumer.left \in Nat
      /\ producer.cnt \in Nat /\ Len(fifoGot) \in Nat /\ FifoDepth \in Nat
  BY FifoFields, FifoAssumption DEF FifoInv
<1>1. consumer \in SideType /\ consumer.at = "move"
  BY DEF FifoInv, FifoTypeOK, DrainsRegion
<1> DEFINE Drained(n) ==
         /\ fifoGot' = fifoGot \o [i \in 1..n |-> fifo.pBuf[fifo.rd_idx + i - 1]]
         /\ consumer' = [consumer EXCEPT !.cnt = n,
                                         !.at = IF n = 0 THEN "idle" ELSE "update"]
<1> HIDE DEF Drained
<1>2. \E n \in Nat : n <= consumer.cnt /\ Drained(n)
  <2>1. CASE consumer.kind = "app"
    <3>1. Drained(consumer.cnt)
      BY <2>1 DEF DrainsRegion, Drained
    <3> QED
      BY <1>0, <3>1
  <2>2. CASE consumer.kind # "app"
    <3>1. \E n \in WriteResults : Drained(n)
      BY <2>2 DEF DrainsRegion, Drained
    <3>2. \A n \in WriteResults : n \in Nat /\ n <= consumer.cnt
      BY <1>0 DEF WriteResults
    <3> QED
      BY <3>1, <3>2
  <2> QED
    BY <2>1, <2>2
<1>f. PICK n \in Nat : n <= consumer.cnt /\ Drained(n)
  BY <1>2
<1>3. n \in Nat /\ n <= consumer.cnt
  BY <1>f
<1>4. /\ n <= fifo.cnt /\ n + fifo.rd_idx <= FifoDepth
      /\ consumer.kind = "app" => n <= consumer.left
  <2>1. /\ consumer.cnt <= fifo.cnt /\ consumer.cnt + fifo.rd_idx <= FifoDepth
        /\ consumer.kind = "app" => consumer.cnt <= consumer.left
    BY <1>1 DEF FifoInv, RegionsHeld
  <2> QED
    BY <1>0, <1>3, <2>1
<1>5. fifo' = fifo /\ producer' = producer /\ device' = device
  BY DEF DrainsRegion
<1>6. /\ consumer' \in SideType /\ consumer'.kind = consumer.kind
      /\ consumer'.left = consumer.left /\ consumer'.cnt = n
      /\ consumer'.at = IF n = 0 THEN "idle" ELSE "update"
  BY <1>1, <1>3, <1>f DEF SideType, Drained
<1>7. Base = Len(fifoGot)
  BY <1>0, <1>1 DEF Base, Copied
<1> DEFINE taken == [i \in 1..n |-> fifo.pBuf[fifo.rd_idx + i - 1]]
<1>8. taken = [i \in 1..n |-> Len(fifoGot) + i]
  <2>1. ASSUME NEW i \in 1..n PROVE fifo.pBuf[fifo.rd_idx + i - 1] = Len(fifoGot) + i
    <3> DEFINE k == i - 1
               p == fifo.rd_idx + i - 1
    <3>1. /\ k \in 0..(FifoDepth - 1) /\ p \in 0..(FifoDepth - 1)
          /\ p = fifo.rd_idx + k /\ k < fifo.cnt
      BY <1>0, <1>3, <1>4
    <3>2. k < fifo.cnt + Copied(producer)
      <4>1. Copied(producer) \in Nat
        BY <1>0 DEF Copied
      <4> QED
        BY <1>0, <3>1, <4>1
    <3>3. fifo.pBuf[p] = Base + 1 + k
      <4> HIDE DEF k, p
      <4> QED
        BY <3>1, <3>2 DEF FifoInv, Content
    <3>4. Base + 1 + k = Len(fifoGot) + i
      BY <1>0, <1>3, <1>7
    <3> QED
      BY <3>3, <3>4
  <2> QED
    BY <2>1
<1>9. fifoGot' = fifoGot \o taken
  BY <1>f DEF Drained
<1> HIDE DEF taken
<1>10. /\ fifoGot' \in Seq(Nat) /\ Len(fifoGot') = Len(fifoGot) + n
       /\ fifoGot' = [i \in 1..Len(fifoGot') |-> i]
  <2>1. fifoGot \in Seq(Nat) /\ fifoGot = [i \in 1..Len(fifoGot) |-> i]
    BY DEF FifoInv, FifoTypeOK, FifoDelivers
  <2> QED
    BY <1>8, <1>9, <2>1, RunContinues
<1>11. Base' = Base
  <2>1. Copied(consumer)' = n
    BY <1>6 DEF Copied
  <2> QED
    BY <1>0, <1>3, <1>7, <1>10, <2>1 DEF Base
<1>12. Copied(producer)' = Copied(producer)
  BY <1>5 DEF Copied
<1>13. FifoTypeOK'
  BY <1>5, <1>6, <1>10 DEF FifoInv, FifoTypeOK
<1>14. Accounted'
  BY <1>5, <1>11, <1>12 DEF FifoInv, Accounted
<1>15. RegionsHeld'
  BY <1>4, <1>5, <1>6 DEF FifoInv, RegionsHeld
<1>16. Content'
  BY <1>5, <1>11, <1>12 DEF FifoInv, Content
<1>17. FifoDelivers'
  BY <1>5, <1>6, <1>10 DEF FifoInv, FifoDelivers
<1> QED
  BY <1>13, <1>14, <1>15, <1>16, <1>17 DEF FifoInv

\* FIFO_removeDMA_update() gives up what was copied out.
LEMMA RemoveUpdateKeeps == FifoInv /\ FIFO_removeDMA_update => FifoInv'
<1> SUFFICES ASSUME FifoInv, FIFO_removeDMA_update PROVE FifoInv'
  OBVIOUS
<1> DEFINE n == consumer.cnt
           c == fifo.cnt - n
           r == (fifo.rd_idx + n) % FifoDepth
           t == fifo.rm_sem + 1
           p == Copied(producer)
<1>0. /\ fifo.cnt \in 0..FifoDepth
      /\ fifo.wr_idx \in 0..(FifoDepth - 1) /\ fifo.rd_idx \in 0..(FifoDepth - 1)
      /\ fifo.rm_sem \in Nat /\ device.read \in Nat /\ n \in Nat
      /\ producer.cnt \in Nat /\ Len(fifoGot) \in Nat /\ FifoDepth \in Nat
  BY FifoFields, FifoAssumption DEF FifoInv
<1>1. /\ consumer.at = "update" /\ fifo' = [fifo EXCEPT !.cnt = c, !.rd_idx = r, !.rm_sem = t]
      /\ consumer' = Moved(consumer)
      /\ producer' = producer /\ device' = device /\ fifoGot' = fifoGot
  BY DEF FIFO_removeDMA_update
<1>2. /\ n <= fifo.cnt /\ n + fifo.rd_idx <= FifoDepth
      /\ consumer.kind = "app" => consumer.cnt <= consumer.left
  BY <1>1 DEF FifoInv, RegionsHeld
<1>3. consumer' \in SideType /\ consumer'.at \in {"idle", "setup"}
  BY <1>1, <1>2, MovedResult DEF FifoInv, FifoTypeOK
<1>4. r = IF fifo.rd_idx + n = FifoDepth THEN 0 ELSE fifo.rd_idx + n
  <2>1. fifo.rd_idx + n \in 0..FifoDepth
    BY <1>0, <1>2
  <2> QED
    BY <2>1, RemainderAtEnd
<1> HIDE DEF r
<1>5. r \in 0..(FifoDepth - 1) /\ c \in 0..FifoDepth /\ t \in Nat /\ t > 0
  BY <1>0, <1>2, <1>4, SMTT(30)
<1>6. Base' = Len(fifoGot) /\ Base = Len(fifoGot) - n
  BY <1>0, <1>1, <1>3 DEF Base, Copied
<1>p. p' = p /\ p \in Nat /\ fifo.cnt + p <= FifoDepth
  <2>1. p' = p
    BY <1>1 DEF Copied
  <2>2. CASE producer.at = "update"
    <3>1. producer.cnt + fifo.cnt <= FifoDepth
      BY <2>2 DEF FifoInv, RegionsHeld
    <3> QED
      BY <1>0, <2>1, <2>2, <3>1 DEF Copied
  <2>3. CASE producer.at # "update"
    BY <1>0, <2>1, <2>3 DEF Copied
  <2> QED
    BY <2>2, <2>3
<1>7. fifo.wr_idx = r + c \/ fifo.wr_idx = r + c - FifoDepth
  <2>1. fifo.wr_idx = fifo.rd_idx + fifo.cnt \/ fifo.wr_idx = fifo.rd_idx + fifo.cnt - FifoDepth
    BY DEF FifoInv, Accounted
  <2> DEFINE w == fifo.wr_idx
             q == fifo.rd_idx
             f == fifo.cnt
  <2>2. /\ w \in 0..(FifoDepth - 1) /\ q \in 0..(FifoDepth - 1) /\ f \in 0..FifoDepth
        /\ n \in Nat /\ FifoDepth \in Nat /\ n <= f /\ n + q <= FifoDepth
        /\ r = IF q + n = FifoDepth THEN 0 ELSE q + n
        /\ w = q + f \/ w = q + f - FifoDepth
        /\ c = f - n
    BY <1>0, <1>2, <1>4, <2>1
  <2> HIDE DEF w, q, f, n, c
  <2>3. w = r + c \/ w = r + c - FifoDepth
    BY <2>2
  <2> QED
    BY <2>3 DEF w
<1>8. device.read = Base' + c + p
  <2>1. device.read = Base + fifo.cnt + p
    BY DEF FifoInv, Accounted
  <2> QED
    BY <1>0, <1>6, <1>p, <2>1
<1>9. c + n = fifo.cnt /\ c <= fifo.cnt
  BY <1>0
<1> HIDE DEF c, t
<1>10. /\ fifo'.cnt = c /\ fifo'.rd_idx = r /\ fifo'.rm_sem = t /\ fifo'.in_sem = fifo.in_sem
       /\ fifo'.wr_idx = fifo.wr_idx /\ fifo'.pBuf = fifo.pBuf
  BY <1>1 DEF FifoInv, FifoTypeOK
<1>11. FifoTypeOK'
  BY <1>1, <1>3, <1>5 DEF FifoInv, FifoTypeOK
<1>12. Accounted'
  BY <1>1, <1>7, <1>8, <1>10, <1>p DEF Accounted
<1>13. RegionsHeld'
  <2>1. producer.at \in {"move", "update"} =>
          /\ producer.cnt + c <= FifoDepth
          /\ producer.cnt + fifo.wr_idx <= FifoDepth
          /\ producer.kind = "app" => producer.cnt <= producer.left
    BY <1>0, <1>5, <1>9 DEF FifoInv, RegionsHeld
  <2> QED
    BY <1>1, <1>3, <1>10, <2>1 DEF RegionsHeld
<1>14. Content'
  <2> SUFFICES ASSUME NEW k \in 0..(FifoDepth - 1), NEW i \in 0..(FifoDepth - 1),
                      k < c + p, i = r + k \/ i = r + k - FifoDepth
               PROVE  fifo.pBuf[i] = Base' + 1 + k
    BY <1>10, <1>p DEF Content
  <2> DEFINE m == k + n
  <2>1. m \in 0..(FifoDepth - 1) /\ m < fifo.cnt + p
    <3> DEFINE f == fifo.cnt
    <3>1. /\ f \in Nat /\ n \in Nat /\ c \in Nat /\ p \in Nat /\ FifoDepth \in Nat
          /\ c + n = f /\ f + p <= FifoDepth
      BY <1>0, <1>5, <1>9, <1>p
    <3> HIDE DEF f, n, p
    <3>2. m \in 0..(FifoDepth - 1) /\ m < f + p
      BY <3>1
    <3> QED
      BY <3>2 DEF f
  <2>2. i = fifo.rd_idx + m \/ i = fifo.rd_idx + m - FifoDepth
    <3> DEFINE q == fifo.rd_idx
    <3>1. r = IF q + n = FifoDepth THEN 0 ELSE q + n
      BY <1>4
    <3>2. q \in Int /\ FifoDepth \in Int /\ n \in Int
      BY <1>0
    <3> HIDE DEF q, n
    <3>3. i = q + m \/ i = q + m - FifoDepth
      BY <1>5, <3>1, <3>2
    <3> QED
      BY <3>3 DEF q
  <2>3. fifo.pBuf[i] = Base + 1 + m
    <3> HIDE DEF m
    <3> QED
      BY <2>1, <2>2 DEF FifoInv, Content
  <2>4. Base + 1 + m = Base' + 1 + k
    <3> DEFINE g == Len(fifoGot)
    <3>1. Base' = g /\ Base = g - n /\ g \in Int /\ n \in Int
      BY <1>0, <1>6
    <3> HIDE DEF g, n
    <3> QED
      BY <3>1
  <2> QED
    BY <2>3, <2>4
<1>15. FifoDelivers'
  <2>1. fifo.cnt \in Int /\ c \in Int
    BY <1>0, <1>5
  <2> QED
    BY <1>1, <1>3, <1>5, <1>9, <1>10, <2>1 DEF FifoInv, FifoDelivers
<1> QED
  BY <1>11, <1>12, <1>13, <1>14, <1>15 DEF FifoInv

\* Every step keeps the invariant.
LEMMA FifoStepKeeps == FifoInv /\ [FifoNext]_fifovars => FifoInv'
<1> SUFFICES ASSUME FifoInv, [FifoNext]_fifovars PROVE FifoInv'
  OBVIOUS
<1>1. CASE UNCHANGED fifovars
  BY <1>1 DEF fifovars, FifoInv, FifoTypeOK, Accounted, RegionsHeld, Content, FifoDelivers,
              Base, Copied
<1>2. CASE FifoNext
  BY <1>2, LineStepsKeep, CallsKeep, InsertSetupKeeps, FillsKeeps, InsertUpdateKeeps,
     RemoveSetupKeeps, DrainsKeeps, RemoveUpdateKeeps, WaitsKeep DEF FifoNext
<1> QED
  BY <1>1, <1>2

\* FIFO_insert...() and FIFO_remove...() of fifo.c, with applications and
\* descriptors on either side, deliver every byte once and in order and leave
\* nobody asleep who has something to do: for a buffer of every size and any
\* number of bytes.
THEOREM FifoIsCorrect == FifoSpec => []FifoDelivers
<1>1. FifoInit({"app", "fd"}, {"app", "fd"}) => FifoInv
  BY FifoStarts
<1>2. FifoInv /\ [FifoNext]_fifovars => FifoInv'
  BY FifoStepKeeps
<1>3. FifoInv => FifoDelivers
  BY DEF FifoInv
<1> QED
  BY <1>1, <1>2, <1>3, PTL DEF FifoSpec

-----------------------------------------------------------------------------
(* LhLock: the inductive invariant, which holds as long as the threads are *)
(* told apart.                                                             *)

LockAt == {"out", "lock", "late", "asleep", "taken", "load", "store"}

LtType == [LockThreads -> [at : LockAt, holds : Nat, wait : Waits, seen : Nat]]

LockTypeOK ==
    /\ mutex \in [owner : LockThreads \cup {NoName}, recursive_lock : Nat,
                  pOwner : LockThreads \cup {Nobody}, depth : {0, 1},
                  asleep : SUBSET LockThreads]
    /\ lt \in LtType

\* Between _ATOMIC_local_lock() and the unlock that ends it.
Inside(t) == lt[t].holds > 0 \/ lt[t].at \in {"taken", "load", "store"}

\* The lock is held exactly when a thread is inside, and that thread is the
\* one it knows; who waits for it is outside.
InsideOwns ==
    /\ \A t \in LockThreads : Inside(t) => mutex.pOwner = t /\ mutex.depth = 1
    /\ mutex.depth = 1 => mutex.pOwner \in LockThreads /\ Inside(mutex.pOwner)
    /\ \A t \in LockThreads : lt[t].at \in {"lock", "late", "asleep"} => lt[t].holds = 0

\* recursive_lock counts the holder's locks, although it is no atomic variable,
\* and owner is a name the holder goes by before it counts.
CountsHolder ==
    /\ mutex.depth = 0 => mutex.recursive_lock = 0
    /\ \A t \in LockThreads : Inside(t) =>
          /\ mutex.recursive_lock = lt[t].holds
          /\ lt[t].at = "store" => lt[t].seen = mutex.recursive_lock
          /\ mutex.recursive_lock > 0 \/ lt[t].at \in {"load", "store"} =>
                <<t, mutex.owner>> \in used

\* Who sleeps is in the condition variable, and a free lock that someone waits
\* for has someone awake who is about to look at it.
NoWakeUpLost ==
    /\ mutex.asleep = {t \in LockThreads : lt[t].at = "asleep"}
    /\ mutex.depth = 0 /\ mutex.asleep # {} =>
          \E t \in LockThreads : lt[t].at \in {"lock", "late"}

LockInv == LockTypeOK /\ InsideOwns /\ CountsHolder /\ NoWakeUpLost /\ ~fatal

LockInvIfDistinct == Distinct => LockInv

\* The types of the fields of the mutex and of the threads.
LEMMA LockFields ==
    ASSUME LockTypeOK
    PROVE  /\ mutex.owner \in LockThreads \cup {NoName} /\ mutex.recursive_lock \in Nat
           /\ mutex.pOwner \in LockThreads \cup {Nobody} /\ mutex.depth \in {0, 1}
           /\ mutex.asleep \in SUBSET LockThreads
           /\ \A t \in LockThreads : /\ lt[t].at \in LockAt /\ lt[t].wait \in Waits
                                     /\ lt[t].holds \in Nat /\ lt[t].seen \in Nat
BY DEF LockTypeOK, LtType

\* A thread that only goes to another place.
LEMMA GoesResult ==
    ASSUME LockTypeOK, NEW t \in LockThreads, NEW x \in LockAt, Goes(t, x)
    PROVE  /\ lt' \in LtType
           /\ \A u \in LockThreads : /\ lt'[u].holds = lt[u].holds
                                     /\ lt'[u].seen = lt[u].seen
                                     /\ u # t => lt'[u].at = lt[u].at
           /\ lt'[t].at = x
BY DEF LockTypeOK, LtType, Goes

\* A mutex that nobody has taken satisfies the invariant.
LEMMA LockStarts == LockInit => LockInv
<1> SUFFICES ASSUME LockInit PROVE LockInv
  OBVIOUS
<1>1. LockTypeOK
  BY DEF LockInit, LockTypeOK, LtType, LockAt, Waits
<1>2. \A t \in LockThreads : lt[t].at = "out" /\ lt[t].holds = 0
  BY DEF LockInit
<1>3. mutex.depth = 0 /\ mutex.recursive_lock = 0 /\ mutex.asleep = {} /\ ~fatal
  BY DEF LockInit
<1>4. \A t \in LockThreads : ~Inside(t)
  BY <1>2 DEF Inside
<1>5. InsideOwns /\ CountsHolder
  BY <1>2, <1>3, <1>4 DEF InsideOwns, CountsHolder
<1>6. NoWakeUpLost
  BY <1>2, <1>3 DEF NoWakeUpLost
<1> QED
  BY <1>1, <1>3, <1>5, <1>6 DEF LockInv

\* A thread gets its name: nothing the invariant speaks of changes.
LEMMA NamedKeeps ==
    ASSUME LockInv, NEW t \in LockThreads, ThreadNamed(t)
    PROVE  LockInv'
BY DEF ThreadNamed, LockInv, LockTypeOK, InsideOwns, CountsHolder, NoWakeUpLost, Inside

\* Of two threads in the mutex one would be the other.
LEMMA InsideIsAlone ==
    ASSUME LockInv, NEW t \in LockThreads, NEW u \in LockThreads, Inside(t), Inside(u)
    PROVE  t = u
BY DEF LockInv, InsideOwns

\* The recursive path of MUTEX_lock() is only taken by the holder, and by the
\* holder always.
LEMMA LockKeeps ==
    ASSUME LockInv, NEW t \in LockThreads, NEW w \in Waits, MUTEX_lock(t, w), Distinct'
    PROVE  LockInv'
<1>1. PICK id \in THREAD_self(t) :
        /\ lt' = [lt EXCEPT ![t].wait = w,
                            ![t].at = IF NeedsLock(id) THEN "lock" ELSE "taken"]
        /\ used' = used \cup {<<t, id>>}
  BY DEF MUTEX_lock
<1>2. mutex' = mutex /\ fatal' = fatal /\ lt[t].at = "out"
  BY DEF MUTEX_lock
<1> DEFINE x == IF NeedsLock(id) THEN "lock" ELSE "taken"
<1>x. x \in LockAt /\ x \in {"lock", "taken"} /\ (x = "lock" <=> NeedsLock(id))
  BY DEF LockAt
<1>l. lt' = [lt EXCEPT ![t].wait = w, ![t].at = x]
  BY <1>1
<1> HIDE DEF x
<1>3. lt' \in LtType
  BY <1>x, <1>l DEF LockInv, LockTypeOK, LtType
<1>4. \A u \in LockThreads : /\ lt'[u].holds = lt[u].holds
                             /\ lt'[u].seen = lt[u].seen
                             /\ u # t => lt'[u].at = lt[u].at
  BY <1>l DEF LockInv, LockTypeOK, LtType
<1>5. lt'[t].at = x
  BY <1>l DEF LockInv, LockTypeOK, LtType
<1>6. lt[t].holds > 0 <=> ~NeedsLock(id)
  <2>1. ASSUME lt[t].holds > 0 PROVE ~NeedsLock(id)
    <3>1. Inside(t)
      BY <2>1 DEF Inside
    <3>2. mutex.recursive_lock > 0 /\ <<t, mutex.owner>> \in used
      BY <2>1, <3>1 DEF LockInv, CountsHolder
    <3>3. <<t, mutex.owner>> \in used' /\ <<t, id>> \in used'
      BY <1>1, <3>2
    <3>4. mutex.owner = id
      BY <3>3 DEF Distinct
    <3> QED
      BY <3>2, <3>4, LockFields DEF NeedsLock, LockInv
  <2>2. ASSUME ~NeedsLock(id) PROVE lt[t].holds > 0
    <3>1. mutex.recursive_lock # 0 /\ mutex.owner = id
      BY <2>2 DEF NeedsLock
    <3>2. mutex.depth = 1 /\ mutex.recursive_lock > 0
      BY <3>1, LockFields DEF LockInv, CountsHolder
    <3>3. mutex.pOwner \in LockThreads /\ Inside(mutex.pOwner)
      BY <3>2 DEF LockInv, InsideOwns
    <3>4. <<mutex.pOwner, mutex.owner>> \in used' /\ <<t, id>> \in used'
      BY <1>1, <3>2, <3>3 DEF LockInv, CountsHolder
    <3>5. mutex.pOwner = t
      BY <3>1, <3>4 DEF Distinct
    <3> QED
      BY <3>2, <3>3, <3>5 DEF LockInv, CountsHolder
  <2> QED
    BY <2>1, <2>2
<1>7. \A u \in LockThreads : Inside(u)' <=> Inside(u)
  BY <1>2, <1>4, <1>5, <1>6, <1>x DEF Inside
<1>8. LockTypeOK'
  BY <1>2, <1>3 DEF LockInv, LockTypeOK
<1>9. InsideOwns'
  <2>1. \A u \in LockThreads : lt'[u].at \in {"lock", "late", "asleep"} => lt'[u].holds = 0
    <3>1. lt[t].holds \in Nat
      BY LockFields DEF LockInv
    <3> QED
      BY <1>4, <1>5, <1>6, <1>x, <3>1 DEF LockInv, InsideOwns
  <2> QED
    BY <1>2, <1>7, <2>1 DEF LockInv, InsideOwns
<1>10. CountsHolder'
  BY <1>1, <1>2, <1>4, <1>5, <1>7, <1>x DEF LockInv, CountsHolder
<1>11. NoWakeUpLost'
  BY <1>2, <1>4, <1>5, <1>x DEF LockInv, NoWakeUpLost
<1> QED
  BY <1>2, <1>8, <1>9, <1>10, <1>11 DEF LockInv

\* _ATOMIC_local_lock() lets a thread in only when nobody is, and puts it to
\* sleep only when somebody is.
LEMMA LocalLockKeeps ==
    ASSUME LockInv, NEW t \in LockThreads, _ATOMIC_local_lock(t)
    PROVE  LockInv'
<1>0. /\ lt[t].at \in {"lock", "late"} /\ lt[t].holds = 0 /\ ~Inside(t)
      /\ used' = used /\ fatal' = fatal /\ ~fatal
  <2>1. lt[t].at \in {"lock", "late"} /\ used' = used /\ fatal' = fatal
    BY DEF _ATOMIC_local_lock
  <2> QED
    BY <2>1 DEF LockInv, InsideOwns, Inside
<1>t. LockTypeOK /\ "taken" \in LockAt /\ "out" \in LockAt /\ "asleep" \in LockAt
  BY DEF LockInv, LockAt
<1>1. ASSUME mutex.pOwner = t \/ mutex.depth = 0, Goes(t, "taken"),
             mutex' = [mutex EXCEPT !.depth = @ + 1,
                                    !.pOwner = IF mutex.depth = 0 THEN t ELSE @]
      PROVE  LockInv'
  <2>1. mutex.depth = 0
    BY <1>0, <1>1, LockFields DEF LockInv, InsideOwns
  <2>2. mutex' = [mutex EXCEPT !.depth = 1, !.pOwner = t]
    BY <1>1, <2>1
  <2>3. /\ mutex'.depth = 1 /\ mutex'.pOwner = t /\ mutex'.owner = mutex.owner
        /\ mutex'.recursive_lock = mutex.recursive_lock /\ mutex'.asleep = mutex.asleep
    BY <2>2 DEF LockInv, LockTypeOK
  <2>4. /\ lt' \in LtType
        /\ \A u \in LockThreads : /\ lt'[u].holds = lt[u].holds
                                  /\ lt'[u].seen = lt[u].seen
                                  /\ u # t => lt'[u].at = lt[u].at
        /\ lt'[t].at = "taken"
    BY <1>1, <1>t, GoesResult
  <2>5. LockTypeOK'
    BY <2>2, <2>4 DEF LockInv, LockTypeOK
  <2>6. \A u \in LockThreads : ~Inside(u)
    BY <2>1 DEF LockInv, InsideOwns
  <2>7. \A u \in LockThreads : Inside(u)' <=> u = t
    BY <2>4, <2>6 DEF Inside
  <2>8. mutex.recursive_lock = 0
    BY <2>1 DEF LockInv, CountsHolder
  <2>9. InsideOwns'
    BY <2>3, <2>4, <2>7 DEF LockInv, InsideOwns
  <2>10. CountsHolder'
    BY <1>0, <2>3, <2>4, <2>7, <2>8 DEF CountsHolder
  <2>11. NoWakeUpLost'
    BY <1>0, <2>3, <2>4 DEF LockInv, NoWakeUpLost
  <2> QED
    BY <1>0, <2>5, <2>9, <2>10, <2>11 DEF LockInv
<1>2. ASSUME mutex.depth > 0, Goes(t, "out"), UNCHANGED mutex
      PROVE  LockInv'
  <2>1. /\ lt' \in LtType
        /\ \A u \in LockThreads : /\ lt'[u].holds = lt[u].holds
                                  /\ lt'[u].seen = lt[u].seen
                                  /\ u # t => lt'[u].at = lt[u].at
        /\ lt'[t].at = "out"
    BY <1>2, <1>t, GoesResult
  <2>2. \A u \in LockThreads : Inside(u)' <=> Inside(u)
    BY <1>0, <2>1 DEF Inside
  <2>3. LockTypeOK'
    BY <1>2, <2>1 DEF LockInv, LockTypeOK
  <2>4. InsideOwns'
    BY <1>2, <2>1, <2>2 DEF LockInv, InsideOwns
  <2>5. CountsHolder'
    BY <1>0, <1>2, <2>1, <2>2 DEF LockInv, CountsHolder
  <2>6. NoWakeUpLost'
    BY <1>0, <1>2, <2>1, LockFields DEF LockInv, NoWakeUpLost
  <2> QED
    BY <1>0, <2>3, <2>4, <2>5, <2>6 DEF LockInv
<1>3. ASSUME mutex.depth > 0, Goes(t, "asleep"),
             mutex' = [mutex EXCEPT !.asleep = @ \cup {t}]
      PROVE  LockInv'
  <2>1. /\ lt' \in LtType
        /\ \A u \in LockThreads : /\ lt'[u].holds = lt[u].holds
                                  /\ lt'[u].seen = lt[u].seen
                                  /\ u # t => lt'[u].at = lt[u].at
        /\ lt'[t].at = "asleep"
    BY <1>3, <1>t, GoesResult
  <2>2. /\ mutex'.depth = mutex.depth /\ mutex'.pOwner = mutex.pOwner
        /\ mutex'.owner = mutex.owner /\ mutex'.recursive_lock = mutex.recursive_lock
        /\ mutex'.asleep = mutex.asleep \cup {t}
    BY <1>3 DEF LockInv, LockTypeOK
  <2>3. \A u \in LockThreads : Inside(u)' <=> Inside(u)
    BY <1>0, <2>1 DEF Inside
  <2>4. LockTypeOK'
    BY <1>3, <2>1 DEF LockInv, LockTypeOK
  <2>5. InsideOwns'
    BY <1>0, <2>1, <2>2, <2>3 DEF LockInv, InsideOwns
  <2>6. CountsHolder'
    BY <1>0, <2>1, <2>2, <2>3 DEF LockInv, CountsHolder
  <2>7. NoWakeUpLost'
    BY <1>0, <1>3, <2>1, <2>2, LockFields DEF LockInv, NoWakeUpLost
  <2> QED
    BY <1>0, <2>4, <2>5, <2>6, <2>7 DEF LockInv
<1> QED
  BY <1>1, <1>2, <1>3 DEF _ATOMIC_local_lock

\* A thread that wakes up goes for the atomic lock again, or gives up.
LEMMA AwakeKeeps ==
    ASSUME LockInv, NEW t \in LockThreads, Awake(t)
    PROVE  LockInv'
<1> DEFINE x == IF lt[t].wait = "bounded" THEN "late" ELSE "lock"
<1>1. x \in LockAt /\ x \in {"lock", "late"} /\ Goes(t, x)
  BY DEF Awake, LockAt
<1> HIDE DEF x
<1>2. /\ lt' \in LtType
      /\ \A u \in LockThreads : /\ lt'[u].holds = lt[u].holds
                                /\ lt'[u].seen = lt[u].seen
                                /\ u # t => lt'[u].at = lt[u].at
      /\ lt'[t].at = x
  BY <1>1, GoesResult DEF LockInv
<1>3. /\ mutex' = [mutex EXCEPT !.asleep = @ \ {t}] /\ t \in mutex.asleep
      /\ used' = used /\ fatal' = fatal
  BY DEF Awake
<1>4. /\ mutex'.depth = mutex.depth /\ mutex'.pOwner = mutex.pOwner
      /\ mutex'.owner = mutex.owner /\ mutex'.recursive_lock = mutex.recursive_lock
      /\ mutex'.asleep = mutex.asleep \ {t}
  BY <1>3 DEF LockInv, LockTypeOK
<1>5. lt[t].at = "asleep"
  BY <1>3 DEF LockInv, NoWakeUpLost
<1>6. \A u \in LockThreads : Inside(u)' <=> Inside(u)
  BY <1>1, <1>2, <1>5 DEF Inside
<1>7. LockTypeOK'
  BY <1>2, <1>3 DEF LockInv, LockTypeOK
<1>8. InsideOwns'
  BY <1>2, <1>4, <1>5, <1>6 DEF LockInv, InsideOwns
<1>9. CountsHolder'
  BY <1>1, <1>2, <1>3, <1>4, <1>5, <1>6 DEF LockInv, CountsHolder
<1>10. NoWakeUpLost'
  BY <1>1, <1>2, <1>4 DEF LockInv, NoWakeUpLost
<1> QED
  BY <1>3, <1>7, <1>8, <1>9, <1>10 DEF LockInv

\* The thread that took the atomic lock enters itself as the owner.
LEMMA SetsOwnerKeeps ==
    ASSUME LockInv, NEW t \in LockThreads, SetsOwner(t)
    PROVE  LockInv'
<1>1. PICK id \in THREAD_self(t) : /\ mutex' = [mutex EXCEPT !.owner = id]
                                   /\ used' = used \cup {<<t, id>>}
  BY DEF SetsOwner
<1>2. /\ lt[t].at = "taken" /\ Goes(t, "load") /\ fatal' = fatal /\ "load" \in LockAt
  BY DEF SetsOwner, LockAt
<1>3. id \in LockThreads \cup {NoName}
  BY DEF THREAD_self
<1>4. /\ lt' \in LtType
      /\ \A u \in LockThreads : /\ lt'[u].holds = lt[u].holds
                                /\ lt'[u].seen = lt[u].seen
                                /\ u # t => lt'[u].at = lt[u].at
      /\ lt'[t].at = "load"
  BY <1>2, GoesResult DEF LockInv
<1>5. /\ mutex'.depth = mutex.depth /\ mutex'.pOwner = mutex.pOwner
      /\ mutex'.owner = id /\ mutex'.recursive_lock = mutex.recursive_lock
      /\ mutex'.asleep = mutex.asleep
  BY <1>1 DEF LockInv, LockTypeOK
<1>6. \A u \in LockThreads : Inside(u)' <=> Inside(u)
  BY <1>2, <1>4 DEF Inside
<1>7. Inside(t)
  BY <1>2 DEF Inside
<1>8. LockTypeOK'
  BY <1>1, <1>3, <1>4 DEF LockInv, LockTypeOK
<1>9. InsideOwns'
  BY <1>2, <1>4, <1>5, <1>6 DEF LockInv, InsideOwns
<1>10. CountsHolder'
  <2>1. ASSUME NEW u \in LockThreads, Inside(u) PROVE u = t
    BY <1>7, <2>1, InsideIsAlone
  <2>2. <<t, mutex'.owner>> \in used'
    BY <1>1, <1>5
  <2>3. mutex.depth = 0 => mutex.recursive_lock = 0
    BY DEF LockInv, CountsHolder
  <2>4. mutex.recursive_lock = lt[t].holds
    BY <1>7 DEF LockInv, CountsHolder
  <2> QED
    BY <1>4, <1>5, <1>6, <2>1, <2>2, <2>3, <2>4 DEF CountsHolder
<1>11. NoWakeUpLost'
  BY <1>2, <1>4, <1>5 DEF LockInv, NoWakeUpLost
<1> QED
  BY <1>2, <1>8, <1>9, <1>10, <1>11 DEF LockInv

\* It reads recursive_lock, which only the owner changes.
LEMMA LoadsKeeps ==
    ASSUME LockInv, NEW t \in LockThreads, Loads(t)
    PROVE  LockInv'
<1>1. /\ lt[t].at = "load" /\ mutex' = mutex /\ used' = used /\ fatal' = fatal
      /\ lt' = [lt EXCEPT ![t].at = "store", ![t].seen = mutex.recursive_lock]
  BY DEF Loads
<1>2. mutex.recursive_lock \in Nat /\ "store" \in LockAt
  BY LockFields DEF LockInv, LockAt
<1>3. /\ lt' \in LtType
      /\ \A u \in LockThreads : /\ lt'[u].holds = lt[u].holds
                                /\ u # t => lt'[u].at = lt[u].at /\ lt'[u].seen = lt[u].seen
      /\ lt'[t].at = "store" /\ lt'[t].seen = mutex.recursive_lock
  BY <1>1, <1>2 DEF LockInv, LockTypeOK, LtType
<1>4. \A u \in LockThreads : Inside(u)' <=> Inside(u)
  BY <1>1, <1>3 DEF Inside
<1>5. LockTypeOK'
  BY <1>1, <1>3 DEF LockInv, LockTypeOK
<1>6. InsideOwns'
  BY <1>1, <1>3, <1>4, ZenonT(30) DEF LockInv, InsideOwns
<1>7. CountsHolder'
  BY <1>1, <1>3, <1>4 DEF LockInv, CountsHolder
<1>8. NoWakeUpLost'
  BY <1>1, <1>3 DEF LockInv, NoWakeUpLost
<1> QED
  BY <1>1, <1>5, <1>6, <1>7, <1>8 DEF LockInv

\* It writes back one more: nobody has changed it in between.
LEMMA StoresKeeps ==
    ASSUME LockInv, NEW t \in LockThreads, Stores(t)
    PROVE  LockInv'
<1> DEFINE h == lt[t].holds + 1
<1>1. /\ lt[t].at = "store" /\ used' = used /\ fatal' = fatal
      /\ mutex' = [mutex EXCEPT !.recursive_lock = lt[t].seen + 1]
      /\ lt' = [lt EXCEPT ![t].at = "out", ![t].holds = h, ![t].seen = 0]
  BY DEF Stores
<1>2. Inside(t)
  BY <1>1 DEF Inside
<1>3. /\ lt[t].seen = lt[t].holds /\ h \in Nat /\ h > 0
      /\ <<t, mutex.owner>> \in used
  <2>1. lt[t].holds \in Nat
    BY LockFields DEF LockInv
  <2>2. lt[t].seen = lt[t].holds /\ <<t, mutex.owner>> \in used
    BY <1>1, <1>2 DEF LockInv, CountsHolder
  <2> QED
    BY <2>1, <2>2
<1>4. mutex' = [mutex EXCEPT !.recursive_lock = h]
  BY <1>1, <1>3
<1> HIDE DEF h
<1>5. /\ lt' \in LtType
      /\ \A u \in LockThreads : u # t => lt'[u] = lt[u]
      /\ lt'[t].at = "out" /\ lt'[t].holds = h
  BY <1>1, <1>3 DEF LockInv, LockTypeOK, LtType, LockAt
<1>6. /\ mutex'.depth = mutex.depth /\ mutex'.pOwner = mutex.pOwner
      /\ mutex'.owner = mutex.owner /\ mutex'.recursive_lock = h
      /\ mutex'.asleep = mutex.asleep
  BY <1>4 DEF LockInv, LockTypeOK
<1>7. \A u \in LockThreads : Inside(u)' <=> Inside(u)
  BY <1>2, <1>3, <1>5 DEF Inside
<1>8. LockTypeOK'
  BY <1>3, <1>4, <1>5 DEF LockInv, LockTypeOK
<1>9. InsideOwns'
  BY <1>5, <1>6, <1>7 DEF LockInv, InsideOwns
<1>10. CountsHolder'
  <2>1. ASSUME NEW u \in LockThreads, Inside(u) PROVE u = t
    BY <1>2, <2>1, InsideIsAlone
  <2>2. mutex.depth = 1
    BY <1>2 DEF LockInv, InsideOwns
  <2>3. <<t, mutex'.owner>> \in used'
    BY <1>1, <1>3, <1>6
  <2>4. mutex'.recursive_lock = lt'[t].holds /\ lt'[t].at = "out" /\ mutex'.depth = 1
    BY <1>5, <1>6, <2>2
  <2> QED
    BY <1>7, <2>1, <2>3, <2>4 DEF CountsHolder
<1>11. NoWakeUpLost'
  <2>1. \A u \in LockThreads : lt'[u].at = "asleep" <=> lt[u].at = "asleep"
    BY <1>1, <1>5
  <2>2. {u \in LockThreads : lt'[u].at = "asleep"} = {u \in LockThreads : lt[u].at = "asleep"}
    BY <2>1, Zenon
  <2>3. mutex'.depth # 0
    BY <1>2, <1>6 DEF LockInv, InsideOwns
  <2>4. mutex.asleep = {u \in LockThreads : lt[u].at = "asleep"}
    BY DEF LockInv, NoWakeUpLost
  <2> QED
    BY <1>6, <2>2, <2>3, <2>4, Zenon DEF NoWakeUpLost
<1> QED
  BY <1>1, <1>8, <1>9, <1>10, <1>11 DEF LockInv

\* An unlock is the holder's, so that it does not end the process; the one that
\* frees the lock wakes a thread if one is asleep.
LEMMA UnLockKeeps ==
    ASSUME LockInv, NEW t \in LockThreads, MUTEX_unLock(t)
    PROVE  LockInv'
<1> DEFINE h == lt[t].holds - 1
<1>0. /\ lt[t].at = "out" /\ lt[t].holds > 0 /\ used' = used
      /\ lt[t].holds \in Nat /\ mutex.recursive_lock \in Nat
  BY LockFields DEF MUTEX_unLock, LockInv
<1>1. Inside(t)
  BY <1>0 DEF Inside
<1>2. mutex.pOwner = t /\ mutex.depth = 1
  BY <1>1 DEF LockInv, InsideOwns
<1>3. mutex.recursive_lock = lt[t].holds /\ <<t, mutex.owner>> \in used
  BY <1>0, <1>1 DEF LockInv, CountsHolder
<1>4. h \in Nat /\ mutex.recursive_lock - 1 = h
  BY <1>0, <1>3
<1>a. ASSUME NEW u \in LockThreads, u # t PROVE ~Inside(u)
  BY <1>1, <1>a, InsideIsAlone
<1>5. CASE h = 0
  <2> DEFINE m == [mutex EXCEPT !.recursive_lock = 0, !.owner = NoName]
  <2>1. _ATOMIC_local_unlock(t, m)
    BY <1>4, <1>5 DEF MUTEX_unLock
  <2>2. m.pOwner = t /\ m.depth = 1 /\ m.asleep = mutex.asleep
    BY <1>2 DEF LockInv, LockTypeOK
  <2>3. /\ m.recursive_lock = 0 /\ m.owner = NoName
        /\ m \in [owner : LockThreads \cup {NoName}, recursive_lock : Nat,
                  pOwner : LockThreads \cup {Nobody}, depth : {0, 1},
                  asleep : SUBSET LockThreads]
    BY DEF LockInv, LockTypeOK
  <2> HIDE DEF m
  <2>4. /\ \E S \in Signalled(m.asleep) :
              /\ mutex' = [m EXCEPT !.depth = @ - 1, !.asleep = S,
                                    !.pOwner = IF m.depth = 1 THEN Nobody ELSE @]
              /\ lt' = [u \in LockThreads |->
                          IF u = t THEN [lt[u] EXCEPT !.holds = @ - 1]
                          ELSE IF u \in m.asleep \ S
                          THEN [lt[u] EXCEPT !.at = "lock"] ELSE lt[u]]
        /\ fatal' = fatal
    <3>1. ~(m.pOwner # t \/ m.depth <= 0)
      BY <2>2
    <3> QED
      BY <2>1, <3>1 DEF _ATOMIC_local_unlock
  <2>5. PICK S \in Signalled(m.asleep) :
              /\ mutex' = [m EXCEPT !.depth = @ - 1, !.asleep = S,
                                    !.pOwner = IF m.depth = 1 THEN Nobody ELSE @]
              /\ lt' = [u \in LockThreads |->
                          IF u = t THEN [lt[u] EXCEPT !.holds = @ - 1]
                          ELSE IF u \in m.asleep \ S
                          THEN [lt[u] EXCEPT !.at = "lock"] ELSE lt[u]]
    BY <2>4
  <2>6. /\ S \subseteq mutex.asleep
        /\ S # {} => \E u \in mutex.asleep : u \notin S
    BY <2>2 DEF Signalled
  <2>7. mutex' = [m EXCEPT !.depth = 0, !.asleep = S, !.pOwner = Nobody]
    BY <2>2, <2>5
  <2>8. mutex'.depth = 0 /\ mutex'.recursive_lock = 0 /\ mutex'.asleep = S
    BY <2>3, <2>7
  <2>9. S \in SUBSET LockThreads
    BY <2>6, LockFields DEF LockInv
  <2>10. /\ lt'[t].at = "out" /\ lt'[t].holds = 0
         /\ lt'[t] \in [at : LockAt, holds : Nat, wait : Waits, seen : Nat]
    <3>1. lt[t] \in [at : LockAt, holds : Nat, wait : Waits, seen : Nat]
      BY DEF LockInv, LockTypeOK, LtType
    <3>2. lt'[t] = [lt[t] EXCEPT !.holds = 0]
      BY <1>5, <2>5
    <3> QED
      BY <1>0, <3>1, <3>2
  <2>11. ASSUME NEW u \in LockThreads, u # t
         PROVE  /\ lt'[u].holds = lt[u].holds
                /\ u \in mutex.asleep \ S => lt'[u].at = "lock"
                /\ u \notin mutex.asleep \ S => lt'[u].at = lt[u].at
                /\ lt'[u] \in [at : LockAt, holds : Nat, wait : Waits, seen : Nat]
    <3>1. lt[u] \in [at : LockAt, holds : Nat, wait : Waits, seen : Nat]
      BY DEF LockInv, LockTypeOK, LtType
    <3>2. lt'[u] = IF u \in mutex.asleep \ S THEN [lt[u] EXCEPT !.at = "lock"] ELSE lt[u]
      BY <2>2, <2>5, <2>11
    <3>3. "lock" \in LockAt
      BY DEF LockAt
    <3> QED
      BY <3>1, <3>2, <3>3
  <2>12. LockTypeOK'
    <3>1. lt' \in LtType
      BY <2>5, <2>10, <2>11 DEF LtType
    <3>2. mutex' \in [owner : LockThreads \cup {NoName}, recursive_lock : Nat,
                      pOwner : LockThreads \cup {Nobody}, depth : {0, 1},
                      asleep : SUBSET LockThreads]
      BY <2>3, <2>7, <2>9
    <3> QED
      BY <3>1, <3>2 DEF LockTypeOK
  <2>13. \A u \in LockThreads : ~Inside(u)'
    <3>1. ~Inside(t)'
      BY <2>10 DEF Inside
    <3>2. ASSUME NEW u \in LockThreads, u # t PROVE ~Inside(u)'
      <4>1. ~Inside(u)
        BY <1>a, <3>2
      <4> QED
        BY <2>11, <3>2, <4>1 DEF Inside
    <3> QED
      BY <3>1, <3>2
  <2>14. InsideOwns'
    <3>1. ASSUME NEW u \in LockThreads, lt'[u].at \in {"lock", "late", "asleep"}
          PROVE  lt'[u].holds = 0
      <4>1. u # t
        BY <2>10, <3>1
      <4>2. ~(lt[u].holds > 0) /\ lt[u].holds \in Nat
        BY <1>a, <4>1, LockFields DEF Inside, LockInv
      <4> QED
        BY <2>11, <4>1, <4>2
    <3> QED
      BY <2>8, <2>13, <3>1 DEF InsideOwns
  <2>15. CountsHolder'
    BY <2>8, <2>13 DEF CountsHolder
  <2>16. NoWakeUpLost'
    <3>1. mutex.asleep = {u \in LockThreads : lt[u].at = "asleep"}
      BY DEF LockInv, NoWakeUpLost
    <3>2. S = {u \in LockThreads : lt'[u].at = "asleep"}
      BY <1>0, <2>6, <2>10, <2>11, <3>1
    <3>3. S # {} => \E u \in LockThreads : lt'[u].at \in {"lock", "late"}
      BY <1>0, <2>6, <2>11, <3>1
    <3> QED
      BY <2>8, <3>2, <3>3 DEF NoWakeUpLost
  <2> QED
    BY <2>4, <2>12, <2>14, <2>15, <2>16 DEF LockInv
<1>6. CASE h # 0
  <2>1. /\ mutex' = [mutex EXCEPT !.recursive_lock = h]
        /\ lt' = [lt EXCEPT ![t].holds = h] /\ fatal' = fatal
    BY <1>4, <1>6 DEF MUTEX_unLock
  <2>k. h \in Nat /\ h # 0
    BY <1>4, <1>6
  <2> HIDE DEF h
  <2>2. h > 0
    BY <2>k
  <2>3. /\ lt' \in LtType
        /\ \A u \in LockThreads : u # t => lt'[u] = lt[u]
        /\ lt'[t].at = "out" /\ lt'[t].holds = h
    BY <1>0, <2>1, <2>k DEF LockInv, LockTypeOK, LtType
  <2>4. /\ mutex'.depth = mutex.depth /\ mutex'.pOwner = mutex.pOwner
        /\ mutex'.owner = mutex.owner /\ mutex'.recursive_lock = h
        /\ mutex'.asleep = mutex.asleep
    BY <2>1 DEF LockInv, LockTypeOK
  <2>5. \A u \in LockThreads : Inside(u)' <=> Inside(u)
    BY <1>1, <2>2, <2>3 DEF Inside
  <2>6. LockTypeOK'
    BY <2>1, <2>3, <2>k DEF LockInv, LockTypeOK
  <2>7. InsideOwns'
    BY <2>3, <2>4, <2>5 DEF LockInv, InsideOwns
  <2>8. CountsHolder'
    BY <1>0, <1>2, <1>3, <1>a, <2>3, <2>4, <2>5 DEF CountsHolder
  <2>9. NoWakeUpLost'
    BY <1>0, <2>3, <2>4 DEF LockInv, NoWakeUpLost
  <2> QED
    BY <2>1, <2>6, <2>7, <2>8, <2>9 DEF LockInv
<1> QED
  BY <1>5, <1>6

\* Identities are never forgotten: what is distinct was distinct.
LEMMA UsedGrows ==
    ASSUME [LockNext]_lockvars
    PROVE  used \subseteq used'
<1>1. ASSUME NEW t \in LockThreads, NEW w \in Waits, MUTEX_lock(t, w)
      PROVE  used \subseteq used'
  BY <1>1 DEF MUTEX_lock
<1>2. ASSUME NEW t \in LockThreads, SetsOwner(t) PROVE used \subseteq used'
  BY <1>2 DEF SetsOwner
<1>3. ASSUME NEW t \in LockThreads,
             ThreadNamed(t) \/ _ATOMIC_local_lock(t) \/ Awake(t) \/ Loads(t)
             \/ Stores(t) \/ MUTEX_unLock(t)
      PROVE  used \subseteq used'
  BY <1>3 DEF ThreadNamed, _ATOMIC_local_lock, Awake, Loads, Stores, MUTEX_unLock
<1> QED
  BY <1>1, <1>2, <1>3 DEF LockNext, lockvars

\* Every step of every thread, as long as the threads are told apart.
LEMMA LockStepKeeps == LockInvIfDistinct /\ [LockNext]_lockvars => LockInvIfDistinct'
<1> SUFFICES ASSUME LockInvIfDistinct, [LockNext]_lockvars, Distinct' PROVE LockInv'
  BY DEF LockInvIfDistinct
<1>1. Distinct
  BY UsedGrows DEF Distinct
<1>2. LockInv
  BY <1>1 DEF LockInvIfDistinct
<1>3. CASE UNCHANGED lockvars
  BY <1>2, <1>3 DEF lockvars, LockInv, LockTypeOK, InsideOwns, CountsHolder, NoWakeUpLost,
                    Inside
<1>4. CASE LockNext
  BY <1>2, <1>4, NamedKeeps, LockKeeps, LocalLockKeeps, AwakeKeeps, SetsOwnerKeeps,
     LoadsKeeps, StoresKeeps, UnLockKeeps DEF LockNext
<1> QED
  BY <1>3, <1>4

\* At most one thread holds the mutex.
LEMMA InvImpliesExclusion == LockInvIfDistinct => MutexExcludes
<1> SUFFICES ASSUME LockInv
             PROVE  /\ ~fatal
                    /\ Cardinality({t \in LockThreads : lt[t].holds > 0}) <= 1
                    /\ mutex.depth = 0 /\ mutex.asleep # {} =>
                          \E t \in LockThreads : lt[t].at \in {"lock", "late"}
  BY DEF LockInvIfDistinct, MutexExcludes
<1> DEFINE H == {t \in LockThreads : lt[t].holds > 0}
<1>1. \A t, u \in H : t = u
  BY InsideIsAlone DEF Inside
<1>4. ~fatal /\ (mutex.depth = 0 /\ mutex.asleep # {} =>
                   \E t \in LockThreads : lt[t].at \in {"lock", "late"})
  BY DEF LockInv, NoWakeUpLost
<1>5. Cardinality(H) <= 1
  <2>1. CASE H = {}
    BY <2>1, FS_EmptySet
  <2>2. CASE H # {}
    <3>1. PICK t \in H : H = {t}
      BY <1>1, <2>2
    <3> QED
      BY <3>1, FS_Singleton
  <2> QED
    BY <2>1, <2>2
<1> QED
  BY <1>4, <1>5

\* MUTEX_lock() and MUTEX_unLock() of mutex.c over the lock of
\* linux_specific.c: threads that the mutex can tell apart exclude each other,
\* no unlock of theirs ends the process and no wake-up is lost, whatever their
\* number and however deep they nest.
THEOREM MutexIsCorrect == LockSpec => []MutexExcludes
<1>1. LockInit => LockInvIfDistinct
  BY LockStarts DEF LockInvIfDistinct
<1>2. LockInvIfDistinct /\ [LockNext]_lockvars => LockInvIfDistinct'
  BY LockStepKeeps
<1>3. LockInvIfDistinct => MutexExcludes
  BY InvImpliesExclusion
<1> QED
  BY <1>1, <1>2, <1>3, PTL DEF LockSpec

-----------------------------------------------------------------------------
(* LhMt: blocks and acknowledgements on a line that loses frames.          *)

MtPcs == {"idle", "tx", "block", "wait", "pop", "undefined", "done"}
MtErrors == {"block_out_of_order", "block_len_changed"}
MtStatuses == {"success", "frag_complete"} \cup MtErrors
MtPieces == [msg : MtThreads, block : Nat]

MtDataFrames ==
    [type : {"data"}, msg : MtThreads, block : Nat, total : Nat, len : Int]
MtFrames ==
    MtDataFrames
      \cup [type : {"msg"}, msg : MtThreads]
      \cup [type : {"ack"}, block : Nat, status : MtStatuses]
      \cup [type : {"ext"}, block : Nat, status : {"frag_complete", "frag_aborted"}]
MtListed == [block : Nat, status : MtStatuses] \cup {MtFreed}

\* Where a line has blocks, and where it has acknowledgements.
MtDataIn(q) == {k \in DOMAIN q : q[k].type = "data"}
MtAcksIn(q) == {k \in DOMAIN q : q[k].type = "ack"}

\* The acknowledgements of the list that are not freed.
MtLive(q) == {k \in DOMAIN q : q[k].status # "freed"}

\* The other end has put the message of t together.
MtHas(asm, t) == \E i \in DOMAIN asm : asm[i][1].msg = t

\* What the other end has of the message of t, of n blocks and length s: its
\* first blocks, not all of them.
MtPartial(rx, t, n, s) ==
    /\ rx.pieces = [b \in 1 .. rx.cur + 1 |-> MtPiece(t, b - 1)]
    /\ rx.count = n /\ rx.total = s /\ rx.len = MtFragSize
    /\ rx.cur + 1 < n

\* Nothing that is on the way begins a message.
MtRest(down, up, acks, rx) ==
    /\ rx = MtNoFrag
    /\ \A k \in MtDataIn(down) : down[k].block >= 1
    /\ \A k \in MtAcksIn(up) : up[k].block >= 1
    /\ \A k \in MtLive(acks) : acks[k].block >= 1

\* o sends its block 0, which has not arrived: what is left of the messages
\* before it comes first.
MtOpening(o, down, up, acks, rx) ==
    /\ rx = MtNoFrag
    /\ \A k \in MtDataIn(down) : down[k].block = 0 <=> down[k].msg = o
    /\ \A j, k \in MtDataIn(down) :
           j < k /\ down[j].block = 0 => down[k].block = 0
    /\ \A k \in MtAcksIn(up) : up[k].block >= 1
    /\ \A k \in MtLive(acks) : acks[k].block >= 1

\* o sends its block 0, which has arrived: nothing is left of the blocks of
\* the messages before it, and the acknowledgements of them come first.
MtOpened(o, n, s, down, up, acks, rx) ==
    /\ rx # MtNoFrag => MtPartial(rx, o, n, s) /\ rx.cur = 0
    /\ \A k \in MtDataIn(down) : down[k].block = 0 /\ down[k].msg = o
    /\ \A k \in MtAcksIn(up) : up[k].block = 0 => up[k].status = "success"
    /\ \A j, k \in MtAcksIn(up) : j < k /\ up[j].block = 0 => up[k].block = 0
    /\ \A k \in MtLive(acks) : acks[k].block = 0 =>
           /\ acks[k].status = "success"
           /\ \A j \in MtAcksIn(up) : up[j].block = 0

\* What an acknowledgement of block c says.
MtSays(block, status, o, c, n, rx, asm) ==
    block = c =>
        /\ status = "success" => c + 1 < n
        /\ status = "frag_complete" => MtHas(asm, o)
        /\ status # "success" => rx = MtNoFrag

\* Nothing that is still on the way, or taken last, is older than an
\* acknowledgement of that block.
MtBehind(block, c, down, rx) ==
    /\ block <= c
    /\ \A k \in MtDataIn(down) : block <= down[k].block
    /\ rx # MtNoFrag => block <= rx.cur

\* o sends a later block c: everything on the way is of its message, in
\* order.
MtGoing(o, c, n, s, down, up, acks, rx, asm) ==
    /\ rx # MtNoFrag =>
           /\ MtPartial(rx, o, n, s) /\ rx.cur <= c
           /\ \A k \in MtDataIn(down) : rx.cur <= down[k].block
    /\ \A k \in MtDataIn(down) : down[k].msg = o /\ down[k].block <= c
    /\ \A j, k \in MtDataIn(down) : j < k => down[j].block <= down[k].block
    /\ \A k \in MtAcksIn(up) :
           /\ MtSays(up[k].block, up[k].status, o, c, n, rx, asm)
           /\ MtBehind(up[k].block, c, down, rx)
    /\ \A k \in MtLive(acks) :
           /\ MtSays(acks[k].block, acks[k].status, o, c, n, rx, asm)
           /\ MtBehind(acks[k].block, c, down, rx)
    /\ \A j, k \in MtAcksIn(up) : j < k => up[j].block <= up[k].block
    /\ \A k \in MtLive(acks) :
           \A j \in MtAcksIn(up) : acks[k].block <= up[j].block

\* o has the lock and sends blocks.
MtSending == mtTxLock # "none" /\ mtApp[mtTxLock].pc # "tx"

MtTypes ==
    /\ mtSize \in [MtThreads -> Nat]
    /\ mtApp \in [MtThreads -> [pc : MtPcs, r : {0, 1}]]
    /\ mtTxLock \in MtThreads \cup {"none"}
    /\ DOMAIN mtTxFrag = {"cur", "count", "try", "error"}
    /\ mtTxFrag.cur \in Nat /\ mtTxFrag.count \in Nat
    /\ mtAcks \in Seq(MtListed)
    /\ mtDown \in Seq(MtFrames)
    /\ mtUp \in Seq(MtFrames)
    /\ mtRxFrag \in [pieces : Seq(MtPieces), cur : Nat, count : Nat,
                     total : Nat, len : Nat]
    /\ mtWhole \in Seq(Seq(MtPieces))

\* The lock is held from the moment it is taken until MT_MSG_txrx() returns.
MtLocked ==
    \A t \in MtThreads :
        mtApp[t].pc \in {"tx", "block", "wait", "pop", "undefined"}
            <=> mtTxLock = t

\* What the header of a block says.
MtFramed ==
    \A k \in MtDataIn(mtDown) :
        LET f == mtDown[k] IN
        /\ mtApp[f.msg].pc \notin {"idle", "tx"}
        /\ f.total = mtSize[f.msg]
        /\ f.block = 0 => f.len = MtFragSize /\ MtBlocks(mtSize[f.msg]) > 1

MtCounted ==
    MtSending =>
        /\ MtFragments(mtTxLock)
        /\ mtTxFrag.count = MtBlocks(mtSize[mtTxLock])
        /\ mtTxFrag.cur < mtTxFrag.count

MtPhase ==
    IF MtSending
      THEN \/ /\ mtTxFrag.cur = 0
              /\ MtOpening(mtTxLock, mtDown, mtUp, mtAcks, mtRxFrag)
           \/ /\ mtTxFrag.cur = 0
              /\ MtOpened(mtTxLock, mtTxFrag.count, mtSize[mtTxLock],
                          mtDown, mtUp, mtAcks, mtRxFrag)
           \/ /\ mtTxFrag.cur >= 1
              /\ MtGoing(mtTxLock, mtTxFrag.cur, mtTxFrag.count,
                         mtSize[mtTxLock], mtDown, mtUp, mtAcks, mtRxFrag,
                         mtWhole)
      ELSE MtRest(mtDown, mtUp, mtAcks, mtRxFrag)

MtResults ==
    \A t \in MtThreads :
        mtApp[t].r = 1 /\ MtFragments(t) => MtHas(mtWhole, t)

MtUnmixed ==
    \A i \in DOMAIN mtWhole :
        \E t \in MtThreads :
            mtWhole[i] =
                [b \in 1 .. MtBlocks(mtSize[t]) |-> MtPiece(t, b - 1)]

MtInv ==
    /\ MtTypes /\ MtLocked /\ MtFramed /\ MtCounted
    /\ MtPhase /\ MtResults /\ MtUnmixed

\* The lengths of the messages do not change.
MtInvIfLong == mtSize \in [MtThreads -> Nat] /\ (NoSingleBlocks => MtInv)

-----------------------------------------------------------------------------
\* The fields of a frame.
LEMMA MtFrameFields ==
    ASSUME NEW f \in MtFrames
    PROVE  /\ f.type = "data" => /\ f.msg \in MtThreads /\ f.block \in Nat
                                 /\ f.total \in Nat /\ f.len \in Int
           /\ f.type = "ack" => f.block \in Nat /\ f.status \in MtStatuses
BY DEF MtFrames, MtDataFrames

\* The frames that are sent are frames.
LEMMA MtAckIsFrame ==
    ASSUME NEW b \in Nat, NEW s \in MtStatuses
    PROVE  /\ MtAck(b, s) \in MtFrames
           /\ MtAck(b, s).type = "ack" /\ MtAck(b, s).block = b /\ MtAck(b, s).status = s
BY DEF MtFrames, MtAck

\* So is the status that ends a transfer.
LEMMA MtExtIsFrame ==
    ASSUME NEW b \in Nat, NEW s \in {"frag_complete", "frag_aborted"}
    PROVE  MtExtStatus(b, s) \in MtFrames /\ MtExtStatus(b, s).type = "ext"
BY DEF MtFrames, MtExtStatus

\* A line without its first frame.
LEMMA MtTail ==
    ASSUME NEW S, NEW q \in Seq(S), q # <<>>
    PROVE  /\ Tail(q) \in Seq(S) /\ Head(q) = q[1] /\ q[1] \in S /\ 1 \in DOMAIN q
           /\ DOMAIN q = 1 .. Len(q) /\ Len(q) \in Nat
           /\ DOMAIN Tail(q) = 1 .. Len(q) - 1
           /\ \A k \in DOMAIN Tail(q) : k + 1 \in DOMAIN q /\ Tail(q)[k] = q[k + 1]
OBVIOUS

\* A line with a frame more.
LEMMA MtAppend ==
    ASSUME NEW S, NEW q \in Seq(S), NEW e \in S
    PROVE  /\ Append(q, e) \in Seq(S) /\ Len(q) \in Nat
           /\ DOMAIN q = 1 .. Len(q) /\ DOMAIN Append(q, e) = 1 .. Len(q) + 1
           /\ \A k \in DOMAIN q : Append(q, e)[k] = q[k]
           /\ Append(q, e)[Len(q) + 1] = e
OBVIOUS

\* A line with a frame more at the other end.
LEMMA MtPrepend ==
    ASSUME NEW S, NEW q \in Seq(S), NEW e \in S
    PROVE  /\ <<e>> \o q \in Seq(S) /\ Len(q) \in Nat
           /\ DOMAIN q = 1 .. Len(q) /\ DOMAIN (<<e>> \o q) = 1 .. Len(q) + 1
           /\ (<<e>> \o q)[1] = e
           /\ \A k \in DOMAIN q : (<<e>> \o q)[k + 1] = q[k]
OBVIOUS

\* A line with two frames more.
LEMMA MtAppendTwo ==
    ASSUME NEW S, NEW q \in Seq(S), NEW d \in S, NEW e \in S
    PROVE  /\ q \o <<d, e>> \in Seq(S) /\ Len(q) \in Nat
           /\ DOMAIN q = 1 .. Len(q) /\ DOMAIN (q \o <<d, e>>) = 1 .. Len(q) + 2
           /\ \A k \in DOMAIN q : (q \o <<d, e>>)[k] = q[k]
           /\ (q \o <<d, e>>)[Len(q) + 1] = d /\ (q \o <<d, e>>)[Len(q) + 2] = e
OBVIOUS

\* The number of blocks.
LEMMA MtBlocksNat ==
    ASSUME NEW s \in Nat
    PROVE  MtBlocks(s) \in Nat
<1> DEFINE a == s + MtFragSize - 1
<1>1. MtFragSize \in Nat /\ MtFragSize >= 1 BY MtAssumption
<1>2. a \in Nat BY <1>1
<1>3. a \div MtFragSize \in Nat
  <2> HIDE DEF a
  <2>. QED BY <1>1, <1>2, SMT
<1>. QED BY <1>3 DEF MtBlocks

\* A message of more than one block is longer than a block.
LEMMA MtLongerThanBlock ==
    ASSUME NEW s \in Nat, MtBlocks(s) > 1
    PROVE  s > MtFragSize
<1> DEFINE a == s + MtFragSize - 1
           q == a \div MtFragSize
<1>0. MtFragSize \in Nat /\ MtFragSize >= 1 BY MtAssumption
<1>1. MtFragSize \in Nat \ {0} /\ a \in Nat BY <1>0
<1>2. a = MtFragSize * q + (a % MtFragSize) /\ a % MtFragSize \in 0 .. MtFragSize - 1 /\ q \in Int
  BY <1>1, SMT
<1>3. q >= 2 BY <1>2 DEF MtBlocks
<1>4. MtFragSize * q >= MtFragSize * 2
  <2> HIDE DEF q
  <2>. QED BY <1>1, <1>2, <1>3, SMT
<1>. HIDE DEF q
<1>. QED BY <1>1, <1>2, <1>4

-----------------------------------------------------------------------------
\* The blocks of the line r are those of q from a place on.
MtFewerData(q, r) ==
    \E d \in Nat : \A k \in MtDataIn(r) : k + d \in MtDataIn(q) /\ r[k] = q[k + d]

\* The acknowledgements of the line r are those of q from a place on.
MtFewerAcks(q, r) ==
    \E d \in Nat : \A k \in MtAcksIn(r) : k + d \in MtAcksIn(q) /\ r[k] = q[k + d]

\* A line without its first frame.
LEMMA MtTailFewer ==
    ASSUME NEW q \in Seq(MtFrames), q # <<>>
    PROVE  MtFewerData(q, Tail(q)) /\ MtFewerAcks(q, Tail(q))
<1> DEFINE r == Tail(q)
<1>1. \A k \in DOMAIN r : k + 1 \in DOMAIN q /\ r[k] = q[k + 1]
  BY MtTail
<1> HIDE DEF r
<1>2. \A k \in MtDataIn(r) : k + 1 \in MtDataIn(q) /\ r[k] = q[k + 1]
  BY <1>1 DEF MtDataIn
<1>3. \A k \in MtAcksIn(r) : k + 1 \in MtAcksIn(q) /\ r[k] = q[k + 1]
  BY <1>1 DEF MtAcksIn
<1>4. MtFewerData(q, r) BY <1>2 DEF MtFewerData
<1>5. MtFewerAcks(q, r) BY <1>3 DEF MtFewerAcks
<1>. QED BY <1>4, <1>5 DEF r

\* A line with frames more that are no blocks.
LEMMA MtLongerDown ==
    ASSUME NEW q \in Seq(MtFrames), NEW r \in Seq(MtFrames),
           \A k \in DOMAIN q : k \in DOMAIN r /\ r[k] = q[k],
           \A k \in DOMAIN r \ DOMAIN q : r[k].type # "data"
    PROVE  MtFewerData(q, r)
<1>1. \A k \in DOMAIN r : k \in Nat OBVIOUS
<1>2. \A k \in MtDataIn(r) : k + 0 \in MtDataIn(q) /\ r[k] = q[k + 0]
  BY <1>1 DEF MtDataIn
<1>. QED BY <1>2 DEF MtFewerData

\* The places of a line.
LEMMA MtPlaces ==
    ASSUME NEW q \in Seq(MtFrames)
    PROVE  /\ \A k \in MtDataIn(q) : k \in Nat /\ k \in DOMAIN q /\ q[k].block \in Nat /\ q[k].msg \in MtThreads
           /\ \A k \in MtAcksIn(q) : k \in Nat /\ k \in DOMAIN q /\ q[k].block \in Nat /\ q[k].status \in MtStatuses
<1>1. \A k \in DOMAIN q : k \in Nat /\ q[k] \in MtFrames OBVIOUS
<1>2. ASSUME NEW k \in MtDataIn(q) PROVE k \in Nat /\ k \in DOMAIN q /\ q[k].block \in Nat /\ q[k].msg \in MtThreads
  BY <1>1, MtFrameFields DEF MtDataIn
<1>3. ASSUME NEW k \in MtAcksIn(q) PROVE k \in Nat /\ k \in DOMAIN q /\ q[k].block \in Nat /\ q[k].status \in MtStatuses
  BY <1>1, MtFrameFields DEF MtAcksIn
<1>. QED BY <1>2, <1>3

\* The list.
LEMMA MtListedPlaces ==
    ASSUME NEW q \in Seq(MtListed)
    PROVE  \A k \in MtLive(q) : q[k].block \in Nat /\ q[k].status \in MtStatuses
<1>1. \A k \in DOMAIN q : q[k] \in MtListed OBVIOUS
<1>2. ASSUME NEW e \in MtListed, e.status # "freed" PROVE e.block \in Nat /\ e.status \in MtStatuses
  BY <1>2 DEF MtListed, MtFreed
<1>. QED BY <1>1, <1>2 DEF MtLive

\* Losing or reading what is not a block of a message keeps the phase.
LEMMA MtFewerDown ==
    ASSUME NEW p \in Seq(MtFrames), NEW q \in Seq(MtFrames), MtFewerData(p, q),
           NEW up, NEW acks, NEW rx
    PROVE  /\ MtRest(p, up, acks, rx) => MtRest(q, up, acks, rx)
           /\ \A o : MtOpening(o, p, up, acks, rx) => MtOpening(o, q, up, acks, rx)
           /\ \A o, n, s : MtOpened(o, n, s, p, up, acks, rx) => MtOpened(o, n, s, q, up, acks, rx)
           /\ \A o, c, n, s, w : MtGoing(o, c, n, s, p, up, acks, rx, w)
                  => MtGoing(o, c, n, s, q, up, acks, rx, w)
<1>1. PICK d \in Nat : \A k \in MtDataIn(q) : k + d \in MtDataIn(p) /\ q[k] = p[k + d]
  BY DEF MtFewerData
<1>2. \A k \in MtDataIn(q) : k \in Nat BY MtPlaces
<1>3. \A j, k \in MtDataIn(q) : j < k => j + d < k + d BY <1>2
<1>4. MtRest(p, up, acks, rx) => MtRest(q, up, acks, rx) BY <1>1 DEF MtRest
<1>5. ASSUME NEW o, MtOpening(o, p, up, acks, rx) PROVE MtOpening(o, q, up, acks, rx)
  BY <1>1, <1>3, <1>5 DEF MtOpening
<1>6. ASSUME NEW o, NEW n, NEW s, MtOpened(o, n, s, p, up, acks, rx)
      PROVE  MtOpened(o, n, s, q, up, acks, rx)
  BY <1>1, <1>6 DEF MtOpened
<1>7. ASSUME NEW o, NEW c, NEW n, NEW s, NEW w, MtGoing(o, c, n, s, p, up, acks, rx, w)
      PROVE  MtGoing(o, c, n, s, q, up, acks, rx, w)
  <2>1. ASSUME NEW b, MtBehind(b, c, p, rx) PROVE MtBehind(b, c, q, rx)
    BY <1>1, <2>1 DEF MtBehind
  <2>2. \A j, k \in MtDataIn(q) : j < k => q[j].block <= q[k].block
    BY <1>1, <1>3, <1>7 DEF MtGoing
  <2>3. \A k \in MtDataIn(q) : q[k].msg = o /\ q[k].block <= c
    BY <1>1, <1>7 DEF MtGoing
  <2>4. rx # MtNoFrag => /\ MtPartial(rx, o, n, s) /\ rx.cur <= c
                         /\ \A k \in MtDataIn(q) : rx.cur <= q[k].block
    BY <1>1, <1>7 DEF MtGoing
  <2>. QED BY <1>7, <2>1, <2>2, <2>3, <2>4 DEF MtGoing
<1>. QED BY <1>4, <1>5, <1>6, <1>7

\* Losing what comes back keeps the phase.
LEMMA MtFewerUp ==
    ASSUME NEW p \in Seq(MtFrames), NEW q \in Seq(MtFrames), MtFewerAcks(p, q),
           NEW down, NEW acks, NEW rx
    PROVE  /\ MtRest(down, p, acks, rx) => MtRest(down, q, acks, rx)
           /\ \A o : MtOpening(o, down, p, acks, rx) => MtOpening(o, down, q, acks, rx)
           /\ \A o, n, s : MtOpened(o, n, s, down, p, acks, rx) => MtOpened(o, n, s, down, q, acks, rx)
           /\ \A o, c, n, s, w : MtGoing(o, c, n, s, down, p, acks, rx, w)
                  => MtGoing(o, c, n, s, down, q, acks, rx, w)
<1>1. PICK d \in Nat : \A k \in MtAcksIn(q) : k + d \in MtAcksIn(p) /\ q[k] = p[k + d]
  BY DEF MtFewerAcks
<1>2. \A k \in MtAcksIn(q) : k \in Nat BY MtPlaces
<1>3. \A j, k \in MtAcksIn(q) : j < k => j + d < k + d BY <1>2
<1>4. MtRest(down, p, acks, rx) => MtRest(down, q, acks, rx) BY <1>1 DEF MtRest
<1>5. ASSUME NEW o, MtOpening(o, down, p, acks, rx) PROVE MtOpening(o, down, q, acks, rx)
  BY <1>1, <1>5 DEF MtOpening
<1>6. ASSUME NEW o, NEW n, NEW s, MtOpened(o, n, s, down, p, acks, rx)
      PROVE  MtOpened(o, n, s, down, q, acks, rx)
  BY <1>1, <1>3, <1>6 DEF MtOpened
<1>7. ASSUME NEW o, NEW c, NEW n, NEW s, NEW w, MtGoing(o, c, n, s, down, p, acks, rx, w)
      PROVE  MtGoing(o, c, n, s, down, q, acks, rx, w)
  <2>1. \A j, k \in MtAcksIn(q) : j < k => q[j].block <= q[k].block
    BY <1>1, <1>3, <1>7 DEF MtGoing
  <2>. QED BY <1>1, <1>7, <2>1 DEF MtGoing
<1>. QED BY <1>4, <1>5, <1>6, <1>7

-----------------------------------------------------------------------------
\* A line with a frame more: its blocks and its acknowledgements.
LEMMA MtOneMore ==
    ASSUME NEW q \in Seq(MtFrames), NEW f \in MtFrames
    PROVE  LET r == Append(q, f)  m == Len(q) + 1 IN
           /\ r \in Seq(MtFrames) /\ r[m] = f /\ m \in Nat
           /\ MtDataIn(r) = MtDataIn(q) \cup (IF f.type = "data" THEN {m} ELSE {})
           /\ MtAcksIn(r) = MtAcksIn(q) \cup (IF f.type = "ack" THEN {m} ELSE {})
           /\ \A k \in DOMAIN q : r[k] = q[k] /\ k < m /\ k \in Nat
<1> DEFINE r == Append(q, f)
           m == Len(q) + 1
<1>1. /\ r \in Seq(MtFrames) /\ r[m] = f /\ m \in Nat /\ Len(q) \in Nat
      /\ DOMAIN q = 1 .. Len(q) /\ DOMAIN r = 1 .. m
      /\ \A k \in DOMAIN q : r[k] = q[k]
  BY MtAppend
<1>2. DOMAIN r = DOMAIN q \cup {m} /\ m \notin DOMAIN q BY <1>1
<1>3. \A k \in DOMAIN q : k < m /\ k \in Nat BY <1>1
<1> HIDE DEF r, m
<1>4. MtDataIn(r) = MtDataIn(q) \cup (IF f.type = "data" THEN {m} ELSE {})
  BY <1>1, <1>2 DEF MtDataIn
<1>5. MtAcksIn(r) = MtAcksIn(q) \cup (IF f.type = "ack" THEN {m} ELSE {})
  BY <1>1, <1>2 DEF MtAcksIn
<1>6. /\ r \in Seq(MtFrames) /\ r[m] = f /\ m \in Nat
      /\ MtDataIn(r) = MtDataIn(q) \cup (IF f.type = "data" THEN {m} ELSE {})
      /\ MtAcksIn(r) = MtAcksIn(q) \cup (IF f.type = "ack" THEN {m} ELSE {})
      /\ \A k \in DOMAIN q : r[k] = q[k] /\ k < m /\ k \in Nat
  BY <1>1, <1>3, <1>4, <1>5
<1>. QED BY <1>6 DEF r, m

\* The same with what is needed of it: the frame is a block.
LEMMA MtBlockMore ==
    ASSUME NEW q \in Seq(MtFrames), NEW f \in MtFrames, f.type = "data"
    PROVE  \E r \in Seq(MtFrames), m \in Nat :
           /\ r = Append(q, f) /\ r[m] = f
           /\ MtDataIn(r) = MtDataIn(q) \cup {m}
           /\ \A k \in MtDataIn(q) : r[k] = q[k] /\ k < m /\ k \in Nat
<1> DEFINE r == Append(q, f)
           m == Len(q) + 1
<1>1. /\ r \in Seq(MtFrames) /\ r[m] = f /\ m \in Nat
      /\ MtDataIn(r) = MtDataIn(q) \cup {m}
      /\ \A k \in DOMAIN q : r[k] = q[k] /\ k < m /\ k \in Nat
  BY MtOneMore
<1>2. \A k \in MtDataIn(q) : k \in DOMAIN q BY DEF MtDataIn
<1>3. r = Append(q, f) OBVIOUS
<1> HIDE DEF r, m
<1>. QED BY <1>1, <1>2, <1>3

\* The frame is an acknowledgement.
LEMMA MtAckMore ==
    ASSUME NEW q \in Seq(MtFrames), NEW f \in MtFrames, f.type = "ack"
    PROVE  \E r \in Seq(MtFrames), m \in Nat :
           /\ r = Append(q, f) /\ r[m] = f
           /\ MtAcksIn(r) = MtAcksIn(q) \cup {m}
           /\ \A k \in MtAcksIn(q) : r[k] = q[k] /\ k < m /\ k \in Nat
<1> DEFINE r == Append(q, f)
           m == Len(q) + 1
<1>1. /\ r \in Seq(MtFrames) /\ r[m] = f /\ m \in Nat
      /\ MtAcksIn(r) = MtAcksIn(q) \cup {m}
      /\ \A k \in DOMAIN q : r[k] = q[k] /\ k < m /\ k \in Nat
  BY MtOneMore
<1>2. \A k \in MtAcksIn(q) : k \in DOMAIN q BY DEF MtAcksIn
<1>3. r = Append(q, f) OBVIOUS
<1> HIDE DEF r, m
<1>. QED BY <1>1, <1>2, <1>3

\* Another copy of block 0 before it has arrived.
LEMMA MtSendOpening ==
    ASSUME NEW down \in Seq(MtFrames), NEW f \in MtFrames, NEW o, NEW up, NEW acks, NEW rx,
           f.type = "data", f.msg = o, f.block = 0, MtOpening(o, down, up, acks, rx)
    PROVE  MtOpening(o, Append(down, f), up, acks, rx)
<1>1. PICK r \in Seq(MtFrames), m \in Nat :
           /\ r = Append(down, f) /\ r[m] = f
           /\ MtDataIn(r) = MtDataIn(down) \cup {m}
           /\ \A k \in MtDataIn(down) : r[k] = down[k] /\ k < m /\ k \in Nat
  BY MtBlockMore
<1>2. \A k \in MtDataIn(r) : r[k].block = 0 <=> r[k].msg = o BY <1>1 DEF MtOpening
<1>3. ASSUME NEW j \in MtDataIn(r), NEW k \in MtDataIn(r), j < k, r[j].block = 0
      PROVE  r[k].block = 0
  <2>1. CASE k = m BY <1>1, <2>1
  <2>2. CASE k # m
    <3>1. j # m BY <1>1, <1>3, <2>2
    <3>. QED BY <1>1, <1>3, <2>2, <3>1 DEF MtOpening
  <2>. QED BY <2>1, <2>2
<1>. QED BY <1>1, <1>2, <1>3 DEF MtOpening

\* Another copy of block 0 after it has arrived.
LEMMA MtSendOpened ==
    ASSUME NEW down \in Seq(MtFrames), NEW f \in MtFrames, NEW o, NEW n, NEW s, NEW up, NEW acks,
           NEW rx, f.type = "data", f.msg = o, f.block = 0, MtOpened(o, n, s, down, up, acks, rx)
    PROVE  MtOpened(o, n, s, Append(down, f), up, acks, rx)
<1>1. PICK r \in Seq(MtFrames), m \in Nat :
           /\ r = Append(down, f) /\ r[m] = f
           /\ MtDataIn(r) = MtDataIn(down) \cup {m}
           /\ \A k \in MtDataIn(down) : r[k] = down[k] /\ k < m /\ k \in Nat
  BY MtBlockMore
<1>2. \A k \in MtDataIn(r) : r[k].block = 0 /\ r[k].msg = o BY <1>1 DEF MtOpened
<1>. QED BY <1>1, <1>2 DEF MtOpened

\* A copy of a later block.
LEMMA MtSendGoing ==
    ASSUME NEW down \in Seq(MtFrames), NEW f \in MtFrames, NEW o, NEW c \in Nat, NEW n, NEW s, NEW up,
           NEW acks, NEW rx, NEW w, f.type = "data", f.msg = o, f.block = c,
           MtGoing(o, c, n, s, down, up, acks, rx, w)
    PROVE  MtGoing(o, c, n, s, Append(down, f), up, acks, rx, w)
<1>1. PICK r \in Seq(MtFrames), m \in Nat :
           /\ r = Append(down, f) /\ r[m] = f
           /\ MtDataIn(r) = MtDataIn(down) \cup {m}
           /\ \A k \in MtDataIn(down) : r[k] = down[k] /\ k < m /\ k \in Nat
  BY MtBlockMore
<1>a. \A k \in MtDataIn(down) : down[k].msg = o /\ down[k].block <= c BY DEF MtGoing
<1>b. r[m].msg = o /\ r[m].block <= c BY <1>1
<1>2. \A k \in MtDataIn(r) : r[k].msg = o /\ r[k].block <= c BY <1>1, <1>a, <1>b
<1>3. ASSUME NEW j \in MtDataIn(r), NEW k \in MtDataIn(r), j < k PROVE r[j].block <= r[k].block
  <2>1. CASE k = m BY <1>1, <1>2, <2>1
  <2>2. CASE k # m
    <3>1. j # m BY <1>1, <1>3, <2>2
    <3>. QED BY <1>1, <1>3, <2>2, <3>1 DEF MtGoing
  <2>. QED BY <2>1, <2>2
<1>4. ASSUME NEW b, MtBehind(b, c, down, rx) PROVE MtBehind(b, c, r, rx)
  BY <1>1, <1>4 DEF MtBehind
<1>5. rx # MtNoFrag => /\ MtPartial(rx, o, n, s) /\ rx.cur <= c
                       /\ \A k \in MtDataIn(r) : rx.cur <= r[k].block
  BY <1>1 DEF MtGoing
<1>. QED BY <1>1, <1>2, <1>3, <1>4, <1>5 DEF MtGoing

-----------------------------------------------------------------------------
\* The list with an acknowledgement more.
LEMMA MtListedMore ==
    ASSUME NEW q \in Seq(MtListed), NEW a \in MtListed
    PROVE  /\ <<a>> \o q \in Seq(MtListed)
           /\ \A k \in MtLive(<<a>> \o q) :
                  (<<a>> \o q)[k] = a \/ \E j \in MtLive(q) : (<<a>> \o q)[k] = q[j]
<1> DEFINE r == <<a>> \o q
<1>1. /\ r \in Seq(MtListed) /\ Len(q) \in Nat
      /\ DOMAIN q = 1 .. Len(q) /\ DOMAIN r = 1 .. Len(q) + 1
      /\ r[1] = a
      /\ \A k \in DOMAIN q : r[k + 1] = q[k]
  BY MtPrepend
<1> HIDE DEF r
<1>2. ASSUME NEW k \in MtLive(r) PROVE r[k] = a \/ \E j \in MtLive(q) : r[k] = q[j]
  <2>1. CASE k = 1 BY <1>1, <2>1
  <2>2. CASE k # 1
    <3>1. k \in DOMAIN r BY DEF MtLive
    <3>2. k - 1 \in DOMAIN q /\ (k - 1) + 1 = k BY <1>1, <2>2, <3>1
    <3>3. r[k] = q[k - 1] BY <1>1, <3>2
    <3>4. k - 1 \in MtLive(q) BY <3>2, <3>3 DEF MtLive
    <3>. QED BY <3>3, <3>4
  <2>. QED BY <2>1, <2>2
<1>. QED BY <1>1, <1>2 DEF r

\* The first frame that comes back is an acknowledgement: it goes to the
\* list.
LEMMA MtAckArrives ==
    ASSUME NEW up \in Seq(MtFrames), up # <<>>, NEW acks \in Seq(MtListed), NEW a \in MtListed,
           up[1].type = "ack", a.block = up[1].block, a.status = up[1].status,
           NEW down, NEW rx
    PROVE  LET list == <<a>> \o acks IN
           /\ MtRest(down, up, acks, rx) => MtRest(down, Tail(up), list, rx)
           /\ \A o : MtOpening(o, down, up, acks, rx) => MtOpening(o, down, Tail(up), list, rx)
           /\ \A o, n, s : MtOpened(o, n, s, down, up, acks, rx)
                  => MtOpened(o, n, s, down, Tail(up), list, rx)
           /\ \A o, c, n, s, w : MtGoing(o, c, n, s, down, up, acks, rx, w)
                  => MtGoing(o, c, n, s, down, Tail(up), list, rx, w)
<1> DEFINE list == <<a>> \o acks
           q == Tail(up)
<1>1. \A k \in MtLive(list) : list[k] = a \/ \E j \in MtLive(acks) : list[k] = acks[j]
  BY MtListedMore
<1>2. /\ q \in Seq(MtFrames) /\ 1 \in DOMAIN up
      /\ \A k \in DOMAIN q : k + 1 \in DOMAIN up /\ q[k] = up[k + 1]
  BY MtTail
<1>3. MtFewerAcks(up, q) BY MtTailFewer
<1> HIDE DEF list, q
<1>4. 1 \in MtAcksIn(up) BY <1>2 DEF MtAcksIn
<1>5. \A k \in MtAcksIn(q) : k + 1 \in MtAcksIn(up) /\ q[k] = up[k + 1] /\ k + 1 > 1
  <2>1. \A k \in DOMAIN q : k \in Nat /\ k >= 1 BY <1>2
  <2>. QED BY <1>2, <2>1 DEF MtAcksIn
<1>6. MtRest(down, up, acks, rx) => MtRest(down, q, list, rx)
  BY <1>1, <1>4, <1>5 DEF MtRest
<1>7. ASSUME NEW o, MtOpening(o, down, up, acks, rx) PROVE MtOpening(o, down, q, list, rx)
  <2>1. MtOpening(o, down, q, acks, rx) BY <1>2, <1>3, <1>7, MtFewerUp
  <2>2. a.block >= 1 BY <1>4, <1>7 DEF MtOpening
  <2>3. \A k \in MtLive(list) : list[k].block >= 1 BY <1>1, <1>7, <2>2 DEF MtOpening
  <2>. QED BY <2>1, <2>3 DEF MtOpening
<1>8. ASSUME NEW o, NEW n, NEW s, MtOpened(o, n, s, down, up, acks, rx)
      PROVE  MtOpened(o, n, s, down, q, list, rx)
  <2>1. MtOpened(o, n, s, down, q, acks, rx) BY <1>2, <1>3, <1>8, MtFewerUp
  <2>2. a.block = 0 => a.status = "success" BY <1>4, <1>8 DEF MtOpened
  <2>3. a.block = 0 => \A j \in MtAcksIn(q) : q[j].block = 0
    <3>1. SUFFICES ASSUME a.block = 0, NEW j \in MtAcksIn(q) PROVE q[j].block = 0 OBVIOUS
    <3>2. 1 < j + 1 /\ j + 1 \in MtAcksIn(up) /\ q[j] = up[j + 1] BY <1>5
    <3>. QED BY <1>4, <1>8, <3>1, <3>2 DEF MtOpened
  <2>4. \A k \in MtLive(list) : list[k].block = 0 =>
           /\ list[k].status = "success"
           /\ \A j \in MtAcksIn(q) : q[j].block = 0
    BY <1>1, <2>1, <2>2, <2>3 DEF MtOpened
  <2>. QED BY <2>1, <2>4 DEF MtOpened
<1>9. ASSUME NEW o, NEW c, NEW n, NEW s, NEW w, MtGoing(o, c, n, s, down, up, acks, rx, w)
      PROVE  MtGoing(o, c, n, s, down, q, list, rx, w)
  <2>1. MtGoing(o, c, n, s, down, q, acks, rx, w) BY <1>2, <1>3, <1>9, MtFewerUp
  <2>2. /\ MtSays(a.block, a.status, o, c, n, rx, w)
        /\ MtBehind(a.block, c, down, rx)
    BY <1>4, <1>9 DEF MtGoing
  <2>3. \A k \in MtLive(list) :
           /\ MtSays(list[k].block, list[k].status, o, c, n, rx, w)
           /\ MtBehind(list[k].block, c, down, rx)
    BY <1>1, <1>9, <2>2 DEF MtGoing
  <2>4. \A j \in MtAcksIn(q) : a.block <= q[j].block BY <1>4, <1>5, <1>9 DEF MtGoing
  <2>5. \A k \in MtLive(list) : \A j \in MtAcksIn(q) : list[k].block <= q[j].block
    BY <1>1, <2>1, <2>4 DEF MtGoing
  <2>. QED BY <2>1, <2>3, <2>5 DEF MtGoing
<1>10. /\ MtRest(down, up, acks, rx) => MtRest(down, q, list, rx)
       /\ \A o : MtOpening(o, down, up, acks, rx) => MtOpening(o, down, q, list, rx)
       /\ \A o, n, s : MtOpened(o, n, s, down, up, acks, rx) => MtOpened(o, n, s, down, q, list, rx)
       /\ \A o, c, n, s, w : MtGoing(o, c, n, s, down, up, acks, rx, w)
              => MtGoing(o, c, n, s, down, q, list, rx, w)
  BY <1>6, <1>7, <1>8, <1>9
<1>. QED BY <1>10 DEF list, q

\* Acknowledgements that leave the list.
LEMMA MtFewerListed ==
    ASSUME NEW p, NEW q, \A k \in MtLive(q) : \E j \in MtLive(p) : q[k] = p[j],
           NEW down, NEW up, NEW rx
    PROVE  /\ \A o : MtOpening(o, down, up, p, rx) => MtOpening(o, down, up, q, rx)
           /\ \A o, n, s : MtOpened(o, n, s, down, up, p, rx) => MtOpened(o, n, s, down, up, q, rx)
           /\ \A o, c, n, s, w : MtGoing(o, c, n, s, down, up, p, rx, w)
                  => MtGoing(o, c, n, s, down, up, q, rx, w)
<1>1. ASSUME NEW o, MtOpening(o, down, up, p, rx) PROVE MtOpening(o, down, up, q, rx)
  <2>1. \A k \in MtLive(q) : q[k].block >= 1 BY <1>1 DEF MtOpening
  <2>. QED BY <1>1, <2>1 DEF MtOpening
<1>2. ASSUME NEW o, NEW n, NEW s, MtOpened(o, n, s, down, up, p, rx)
      PROVE  MtOpened(o, n, s, down, up, q, rx)
  <2>1. \A k \in MtLive(q) : q[k].block = 0 =>
           /\ q[k].status = "success"
           /\ \A j \in MtAcksIn(up) : up[j].block = 0
    BY <1>2 DEF MtOpened
  <2>. QED BY <1>2, <2>1 DEF MtOpened
<1>3. ASSUME NEW o, NEW c, NEW n, NEW s, NEW w, MtGoing(o, c, n, s, down, up, p, rx, w)
      PROVE  MtGoing(o, c, n, s, down, up, q, rx, w)
  <2>1. \A k \in MtLive(q) :
           /\ MtSays(q[k].block, q[k].status, o, c, n, rx, w)
           /\ MtBehind(q[k].block, c, down, rx)
    BY <1>3 DEF MtGoing
  <2>2. \A k \in MtLive(q) : \A j \in MtAcksIn(up) : q[k].block <= up[j].block
    BY <1>3 DEF MtGoing
  <2>. QED BY <1>3, <2>1, <2>2 DEF MtGoing
<1>. QED BY <1>1, <1>2, <1>3

\* Block 0 is acknowledged.
LEMMA MtAdvanceOpened ==
    ASSUME NEW down \in Seq(MtFrames), NEW up \in Seq(MtFrames), NEW acks, NEW list,
           NEW o, NEW n \in Nat, NEW s, NEW rx, NEW w,
           MtOpened(o, n, s, down, up, acks, rx),
           MtLive(list) = {}, NEW k \in MtLive(acks), acks[k].block = 0
    PROVE  MtGoing(o, 1, n, s, down, up, list, rx, w)
<1>1. \A j \in MtAcksIn(up) : up[j].block = 0 BY DEF MtOpened
<1>2. \A j \in MtDataIn(down) : down[j].block = 0 /\ down[j].msg = o BY DEF MtOpened
<1>3. rx # MtNoFrag => MtPartial(rx, o, n, s) /\ rx.cur = 0 BY DEF MtOpened
<1>4. MtBehind(0, 1, down, rx) BY <1>2, <1>3 DEF MtBehind
<1>5. ASSUME NEW x PROVE MtSays(0, x, o, 1, n, rx, w) BY DEF MtSays
<1>6. rx # MtNoFrag => /\ MtPartial(rx, o, n, s) /\ rx.cur <= 1
                       /\ \A j \in MtDataIn(down) : rx.cur <= down[j].block
  BY <1>2, <1>3
<1>7. /\ \A j \in MtDataIn(down) : down[j].msg = o /\ down[j].block <= 1
      /\ \A i, j \in MtDataIn(down) : i < j => down[i].block <= down[j].block
  BY <1>2
<1>8. \A i, j \in MtAcksIn(up) : i < j => up[i].block <= up[j].block BY <1>1
<1>. QED BY <1>1, <1>4, <1>5, <1>6, <1>7, <1>8 DEF MtGoing

\* A later block is acknowledged.
LEMMA MtAdvanceGoing ==
    ASSUME NEW down \in Seq(MtFrames), NEW up \in Seq(MtFrames), NEW acks, NEW list,
           NEW o, NEW c \in Nat, NEW n \in Nat, NEW s, NEW rx, NEW w,
           rx # MtNoFrag => rx.cur \in Nat,
           MtGoing(o, c, n, s, down, up, acks, rx, w),
           MtLive(list) = {}
    PROVE  MtGoing(o, c + 1, n, s, down, up, list, rx, w)
<1>0. /\ \A k \in MtDataIn(down) : down[k].block \in Nat
      /\ \A k \in MtAcksIn(up) : up[k].block \in Nat
  BY MtPlaces
<1>1. ASSUME NEW b \in Nat, MtBehind(b, c, down, rx) PROVE MtBehind(b, c + 1, down, rx) /\ b # c + 1
  BY <1>1 DEF MtBehind
<1>2. \A k \in MtAcksIn(up) :
           /\ MtSays(up[k].block, up[k].status, o, c + 1, n, rx, w)
           /\ MtBehind(up[k].block, c + 1, down, rx)
  <2>1. \A k \in MtAcksIn(up) : MtBehind(up[k].block, c, down, rx) BY DEF MtGoing
  <2>. QED BY <1>0, <1>1, <2>1 DEF MtSays
<1>3. rx # MtNoFrag => /\ MtPartial(rx, o, n, s) /\ rx.cur <= c
                       /\ \A k \in MtDataIn(down) : rx.cur <= down[k].block
  BY DEF MtGoing
<1>4. rx # MtNoFrag => rx.cur <= c + 1 BY <1>3
<1>5. \A k \in MtDataIn(down) : down[k].msg = o /\ down[k].block <= c BY DEF MtGoing
<1>6. \A k \in MtDataIn(down) : down[k].msg = o /\ down[k].block <= c + 1 BY <1>0, <1>5
<1>7. \A j, k \in MtDataIn(down) : j < k => down[j].block <= down[k].block BY DEF MtGoing
<1>8. \A j, k \in MtAcksIn(up) : j < k => up[j].block <= up[k].block BY DEF MtGoing
<1>. QED BY <1>2, <1>3, <1>4, <1>6, <1>7, <1>8 DEF MtGoing

\* The transfer ends at a later block.
LEMMA MtEndsAtRest ==
    ASSUME NEW down \in Seq(MtFrames), NEW up \in Seq(MtFrames), NEW acks \in Seq(MtListed),
           NEW q \in Seq(MtFrames), MtFewerData(down, q),
           NEW o, NEW c \in Nat, c >= 1, NEW n, NEW s, NEW rx, NEW w,
           MtGoing(o, c, n, s, down, up, acks, rx, w),
           NEW k \in MtLive(acks), acks[k].block = c, acks[k].status # "success"
    PROVE  MtRest(q, up, <<>>, rx)
<1>1. MtSays(c, acks[k].status, o, c, n, rx, w) /\ MtBehind(c, c, down, rx) BY DEF MtGoing
<1>2. rx = MtNoFrag BY <1>1 DEF MtSays
<1>3. \A j \in MtDataIn(down) : c <= down[j].block /\ down[j].block \in Nat BY <1>1, MtPlaces DEF MtBehind
<1>4. \A j \in MtDataIn(down) : down[j].block >= 1 BY <1>3
<1>5. \A j \in MtDataIn(q) : q[j].block >= 1 BY <1>4 DEF MtFewerData
<1>6. MtLive(<<>>) = {} BY DEF MtLive
<1>7. \A j \in MtAcksIn(up) : c <= up[j].block /\ up[j].block \in Nat BY MtPlaces DEF MtGoing
<1>8. \A j \in MtAcksIn(up) : up[j].block >= 1 BY <1>7
<1>. QED BY <1>2, <1>5, <1>6, <1>8 DEF MtRest

-----------------------------------------------------------------------------
\* The first frame of the line is a block, and q is what follows it.
MtReads(down, q) ==
    /\ 1 \in MtDataIn(down)
    /\ \A k \in MtDataIn(q) : k + 1 \in MtDataIn(down) /\ 1 < k + 1 /\ q[k] = down[k + 1]

\* Reading a block.
LEMMA MtReadsTail ==
    ASSUME NEW down \in Seq(MtFrames), down # <<>>, down[1].type = "data"
    PROVE  MtReads(down, Tail(down)) /\ Tail(down) \in Seq(MtFrames)
<1> DEFINE q == Tail(down)
<1>1. /\ q \in Seq(MtFrames) /\ 1 \in DOMAIN down
      /\ \A k \in DOMAIN q : k + 1 \in DOMAIN down /\ q[k] = down[k + 1]
  BY MtTail
<1> HIDE DEF q
<1>2. \A k \in DOMAIN q : k \in Nat /\ k >= 1 BY <1>1
<1>3. MtReads(down, q) BY <1>1, <1>2 DEF MtReads, MtDataIn
<1>. QED BY <1>1, <1>3 DEF q

\* An acknowledgement of a later block at rest, or before block 0 arrives.
LEMMA MtAnswerOld ==
    ASSUME NEW up \in Seq(MtFrames), NEW a \in MtFrames, a.type = "ack", a.block >= 1,
           NEW down, NEW acks, NEW rx
    PROVE  /\ MtRest(down, up, acks, rx) => MtRest(down, Append(up, a), acks, rx)
           /\ \A o : MtOpening(o, down, up, acks, rx) => MtOpening(o, down, Append(up, a), acks, rx)
<1>1. PICK r \in Seq(MtFrames), m \in Nat :
           /\ r = Append(up, a) /\ r[m] = a
           /\ MtAcksIn(r) = MtAcksIn(up) \cup {m}
           /\ \A k \in MtAcksIn(up) : r[k] = up[k] /\ k < m /\ k \in Nat
  BY MtAckMore
<1>2. (\A k \in MtAcksIn(up) : up[k].block >= 1) => \A k \in MtAcksIn(r) : r[k].block >= 1
  BY <1>1
<1>3. MtRest(down, up, acks, rx) => MtRest(down, r, acks, rx) BY <1>2 DEF MtRest
<1>4. \A o : MtOpening(o, down, up, acks, rx) => MtOpening(o, down, r, acks, rx)
  BY <1>2 DEF MtOpening
<1>. QED BY <1>1, <1>3, <1>4

\* Block 0 arrives for the first time.
LEMMA MtOpens ==
    ASSUME NEW down \in Seq(MtFrames), NEW q \in Seq(MtFrames), MtReads(down, q),
           NEW up \in Seq(MtFrames), NEW a \in MtFrames, a.type = "ack", a.block = 0, a.status = "success",
           NEW o, NEW n, NEW s, NEW acks \in Seq(MtListed), NEW rx, NEW rx2,
           MtOpening(o, down, up, acks, rx), down[1].block = 0,
           MtPartial(rx2, o, n, s), rx2.cur = 0
    PROVE  MtOpened(o, n, s, q, Append(up, a), acks, rx2)
<1>1. PICK r \in Seq(MtFrames), m \in Nat :
           /\ r = Append(up, a) /\ r[m] = a
           /\ MtAcksIn(r) = MtAcksIn(up) \cup {m}
           /\ \A k \in MtAcksIn(up) : r[k] = up[k] /\ k < m /\ k \in Nat
  BY MtAckMore
<1>2. \A k \in MtAcksIn(up) : up[k].block >= 1 /\ up[k].block \in Nat BY MtPlaces DEF MtOpening
<1>3. \A k \in MtAcksIn(up) : up[k].block # 0 BY <1>2
<1>4. \A k \in MtDataIn(q) : q[k].block = 0 /\ q[k].msg = o BY DEF MtOpening, MtReads
<1>5. \A k \in MtLive(acks) : acks[k].block # 0
  <2>1. \A k \in MtLive(acks) : acks[k].block >= 1 BY DEF MtOpening
  <2>2. \A k \in MtLive(acks) : acks[k].block \in Nat BY MtListedPlaces
  <2>. QED BY <2>1, <2>2
<1>6. \A k \in MtAcksIn(r) : r[k].block = 0 => k = m BY <1>1, <1>3
<1>7. \A k \in MtAcksIn(r) : r[k].block = 0 => r[k].status = "success" BY <1>1, <1>6
<1>8. \A j, k \in MtAcksIn(r) : j < k /\ r[j].block = 0 => r[k].block = 0
  <2>1. \A k \in MtAcksIn(r) : ~(m < k) BY <1>1
  <2>. QED BY <1>6, <2>1
<1>. QED BY <1>1, <1>4, <1>5, <1>7, <1>8 DEF MtOpened

\* Block 0 arrives again when it was dropped.
LEMMA MtOpensAgain ==
    ASSUME NEW down \in Seq(MtFrames), NEW q \in Seq(MtFrames), MtReads(down, q),
           NEW up \in Seq(MtFrames), NEW a \in MtFrames, a.type = "ack", a.block = 0, a.status = "success",
           NEW o, NEW n, NEW s, NEW acks, NEW rx, NEW rx2,
           MtOpened(o, n, s, down, up, acks, rx),
           MtPartial(rx2, o, n, s), rx2.cur = 0
    PROVE  MtOpened(o, n, s, q, Append(up, a), acks, rx2)
<1>1. PICK r \in Seq(MtFrames), m \in Nat :
           /\ r = Append(up, a) /\ r[m] = a
           /\ MtAcksIn(r) = MtAcksIn(up) \cup {m}
           /\ \A k \in MtAcksIn(up) : r[k] = up[k] /\ k < m /\ k \in Nat
  BY MtAckMore
<1>4. \A k \in MtDataIn(q) : q[k].block = 0 /\ q[k].msg = o BY DEF MtOpened, MtReads
<1>7. \A k \in MtAcksIn(r) : r[k].block = 0 => r[k].status = "success" BY <1>1 DEF MtOpened
<1>8. ASSUME NEW j \in MtAcksIn(r), NEW k \in MtAcksIn(r), j < k, r[j].block = 0
      PROVE  r[k].block = 0
  <2>1. CASE k = m BY <1>1, <2>1
  <2>2. CASE k # m
    <3>1. j # m BY <1>1, <1>8, <2>2
    <3>. QED BY <1>1, <1>8, <2>2, <3>1 DEF MtOpened
  <2>. QED BY <2>1, <2>2
<1>9. \A k \in MtLive(acks) : acks[k].block = 0 =>
           /\ acks[k].status = "success"
           /\ \A j \in MtAcksIn(r) : r[j].block = 0
  BY <1>1 DEF MtOpened
<1>. QED BY <1>1, <1>4, <1>7, <1>8, <1>9 DEF MtOpened

\* Block 0 arrives twice: both are dropped.
LEMMA MtDropsOpened ==
    ASSUME NEW down, NEW q, MtReads(down, q), NEW up, NEW o, NEW n, NEW s, NEW acks, NEW rx,
           MtOpened(o, n, s, down, up, acks, rx)
    PROVE  MtOpened(o, n, s, q, up, acks, MtNoFrag)
<1>1. \A k \in MtDataIn(q) : q[k].block = 0 /\ q[k].msg = o BY DEF MtOpened, MtReads
<1>. QED BY <1>1 DEF MtOpened

\* What a block that is read while a later one is sent leaves: with what was
\* taken, and with the acknowledgements there were.
LEMMA MtGoingOn ==
    ASSUME NEW down \in Seq(MtFrames), NEW q \in Seq(MtFrames), MtReads(down, q),
           NEW up \in Seq(MtFrames), NEW acks \in Seq(MtListed),
           NEW o, NEW c \in Nat, NEW n \in Nat, NEW s, NEW rx, NEW rx2, NEW w, NEW w2,
           MtGoing(o, c, n, s, down, up, acks, rx, w),
           MtHas(w, o) => MtHas(w2, o),
           rx2 # MtNoFrag => /\ MtPartial(rx2, o, n, s) /\ rx2.cur = down[1].block
                             /\ (rx # MtNoFrag \/ down[1].block # c)
    PROVE  MtGoing(o, c, n, s, q, up, acks, rx2, w2)
<1> DEFINE f == down[1]
<1>0. /\ \A k \in MtDataIn(down) : down[k].block \in Nat
      /\ \A k \in MtAcksIn(up) : up[k].block \in Nat
  BY MtPlaces
<1>1. 1 \in MtDataIn(down) /\ f.block \in Nat /\ f.block <= c BY <1>0 DEF MtReads, MtGoing
<1>2. \A k \in MtDataIn(q) : /\ q[k].msg = o /\ q[k].block <= c /\ f.block <= q[k].block
  <2>1. \A k \in MtDataIn(down) : down[k].msg = o /\ down[k].block <= c BY DEF MtGoing
  <2>2. \A j, k \in MtDataIn(down) : j < k => down[j].block <= down[k].block BY DEF MtGoing
  <2>. QED BY <1>1, <2>1, <2>2 DEF MtReads
<1>3. \A j, k \in MtDataIn(q) : j < k => q[j].block <= q[k].block
  <2>1. \A j, k \in MtDataIn(down) : j < k => down[j].block <= down[k].block BY DEF MtGoing
  <2>2. \A k \in MtDataIn(q) : k \in Nat BY MtPlaces
  <2>3. \A j, k \in MtDataIn(q) : j < k => j + 1 < k + 1 BY <2>2
  <2>. QED BY <2>1, <2>3 DEF MtReads
<1>4. rx2 # MtNoFrag => /\ MtPartial(rx2, o, n, s) /\ rx2.cur <= c
                        /\ \A k \in MtDataIn(q) : rx2.cur <= q[k].block
  BY <1>1, <1>2
<1>5. ASSUME NEW b \in Nat, MtBehind(b, c, down, rx) PROVE MtBehind(b, c, q, rx2) /\ b <= f.block
  <2>1. b <= c /\ b <= f.block BY <1>1, <1>5 DEF MtBehind
  <2>2. \A k \in MtDataIn(q) : b <= q[k].block BY <1>5 DEF MtBehind, MtReads
  <2>3. rx2 # MtNoFrag => b <= rx2.cur BY <2>1
  <2>. QED BY <2>1, <2>2, <2>3 DEF MtBehind
<1>6. ASSUME NEW b \in Nat, NEW x, MtBehind(b, c, down, rx), MtSays(b, x, o, c, n, rx, w)
      PROVE  MtSays(b, x, o, c, n, rx2, w2)
  <2>1. SUFFICES ASSUME b = c
                 PROVE  /\ x = "success" => c + 1 < n
                        /\ x = "frag_complete" => MtHas(w2, o)
                        /\ x # "success" => rx2 = MtNoFrag
    BY DEF MtSays
  <2>2. /\ x = "success" => c + 1 < n
        /\ x = "frag_complete" => MtHas(w, o)
        /\ x # "success" => rx = MtNoFrag
    BY <1>6, <2>1 DEF MtSays
  <2>3. f.block = c
    <3>1. c <= f.block BY <1>1, <1>6, <2>1 DEF MtBehind
    <3> HIDE DEF f
    <3>. QED BY <1>1, <3>1
  <2>4. x # "success" => rx2 = MtNoFrag BY <2>2, <2>3
  <2>. QED BY <2>2, <2>4
<1>7. \A k \in MtAcksIn(up) :
           /\ MtSays(up[k].block, up[k].status, o, c, n, rx2, w2)
           /\ MtBehind(up[k].block, c, q, rx2)
  <2>1. \A k \in MtAcksIn(up) :
           /\ MtSays(up[k].block, up[k].status, o, c, n, rx, w)
           /\ MtBehind(up[k].block, c, down, rx)
    BY DEF MtGoing
  <2>. QED BY <1>0, <1>5, <1>6, <2>1
<1>8. \A k \in MtLive(acks) :
           /\ MtSays(acks[k].block, acks[k].status, o, c, n, rx2, w2)
           /\ MtBehind(acks[k].block, c, q, rx2)
  <2>1. \A k \in MtLive(acks) :
           /\ MtSays(acks[k].block, acks[k].status, o, c, n, rx, w)
           /\ MtBehind(acks[k].block, c, down, rx)
    BY DEF MtGoing
  <2>2. \A k \in MtLive(acks) : acks[k].block \in Nat BY MtListedPlaces
  <2>. QED BY <1>5, <1>6, <2>1, <2>2
<1>9. /\ \A j, k \in MtAcksIn(up) : j < k => up[j].block <= up[k].block
      /\ \A k \in MtLive(acks) : \A j \in MtAcksIn(up) : acks[k].block <= up[j].block
  BY DEF MtGoing
<1>. QED BY <1>2, <1>3, <1>4, <1>7, <1>8, <1>9 DEF MtGoing

\* An acknowledgement that is sent while a later block is sent.
LEMMA MtAnswerGoing ==
    ASSUME NEW down \in Seq(MtFrames), NEW up \in Seq(MtFrames), NEW acks \in Seq(MtListed),
           NEW a \in MtFrames, a.type = "ack",
           NEW o, NEW c \in Nat, NEW n, NEW s, NEW rx, NEW w,
           MtGoing(o, c, n, s, down, up, acks, rx, w),
           MtSays(a.block, a.status, o, c, n, rx, w), MtBehind(a.block, c, down, rx),
           \A k \in MtAcksIn(up) : up[k].block <= a.block,
           \A k \in MtLive(acks) : acks[k].block <= a.block
    PROVE  MtGoing(o, c, n, s, down, Append(up, a), acks, rx, w)
<1>1. PICK r \in Seq(MtFrames), m \in Nat :
           /\ r = Append(up, a) /\ r[m] = a
           /\ MtAcksIn(r) = MtAcksIn(up) \cup {m}
           /\ \A k \in MtAcksIn(up) : r[k] = up[k] /\ k < m /\ k \in Nat
  BY MtAckMore
<1>2. \A k \in MtAcksIn(r) :
           /\ MtSays(r[k].block, r[k].status, o, c, n, rx, w)
           /\ MtBehind(r[k].block, c, down, rx)
  BY <1>1 DEF MtGoing
<1>3. ASSUME NEW j \in MtAcksIn(r), NEW k \in MtAcksIn(r), j < k PROVE r[j].block <= r[k].block
  <2>1. j # m BY <1>1, <1>3
  <2>2. CASE k = m BY <1>1, <2>1, <2>2
  <2>3. CASE k # m BY <1>1, <1>3, <2>1, <2>3 DEF MtGoing
  <2>. QED BY <2>2, <2>3
<1>4. \A k \in MtLive(acks) : \A j \in MtAcksIn(r) : acks[k].block <= r[j].block
  BY <1>1 DEF MtGoing
<1>. QED BY <1>1, <1>2, <1>3, <1>4 DEF MtGoing

-----------------------------------------------------------------------------
\* What MtGoto does.
LEMMA MtGotoResult ==
    ASSUME MtTypes, NEW t \in MtThreads, NEW pc \in MtPcs, MtGoto(t, pc)
    PROVE  /\ mtApp' \in [MtThreads -> [pc : MtPcs, r : {0, 1}]]
           /\ mtApp'[t].pc = pc /\ mtApp'[t].r = mtApp[t].r
           /\ \A u \in MtThreads : u # t => mtApp'[u] = mtApp[u]
BY DEF MtTypes, MtGoto

\* What MtReturn does.
LEMMA MtReturnResult ==
    ASSUME MtTypes, NEW t \in MtThreads, NEW r \in {0, 1}, MtReturn(t, r)
    PROVE  /\ mtApp' \in [MtThreads -> [pc : MtPcs, r : {0, 1}]]
           /\ mtApp'[t].pc = "done" /\ mtApp'[t].r = r
           /\ \A u \in MtThreads : u # t => mtApp'[u] = mtApp[u]
BY DEF MtTypes, MtReturn, MtPcs

\* The same line.
LEMMA MtSameLine ==
    ASSUME NEW q \in Seq(MtFrames)
    PROVE  MtFewerData(q, q) /\ MtFewerAcks(q, q)
<1>1. \A k \in DOMAIN q : k \in Nat OBVIOUS
<1>2. /\ \A k \in MtDataIn(q) : k + 0 \in MtDataIn(q) /\ q[k] = q[k + 0]
      /\ \A k \in MtAcksIn(q) : k + 0 \in MtAcksIn(q) /\ q[k] = q[k + 0]
  BY <1>1 DEF MtDataIn, MtAcksIn
<1>. QED BY <1>2 DEF MtFewerData, MtFewerAcks

\* Headers stay as they are.
LEMMA MtFramedKeeps ==
    ASSUME MtTypes, MtFramed, mtSize' = mtSize, MtFewerData(mtDown, mtDown'),
           \A u \in MtThreads : mtApp[u].pc \notin {"idle", "tx"} => mtApp'[u].pc \notin {"idle", "tx"}
    PROVE  MtFramed'
<1>1. PICK d \in Nat : \A k \in MtDataIn(mtDown') : k + d \in MtDataIn(mtDown) /\ mtDown'[k] = mtDown[k + d]
  BY DEF MtFewerData
<1>2. \A k \in MtDataIn(mtDown) : mtDown[k].msg \in MtThreads BY MtPlaces DEF MtTypes
<1>3. ASSUME NEW k \in MtDataIn(mtDown')
      PROVE  LET f == mtDown'[k] IN
             /\ mtApp'[f.msg].pc \notin {"idle", "tx"}
             /\ f.total = mtSize[f.msg]
             /\ f.block = 0 => f.len = MtFragSize /\ MtBlocks(mtSize[f.msg]) > 1
  <2>1. k + d \in MtDataIn(mtDown) /\ mtDown'[k] = mtDown[k + d] BY <1>1
  <2>2. LET f == mtDown[k + d] IN
             /\ f.msg \in MtThreads
             /\ mtApp[f.msg].pc \notin {"idle", "tx"}
             /\ f.total = mtSize[f.msg]
             /\ f.block = 0 => f.len = MtFragSize /\ MtBlocks(mtSize[f.msg]) > 1
    BY <1>2, <2>1 DEF MtFramed
  <2>. QED BY <2>1, <2>2
<1>. QED BY <1>3 DEF MtFramed, MtBlocks

\* The initial states.
LEMMA MtStarts == MtInit(Nat) => MtInvIfLong
<1>1. SUFFICES ASSUME MtInit(Nat) PROVE MtInv /\ mtSize \in [MtThreads -> Nat]
  BY DEF MtInvIfLong
<1>2. MtTypes
  BY <1>1 DEF MtInit, MtTypes, MtNoFrag, MtPcs
<1>3. MtLocked BY <1>1, MtAssumption DEF MtInit, MtLocked
<1>4. MtFramed BY <1>1 DEF MtInit, MtFramed, MtDataIn
<1>5. ~MtSending BY <1>1 DEF MtInit, MtSending
<1>6. MtRest(mtDown, mtUp, mtAcks, mtRxFrag)
  BY <1>1 DEF MtInit, MtRest, MtDataIn, MtAcksIn, MtLive
<1>7. MtResults BY <1>1 DEF MtInit, MtResults
<1>8. MtUnmixed BY <1>1 DEF MtInit, MtUnmixed
<1>. QED BY <1>1, <1>2, <1>3, <1>4, <1>5, <1>6, <1>7, <1>8 DEF MtInv, MtCounted, MtPhase, MtInit

\* MT_MSG_txrx() with the lock free.
LEMMA MtTxrxKeeps ==
    ASSUME MtInv, NEW t \in MtThreads, MT_MSG_txrx(t)
    PROVE  MtInv'
<1>0. MtTypes /\ MtLocked /\ MtFramed /\ MtPhase /\ MtResults /\ MtUnmixed BY DEF MtInv
<1>1. /\ mtApp[t].pc = "idle" /\ mtTxLock = "none" /\ mtTxLock' = t /\ MtGoto(t, "tx")
      /\ UNCHANGED <<mtSize, mtTxFrag, mtAcks, mtDown, mtUp, mtRxFrag, mtWhole>>
  BY DEF MT_MSG_txrx
<1>2. /\ mtApp' \in [MtThreads -> [pc : MtPcs, r : {0, 1}]]
      /\ mtApp'[t].pc = "tx" /\ mtApp'[t].r = mtApp[t].r
      /\ \A u \in MtThreads : u # t => mtApp'[u] = mtApp[u]
  BY <1>0, <1>1, MtGotoResult DEF MtPcs
<1>3. MtTypes' BY <1>0, <1>1, <1>2 DEF MtTypes
<1>4. MtLocked' BY <1>0, <1>1, <1>2, MtAssumption DEF MtLocked
<1>5. MtFramed'
  <2>1. MtFewerData(mtDown, mtDown') BY <1>0, <1>1, MtSameLine DEF MtTypes
  <2>. QED BY <1>0, <1>1, <1>2, <2>1, MtFramedKeeps
<1>6. ~MtSending /\ ~MtSending' BY <1>1, <1>2 DEF MtSending
<1>7. MtPhase' BY <1>0, <1>1, <1>6 DEF MtPhase
<1>8. MtResults'
  <2>1. \A u \in MtThreads : mtApp'[u].r = mtApp[u].r BY <1>2
  <2>. QED BY <1>0, <1>1, <2>1 DEF MtResults, MtFragments, MtHas
<1>9. MtUnmixed' BY <1>0, <1>1 DEF MtUnmixed, MtBlocks
<1>. QED BY <1>3, <1>4, <1>5, <1>6, <1>7, <1>8, <1>9 DEF MtInv, MtCounted

\* MT_MSG_txrx() gives up waiting for the lock.
LEMMA MtLockTimeoutKeeps ==
    ASSUME MtInv, NEW t \in MtThreads, TxLockTimeout(t)
    PROVE  MtInv'
<1>0. MtTypes /\ MtLocked /\ MtFramed /\ MtPhase /\ MtResults /\ MtUnmixed /\ MtCounted BY DEF MtInv
<1>1. /\ mtApp[t].pc = "idle" /\ mtTxLock # "none" /\ MtReturn(t, 0)
      /\ UNCHANGED <<mtSize, mtTxLock, mtTxFrag, mtAcks, mtDown, mtUp, mtRxFrag, mtWhole>>
  BY DEF TxLockTimeout
<1>2. /\ mtApp' \in [MtThreads -> [pc : MtPcs, r : {0, 1}]]
      /\ mtApp'[t].pc = "done" /\ mtApp'[t].r = 0
      /\ \A u \in MtThreads : u # t => mtApp'[u] = mtApp[u]
  BY <1>0, <1>1, MtReturnResult
<1>3. MtTypes' BY <1>0, <1>1, <1>2 DEF MtTypes
<1>a. mtTxLock # t /\ mtTxLock \in MtThreads BY <1>0, <1>1 DEF MtLocked, MtTypes
<1>4. MtLocked' BY <1>0, <1>1, <1>2, <1>a DEF MtLocked
<1>5. MtFramed'
  <2>1. MtFewerData(mtDown, mtDown') BY <1>0, <1>1, MtSameLine DEF MtTypes
  <2>. QED BY <1>0, <1>1, <1>2, <2>1, MtFramedKeeps
<1>6. MtSending' <=> MtSending BY <1>1, <1>2, <1>a DEF MtSending
<1>7. MtPhase' BY <1>0, <1>1, <1>6 DEF MtPhase
<1>8. MtResults'
  <2>1. \A u \in MtThreads : mtApp'[u].r = 1 => mtApp[u].r = 1 BY <1>2
  <2>. QED BY <1>0, <1>1, <2>1 DEF MtResults, MtFragments, MtHas
<1>9. MtUnmixed' BY <1>0, <1>1 DEF MtUnmixed, MtBlocks
<1>b. MtCounted' BY <1>0, <1>1, <1>6 DEF MtCounted, MtFragments, MtBlocks
<1>. QED BY <1>3, <1>4, <1>5, <1>7, <1>8, <1>9, <1>b DEF MtInv

\* A short message is sent.
LEMMA MtRawKeeps ==
    ASSUME MtInv, NEW t \in MtThreads, MT_MSG_tx_raw(t)
    PROVE  MtInv'
<1>0. MtTypes /\ MtLocked /\ MtFramed /\ MtPhase /\ MtResults /\ MtUnmixed BY DEF MtInv
<1> DEFINE f == [type |-> "msg", msg |-> t]
<1>1. /\ mtApp[t].pc = "tx" /\ ~MtFragments(t) /\ mtTxLock' = "none"
      /\ mtDown' = Append(mtDown, f) \/ mtDown' = mtDown
      /\ MtReturn(t, 1) \/ MtReturn(t, 0)
      /\ UNCHANGED <<mtSize, mtTxFrag, mtAcks, mtUp, mtRxFrag, mtWhole>>
  BY DEF MT_MSG_tx_raw
<1>2. /\ mtApp' \in [MtThreads -> [pc : MtPcs, r : {0, 1}]]
      /\ mtApp'[t].pc = "done"
      /\ \A u \in MtThreads : u # t => mtApp'[u] = mtApp[u]
  BY <1>0, <1>1, MtReturnResult
<1>f. f \in MtFrames /\ f.type = "msg" BY DEF MtFrames
<1> HIDE DEF f
<1>d. mtDown' \in Seq(MtFrames) /\ MtFewerData(mtDown, mtDown')
  <2>0. CASE mtDown' = mtDown BY <1>0, <2>0, MtSameLine DEF MtTypes
  <2>s. SUFFICES ASSUME mtDown' = Append(mtDown, f)
                 PROVE  mtDown' \in Seq(MtFrames) /\ MtFewerData(mtDown, mtDown')
    BY <1>1, <2>0
  <2>1. /\ mtDown' \in Seq(MtFrames) /\ Len(mtDown) \in Nat
        /\ DOMAIN mtDown = 1 .. Len(mtDown) /\ DOMAIN mtDown' = 1 .. Len(mtDown) + 1
        /\ \A k \in DOMAIN mtDown : mtDown'[k] = mtDown[k]
        /\ mtDown'[Len(mtDown) + 1] = f
    BY <1>0, <2>s, <1>f, MtAppend DEF MtTypes
  <2>2. /\ \A k \in DOMAIN mtDown : k \in DOMAIN mtDown'
        /\ \A k \in DOMAIN mtDown' \ DOMAIN mtDown : k = Len(mtDown) + 1
    BY <2>1
  <2>. QED BY <1>0, <1>f, <2>1, <2>2, MtLongerDown DEF MtTypes
<1>3. MtTypes' BY <1>0, <1>1, <1>2, <1>d DEF MtTypes
<1>a. mtTxLock = t BY <1>0, <1>1 DEF MtLocked
<1>4. MtLocked' BY <1>0, <1>1, <1>2, <1>a, MtAssumption DEF MtLocked
<1>5. MtFramed' BY <1>0, <1>1, <1>2, <1>d, MtFramedKeeps
<1>6. ~MtSending /\ ~MtSending' BY <1>1, <1>a DEF MtSending
<1>7. MtPhase'
  <2>1. MtRest(mtDown, mtUp, mtAcks, mtRxFrag) BY <1>0, <1>6 DEF MtPhase
  <2>2. MtRest(mtDown', mtUp, mtAcks, mtRxFrag) BY <1>0, <1>d, <2>1, MtFewerDown DEF MtTypes
  <2>. QED BY <1>1, <1>6, <2>2 DEF MtPhase
<1>8. MtResults'
  <2>1. \A u \in MtThreads : mtApp'[u].r = 1 /\ MtFragments(u) => mtApp[u].r = 1 BY <1>1, <1>2
  <2>. QED BY <1>0, <1>1, <2>1 DEF MtResults, MtFragments, MtHas
<1>9. MtUnmixed' BY <1>0, <1>1 DEF MtUnmixed, MtBlocks
<1>. QED BY <1>3, <1>4, <1>5, <1>6, <1>7, <1>8, <1>9 DEF MtInv, MtCounted

\* A long message is begun.
LEMMA MtFragmentKeeps ==
    ASSUME MtInv, NoSingleBlocks, NEW t \in MtThreads, MT_MSG_tx_fragment(t)
    PROVE  MtInv'
<1>0. MtTypes /\ MtLocked /\ MtFramed /\ MtPhase /\ MtResults /\ MtUnmixed BY DEF MtInv
<1>1. /\ mtApp[t].pc = "tx" /\ MtFragments(t) /\ MtGoto(t, "block")
      /\ mtTxFrag' = [cur |-> 0, count |-> MtBlocks(mtSize[t]), try |-> 0, error |-> FALSE]
      /\ UNCHANGED <<mtSize, mtTxLock, mtAcks, mtDown, mtUp, mtRxFrag, mtWhole>>
  BY DEF MT_MSG_tx_fragment
<1>2. /\ mtApp' \in [MtThreads -> [pc : MtPcs, r : {0, 1}]]
      /\ mtApp'[t].pc = "block" /\ mtApp'[t].r = mtApp[t].r
      /\ \A u \in MtThreads : u # t => mtApp'[u] = mtApp[u]
  BY <1>0, <1>1, MtGotoResult DEF MtPcs
<1>b. MtBlocks(mtSize[t]) \in Nat BY <1>0, MtBlocksNat DEF MtTypes
<1>c. /\ DOMAIN mtTxFrag' = {"cur", "count", "try", "error"} /\ mtTxFrag'.cur = 0
      /\ mtTxFrag'.count = MtBlocks(mtSize[t])
  BY <1>1
<1>3. MtTypes' BY <1>0, <1>1, <1>2, <1>b, <1>c DEF MtTypes
<1>a. mtTxLock = t BY <1>0, <1>1 DEF MtLocked
<1>4. MtLocked' BY <1>0, <1>1, <1>2, <1>a DEF MtLocked
<1>5. MtFramed'
  <2>1. MtFewerData(mtDown, mtDown') BY <1>0, <1>1, MtSameLine DEF MtTypes
  <2>. QED BY <1>0, <1>1, <1>2, <2>1, MtFramedKeeps
<1>6. ~MtSending /\ MtSending' BY <1>1, <1>2, <1>a, MtAssumption DEF MtSending
<1>7. MtPhase'
  <2>1. MtRest(mtDown, mtUp, mtAcks, mtRxFrag) BY <1>0, <1>6 DEF MtPhase
  <2>2. \A k \in MtDataIn(mtDown) : mtDown[k].msg # t BY <1>0, <1>1 DEF MtFramed
  <2>3. \A k \in MtDataIn(mtDown) : mtDown[k].block # 0
    <3>1. \A k \in MtDataIn(mtDown) : mtDown[k].block >= 1 BY <2>1 DEF MtRest
    <3>2. \A k \in MtDataIn(mtDown) : mtDown[k].block \in Nat BY <1>0, MtPlaces DEF MtTypes
    <3>. QED BY <3>1, <3>2
  <2>4. MtOpening(t, mtDown, mtUp, mtAcks, mtRxFrag) BY <2>1, <2>2, <2>3 DEF MtOpening, MtRest
  <2>. QED BY <1>1, <1>6, <1>a, <1>c, <2>4 DEF MtPhase
<1>8. MtResults'
  <2>1. \A u \in MtThreads : mtApp'[u].r = mtApp[u].r BY <1>2
  <2>. QED BY <1>0, <1>1, <2>1 DEF MtResults, MtFragments, MtHas
<1>9. MtUnmixed' BY <1>0, <1>1 DEF MtUnmixed, MtBlocks
<1>d. MtCounted'
  <2>1. MtBlocks(mtSize[t]) > 1 BY <1>1 DEF NoSingleBlocks
  <2>2. mtTxFrag'.cur < mtTxFrag'.count BY <1>b, <1>c, <2>1
  <2>. QED BY <1>1, <1>a, <1>c, <2>2 DEF MtCounted, MtFragments, MtBlocks
<1>. QED BY <1>3, <1>4, <1>5, <1>7, <1>8, <1>9, <1>d DEF MtInv

\* The thread that sends blocks.
LEMMA MtSenderHolds ==
    ASSUME MtInv, NEW t \in MtThreads, mtApp[t].pc \in {"block", "wait", "pop"}
    PROVE  /\ mtTxLock = t /\ MtSending
           /\ MtFragments(t) /\ mtTxFrag.count = MtBlocks(mtSize[t])
           /\ mtTxFrag.cur < mtTxFrag.count
           /\ \/ /\ mtTxFrag.cur = 0
                 /\ MtOpening(t, mtDown, mtUp, mtAcks, mtRxFrag)
              \/ /\ mtTxFrag.cur = 0
                 /\ MtOpened(t, mtTxFrag.count, mtSize[t], mtDown, mtUp, mtAcks, mtRxFrag)
              \/ /\ mtTxFrag.cur >= 1
                 /\ MtGoing(t, mtTxFrag.cur, mtTxFrag.count, mtSize[t], mtDown, mtUp, mtAcks,
                            mtRxFrag, mtWhole)
<1>1. MtTypes /\ MtLocked /\ MtPhase /\ MtCounted BY DEF MtInv
<1>2. mtTxLock = t BY <1>1 DEF MtLocked
<1>3. MtSending BY <1>2, MtAssumption DEF MtSending
<1>. QED BY <1>1, <1>2, <1>3 DEF MtPhase, MtCounted

\* A block is sent.
LEMMA MtBlockKeeps ==
    ASSUME MtInv, NoSingleBlocks, NEW t \in MtThreads, frag_tx_one_block(t)
    PROVE  MtInv'
<1>0. MtTypes /\ MtLocked /\ MtFramed /\ MtCounted /\ MtPhase /\ MtResults /\ MtUnmixed BY DEF MtInv
<1> DEFINE rest == mtSize[t] - mtTxFrag.cur * MtFragSize
           f == [type |-> "data", msg |-> t, block |-> mtTxFrag.cur, total |-> mtSize[t],
                 len |-> IF rest > MtFragSize THEN MtFragSize ELSE rest]
<1>1. /\ mtApp[t].pc = "block" /\ mtDown' = Append(mtDown, f) /\ MtGoto(t, "wait")
      /\ UNCHANGED <<mtSize, mtTxLock, mtTxFrag, mtAcks, mtUp, mtRxFrag, mtWhole>>
  BY DEF frag_tx_one_block
<1>2. /\ mtApp' \in [MtThreads -> [pc : MtPcs, r : {0, 1}]]
      /\ mtApp'[t].pc = "wait" /\ mtApp'[t].r = mtApp[t].r
      /\ \A u \in MtThreads : u # t => mtApp'[u] = mtApp[u]
  BY <1>0, <1>1, MtGotoResult DEF MtPcs
<1>h. /\ mtTxLock = t /\ MtSending /\ MtFragments(t) /\ mtTxFrag.count = MtBlocks(mtSize[t])
      /\ \/ /\ mtTxFrag.cur = 0
            /\ MtOpening(t, mtDown, mtUp, mtAcks, mtRxFrag)
         \/ /\ mtTxFrag.cur = 0
            /\ MtOpened(t, mtTxFrag.count, mtSize[t], mtDown, mtUp, mtAcks, mtRxFrag)
         \/ /\ mtTxFrag.cur >= 1
            /\ MtGoing(t, mtTxFrag.cur, mtTxFrag.count, mtSize[t], mtDown, mtUp, mtAcks,
                       mtRxFrag, mtWhole)
  BY <1>1, MtSenderHolds
<1>s. mtSize[t] \in Nat /\ mtTxFrag.cur \in Nat /\ MtFragSize \in Nat BY <1>0, MtAssumption DEF MtTypes
<1>r. rest \in Int /\ (mtTxFrag.cur = 0 => rest = mtSize[t])
  <2>1. mtTxFrag.cur * MtFragSize \in Int BY <1>s
  <2>2. mtTxFrag.cur = 0 => mtTxFrag.cur * MtFragSize = 0 BY <1>s
  <2> DEFINE p == mtTxFrag.cur * MtFragSize
  <2> HIDE DEF p
  <2>3. p \in Int /\ (mtTxFrag.cur = 0 => p = 0) BY <2>1, <2>2 DEF p
  <2>4. mtSize[t] - p \in Int /\ (mtTxFrag.cur = 0 => mtSize[t] - p = mtSize[t]) BY <1>s, <2>3
  <2>. QED BY <2>4 DEF p
<1>l. mtSize[t] > MtFragSize /\ MtBlocks(mtSize[t]) > 1
  BY <1>h, <1>s, MtLongerThanBlock DEF NoSingleBlocks
<1> HIDE DEF rest
<1>f. /\ f \in MtFrames /\ f.type = "data" /\ f.msg = t /\ f.block = mtTxFrag.cur /\ f.total = mtSize[t]
      /\ f.len = IF rest > MtFragSize THEN MtFragSize ELSE rest
  <2>1. (IF rest > MtFragSize THEN MtFragSize ELSE rest) \in Int BY <1>s, <1>r
  <2>. QED BY <1>s, <2>1 DEF MtFrames, MtDataFrames
<1> HIDE DEF f
<1>g. f.block = 0 => f.len = MtFragSize BY <1>f, <1>l, <1>r
<1>m. PICK r \in Seq(MtFrames), m \in Nat :
           /\ r = mtDown' /\ r[m] = f
           /\ MtDataIn(r) = MtDataIn(mtDown) \cup {m}
           /\ \A k \in MtDataIn(mtDown) : r[k] = mtDown[k] /\ k < m /\ k \in Nat
  <2>1. mtDown \in Seq(MtFrames) BY <1>0 DEF MtTypes
  <2>2. f \in MtFrames /\ f.type = "data" BY <1>f
  <2>3. mtDown' = Append(mtDown, f) BY <1>1
  <2>4. \E r \in Seq(MtFrames), m \in Nat :
           /\ r = Append(mtDown, f) /\ r[m] = f
           /\ MtDataIn(r) = MtDataIn(mtDown) \cup {m}
           /\ \A k \in MtDataIn(mtDown) : r[k] = mtDown[k] /\ k < m /\ k \in Nat
    BY <2>1, <2>2, MtBlockMore
  <2>. QED BY <2>3, <2>4
<1>3. MtTypes' BY <1>0, <1>1, <1>2, <1>m DEF MtTypes
<1>4. MtLocked' BY <1>0, <1>1, <1>2 DEF MtLocked
<1>5. MtFramed'
  <2>1. ASSUME NEW k \in MtDataIn(mtDown')
        PROVE  LET x == mtDown'[k] IN
               /\ mtApp'[x.msg].pc \notin {"idle", "tx"}
               /\ x.total = mtSize[x.msg]
               /\ x.block = 0 => x.len = MtFragSize /\ MtBlocks(mtSize[x.msg]) > 1
    <3>1. CASE k = m BY <1>2, <1>f, <1>g, <1>l, <1>m, <3>1
    <3>2. CASE k # m
      <4>1. k \in MtDataIn(mtDown) /\ mtDown'[k] = mtDown[k] BY <1>m, <3>2
      <4>2. mtDown[k].msg \in MtThreads BY <1>0, <4>1, MtPlaces DEF MtTypes
      <4>3. LET x == mtDown[k] IN
               /\ mtApp[x.msg].pc \notin {"idle", "tx"}
               /\ x.total = mtSize[x.msg]
               /\ x.block = 0 => x.len = MtFragSize /\ MtBlocks(mtSize[x.msg]) > 1
        BY <1>0, <4>1 DEF MtFramed
      <4>4. mtApp'[mtDown[k].msg].pc \notin {"idle", "tx"} BY <1>2, <4>2, <4>3
      <4>. QED BY <4>1, <4>3, <4>4
    <3>. QED BY <3>1, <3>2
  <2>. QED BY <1>1, <2>1 DEF MtFramed, MtBlocks
<1>6. MtSending' BY <1>1, <1>2, <1>h, MtAssumption DEF MtSending
<1>7. MtPhase'
  <2>1. CASE mtTxFrag.cur = 0 /\ MtOpening(t, mtDown, mtUp, mtAcks, mtRxFrag)
    <3>1. MtOpening(t, mtDown', mtUp, mtAcks, mtRxFrag)
      BY <1>0, <1>1, <1>f, <2>1, MtSendOpening DEF MtTypes
    <3>. QED BY <1>1, <1>6, <1>h, <2>1, <3>1 DEF MtPhase
  <2>2. CASE /\ mtTxFrag.cur = 0
             /\ MtOpened(t, mtTxFrag.count, mtSize[t], mtDown, mtUp, mtAcks, mtRxFrag)
    <3>1. MtOpened(t, mtTxFrag.count, mtSize[t], mtDown', mtUp, mtAcks, mtRxFrag)
      BY <1>0, <1>1, <1>f, <2>2, MtSendOpened DEF MtTypes
    <3>. QED BY <1>1, <1>6, <1>h, <2>2, <3>1 DEF MtPhase
  <2>3. CASE /\ mtTxFrag.cur >= 1
             /\ MtGoing(t, mtTxFrag.cur, mtTxFrag.count, mtSize[t], mtDown, mtUp, mtAcks,
                        mtRxFrag, mtWhole)
    <3>1. MtGoing(t, mtTxFrag.cur, mtTxFrag.count, mtSize[t], mtDown', mtUp, mtAcks, mtRxFrag, mtWhole)
      BY <1>0, <1>1, <1>f, <2>3, MtSendGoing DEF MtTypes
    <3>. QED BY <1>1, <1>6, <1>h, <2>3, <3>1 DEF MtPhase
  <2>. QED BY <1>h, <2>1, <2>2, <2>3
<1>8. MtResults'
  <2>1. \A u \in MtThreads : mtApp'[u].r = mtApp[u].r BY <1>2
  <2>. QED BY <1>0, <1>1, <2>1 DEF MtResults, MtFragments, MtHas
<1>9. MtUnmixed' BY <1>0, <1>1 DEF MtUnmixed, MtBlocks
<1>d. MtCounted' BY <1>0, <1>1, <1>h DEF MtCounted, MtFragments, MtBlocks
<1>. QED BY <1>3, <1>4, <1>5, <1>7, <1>8, <1>9, <1>d DEF MtInv

\* A step of the sender within its loop that changes nothing else but the
\* attempt.
LEMMA MtMovesKeeps ==
    ASSUME MtInv, NEW t \in MtThreads, mtApp[t].pc \in {"block", "wait", "pop"},
           NEW pc \in {"block", "wait", "pop", "undefined"}, MtGoto(t, pc),
           UNCHANGED <<mtSize, mtTxLock, mtDown, mtUp, mtRxFrag, mtWhole>>,
           DOMAIN mtTxFrag' = {"cur", "count", "try", "error"},
           mtTxFrag'.cur = mtTxFrag.cur, mtTxFrag'.count = mtTxFrag.count,
           mtAcks' \in Seq(MtListed),
           \A k \in MtLive(mtAcks') : \E j \in MtLive(mtAcks) : mtAcks'[k] = mtAcks[j]
    PROVE  MtInv'
<1>0. MtTypes /\ MtLocked /\ MtFramed /\ MtCounted /\ MtPhase /\ MtResults /\ MtUnmixed BY DEF MtInv
<1>2. /\ mtApp' \in [MtThreads -> [pc : MtPcs, r : {0, 1}]]
      /\ mtApp'[t].pc = pc /\ mtApp'[t].r = mtApp[t].r
      /\ \A u \in MtThreads : u # t => mtApp'[u] = mtApp[u]
  BY <1>0, MtGotoResult DEF MtPcs
<1>h. mtTxLock = t /\ MtSending BY MtSenderHolds
<1>3. MtTypes' BY <1>0, <1>2 DEF MtTypes
<1>4. MtLocked' BY <1>0, <1>2 DEF MtLocked
<1>5. MtFramed'
  <2>1. MtFewerData(mtDown, mtDown') BY <1>0, MtSameLine DEF MtTypes
  <2>. QED BY <1>0, <1>2, <2>1, MtFramedKeeps
<1>6. MtSending' BY <1>2, <1>h, MtAssumption DEF MtSending
<1>7. MtPhase'
  <2>1. /\ MtOpening(t, mtDown, mtUp, mtAcks, mtRxFrag) => MtOpening(t, mtDown, mtUp, mtAcks', mtRxFrag)
        /\ MtOpened(t, mtTxFrag.count, mtSize[t], mtDown, mtUp, mtAcks, mtRxFrag)
              => MtOpened(t, mtTxFrag.count, mtSize[t], mtDown, mtUp, mtAcks', mtRxFrag)
        /\ MtGoing(t, mtTxFrag.cur, mtTxFrag.count, mtSize[t], mtDown, mtUp, mtAcks, mtRxFrag, mtWhole)
              => MtGoing(t, mtTxFrag.cur, mtTxFrag.count, mtSize[t], mtDown, mtUp, mtAcks', mtRxFrag,
                         mtWhole)
    BY MtFewerListed
  <2>. QED BY <1>0, <1>6, <1>h, <2>1 DEF MtPhase
<1>8. MtResults'
  <2>1. \A u \in MtThreads : mtApp'[u].r = mtApp[u].r BY <1>2
  <2>. QED BY <1>0, <2>1 DEF MtResults, MtFragments, MtHas
<1>9. MtUnmixed' BY <1>0 DEF MtUnmixed, MtBlocks
<1>d. MtCounted' BY <1>0, <1>h DEF MtCounted, MtFragments, MtBlocks
<1>. QED BY <1>3, <1>4, <1>5, <1>7, <1>8, <1>9, <1>d DEF MtInv

\* The wait for an acknowledgement ends.
LEMMA MtWaitKeeps ==
    ASSUME MtInv, NEW t \in MtThreads, AckWait(t) \/ AckTimeout(t)
    PROVE  MtInv'
<1>1. /\ mtApp[t].pc = "wait" /\ MtGoto(t, "pop")
      /\ UNCHANGED <<mtSize, mtTxLock, mtTxFrag, mtAcks, mtDown, mtUp, mtRxFrag, mtWhole>>
  BY DEF AckWait, AckTimeout
<1>2. MtTypes BY DEF MtInv
<1>. QED BY <1>1, <1>2, MtMovesKeeps DEF MtTypes

\* The end of a transfer, with or without success.
LEMMA MtEndKeeps ==
    ASSUME MtInv, NoSingleBlocks, NEW t \in MtThreads, mtApp[t].pc = "pop",
           NEW r \in {0, 1}, NEW frames, TxFragmentEnds(t, r, frames),
           mtDown' \in Seq(MtFrames), MtFewerData(mtDown, mtDown'),
           DOMAIN mtTxFrag' = {"cur", "count", "try", "error"},
           mtTxFrag'.cur \in Nat, mtTxFrag'.count \in Nat,
           UNCHANGED <<mtSize, mtUp, mtRxFrag, mtWhole>>,
           MtRest(mtDown', mtUp, <<>>, mtRxFrag),
           r = 1 => MtHas(mtWhole, t)
    PROVE  MtInv'
<1>0. MtTypes /\ MtLocked /\ MtFramed /\ MtResults /\ MtUnmixed BY DEF MtInv
<1>1. mtTxLock' = "none" /\ mtAcks' = <<>> /\ MtReturn(t, r) BY DEF TxFragmentEnds
<1>2. /\ mtApp' \in [MtThreads -> [pc : MtPcs, r : {0, 1}]]
      /\ mtApp'[t].pc = "done" /\ mtApp'[t].r = r
      /\ \A u \in MtThreads : u # t => mtApp'[u] = mtApp[u]
  BY <1>0, <1>1, MtReturnResult
<1>h. mtTxLock = t BY MtSenderHolds
<1>a. mtAcks' \in Seq(MtListed) BY <1>1
<1>3. MtTypes' BY <1>0, <1>1, <1>2, <1>a DEF MtTypes
<1>4. MtLocked' BY <1>0, <1>1, <1>2, <1>h, MtAssumption DEF MtLocked
<1>5. MtFramed' BY <1>0, <1>2, MtFramedKeeps
<1>6. ~MtSending' BY <1>1 DEF MtSending
<1>7. MtPhase' BY <1>1, <1>6 DEF MtPhase
<1>8. MtResults'
  <2>1. \A u \in MtThreads : mtApp'[u].r = 1 => mtApp[u].r = 1 \/ MtHas(mtWhole, u) BY <1>2
  <2>. QED BY <1>0, <2>1 DEF MtResults, MtFragments, MtHas
<1>9. MtUnmixed' BY <1>0 DEF MtUnmixed, MtBlocks
<1>. QED BY <1>3, <1>4, <1>5, <1>6, <1>7, <1>8, <1>9 DEF MtInv, MtCounted

\* The first of the list is freed, skipped, or of the block being sent, and
\* then block 0 is never the last one.
LEMMA MtPopped ==
    ASSUME MtInv, NoSingleBlocks, NEW t \in MtThreads, mtApp[t].pc = "pop",
           mtAcks # <<>>, Head(mtAcks) # MtFreed, Head(mtAcks).block = mtTxFrag.cur
    PROVE  /\ Head(mtAcks) = mtAcks[1] /\ 1 \in MtLive(mtAcks)
           /\ \/ /\ mtTxFrag.cur = 0 /\ mtAcks[1].status = "success" /\ mtTxFrag.cur + 1 < mtTxFrag.count
                 /\ MtOpened(t, mtTxFrag.count, mtSize[t], mtDown, mtUp, mtAcks, mtRxFrag)
              \/ /\ mtTxFrag.cur >= 1
                 /\ MtSays(mtTxFrag.cur, mtAcks[1].status, t, mtTxFrag.cur, mtTxFrag.count, mtRxFrag, mtWhole)
                 /\ MtGoing(t, mtTxFrag.cur, mtTxFrag.count, mtSize[t], mtDown, mtUp, mtAcks,
                            mtRxFrag, mtWhole)
<1>0. MtTypes BY DEF MtInv
<1>1. Head(mtAcks) = mtAcks[1] /\ 1 \in DOMAIN mtAcks /\ mtAcks[1] \in MtListed
  BY <1>0, MtTail DEF MtTypes
<1>h. /\ mtTxLock = t /\ MtFragments(t) /\ mtTxFrag.count = MtBlocks(mtSize[t])
      /\ \/ /\ mtTxFrag.cur = 0
            /\ MtOpening(t, mtDown, mtUp, mtAcks, mtRxFrag)
         \/ /\ mtTxFrag.cur = 0
            /\ MtOpened(t, mtTxFrag.count, mtSize[t], mtDown, mtUp, mtAcks, mtRxFrag)
         \/ /\ mtTxFrag.cur >= 1
            /\ MtGoing(t, mtTxFrag.cur, mtTxFrag.count, mtSize[t], mtDown, mtUp, mtAcks,
                       mtRxFrag, mtWhole)
  BY MtSenderHolds
<1>2. 1 \in MtLive(mtAcks)
  <2>1. ASSUME NEW e \in MtListed, e # MtFreed PROVE e.status # "freed"
    BY <2>1 DEF MtListed, MtStatuses, MtErrors
  <2>. QED BY <1>1, <2>1 DEF MtLive
<1>3. CASE mtTxFrag.cur = 0 /\ MtOpening(t, mtDown, mtUp, mtAcks, mtRxFrag)
  <2>1. mtAcks[1].block >= 1 BY <1>2, <1>3 DEF MtOpening
  <2>. QED BY <1>1, <1>3, <2>1
<1>4. CASE /\ mtTxFrag.cur = 0
           /\ MtOpened(t, mtTxFrag.count, mtSize[t], mtDown, mtUp, mtAcks, mtRxFrag)
  <2>1. mtAcks[1].status = "success" BY <1>1, <1>2, <1>4 DEF MtOpened
  <2>2. MtBlocks(mtSize[t]) > 1 /\ mtTxFrag.count \in Nat BY <1>0, <1>h DEF NoSingleBlocks, MtTypes
  <2>3. mtTxFrag.cur + 1 < mtTxFrag.count BY <1>4, <1>h, <2>2
  <2>. QED BY <1>1, <1>2, <1>4, <2>1, <2>3
<1>5. CASE /\ mtTxFrag.cur >= 1
           /\ MtGoing(t, mtTxFrag.cur, mtTxFrag.count, mtSize[t], mtDown, mtUp, mtAcks,
                      mtRxFrag, mtWhole)
  <2>1. MtSays(mtTxFrag.cur, mtAcks[1].status, t, mtTxFrag.cur, mtTxFrag.count, mtRxFrag, mtWhole)
    BY <1>1, <1>2, <1>5 DEF MtGoing
  <2>. QED BY <1>1, <1>2, <1>5, <2>1
<1>. QED BY <1>h, <1>3, <1>4, <1>5

\* wait_for_frag_ack() finds nothing, what is freed, or an acknowledgement
\* of another block.
LEMMA MtPopRestKeeps ==
    ASSUME MtInv, NEW t \in MtThreads, mtApp[t].pc = "pop",
           \/ mtAcks = <<>> /\ frag_txrx_one_block(t) /\ UNCHANGED mtAcks
           \/ MtGoto(t, "undefined") /\ UNCHANGED <<mtTxFrag, mtTxLock, mtDown, mtAcks>>
           \/ /\ mtAcks # <<>> /\ mtAcks' = Tail(mtAcks) /\ MtGoto(t, "wait")
              /\ UNCHANGED <<mtTxFrag, mtTxLock, mtDown>>,
           UNCHANGED <<mtSize, mtUp, mtRxFrag, mtWhole>>
    PROVE  MtInv'
<1>0. MtTypes BY DEF MtInv
<1>1. /\ DOMAIN mtTxFrag = {"cur", "count", "try", "error"} /\ mtAcks \in Seq(MtListed)
  BY <1>0 DEF MtTypes
<1>2. CASE mtAcks = <<>> /\ frag_txrx_one_block(t) /\ UNCHANGED mtAcks
  <2>1. /\ DOMAIN mtTxFrag' = {"cur", "count", "try", "error"}
        /\ mtTxFrag'.cur = mtTxFrag.cur /\ mtTxFrag'.count = mtTxFrag.count
    BY <1>1, <1>2 DEF frag_txrx_one_block
  <2>2. MtGoto(t, "block") /\ UNCHANGED <<mtTxLock, mtDown>> BY <1>2 DEF frag_txrx_one_block
  <2>. QED BY <1>1, <1>2, <2>1, <2>2, MtMovesKeeps
<1>3. CASE MtGoto(t, "undefined") /\ UNCHANGED <<mtTxFrag, mtTxLock, mtDown, mtAcks>>
  BY <1>1, <1>3, MtMovesKeeps
<1>4. CASE /\ mtAcks # <<>> /\ mtAcks' = Tail(mtAcks) /\ MtGoto(t, "wait")
           /\ UNCHANGED <<mtTxFrag, mtTxLock, mtDown>>
  <2>1. /\ mtAcks' \in Seq(MtListed)
        /\ \A k \in DOMAIN mtAcks' : k + 1 \in DOMAIN mtAcks /\ mtAcks'[k] = mtAcks[k + 1]
    BY <1>1, <1>4, MtTail
  <2>2. \A k \in MtLive(mtAcks') : \E j \in MtLive(mtAcks) : mtAcks'[k] = mtAcks[j]
    BY <2>1 DEF MtLive
  <2>. QED BY <1>1, <1>4, <2>1, <2>2, MtMovesKeeps
<1>. QED BY <1>2, <1>3, <1>4

\* The list after an acknowledgement was taken.
LEMMA MtNothingLive == mtAcks \in Seq(MtListed) /\ mtAcks # <<>>
                         => AcksBehind \in Seq(MtListed) /\ MtLive(AcksBehind) = {}
<1>1. SUFFICES ASSUME mtAcks \in Seq(MtListed), mtAcks # <<>>
               PROVE  AcksBehind \in Seq(MtListed) /\ MtLive(AcksBehind) = {}
  OBVIOUS
<1>2. Len(mtAcks) - 1 \in Nat BY <1>1
<1> DEFINE n == Len(mtAcks) - 1
           q == [i \in 1 .. n |-> MtFreed]
<1>3. MtFreed \in MtListed BY DEF MtListed
<1> HIDE DEF n
<1>4. q \in Seq(MtListed)
  <2> HIDE DEF MtListed, MtFreed
  <2>. QED BY <1>2, <1>3 DEF n
<1>5. MtLive(q) = {} BY DEF MtLive, MtFreed
<1>. QED BY <1>4, <1>5 DEF AcksBehind, n

\* The next block.
LEMMA MtAdvanceKeeps ==
    ASSUME MtInv, NoSingleBlocks, NEW t \in MtThreads, mtApp[t].pc = "pop",
           mtAcks # <<>>, Head(mtAcks) # MtFreed, Head(mtAcks).block = mtTxFrag.cur,
           mtTxFrag' = [mtTxFrag EXCEPT !.cur = @ + 1, !.try = 0],
           mtTxFrag.cur + 1 # mtTxFrag.count,
           mtAcks' = AcksBehind, MtGoto(t, "block"),
           UNCHANGED <<mtSize, mtTxLock, mtDown, mtUp, mtRxFrag, mtWhole>>
    PROVE  MtInv'
<1>0. MtTypes /\ MtLocked /\ MtFramed /\ MtCounted /\ MtPhase /\ MtResults /\ MtUnmixed BY DEF MtInv
<1>2. /\ mtApp' \in [MtThreads -> [pc : MtPcs, r : {0, 1}]]
      /\ mtApp'[t].pc = "block" /\ mtApp'[t].r = mtApp[t].r
      /\ \A u \in MtThreads : u # t => mtApp'[u] = mtApp[u]
  BY <1>0, MtGotoResult DEF MtPcs
<1>h. mtTxLock = t /\ MtSending /\ mtTxFrag.cur < mtTxFrag.count BY MtSenderHolds
<1>c. /\ DOMAIN mtTxFrag' = {"cur", "count", "try", "error"}
      /\ mtTxFrag'.cur = mtTxFrag.cur + 1 /\ mtTxFrag'.count = mtTxFrag.count
  BY <1>0 DEF MtTypes
<1>t. /\ mtTxFrag.cur \in Nat /\ mtTxFrag.count \in Nat /\ mtDown \in Seq(MtFrames)
      /\ mtUp \in Seq(MtFrames) /\ mtRxFrag.cur \in Nat
  BY <1>0 DEF MtTypes
<1>a. mtAcks' \in Seq(MtListed) /\ MtLive(mtAcks') = {} BY <1>0, MtNothingLive DEF MtTypes
<1>3. MtTypes'
  <2>1. mtTxFrag'.cur \in Nat /\ mtTxFrag'.count \in Nat BY <1>c, <1>t
  <2>. QED BY <1>0, <1>2, <1>a, <1>c, <2>1 DEF MtTypes
<1>4. MtLocked' BY <1>0, <1>2 DEF MtLocked
<1>5. MtFramed'
  <2>1. MtFewerData(mtDown, mtDown') BY <1>0, MtSameLine DEF MtTypes
  <2>. QED BY <1>0, <1>2, <2>1, MtFramedKeeps
<1>6. MtSending' BY <1>2, <1>h, MtAssumption DEF MtSending
<1>g. mtTxFrag'.cur >= 1 /\ mtTxFrag'.cur < mtTxFrag'.count BY <1>c, <1>h, <1>t
<1>p. MtGoing(t, mtTxFrag.cur + 1, mtTxFrag.count, mtSize[t], mtDown, mtUp, mtAcks', mtRxFrag, mtWhole)
  <2>1. /\ Head(mtAcks) = mtAcks[1] /\ 1 \in MtLive(mtAcks)
        /\ \/ /\ mtTxFrag.cur = 0
              /\ MtOpened(t, mtTxFrag.count, mtSize[t], mtDown, mtUp, mtAcks, mtRxFrag)
           \/ /\ mtTxFrag.cur >= 1
              /\ MtGoing(t, mtTxFrag.cur, mtTxFrag.count, mtSize[t], mtDown, mtUp, mtAcks,
                         mtRxFrag, mtWhole)
    BY MtPopped
  <2>2. CASE /\ mtTxFrag.cur = 0
             /\ MtOpened(t, mtTxFrag.count, mtSize[t], mtDown, mtUp, mtAcks, mtRxFrag)
    <3>1. mtAcks[1].block = 0 /\ mtTxFrag.cur + 1 = 1 BY <2>1, <2>2
    <3>2. MtGoing(t, 1, mtTxFrag.count, mtSize[t], mtDown, mtUp, mtAcks', mtRxFrag, mtWhole)
      BY <1>a, <1>t, <2>1, <2>2, <3>1, MtAdvanceOpened
    <3>. QED BY <3>1, <3>2
  <2>3. CASE MtGoing(t, mtTxFrag.cur, mtTxFrag.count, mtSize[t], mtDown, mtUp, mtAcks,
                     mtRxFrag, mtWhole)
    BY <1>a, <1>t, <2>3, MtAdvanceGoing
  <2>. QED BY <2>1, <2>2, <2>3
<1>7. MtPhase' BY <1>6, <1>c, <1>g, <1>h, <1>p DEF MtPhase
<1>8. MtResults'
  <2>1. \A u \in MtThreads : mtApp'[u].r = mtApp[u].r BY <1>2
  <2>. QED BY <1>0, <2>1 DEF MtResults, MtFragments, MtHas
<1>9. MtUnmixed' BY <1>0 DEF MtUnmixed, MtBlocks
<1>d. MtCounted' BY <1>0, <1>c, <1>g, <1>h DEF MtCounted, MtFragments, MtBlocks
<1>. QED BY <1>3, <1>4, <1>5, <1>7, <1>8, <1>9, <1>d DEF MtInv

\* The last block is acknowledged.
LEMMA MtCompleteKeeps ==
    ASSUME MtInv, NoSingleBlocks, NEW t \in MtThreads, mtApp[t].pc = "pop",
           mtAcks # <<>>, Head(mtAcks) # MtFreed, Head(mtAcks).block = mtTxFrag.cur,
           AckAdvances(Head(mtAcks)),
           mtTxFrag' = [mtTxFrag EXCEPT !.cur = @ + 1, !.try = 0],
           mtTxFrag.cur + 1 = mtTxFrag.count,
           TxFragmentEnds(t, 1, <<MtExtStatus(mtTxFrag.cur, "frag_complete")>>),
           UNCHANGED <<mtSize, mtUp, mtRxFrag, mtWhole>>
    PROVE  MtInv'
<1>0. MtTypes BY DEF MtInv
<1>t. /\ mtTxFrag.cur \in Nat /\ mtTxFrag.count \in Nat /\ mtDown \in Seq(MtFrames)
      /\ mtUp \in Seq(MtFrames) /\ mtAcks \in Seq(MtListed)
  BY <1>0 DEF MtTypes
<1>c. /\ DOMAIN mtTxFrag' = {"cur", "count", "try", "error"}
      /\ mtTxFrag'.cur \in Nat /\ mtTxFrag'.count \in Nat
  BY <1>0 DEF MtTypes
<1>1. /\ Head(mtAcks) = mtAcks[1] /\ 1 \in MtLive(mtAcks)
      /\ \/ mtTxFrag.cur + 1 < mtTxFrag.count
         \/ /\ mtTxFrag.cur >= 1
            /\ MtSays(mtTxFrag.cur, mtAcks[1].status, t, mtTxFrag.cur, mtTxFrag.count, mtRxFrag, mtWhole)
            /\ MtGoing(t, mtTxFrag.cur, mtTxFrag.count, mtSize[t], mtDown, mtUp, mtAcks,
                       mtRxFrag, mtWhole)
  BY MtPopped
<1>2. ~(mtTxFrag.cur + 1 < mtTxFrag.count) BY <1>t
<1>3. mtAcks[1].status # "success" /\ MtHas(mtWhole, t) BY <1>1, <1>2 DEF MtSays, AckAdvances
<1> DEFINE e == MtExtStatus(mtTxFrag.cur, "frag_complete")
<1>4. e \in MtFrames /\ e.type = "ext" BY <1>t, MtExtIsFrame
<1> HIDE DEF e
<1>5. mtDown' = mtDown \o <<e>> BY DEF TxFragmentEnds, e
<1>6. /\ mtDown' \in Seq(MtFrames) /\ Len(mtDown) \in Nat
      /\ DOMAIN mtDown = 1 .. Len(mtDown) /\ DOMAIN mtDown' = 1 .. Len(mtDown) + 1
      /\ \A k \in DOMAIN mtDown : mtDown'[k] = mtDown[k]
      /\ mtDown'[Len(mtDown) + 1] = e
  BY <1>4, <1>5, <1>t
<1>7. /\ \A k \in DOMAIN mtDown : k \in DOMAIN mtDown'
      /\ \A k \in DOMAIN mtDown' \ DOMAIN mtDown : k = Len(mtDown) + 1
  BY <1>6
<1>8. MtFewerData(mtDown, mtDown') BY <1>4, <1>6, <1>7, <1>t, MtLongerDown
<1>9. MtRest(mtDown', mtUp, <<>>, mtRxFrag)
  <2>1. mtTxFrag.cur >= 1 /\ mtAcks[1].block = mtTxFrag.cur BY <1>1, <1>2
  <2>2. MtGoing(t, mtTxFrag.cur, mtTxFrag.count, mtSize[t], mtDown, mtUp, mtAcks, mtRxFrag, mtWhole)
    BY <1>1, <1>2
  <2>. QED BY <1>1, <1>3, <1>6, <1>8, <1>t, <2>1, <2>2, MtEndsAtRest
<1>. QED BY <1>3, <1>6, <1>8, <1>9, <1>c, MtEndKeeps

\* The other end reports an error.
LEMMA MtErrorKeeps ==
    ASSUME MtInv, NoSingleBlocks, NEW t \in MtThreads, mtApp[t].pc = "pop",
           mtAcks # <<>>, Head(mtAcks) # MtFreed, Head(mtAcks).block = mtTxFrag.cur,
           ~AckAdvances(Head(mtAcks)),
           mtTxFrag' = [mtTxFrag EXCEPT !.error = TRUE],
           TxFragmentEnds(t, 0, <<MtAck(mtTxFrag.cur, "block_out_of_order"),
                                  MtExtStatus(mtTxFrag.cur, "frag_aborted")>>),
           UNCHANGED <<mtSize, mtUp, mtRxFrag, mtWhole>>
    PROVE  MtInv'
<1>0. MtTypes BY DEF MtInv
<1>t. /\ mtTxFrag.cur \in Nat /\ mtTxFrag.count \in Nat /\ mtDown \in Seq(MtFrames)
      /\ mtUp \in Seq(MtFrames) /\ mtAcks \in Seq(MtListed)
  BY <1>0 DEF MtTypes
<1>c. /\ DOMAIN mtTxFrag' = {"cur", "count", "try", "error"}
      /\ mtTxFrag'.cur \in Nat /\ mtTxFrag'.count \in Nat
  BY <1>0 DEF MtTypes
<1>1. /\ Head(mtAcks) = mtAcks[1] /\ 1 \in MtLive(mtAcks)
      /\ \/ mtAcks[1].status = "success"
         \/ /\ mtTxFrag.cur >= 1
            /\ MtGoing(t, mtTxFrag.cur, mtTxFrag.count, mtSize[t], mtDown, mtUp, mtAcks,
                       mtRxFrag, mtWhole)
  BY MtPopped
<1>3. mtAcks[1].status # "success" BY <1>1 DEF AckAdvances
<1> DEFINE d == MtAck(mtTxFrag.cur, "block_out_of_order")
           e == MtExtStatus(mtTxFrag.cur, "frag_aborted")
<1>4. d \in MtFrames /\ d.type = "ack" /\ e \in MtFrames /\ e.type = "ext"
  BY <1>t, MtAckIsFrame, MtExtIsFrame DEF MtStatuses, MtErrors
<1> HIDE DEF d, e
<1>5. mtDown' = mtDown \o <<d, e>> BY DEF TxFragmentEnds, d, e
<1>6. /\ mtDown' \in Seq(MtFrames) /\ Len(mtDown) \in Nat
      /\ DOMAIN mtDown = 1 .. Len(mtDown) /\ DOMAIN mtDown' = 1 .. Len(mtDown) + 2
      /\ \A k \in DOMAIN mtDown : mtDown'[k] = mtDown[k]
      /\ mtDown'[Len(mtDown) + 1] = d /\ mtDown'[Len(mtDown) + 2] = e
  BY <1>4, <1>5, <1>t, MtAppendTwo
<1>7. /\ \A k \in DOMAIN mtDown : k \in DOMAIN mtDown'
      /\ \A k \in DOMAIN mtDown' \ DOMAIN mtDown : k \in {Len(mtDown) + 1, Len(mtDown) + 2}
  BY <1>6
<1>8. MtFewerData(mtDown, mtDown') BY <1>4, <1>6, <1>7, <1>t, MtLongerDown
<1>9. MtRest(mtDown', mtUp, <<>>, mtRxFrag)
  <2>1. mtTxFrag.cur >= 1 /\ mtAcks[1].block = mtTxFrag.cur BY <1>1, <1>3
  <2>2. MtGoing(t, mtTxFrag.cur, mtTxFrag.count, mtSize[t], mtDown, mtUp, mtAcks, mtRxFrag, mtWhole)
    BY <1>1, <1>3
  <2>. QED BY <1>1, <1>3, <1>6, <1>8, <1>t, <2>1, <2>2, MtEndsAtRest
<1>. QED BY <1>6, <1>8, <1>9, <1>c, MtEndKeeps

\* wait_for_frag_ack() looks at the list.
LEMMA MtPopKeeps ==
    ASSUME MtInv, NoSingleBlocks, NEW t \in MtThreads, wait_for_frag_ack(t)
    PROVE  MtInv'
<1>1. mtApp[t].pc = "pop" /\ UNCHANGED <<mtSize, mtUp, mtRxFrag, mtWhole>> BY DEF wait_for_frag_ack
<1>2. CASE \/ mtAcks = <<>> /\ frag_txrx_one_block(t) /\ UNCHANGED mtAcks
           \/ MtGoto(t, "undefined") /\ UNCHANGED <<mtTxFrag, mtTxLock, mtDown, mtAcks>>
           \/ /\ mtAcks # <<>> /\ mtAcks' = Tail(mtAcks) /\ MtGoto(t, "wait")
              /\ UNCHANGED <<mtTxFrag, mtTxLock, mtDown>>
  BY <1>1, <1>2, MtPopRestKeeps
<1>3. CASE /\ mtAcks # <<>> /\ Head(mtAcks) # MtFreed /\ ~StaleAck(Head(mtAcks))
           /\ AckAdvances(Head(mtAcks))
           /\ mtTxFrag' = [mtTxFrag EXCEPT !.cur = @ + 1, !.try = 0]
           /\ mtTxFrag.cur + 1 = mtTxFrag.count
           /\ TxFragmentEnds(t, 1, <<MtExtStatus(mtTxFrag.cur, "frag_complete")>>)
  BY <1>1, <1>3, MtCompleteKeeps DEF StaleAck
<1>4. CASE /\ mtAcks # <<>> /\ Head(mtAcks) # MtFreed /\ ~StaleAck(Head(mtAcks))
           /\ mtTxFrag' = [mtTxFrag EXCEPT !.cur = @ + 1, !.try = 0]
           /\ mtTxFrag.cur + 1 # mtTxFrag.count
           /\ mtAcks' = AcksBehind /\ MtGoto(t, "block")
           /\ UNCHANGED <<mtTxLock, mtDown>>
  BY <1>1, <1>4, MtAdvanceKeeps DEF StaleAck
<1>5. CASE /\ mtAcks # <<>> /\ Head(mtAcks) # MtFreed /\ ~StaleAck(Head(mtAcks))
           /\ ~AckAdvances(Head(mtAcks))
           /\ mtTxFrag' = [mtTxFrag EXCEPT !.error = TRUE]
           /\ TxFragmentEnds(t, 0, <<MtAck(mtTxFrag.cur, "block_out_of_order"),
                                     MtExtStatus(mtTxFrag.cur, "frag_aborted")>>)
  BY <1>1, <1>5, MtErrorKeeps DEF StaleAck
<1>. QED BY <1>2, <1>3, <1>4, <1>5 DEF wait_for_frag_ack

\* A step of the line or of the other end, which no thread of the
\* application takes part in.
LEMMA MtLineKeeps ==
    ASSUME MtInv, UNCHANGED <<mtSize, mtApp, mtTxLock, mtTxFrag>>,
           mtDown' \in Seq(MtFrames), MtFewerData(mtDown, mtDown'),
           mtUp' \in Seq(MtFrames), mtAcks' \in Seq(MtListed),
           mtRxFrag' \in [pieces : Seq(MtPieces), cur : Nat, count : Nat, total : Nat, len : Nat],
           mtWhole' \in Seq(Seq(MtPieces)),
           \A t \in MtThreads : MtHas(mtWhole, t) => MtHas(mtWhole', t),
           MtUnmixed', MtPhase'
    PROVE  MtInv'
<1>0. MtTypes /\ MtLocked /\ MtFramed /\ MtCounted /\ MtResults BY DEF MtInv
<1>1. MtTypes' BY <1>0 DEF MtTypes
<1>2. MtLocked' BY <1>0 DEF MtLocked
<1>3. MtFramed' BY <1>0, MtFramedKeeps
<1>4. MtCounted' BY <1>0 DEF MtCounted, MtSending, MtFragments, MtBlocks
<1>5. MtResults'
  <2>1. \A u \in MtThreads : mtApp[u].r = 1 /\ MtFragments(u) => MtHas(mtWhole', u) BY <1>0 DEF MtResults
  <2>. QED BY <2>1 DEF MtResults, MtFragments
<1>. QED BY <1>1, <1>2, <1>3, <1>4, <1>5 DEF MtInv

\* What is unchanged at the other end.
LEMMA MtSameWhole ==
    ASSUME MtInv, UNCHANGED <<mtSize, mtRxFrag, mtWhole>>
    PROVE  /\ mtRxFrag' \in [pieces : Seq(MtPieces), cur : Nat, count : Nat, total : Nat, len : Nat]
           /\ mtWhole' \in Seq(Seq(MtPieces))
           /\ \A t \in MtThreads : MtHas(mtWhole, t) => MtHas(mtWhole', t)
           /\ MtUnmixed'
<1>1. MtTypes /\ MtUnmixed BY DEF MtInv
<1>2. MtUnmixed' BY <1>1 DEF MtUnmixed, MtBlocks
<1>. QED BY <1>1, <1>2 DEF MtTypes

\* A frame that says nothing to the other end is read, or a frame is lost.
LEMMA MtDownKeeps ==
    ASSUME MtInv, mtDown # <<>>, mtDown' = Tail(mtDown),
           UNCHANGED <<mtSize, mtApp, mtTxLock, mtTxFrag, mtAcks, mtUp, mtRxFrag, mtWhole>>
    PROVE  MtInv'
<1>0. MtTypes /\ MtPhase BY DEF MtInv
<1>1. mtDown \in Seq(MtFrames) /\ mtUp \in Seq(MtFrames) /\ mtAcks \in Seq(MtListed) BY <1>0 DEF MtTypes
<1>2. mtDown' \in Seq(MtFrames) BY <1>1, MtTail
<1>3. MtFewerData(mtDown, mtDown') BY <1>1, MtTailFewer
<1>4. MtPhase' BY <1>0, <1>1, <1>2, <1>3, MtFewerDown DEF MtPhase, MtSending
<1>. QED BY <1>1, <1>2, <1>3, <1>4, MtSameWhole, MtLineKeeps

\* A frame that comes back is lost, or is no acknowledgement.
LEMMA MtUpKeeps ==
    ASSUME MtInv, mtUp # <<>>, mtUp' = Tail(mtUp),
           UNCHANGED <<mtSize, mtApp, mtTxLock, mtTxFrag, mtAcks, mtDown, mtRxFrag, mtWhole>>
    PROVE  MtInv'
<1>0. MtTypes /\ MtPhase BY DEF MtInv
<1>1. mtDown \in Seq(MtFrames) /\ mtUp \in Seq(MtFrames) /\ mtAcks \in Seq(MtListed) BY <1>0 DEF MtTypes
<1>2. mtUp' \in Seq(MtFrames) BY <1>1, MtTail
<1>3. MtFewerAcks(mtUp, mtUp') BY <1>1, MtTailFewer
<1>4. MtPhase' BY <1>0, <1>1, <1>2, <1>3, MtFewerUp DEF MtPhase, MtSending
<1>5. MtFewerData(mtDown, mtDown') BY <1>1, MtSameLine
<1>. QED BY <1>1, <1>2, <1>4, <1>5, MtSameWhole, MtLineKeeps

\* handle_extend_packet() at the sender.
LEMMA MtExtendKeeps ==
    ASSUME MtInv, handle_extend_packet
    PROVE  MtInv'
<1>0. MtTypes /\ MtPhase BY DEF MtInv
<1>1. mtDown \in Seq(MtFrames) /\ mtUp \in Seq(MtFrames) /\ mtAcks \in Seq(MtListed) BY <1>0 DEF MtTypes
<1>2. /\ mtUp # <<>> /\ mtUp' = Tail(mtUp)
      /\ UNCHANGED <<mtSize, mtApp, mtTxLock, mtTxFrag, mtDown, mtRxFrag, mtWhole>>
  BY DEF handle_extend_packet
<1>3. CASE Head(mtUp).type # "ack"
  <2>1. UNCHANGED mtAcks BY <1>3 DEF handle_extend_packet
  <2>. QED BY <1>2, <2>1, MtUpKeeps
<1>4. CASE Head(mtUp).type = "ack"
  <2> DEFINE a == [block |-> Head(mtUp).block, status |-> Head(mtUp).status]
  <2>1. mtAcks' = <<a>> \o mtAcks BY <1>4 DEF handle_extend_packet
  <2>2. Head(mtUp) = mtUp[1] /\ mtUp[1] \in MtFrames /\ mtUp' \in Seq(MtFrames) BY <1>1, <1>2, MtTail
  <2>3. /\ a \in MtListed /\ a.block = mtUp[1].block /\ a.status = mtUp[1].status
    BY <1>4, <2>2, MtFrameFields DEF MtListed
  <2> HIDE DEF a
  <2>4. mtAcks' \in Seq(MtListed) BY <1>1, <2>1, <2>3, MtListedMore
  <2>5. /\ MtRest(mtDown, mtUp, mtAcks, mtRxFrag) => MtRest(mtDown, mtUp', mtAcks', mtRxFrag)
        /\ \A o : MtOpening(o, mtDown, mtUp, mtAcks, mtRxFrag) => MtOpening(o, mtDown, mtUp', mtAcks', mtRxFrag)
        /\ \A o, n, s : MtOpened(o, n, s, mtDown, mtUp, mtAcks, mtRxFrag)
               => MtOpened(o, n, s, mtDown, mtUp', mtAcks', mtRxFrag)
        /\ \A o, c, n, s, w : MtGoing(o, c, n, s, mtDown, mtUp, mtAcks, mtRxFrag, w)
               => MtGoing(o, c, n, s, mtDown, mtUp', mtAcks', mtRxFrag, w)
    BY <1>1, <1>2, <1>4, <2>1, <2>2, <2>3, MtAckArrives
  <2>6. MtPhase' BY <1>0, <1>2, <2>5 DEF MtPhase, MtSending
  <2>7. MtFewerData(mtDown, mtDown') BY <1>1, <1>2, MtSameLine
  <2>. QED BY <1>1, <1>2, <2>2, <2>4, <2>6, <2>7, MtSameWhole, MtLineKeeps
<1>. QED BY <1>3, <1>4

-----------------------------------------------------------------------------
\* What is known of a block that is read while a later one is sent.
LEMMA MtGoingBlock ==
    ASSUME NEW down \in Seq(MtFrames), NEW q \in Seq(MtFrames), MtReads(down, q),
           NEW up, NEW acks, NEW o, NEW c, NEW n, NEW s, NEW rx, NEW w,
           MtGoing(o, c, n, s, down, up, acks, rx, w)
    PROVE  /\ down[1].msg = o /\ down[1].block <= c
           /\ \A k \in MtDataIn(q) : down[1].block <= q[k].block
           /\ \A k \in MtAcksIn(up) : up[k].block <= down[1].block
           /\ \A k \in MtLive(acks) : acks[k].block <= down[1].block
           /\ rx # MtNoFrag =>
                 /\ MtPartial(rx, o, n, s) /\ rx.cur <= c
                 /\ \A k \in MtDataIn(q) : rx.cur <= q[k].block
                 /\ \A k \in MtAcksIn(up) : up[k].block <= rx.cur
                 /\ \A k \in MtLive(acks) : acks[k].block <= rx.cur
<1>1. 1 \in MtDataIn(down) BY DEF MtReads
<1>2. down[1].msg = o /\ down[1].block <= c BY <1>1 DEF MtGoing
<1>3. \A k \in MtDataIn(q) : down[1].block <= q[k].block
  <2>1. \A j, k \in MtDataIn(down) : j < k => down[j].block <= down[k].block BY DEF MtGoing
  <2>. QED BY <1>1, <2>1 DEF MtReads
<1>4. /\ \A k \in MtAcksIn(up) : MtBehind(up[k].block, c, down, rx)
      /\ \A k \in MtLive(acks) : MtBehind(acks[k].block, c, down, rx)
  BY DEF MtGoing
<1>5. ASSUME NEW b, MtBehind(b, c, down, rx) PROVE b <= down[1].block /\ (rx # MtNoFrag => b <= rx.cur)
  BY <1>1, <1>5 DEF MtBehind
<1>6. rx # MtNoFrag => /\ MtPartial(rx, o, n, s) /\ rx.cur <= c
                       /\ \A k \in MtDataIn(down) : rx.cur <= down[k].block
  BY DEF MtGoing
<1>7. rx # MtNoFrag => \A k \in MtDataIn(q) : rx.cur <= q[k].block BY <1>6 DEF MtReads
<1>. QED BY <1>2, <1>3, <1>4, <1>5, <1>6, <1>7

\* What is known of the block that is read.
LEMMA MtReadFacts ==
    ASSUME MtInv, mtDown # <<>>, Head(mtDown).type = "data"
    PROVE  LET f == mtDown[1] IN
           /\ Head(mtDown) = f /\ f \in MtFrames /\ f.msg \in MtThreads /\ f.block \in Nat
           /\ MtReads(mtDown, Tail(mtDown)) /\ Tail(mtDown) \in Seq(MtFrames)
           /\ MtFewerData(mtDown, Tail(mtDown))
           /\ f.total = mtSize[f.msg] /\ mtSize[f.msg] \in Nat
           /\ f.block = 0 => f.len = MtFragSize /\ MtBlocks(mtSize[f.msg]) > 1
<1>0. MtTypes /\ MtFramed BY DEF MtInv
<1>1. mtDown \in Seq(MtFrames) BY <1>0 DEF MtTypes
<1>2. Head(mtDown) = mtDown[1] /\ mtDown[1] \in MtFrames BY <1>1, MtTail
<1>3. MtReads(mtDown, Tail(mtDown)) /\ Tail(mtDown) \in Seq(MtFrames) BY <1>1, <1>2, MtReadsTail
<1>4. MtFewerData(mtDown, Tail(mtDown)) BY <1>1, MtTailFewer
<1>5. 1 \in MtDataIn(mtDown) BY <1>3 DEF MtReads
<1>6. mtDown[1].msg \in MtThreads /\ mtDown[1].block \in Nat BY <1>2, MtFrameFields
<1>7. mtSize[mtDown[1].msg] \in Nat BY <1>0, <1>6 DEF MtTypes
<1>. QED BY <1>0, <1>2, <1>3, <1>4, <1>5, <1>6, <1>7 DEF MtFramed

\* The phases, with the names of the sender and of what it sends.
LEMMA MtPhaseIs ==
    ASSUME MtInv
    PROVE  \/ ~MtSending /\ MtRest(mtDown, mtUp, mtAcks, mtRxFrag)
           \/ /\ MtSending /\ mtTxLock \in MtThreads
              /\ mtTxFrag.count = MtBlocks(mtSize[mtTxLock])
              /\ \/ /\ mtTxFrag.cur = 0
                    /\ MtOpening(mtTxLock, mtDown, mtUp, mtAcks, mtRxFrag)
                 \/ /\ mtTxFrag.cur = 0
                    /\ MtOpened(mtTxLock, mtTxFrag.count, mtSize[mtTxLock],
                                mtDown, mtUp, mtAcks, mtRxFrag)
                 \/ /\ mtTxFrag.cur >= 1
                    /\ MtGoing(mtTxLock, mtTxFrag.cur, mtTxFrag.count,
                               mtSize[mtTxLock], mtDown, mtUp, mtAcks, mtRxFrag,
                               mtWhole)
<1>1. MtTypes /\ MtPhase /\ MtCounted BY DEF MtInv
<1>. QED BY <1>1 DEF MtPhase, MtCounted, MtTypes, MtSending

\* A later block when nothing is put together.
LEMMA MtLateKeeps ==
    ASSUME MtInv, mtDown # <<>>, Head(mtDown).type = "data", mtDown' = Tail(mtDown),
           mtRxFrag = MtNoFrag, Head(mtDown).block # 0,
           mtUp' = Append(mtUp, MtAck(Head(mtDown).block, "block_out_of_order")),
           UNCHANGED <<mtSize, mtApp, mtTxLock, mtTxFrag, mtAcks, mtRxFrag, mtWhole>>
    PROVE  MtInv'
<1> DEFINE f == mtDown[1]
           a == MtAck(f.block, "block_out_of_order")
           q == Tail(mtDown)
<1>0. MtTypes BY DEF MtInv
<1>1. /\ Head(mtDown) = f /\ f.block \in Nat /\ f.block # 0
      /\ MtReads(mtDown, q) /\ q \in Seq(MtFrames) /\ MtFewerData(mtDown, q)
  BY MtReadFacts
<1>t. mtDown \in Seq(MtFrames) /\ mtUp \in Seq(MtFrames) /\ mtAcks \in Seq(MtListed)
      /\ mtTxFrag.cur \in Nat /\ mtTxFrag.count \in Nat
  BY <1>0 DEF MtTypes
<1>2. a \in MtFrames /\ a.type = "ack" /\ a.block = f.block /\ a.status = "block_out_of_order"
  BY <1>1, MtAckIsFrame DEF MtStatuses, MtErrors
<1>3. mtUp' = Append(mtUp, a) /\ mtDown' = q BY <1>1
<1> HIDE DEF a, q, f
<1>b. a.block >= 1 BY <1>1, <1>2
<1>4. mtUp' \in Seq(MtFrames) BY <1>2, <1>3, <1>t
<1>5. MtPhase'
  <2>1. CASE ~MtSending /\ MtRest(mtDown, mtUp, mtAcks, mtRxFrag)
    <3>1. MtRest(q, mtUp, mtAcks, mtRxFrag) BY <1>1, <1>t, <2>1, MtFewerDown
    <3>2. MtRest(mtDown', mtUp', mtAcks, mtRxFrag) BY <1>2, <1>3, <1>b, <1>t, <3>1, MtAnswerOld
    <3>. QED BY <2>1, <3>2 DEF MtPhase, MtSending
  <2>2. CASE MtSending /\ mtTxFrag.cur = 0 /\ MtOpening(mtTxLock, mtDown, mtUp, mtAcks, mtRxFrag)
    <3>1. MtOpening(mtTxLock, q, mtUp, mtAcks, mtRxFrag) BY <1>1, <1>t, <2>2, MtFewerDown
    <3>2. MtOpening(mtTxLock, mtDown', mtUp', mtAcks, mtRxFrag) BY <1>2, <1>3, <1>b, <1>t, <3>1, MtAnswerOld
    <3>. QED BY <2>2, <3>2 DEF MtPhase, MtSending
  <2>3. CASE MtOpened(mtTxLock, mtTxFrag.count, mtSize[mtTxLock], mtDown, mtUp, mtAcks, mtRxFrag)
    BY <1>1, <2>3 DEF MtOpened, MtReads, f
  <2>4. CASE /\ MtSending /\ mtTxFrag.cur >= 1
             /\ MtGoing(mtTxLock, mtTxFrag.cur, mtTxFrag.count, mtSize[mtTxLock], mtDown, mtUp,
                        mtAcks, mtRxFrag, mtWhole)
    <3> DEFINE c == mtTxFrag.cur
               n == mtTxFrag.count
               o == mtTxLock
               s == mtSize[mtTxLock]
    <3>1. MtGoing(o, c, n, s, q, mtUp, mtAcks, mtRxFrag, mtWhole)
      BY <1>1, <1>t, <2>4, MtGoingOn
    <3>2. /\ f.block <= c /\ \A k \in MtDataIn(q) : f.block <= q[k].block
          /\ \A k \in MtAcksIn(mtUp) : mtUp[k].block <= f.block
          /\ \A k \in MtLive(mtAcks) : mtAcks[k].block <= f.block
      BY <1>1, <1>t, <2>4, MtGoingBlock DEF f
    <3>3. MtBehind(a.block, c, q, mtRxFrag) BY <1>2, <3>2 DEF MtBehind
    <3>4. MtSays(a.block, a.status, o, c, n, mtRxFrag, mtWhole) BY <1>2 DEF MtSays
    <3>5. MtGoing(o, c, n, s, mtDown', mtUp', mtAcks, mtRxFrag, mtWhole)
      <4> HIDE DEF o, c, n, s
      <4>1. c \in Nat BY <1>t DEF c
      <4>. QED BY <1>1, <1>2, <1>3, <1>t, <3>1, <3>2, <3>3, <3>4, <4>1, MtAnswerGoing
    <3>. QED BY <2>4, <3>5 DEF MtPhase, MtSending
  <2>. QED BY <2>1, <2>2, <2>3, <2>4, MtPhaseIs
<1>. QED BY <1>1, <1>3, <1>4, <1>5, <1>t, MtSameWhole, MtLineKeeps

MtFrags == [pieces : Seq(MtPieces), cur : Nat, count : Nat, total : Nat, len : Nat]

\* What a first block makes of rx_frag.
LEMMA MtFirstFrag ==
    ASSUME NEW t \in MtThreads, NEW s \in Nat, MtBlocks(s) > 1,
           NEW x, x = [pieces |-> <<MtPiece(t, 0)>>, cur |-> 0, count |-> MtBlocks(s),
                       total |-> s, len |-> MtFragSize]
    PROVE  /\ x \in MtFrags /\ x.cur = 0 /\ MtPartial(x, t, MtBlocks(s), s)
           /\ FragAck(x) = MtAck(0, "success")
<1>1. MtPiece(t, 0) \in MtPieces BY DEF MtPiece, MtPieces
<1>2. MtBlocks(s) \in Nat /\ MtFragSize \in Nat BY MtBlocksNat, MtAssumption
<1>3. x \in MtFrags BY <1>1, <1>2 DEF MtFrags
<1>4. <<MtPiece(t, 0)>> = [b \in 1 .. 0 + 1 |-> MtPiece(t, b - 1)]
  <2> DEFINE p == <<MtPiece(t, 0)>>
             r == [b \in 1 .. 0 + 1 |-> MtPiece(t, b - 1)]
  <2>1. DOMAIN p = 1 .. 1 /\ p[1] = MtPiece(t, 0) OBVIOUS
  <2>2. DOMAIN r = 1 .. 1 /\ r[1] = MtPiece(t, 0) OBVIOUS
  <2>3. \A b \in 1 .. 1 : b = 1 OBVIOUS
  <2>4. p = [b \in DOMAIN p |-> p[b]] /\ r = [b \in DOMAIN r |-> r[b]] OBVIOUS
  <2> HIDE DEF p, r
  <2>5. p = r BY <2>1, <2>2, <2>3, <2>4
  <2>. QED BY <2>5 DEF p, r
<1>5. MtPartial(x, t, MtBlocks(s), s) BY <1>2, <1>4 DEF MtPartial
<1>6. FragAck(x) = MtAck(0, "success") BY <1>2 DEF FragAck
<1>. QED BY <1>3, <1>5, <1>6

\* A first block when nothing is put together.
LEMMA MtFirstKeeps ==
    ASSUME MtInv, mtDown # <<>>, Head(mtDown).type = "data", mtDown' = Tail(mtDown),
           mtRxFrag = MtNoFrag, Head(mtDown).block = 0, rx_first_frag_block(Head(mtDown)),
           UNCHANGED <<mtSize, mtApp, mtTxLock, mtTxFrag, mtAcks>>
    PROVE  MtInv'
<1> DEFINE f == mtDown[1]
           a == MtAck(0, "success")
           q == Tail(mtDown)
           x == [pieces |-> <<MtPiece(f.msg, 0)>>, cur |-> 0, count |-> MtBlocks(mtSize[f.msg]),
                 total |-> mtSize[f.msg], len |-> MtFragSize]
<1>0. MtTypes /\ MtUnmixed BY DEF MtInv
<1>1. /\ Head(mtDown) = f /\ f.msg \in MtThreads /\ f.block = 0
      /\ MtReads(mtDown, q) /\ q \in Seq(MtFrames) /\ MtFewerData(mtDown, q)
      /\ f.total = mtSize[f.msg] /\ mtSize[f.msg] \in Nat
      /\ f.len = MtFragSize /\ MtBlocks(mtSize[f.msg]) > 1
  BY MtReadFacts
<1>t. mtDown \in Seq(MtFrames) /\ mtUp \in Seq(MtFrames) /\ mtAcks \in Seq(MtListed)
      /\ mtTxFrag.cur \in Nat /\ mtTxFrag.count \in Nat /\ mtWhole \in Seq(Seq(MtPieces))
  BY <1>0 DEF MtTypes
<1>2. a \in MtFrames /\ a.type = "ack" /\ a.block = 0 /\ a.status = "success"
  BY MtAckIsFrame DEF MtStatuses
<1>3. /\ x \in MtFrags /\ x.cur = 0 /\ MtPartial(x, f.msg, MtBlocks(mtSize[f.msg]), mtSize[f.msg])
      /\ FragAck(x) = a
  BY <1>1, MtFirstFrag
<1>4. mtRxFrag' = x /\ mtUp' = Append(mtUp, a) /\ mtWhole' = mtWhole
  <2>1. (f.total + f.len - 1) \div f.len = MtBlocks(mtSize[f.msg]) BY <1>1 DEF MtBlocks
  <2>2. x = [pieces |-> <<MtPiece(f.msg, f.block)>>, cur |-> f.block,
             count |-> (f.total + f.len - 1) \div f.len, total |-> f.total, len |-> f.len]
    BY <1>1, <2>1
  <2>3. rx_first_frag_block(f) BY <1>1
  <2>. QED BY <1>1, <1>3, <2>2, <2>3 DEF rx_first_frag_block
<1>5. mtDown' = q OBVIOUS
<1> HIDE DEF a, q, f, x
<1>6. mtUp' \in Seq(MtFrames) BY <1>2, <1>4, <1>t
<1>7. MtPhase'
  <2>f. f.block = mtDown[1].block /\ f.msg = mtDown[1].msg /\ 1 \in MtDataIn(mtDown) BY <1>1 DEF f, MtReads
  <2>1. CASE MtRest(mtDown, mtUp, mtAcks, mtRxFrag)
    BY <1>1, <2>1, <2>f DEF MtRest
  <2>2. CASE /\ MtSending /\ mtTxFrag.cur = 0 /\ mtTxFrag.count = MtBlocks(mtSize[mtTxLock])
             /\ MtOpening(mtTxLock, mtDown, mtUp, mtAcks, mtRxFrag)
    <3>1. f.msg = mtTxLock BY <1>1, <2>2, <2>f DEF MtOpening
    <3>2. MtPartial(x, mtTxLock, mtTxFrag.count, mtSize[mtTxLock]) /\ mtDown[1].block = 0
      BY <1>1, <1>3, <2>2, <2>f, <3>1
    <3>3. MtOpened(mtTxLock, mtTxFrag.count, mtSize[mtTxLock], q, Append(mtUp, a), mtAcks, x)
      BY <1>1, <1>2, <1>3, <1>t, <2>2, <3>2, MtOpens
    <3>. QED BY <1>4, <1>5, <2>2, <3>3 DEF MtPhase, MtSending
  <2>3. CASE /\ MtSending /\ mtTxFrag.cur = 0 /\ mtTxFrag.count = MtBlocks(mtSize[mtTxLock])
             /\ MtOpened(mtTxLock, mtTxFrag.count, mtSize[mtTxLock], mtDown, mtUp, mtAcks, mtRxFrag)
    <3>1. f.msg = mtTxLock BY <2>3, <2>f DEF MtOpened
    <3>2. MtPartial(x, mtTxLock, mtTxFrag.count, mtSize[mtTxLock]) BY <1>3, <2>3, <3>1
    <3>3. MtOpened(mtTxLock, mtTxFrag.count, mtSize[mtTxLock], q, Append(mtUp, a), mtAcks, x)
      BY <1>1, <1>2, <1>3, <1>t, <2>3, <3>2, MtOpensAgain
    <3>. QED BY <1>4, <1>5, <2>3, <3>3 DEF MtPhase, MtSending
  <2>4. CASE /\ MtSending /\ mtTxFrag.cur >= 1 /\ mtTxFrag.count = MtBlocks(mtSize[mtTxLock])
             /\ MtGoing(mtTxLock, mtTxFrag.cur, mtTxFrag.count, mtSize[mtTxLock], mtDown, mtUp,
                        mtAcks, mtRxFrag, mtWhole)
    <3> DEFINE c == mtTxFrag.cur
               n == mtTxFrag.count
               o == mtTxLock
               s == mtSize[mtTxLock]
    <3>2. /\ f.msg = o /\ f.block <= c /\ \A k \in MtDataIn(q) : f.block <= q[k].block
          /\ \A k \in MtAcksIn(mtUp) : mtUp[k].block <= f.block
          /\ \A k \in MtLive(mtAcks) : mtAcks[k].block <= f.block
      BY <1>1, <1>t, <2>4, MtGoingBlock DEF f
    <3>c. c \in Nat /\ c # 0 /\ n \in Nat BY <1>t, <2>4
    <3>p. MtPartial(x, o, n, s) BY <1>3, <2>4, <3>2
    <3>1. MtGoing(o, c, n, s, q, mtUp, mtAcks, x, mtWhole)
      <4>1. x.cur = mtDown[1].block /\ mtDown[1].block # c BY <1>1, <1>3, <2>f, <3>c
      <4>2. MtGoing(o, c, n, s, mtDown, mtUp, mtAcks, mtRxFrag, mtWhole) BY <2>4
      <4> HIDE DEF o, c, n, s
      <4>. QED BY <1>1, <1>t, <3>c, <3>p, <4>1, <4>2, MtGoingOn
    <3>3. MtBehind(a.block, c, q, x) BY <1>1, <1>2, <1>3, <3>2 DEF MtBehind
    <3>4. MtSays(a.block, a.status, o, c, n, x, mtWhole) BY <1>2, <3>c DEF MtSays
    <3>5. MtGoing(o, c, n, s, q, Append(mtUp, a), mtAcks, x, mtWhole)
      <4> HIDE DEF o, c, n, s
      <4>. QED BY <1>1, <1>2, <1>t, <3>1, <3>2, <3>3, <3>4, <3>c, MtAnswerGoing
    <3>. QED BY <1>4, <1>5, <2>4, <3>5 DEF MtPhase, MtSending
  <2>. QED BY <2>1, <2>2, <2>3, <2>4, MtPhaseIs
<1>8. MtUnmixed' BY <1>0, <1>4 DEF MtUnmixed, MtBlocks
<1>9. \A t \in MtThreads : MtHas(mtWhole, t) => MtHas(mtWhole', t) BY <1>4
<1>. QED BY <1>1, <1>3, <1>4, <1>5, <1>6, <1>7, <1>8, <1>9, <1>t, MtLineKeeps DEF MtFrags

\* What is wrong with a block.
LEMMA MtWrong ==
    ASSUME NEW f
    PROVE  /\ f.block = mtRxFrag.cur => BlockError(f) = "duplicate"
           /\ BlockError(f) \in {"none", "duplicate"} \cup MtErrors
           /\ BlockError(f) = "none" => mtRxFrag.cur + 1 = f.block
BY DEF BlockError, MtErrors

\* A block that is wrong: what was put together is dropped.
LEMMA MtAbortKeeps ==
    ASSUME MtInv, mtDown # <<>>, Head(mtDown).type = "data", mtDown' = Tail(mtDown),
           mtRxFrag # MtNoFrag, BlockError(Head(mtDown)) # "none", AbortCleanUp(Head(mtDown)),
           UNCHANGED <<mtSize, mtApp, mtTxLock, mtTxFrag, mtAcks>>
    PROVE  MtInv'
<1> DEFINE f == mtDown[1]
           e == BlockError(f)
           a == MtAck(mtRxFrag.cur, e)
           q == Tail(mtDown)
<1>0. MtTypes /\ MtUnmixed BY DEF MtInv
<1>1. /\ Head(mtDown) = f /\ f.block \in Nat
      /\ MtReads(mtDown, q) /\ q \in Seq(MtFrames) /\ MtFewerData(mtDown, q)
  BY MtReadFacts
<1>t. mtDown \in Seq(MtFrames) /\ mtUp \in Seq(MtFrames) /\ mtAcks \in Seq(MtListed)
      /\ mtTxFrag.cur \in Nat /\ mtTxFrag.count \in Nat /\ mtWhole \in Seq(Seq(MtPieces))
      /\ mtRxFrag.cur \in Nat
  BY <1>0 DEF MtTypes
<1>e. e = "duplicate" \/ e \in MtErrors BY <1>1, MtWrong
<1>2. /\ mtRxFrag' = MtNoFrag /\ mtWhole' = mtWhole
      /\ mtUp' = IF e = "duplicate" THEN mtUp ELSE Append(mtUp, a)
  BY <1>1 DEF AbortCleanUp
<1>d. f.block = mtRxFrag.cur => e = "duplicate" BY MtWrong
<1>3. mtDown' = q OBVIOUS
<1> HIDE DEF e
<1>s. e # "duplicate" => e \in MtStatuses BY <1>e DEF MtStatuses
<1>4. e # "duplicate" => a \in MtFrames /\ a.type = "ack" /\ a.block = mtRxFrag.cur /\ a.status = e
  BY <1>s, <1>t, MtAckIsFrame
<1> HIDE DEF a, q, f
<1>5. mtUp' \in Seq(MtFrames) BY <1>2, <1>4, <1>t
<1>x. MtNoFrag \in MtFrags BY DEF MtNoFrag, MtFrags
<1>6. MtPhase'
  <2>f. f.block = mtDown[1].block /\ f.msg = mtDown[1].msg /\ 1 \in MtDataIn(mtDown) BY <1>1 DEF f, MtReads
  <2>1. CASE MtRest(mtDown, mtUp, mtAcks, mtRxFrag) \/ MtOpening(mtTxLock, mtDown, mtUp, mtAcks, mtRxFrag)
    BY <2>1 DEF MtRest, MtOpening
  <2>3. CASE /\ MtSending /\ mtTxFrag.cur = 0
             /\ MtOpened(mtTxLock, mtTxFrag.count, mtSize[mtTxLock], mtDown, mtUp, mtAcks, mtRxFrag)
    <3>1. f.block = 0 /\ mtRxFrag.cur = 0 BY <2>3, <2>f DEF MtOpened
    <3>2. mtUp' = mtUp BY <1>2, <1>d, <3>1
    <3>3. MtOpened(mtTxLock, mtTxFrag.count, mtSize[mtTxLock], q, mtUp, mtAcks, MtNoFrag)
      BY <1>1, <2>3, MtDropsOpened
    <3>. QED BY <1>2, <1>3, <2>3, <3>2, <3>3 DEF MtPhase, MtSending
  <2>4. CASE /\ MtSending /\ mtTxFrag.cur >= 1
             /\ MtGoing(mtTxLock, mtTxFrag.cur, mtTxFrag.count, mtSize[mtTxLock], mtDown, mtUp,
                        mtAcks, mtRxFrag, mtWhole)
    <3> DEFINE c == mtTxFrag.cur
               n == mtTxFrag.count
               o == mtTxLock
               s == mtSize[mtTxLock]
    <3>c. c \in Nat /\ n \in Nat BY <1>t
    <3>g. MtGoing(o, c, n, s, mtDown, mtUp, mtAcks, mtRxFrag, mtWhole) BY <2>4
    <3>2. /\ mtRxFrag.cur <= c /\ \A k \in MtDataIn(q) : mtRxFrag.cur <= q[k].block
          /\ \A k \in MtAcksIn(mtUp) : mtUp[k].block <= mtRxFrag.cur
          /\ \A k \in MtLive(mtAcks) : mtAcks[k].block <= mtRxFrag.cur
      BY <1>1, <1>t, <3>g, MtGoingBlock
    <3>h. MtGoing(o, c, n, s, mtDown', mtUp', mtAcks, MtNoFrag, mtWhole)
      <4> HIDE DEF o, c, n, s
      <4>1. MtGoing(o, c, n, s, q, mtUp, mtAcks, MtNoFrag, mtWhole)
        BY <1>1, <1>t, <3>c, <3>g, MtGoingOn
      <4>2. CASE e = "duplicate" BY <1>2, <1>3, <4>1, <4>2
      <4>3. CASE e # "duplicate"
        <5>1. MtBehind(a.block, c, q, MtNoFrag) BY <1>4, <3>2, <4>3 DEF MtBehind
        <5>2. a.status \in MtErrors BY <1>4, <1>e, <4>3
        <5>3. MtSays(a.block, a.status, o, c, n, MtNoFrag, mtWhole) BY <5>2 DEF MtSays, MtErrors
        <5>4. MtGoing(o, c, n, s, q, Append(mtUp, a), mtAcks, MtNoFrag, mtWhole)
          BY <1>1, <1>4, <1>t, <3>2, <3>c, <4>1, <4>3, <5>1, <5>3, MtAnswerGoing
        <5>. QED BY <1>2, <1>3, <4>3, <5>4
      <4>. QED BY <4>2, <4>3
    <3>. QED BY <1>2, <2>4, <3>h DEF MtPhase, MtSending
  <2>. QED BY <2>1, <2>3, <2>4, MtPhaseIs
<1>8. MtUnmixed' BY <1>0, <1>2 DEF MtUnmixed, MtBlocks
<1>9. \A t \in MtThreads : MtHas(mtWhole, t) => MtHas(mtWhole', t) BY <1>2
<1>. QED BY <1>1, <1>2, <1>3, <1>5, <1>6, <1>8, <1>9, <1>t, <1>x, MtLineKeeps DEF MtFrags

\* A block that follows the last one.
LEMMA MtNextPieces ==
    ASSUME NEW t \in MtThreads, NEW c \in Nat, NEW p \in Seq(MtPieces),
           p = [k \in 1 .. c + 1 |-> MtPiece(t, k - 1)]
    PROVE  /\ Append(p, MtPiece(t, c + 1)) \in Seq(MtPieces)
           /\ Append(p, MtPiece(t, c + 1)) = [k \in 1 .. (c + 1) + 1 |-> MtPiece(t, k - 1)]
<1> DEFINE b == c + 1
           r == Append(p, MtPiece(t, b))
           z == [k \in 1 .. b + 1 |-> MtPiece(t, k - 1)]
<1>1. MtPiece(t, b) \in MtPieces /\ b \in Nat BY DEF MtPiece, MtPieces
<1>6. Len(p) = b /\ DOMAIN p = 1 .. b
  <2>1. DOMAIN p = 1 .. b OBVIOUS
  <2>2. DOMAIN p = 1 .. Len(p) /\ Len(p) \in Nat OBVIOUS
  <2> HIDE DEF b
  <2>. QED BY <1>1, <2>1, <2>2
<1>7. /\ r \in Seq(MtPieces) /\ DOMAIN r = 1 .. b + 1 /\ r[b + 1] = MtPiece(t, b)
      /\ \A k \in 1 .. b : r[k] = p[k]
  <2> HIDE DEF r, b
  <2>. QED BY <1>1, <1>6, MtAppend DEF r
<1>8. r = z
  <2>1. \A k \in 1 .. b : p[k] = MtPiece(t, k - 1) OBVIOUS
  <2>2. \A k \in 1 .. b + 1 : k \in 1 .. b \/ k = b + 1 BY <1>1
  <2>3. DOMAIN z = 1 .. b + 1 /\ \A k \in 1 .. b + 1 : z[k] = MtPiece(t, k - 1) OBVIOUS
  <2>4. (b + 1) - 1 = b OBVIOUS
  <2>5. r = [k \in DOMAIN r |-> r[k]] /\ z = [k \in DOMAIN z |-> z[k]] BY <1>7
  <2> HIDE DEF r, z, b
  <2>6. \A k \in 1 .. b + 1 : r[k] = z[k] BY <1>7, <2>1, <2>2, <2>3, <2>4
  <2>. QED BY <1>7, <2>3, <2>5, <2>6
<1>. QED BY <1>7, <1>8

\* The next block of the message that is put together.
LEMMA MtTakeKeeps ==
    ASSUME MtInv, mtDown # <<>>, Head(mtDown).type = "data", mtDown' = Tail(mtDown),
           mtRxFrag # MtNoFrag, BlockError(Head(mtDown)) = "none", TakeBlock(Head(mtDown)),
           UNCHANGED <<mtSize, mtApp, mtTxLock, mtTxFrag, mtAcks>>
    PROVE  MtInv'
<1> DEFINE f == mtDown[1]
           q == Tail(mtDown)
           c == mtTxFrag.cur
           n == mtTxFrag.count
           o == mtTxLock
           s == mtSize[mtTxLock]
           y == [mtRxFrag EXCEPT !.cur = f.block, !.pieces = Append(@, MtPiece(f.msg, f.block))]
<1>0. MtTypes /\ MtUnmixed BY DEF MtInv
<1>1. /\ Head(mtDown) = f /\ f.block \in Nat
      /\ MtReads(mtDown, q) /\ q \in Seq(MtFrames) /\ MtFewerData(mtDown, q)
  BY MtReadFacts
<1>t. mtDown \in Seq(MtFrames) /\ mtUp \in Seq(MtFrames) /\ mtAcks \in Seq(MtListed)
      /\ c \in Nat /\ n \in Nat /\ mtWhole \in Seq(Seq(MtPieces))
      /\ mtRxFrag \in MtFrags /\ mtRxFrag.cur \in Nat
  BY <1>0 DEF MtTypes, MtFrags
<1>2. f.block = mtRxFrag.cur + 1 BY <1>1, MtWrong
<1>3. TakeBlock(f) /\ mtDown' = q BY <1>1
<1>f. f.block = mtDown[1].block /\ f.msg = mtDown[1].msg /\ 1 \in MtDataIn(mtDown) BY <1>1 DEF MtReads
<1>4. /\ MtSending /\ o \in MtThreads /\ n = MtBlocks(s) /\ c >= 1
      /\ MtGoing(o, c, n, s, mtDown, mtUp, mtAcks, mtRxFrag, mtWhole)
  <2>1. ~MtRest(mtDown, mtUp, mtAcks, mtRxFrag) BY DEF MtRest
  <2>2. ~MtOpening(o, mtDown, mtUp, mtAcks, mtRxFrag) BY DEF MtOpening
  <2>3. ~MtOpened(o, n, s, mtDown, mtUp, mtAcks, mtRxFrag)
    <3>1. ASSUME MtOpened(o, n, s, mtDown, mtUp, mtAcks, mtRxFrag) PROVE f.block = 0 /\ mtRxFrag.cur = 0
      BY <1>f, <3>1 DEF MtOpened
    <3>. QED BY <1>2, <3>1
  <2>. QED BY <2>1, <2>2, <2>3, MtPhaseIs
<1>5. /\ f.msg = o /\ f.block <= c /\ \A k \in MtDataIn(q) : f.block <= q[k].block
      /\ \A k \in MtAcksIn(mtUp) : mtUp[k].block <= f.block
      /\ \A k \in MtLive(mtAcks) : mtAcks[k].block <= f.block
      /\ MtPartial(mtRxFrag, o, n, s)
  <2>1. MtGoing(o, c, n, s, mtDown, mtUp, mtAcks, mtRxFrag, mtWhole) BY <1>4
  <2> HIDE DEF o, c, n, s, q
  <2>. QED BY <1>1, <1>t, <2>1, MtGoingBlock
<1>6. /\ y \in MtFrags /\ y # MtNoFrag /\ y.cur = f.block /\ y.count = n
      /\ y.pieces = [k \in 1 .. f.block + 1 |-> MtPiece(o, k - 1)]
      /\ f.block + 1 < n => MtPartial(y, o, n, s)
  <2> DEFINE b == f.block
             p == Append(mtRxFrag.pieces, MtPiece(o, b))
             x == mtRxFrag
  <2>1. b \in Nat /\ b = x.cur + 1 BY <1>1, <1>2
  <2>2. y = [x EXCEPT !.cur = b, !.pieces = p] BY <1>5
  <2>3. /\ x.pieces = [k \in 1 .. x.cur + 1 |-> MtPiece(o, k - 1)]
        /\ x.count = n /\ x.total = s /\ x.len = MtFragSize /\ o \in MtThreads
    BY <1>4, <1>5 DEF MtPartial
  <2>4. /\ x.pieces \in Seq(MtPieces) /\ x.cur \in Nat /\ x.count \in Nat
        /\ x.total \in Nat /\ x.len \in Nat
    BY <1>t DEF MtFrags
  <2>x. x \in MtFrags BY <1>t
  <2> HIDE DEF b, f, o, n, s, y, x
  <2>5. p \in Seq(MtPieces) /\ p = [k \in 1 .. b + 1 |-> MtPiece(o, k - 1)]
    BY <2>1, <2>3, <2>4, MtNextPieces DEF x
  <2> HIDE DEF p
  <2>6. y = [pieces |-> p, cur |-> b, count |-> x.count, total |-> x.total, len |-> x.len]
    BY <2>2, <2>x DEF MtFrags
  <2>7. y \in MtFrags BY <2>1, <2>4, <2>5, <2>6 DEF MtFrags
  <2>8. y.pieces = p /\ y.cur = b /\ y.count = n /\ y.total = s /\ y.len = MtFragSize
    BY <2>3, <2>6
  <2>9. y # MtNoFrag
    <3>1. y.cur # 0 BY <2>1, <2>4, <2>8
    <3>. QED BY <3>1 DEF MtNoFrag
  <2>10. b + 1 < n => MtPartial(y, o, n, s) BY <2>5, <2>8 DEF MtPartial
  <2>. QED BY <2>5, <2>7, <2>8, <2>9, <2>10 DEF b
<1>7. IF f.block + 1 = y.count
      THEN /\ mtRxFrag' = MtNoFrag
           /\ mtUp' = mtUp \o <<FragAck(y), MtExtStatus(y.cur, "frag_complete")>>
           /\ mtWhole' = Append(mtWhole, y.pieces)
      ELSE mtRxFrag' = y /\ mtUp' = Append(mtUp, FragAck(y)) /\ mtWhole' = mtWhole
  BY <1>3 DEF TakeBlock
<1>8. c < n
  <2>1. MtCounted BY DEF MtInv
  <2>. QED BY <1>4, <2>1 DEF MtCounted
<1>b. f.block + 1 # n => f.block + 1 < n
  <2>1. f.block \in Nat /\ f.block <= c /\ c \in Nat /\ n \in Nat /\ c < n BY <1>1, <1>5, <1>8, <1>t
  <2> DEFINE b == f.block
  <2> HIDE DEF f, c, n, b
  <2>2. b \in Nat /\ b <= c /\ c \in Nat /\ n \in Nat /\ c < n BY <2>1 DEF b
  <2>3. b + 1 # n => b + 1 < n BY <2>2
  <2>. QED BY <2>3 DEF b
<1> HIDE DEF f, q, y, c, n, o, s
<1>9. CASE f.block + 1 # n
  <2> DEFINE a == MtAck(f.block, "success")
  <2>1. FragAck(y) = a BY <1>6, <1>9 DEF FragAck
  <2>2. a \in MtFrames /\ a.type = "ack" /\ a.block = f.block /\ a.status = "success"
    BY <1>1, MtAckIsFrame DEF MtStatuses
  <2> HIDE DEF a
  <2>3. mtRxFrag' = y /\ mtUp' = Append(mtUp, a) /\ mtWhole' = mtWhole BY <1>6, <1>7, <1>9, <2>1
  <2>4. MtPartial(y, o, n, s) BY <1>6, <1>9, <1>b
  <2>5. MtGoing(o, c, n, s, q, mtUp, mtAcks, y, mtWhole)
    <3>1. y.cur = mtDown[1].block BY <1>6, <1>f
    <3>. QED BY <1>1, <1>4, <1>t, <2>4, <3>1, MtGoingOn
  <2>6. MtSays(a.block, a.status, o, c, n, y, mtWhole) BY <1>9, <1>b, <2>2 DEF MtSays
  <2>7. MtBehind(a.block, c, q, y) BY <1>1, <1>5, <1>6, <2>2 DEF MtBehind
  <2>8. MtGoing(o, c, n, s, q, Append(mtUp, a), mtAcks, y, mtWhole)
    BY <1>1, <1>5, <1>t, <2>2, <2>5, <2>6, <2>7, MtAnswerGoing
  <2>9. MtPhase' BY <1>3, <1>4, <2>3, <2>8 DEF MtPhase, MtSending, o, c, n, s
  <2>10. mtUp' \in Seq(MtFrames) BY <1>t, <2>2, <2>3
  <2>11. MtUnmixed' BY <1>0, <2>3 DEF MtUnmixed, MtBlocks
  <2>12. \A t \in MtThreads : MtHas(mtWhole, t) => MtHas(mtWhole', t) BY <2>3
  <2>. QED BY <1>1, <1>3, <1>6, <1>t, <2>3, <2>9, <2>10, <2>11, <2>12, MtLineKeeps DEF MtFrags
<1>10. CASE f.block + 1 = n
  <2> DEFINE a == MtAck(f.block, "frag_complete")
             x == MtExtStatus(f.block, "frag_complete")
             p == y.pieces
  <2>1. FragAck(y) = a BY <1>6, <1>10 DEF FragAck
  <2>2. /\ a \in MtFrames /\ a.type = "ack" /\ a.block = f.block /\ a.status = "frag_complete"
        /\ x \in MtFrames /\ x.type = "ext"
    BY <1>1, MtAckIsFrame, MtExtIsFrame DEF MtStatuses
  <2>3. mtRxFrag' = MtNoFrag /\ mtUp' = mtUp \o <<a, x>> /\ mtWhole' = Append(mtWhole, p)
    BY <1>6, <1>7, <1>10, <2>1
  <2>4. p \in Seq(MtPieces) /\ p = [k \in 1 .. MtBlocks(s) |-> MtPiece(o, k - 1)]
    BY <1>4, <1>6, <1>10 DEF MtFrags
  <2>p. p[1].msg = o
    <3>1. 1 \in 1 .. MtBlocks(s) BY <1>1, <1>4, <1>10, <1>t
    <3>. QED BY <2>4, <3>1 DEF MtPiece
  <2> HIDE DEF a, x, p
  <2>5. /\ mtWhole' \in Seq(Seq(MtPieces)) /\ Len(mtWhole) \in Nat
        /\ DOMAIN mtWhole = 1 .. Len(mtWhole) /\ DOMAIN mtWhole' = 1 .. Len(mtWhole) + 1
        /\ \A k \in DOMAIN mtWhole : mtWhole'[k] = mtWhole[k]
        /\ mtWhole'[Len(mtWhole) + 1] = p
    BY <1>t, <2>3, <2>4, MtAppend
  <2>6. \A t : MtHas(mtWhole, t) => MtHas(mtWhole', t) BY <2>5 DEF MtHas
  <2>7. MtHas(mtWhole', o)
    <3>1. Len(mtWhole) + 1 \in DOMAIN mtWhole' BY <2>5
    <3>. QED BY <2>5, <2>p, <3>1 DEF MtHas
  <2>8. MtUnmixed'
    <3>1. ASSUME NEW i \in DOMAIN mtWhole'
          PROVE  \E t \in MtThreads :
                     mtWhole'[i] = [b \in 1 .. MtBlocks(mtSize[t]) |-> MtPiece(t, b - 1)]
      <4>1. CASE i \in DOMAIN mtWhole BY <1>0, <2>5, <4>1 DEF MtUnmixed
      <4>2. CASE i \notin DOMAIN mtWhole
        <5>1. mtWhole'[i] = p BY <2>5, <4>2
        <5>. QED BY <1>4, <2>4, <5>1 DEF o, s
      <4>. QED BY <4>1, <4>2
    <3>. QED BY <3>1 DEF MtUnmixed, MtBlocks
  <2>9. MtGoing(o, c, n, s, q, mtUp, mtAcks, MtNoFrag, mtWhole')
    BY <1>1, <1>4, <1>t, <2>6, MtGoingOn
  <2>10. MtSays(a.block, a.status, o, c, n, MtNoFrag, mtWhole') BY <2>2, <2>7 DEF MtSays
  <2>11. MtBehind(a.block, c, q, MtNoFrag) BY <1>5, <2>2 DEF MtBehind
  <2>12. MtGoing(o, c, n, s, q, Append(mtUp, a), mtAcks, MtNoFrag, mtWhole')
    BY <1>1, <1>5, <1>t, <2>2, <2>9, <2>10, <2>11, MtAnswerGoing
  <2>13. mtUp' \in Seq(MtFrames) /\ Append(mtUp, a) \in Seq(MtFrames) /\ MtFewerAcks(Append(mtUp, a), mtUp')
    <3> DEFINE u == Append(mtUp, a)
               v == mtUp \o <<a, x>>
               m == Len(mtUp)
    <3>1. /\ u \in Seq(MtFrames) /\ m \in Nat
          /\ DOMAIN mtUp = 1 .. m /\ DOMAIN u = 1 .. m + 1
          /\ \A k \in 1 .. m : u[k] = mtUp[k]
          /\ u[m + 1] = a
      BY <1>t, <2>2, MtAppend
    <3>2. /\ v \in Seq(MtFrames) /\ DOMAIN v = 1 .. m + 2
          /\ \A k \in 1 .. m : v[k] = mtUp[k]
          /\ v[m + 1] = a /\ v[m + 2] = x
      BY <1>t, <2>2, <3>1, MtAppendTwo
    <3> HIDE DEF u, v, m
    <3>3. \A k \in MtAcksIn(v) : k + 0 \in MtAcksIn(u) /\ v[k] = u[k + 0]
      <4>1. ASSUME NEW k \in MtAcksIn(v) PROVE k \in 1 .. m + 1
        <5>1. k \in 1 .. m + 2 /\ k # m + 2 BY <2>2, <3>2 DEF MtAcksIn
        <5>. QED BY <3>1, <5>1
      <4>2. \A k \in 1 .. m + 1 : k + 0 = k /\ v[k] = u[k] BY <3>1, <3>2
      <4>. QED BY <3>1, <4>1, <4>2 DEF MtAcksIn
    <3>4. MtFewerAcks(u, v) BY <3>3 DEF MtFewerAcks
    <3>. QED BY <2>3, <3>1, <3>2, <3>4 DEF u, v
  <2>14. MtGoing(o, c, n, s, q, mtUp', mtAcks, MtNoFrag, mtWhole')
    BY <2>12, <2>13, MtFewerUp
  <2>15. MtPhase' BY <1>3, <1>4, <2>3, <2>14 DEF MtPhase, MtSending, o, c, n, s
  <2>16. MtNoFrag \in MtFrags BY DEF MtNoFrag, MtFrags
  <2>. QED BY <1>1, <1>3, <1>t, <2>3, <2>5, <2>6, <2>8, <2>13, <2>15, <2>16, MtLineKeeps DEF MtFrags
<1>. QED BY <1>9, <1>10

\* The receive thread of the other end.
LEMMA MtRxKeeps ==
    ASSUME MtInv, mt_msg_rx_thread
    PROVE  MtInv'
<1>1. /\ mtDown # <<>> /\ mtDown' = Tail(mtDown)
      /\ UNCHANGED <<mtSize, mtApp, mtTxLock, mtTxFrag, mtAcks>>
  BY DEF mt_msg_rx_thread
<1>2. CASE Head(mtDown).type = "data" /\ handle_data_fragment(Head(mtDown))
  <2>1. CASE mtRxFrag = MtNoFrag
    <3>1. rx_first_frag_block(Head(mtDown)) BY <1>2, <2>1 DEF handle_data_fragment
    <3>2. CASE Head(mtDown).block = 0 BY <1>1, <1>2, <2>1, <3>1, <3>2, MtFirstKeeps
    <3>3. CASE Head(mtDown).block # 0
      <4>1. /\ mtUp' = Append(mtUp, MtAck(Head(mtDown).block, "block_out_of_order"))
            /\ UNCHANGED <<mtRxFrag, mtWhole>>
        BY <3>1, <3>3 DEF rx_first_frag_block
      <4>. QED BY <1>1, <1>2, <2>1, <3>3, <4>1, MtLateKeeps
    <3>. QED BY <3>2, <3>3
  <2>2. CASE mtRxFrag # MtNoFrag /\ BlockError(Head(mtDown)) # "none"
    <3>1. AbortCleanUp(Head(mtDown)) BY <1>2, <2>2 DEF handle_data_fragment
    <3>. QED BY <1>1, <1>2, <2>2, <3>1, MtAbortKeeps
  <2>3. CASE mtRxFrag # MtNoFrag /\ BlockError(Head(mtDown)) = "none"
    <3>1. TakeBlock(Head(mtDown)) BY <1>2, <2>3 DEF handle_data_fragment
    <3>. QED BY <1>1, <1>2, <2>3, <3>1, MtTakeKeeps
  <2>. QED BY <2>1, <2>2, <2>3
<1>3. CASE UNCHANGED <<mtRxFrag, mtUp, mtWhole>> BY <1>1, <1>3, MtDownKeeps
<1>. QED BY <1>2, <1>3 DEF mt_msg_rx_thread

\* A step that changes none of what the invariant is about.
LEMMA MtIdleKeeps ==
    ASSUME MtInv, UNCHANGED <<mtSize, mtApp, mtTxLock, mtTxFrag, mtAcks, mtDown, mtUp, mtRxFrag, mtWhole>>
    PROVE  MtInv'
<1>0. MtTypes /\ MtPhase BY DEF MtInv
<1>1. mtDown \in Seq(MtFrames) /\ mtUp \in Seq(MtFrames) /\ mtAcks \in Seq(MtListed) BY <1>0 DEF MtTypes
<1>2. MtPhase' BY <1>0 DEF MtPhase, MtSending
<1>3. MtFewerData(mtDown, mtDown') BY <1>1, MtSameLine
<1>. QED BY <1>1, <1>2, <1>3, MtSameWhole, MtLineKeeps

\* Every step of a thread of the application.
LEMMA MtSenderKeeps ==
    ASSUME MtInv, NoSingleBlocks, NEW t \in MtThreads, MtSenderNext(t)
    PROVE  MtInv'
BY MtTxrxKeeps, MtLockTimeoutKeeps, MtRawKeeps, MtFragmentKeeps, MtBlockKeeps, MtWaitKeeps,
   MtPopKeeps DEF MtSenderNext

\* The lengths of the messages stay.
LEMMA MtSizesStay ==
    ASSUME [MtNext]_mtvars
    PROVE  mtSize' = mtSize
<1>1. ASSUME NEW t \in MtThreads, MtSenderNext(t) PROVE mtSize' = mtSize
  BY <1>1 DEF MtSenderNext, MT_MSG_txrx, TxLockTimeout, MT_MSG_tx_raw, MT_MSG_tx_fragment,
     frag_tx_one_block, AckWait, AckTimeout, wait_for_frag_ack
<1>2. CASE handle_extend_packet \/ mt_msg_rx_thread \/ MT_MSG_LIST_remove \/ MtLose
  BY <1>2 DEF handle_extend_packet, mt_msg_rx_thread, MT_MSG_LIST_remove, MtLose
<1>. QED BY <1>1, <1>2 DEF MtNext, mtvars

\* Every step keeps the invariant.
LEMMA MtStepKeeps ==
    ASSUME MtInvIfLong, [MtNext]_mtvars
    PROVE  MtInvIfLong'
<1>1. mtSize' = mtSize BY MtSizesStay
<1>2. NoSingleBlocks' <=> NoSingleBlocks BY <1>1 DEF NoSingleBlocks, MtFragments, MtBlocks
<1>3. SUFFICES ASSUME NoSingleBlocks, MtInv PROVE MtInv'
  BY <1>1, <1>2 DEF MtInvIfLong
<1>4. ASSUME NEW t \in MtThreads, MtSenderNext(t) PROVE MtInv' BY <1>3, <1>4, MtSenderKeeps
<1>5. CASE handle_extend_packet BY <1>3, <1>5, MtExtendKeeps
<1>6. CASE mt_msg_rx_thread BY <1>3, <1>6, MtRxKeeps
<1>7. CASE MT_MSG_LIST_remove
  <2>1. UNCHANGED <<mtSize, mtApp, mtTxLock, mtTxFrag, mtAcks, mtDown, mtUp, mtRxFrag, mtWhole>>
    BY <1>7 DEF MT_MSG_LIST_remove
  <2>. QED BY <1>3, <2>1, MtIdleKeeps
<1>8. CASE MtLose
  <2>1. \/ /\ mtDown # <<>> /\ mtDown' = Tail(mtDown)
           /\ UNCHANGED <<mtSize, mtApp, mtTxLock, mtTxFrag, mtAcks, mtUp, mtRxFrag, mtWhole>>
        \/ /\ mtUp # <<>> /\ mtUp' = Tail(mtUp)
           /\ UNCHANGED <<mtSize, mtApp, mtTxLock, mtTxFrag, mtAcks, mtDown, mtRxFrag, mtWhole>>
    BY <1>8 DEF MtLose
  <2>. QED BY <1>3, <2>1, MtDownKeeps, MtUpKeeps
<1>9. CASE UNCHANGED mtvars
  <2>1. UNCHANGED <<mtSize, mtApp, mtTxLock, mtTxFrag, mtAcks, mtDown, mtUp, mtRxFrag, mtWhole>>
    BY <1>9 DEF mtvars
  <2>. QED BY <1>3, <2>1, MtIdleKeeps
<1>. QED BY <1>4, <1>5, <1>6, <1>7, <1>8, <1>9 DEF MtNext

\* The invariant of the transfer.
LEMMA MtAlways == MtSpec => []MtInvIfLong
<1>1. MtInvIfLong /\ [MtNext]_mtvars => MtInvIfLong' BY MtStepKeeps
<1>. QED BY <1>1, MtStarts, PTL DEF MtSpec

\* What the other end puts together out of the blocks it is sent
\* (handle_data_fragment) is one message, whole and in order, for any number
\* of threads, lengths of messages, losses and timeouts that come too early.
THEOREM MessagesAreNotMixed == MtSpec => []FragmentsNotMixed
<1>1. MtInvIfLong => FragmentsNotMixed BY DEF MtInvIfLong, MtInv, MtUnmixed, FragmentsNotMixed
<1>. QED BY <1>1, MtAlways, PTL

\* MT_MSG_txrx() returns 1 for a message of several blocks only when the
\* other end has put it together (wait_for_frag_ack, frag_txrx_one_block).
THEOREM SentIsReceived == MtSpec => []SentMeansWhole
<1>1. MtInvIfLong => SentMeansWhole BY DEF MtInvIfLong, MtInv, MtResults, MtHas, SentMeansWhole
<1>. QED BY <1>1, MtAlways, PTL

===============================================================================
