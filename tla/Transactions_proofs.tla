------------------------ MODULE Transactions_proofs ------------------------
(***************************************************************************)
(* Proofs about Transactions, for every value of the constants, however    *)
(* late the NCP answers and however often the counter wraps: no call loses *)
(* its entry, none leaves one behind, and a call receives another frame's  *)
(* answer only when that frame's TID came round again.                     *)
(***************************************************************************)
EXTENDS Transactions, TLAPS

-----------------------------------------------------------------------------
(* TIDs drawn close together are different.                                *)

\* A multiple of t is not strictly between 0 and t.
LEMMA NoMultipleBetween ==
    ASSUME NEW t \in Nat \ {0}, NEW q \in Int, NEW d \in Int,
           t * q = d, 0 < d, d < t
    PROVE  FALSE
BY SMT

\* Division with remainder.
LEMMA DivMod ==
    ASSUME NEW a \in Nat, NEW t \in Nat \ {0}
    PROVE  /\ a = t * (a \div t) + (a % t)
           /\ a % t \in 0 .. t - 1
           /\ a \div t \in Int
BY SMT

\* A remainder does not come back before t further values.
LEMMA RemaindersDiffer ==
    ASSUME NEW a \in Nat, NEW b \in Nat, NEW t \in Nat \ {0},
           a < b, b - a < t
    PROVE  a % t # b % t
<1> SUFFICES ASSUME a % t = b % t PROVE FALSE
  OBVIOUS
<1> DEFINE qa == a \div t
           qb == b \div t
           r == a % t
<1>1. a = t * qa + r /\ b = t * qb + r
  BY DivMod
<1>2. qa \in Int /\ qb \in Int /\ r \in Int
  BY DivMod
<1> HIDE DEF qa, qb, r
<1>3. t * (qb - qa) = b - a
  BY <1>1, <1>2, SMT
<1>4. qb - qa \in Int /\ b - a \in Int /\ 0 < b - a
  BY <1>2
<1> QED
  BY <1>3, <1>4, NoMultipleBetween

\* A TID is in 1 .. TidCount.
LEMMA TidType == ASSUME NEW a \in Nat PROVE Tid(a) \in 1 .. TidCount
<1>1. a % TidCount \in 0 .. TidCount - 1
  BY CountsAssumption, DivMod
<1> QED
  BY <1>1, CountsAssumption DEF Tid

\* Two draws less than TidCount apart with the same TID are the same draw.
LEMMA TidInjective ==
    ASSUME NEW a \in Nat, NEW b \in Nat, a - b < TidCount, b - a < TidCount,
           Tid(a) = Tid(b)
    PROVE  a = b
<1>1. a % TidCount \in Int /\ b % TidCount \in Int
  BY CountsAssumption, DivMod
<1>2. a % TidCount = b % TidCount
  BY <1>1 DEF Tid
<1>3. CASE a < b
  BY <1>2, <1>3, RemaindersDiffer, CountsAssumption
<1>4. CASE b < a
  BY <1>2, <1>4, RemaindersDiffer, CountsAssumption
<1> QED
  BY <1>3, <1>4

\* The remainder of a number in the block of m that begins at m * q.
LEMMA BlockRemainder ==
    ASSUME NEW a \in Nat, NEW m \in Nat \ {0}, NEW q \in Int,
           m * q <= a, a < m * q + m
    PROVE  a % m = a - m * q
<1> DEFINE qa == a \div m
           ra == a % m
           p == m * q
           pa == m * qa
<1>1. a = pa + ra /\ ra \in 0 .. m - 1 /\ qa \in Int
  BY DivMod
<1>2. p \in Int /\ pa \in Int
  BY <1>1, SMT
<1>3. m * (q - qa) = p - pa /\ m * (qa - q) = pa - p
  BY <1>1, SMT
<1>4. q - qa \in Int /\ qa - q \in Int
  BY <1>1
<1>5. p <= a /\ a < p + m
  OBVIOUS
<1> HIDE DEF qa, ra, p, pa
<1>6. p - pa < m /\ pa - p < m
  BY <1>1, <1>2, <1>5
<1>7. ~(0 < p - pa) /\ ~(0 < pa - p)
  BY <1>2, <1>3, <1>4, <1>6, NoMultipleBetween
<1>8. ra = a - p
  BY <1>1, <1>2, <1>7
<1> QED
  BY <1>8 DEF ra, p

-----------------------------------------------------------------------------
(* The TID of a draw.                                                      *)

\* The TID of the n-th draw.
TidOf(n) == Tid(n % CounterMod)

\* Draws have TIDs in 1 .. TidCount.
LEMMA TidOfType == ASSUME NEW n \in Nat PROVE TidOf(n) \in 1 .. TidCount
<1>1. n % CounterMod \in Nat
  BY CountsAssumption, DivMod
<1> QED
  BY <1>1, TidType DEF TidOf

\* Two draws with the same TID are a cycle apart, or the counter wrapped
\* between them.
LEMMA SameTidReused ==
    ASSUME NEW a \in Nat, NEW b \in Nat, a < b, TidOf(a) = TidOf(b)
    PROVE  Reused(a, b)
<1> SUFFICES ASSUME ~Reused(a, b) PROVE FALSE
  OBVIOUS
<1> DEFINE q == b \div CounterMod
           p == CounterMod * q
<1>1. CounterMod \in Nat \ {0} /\ TidCount \in Nat
  BY CountsAssumption
<1>2. b = p + (b % CounterMod) /\ b % CounterMod \in 0 .. CounterMod - 1 /\ q \in Int
  BY <1>1, DivMod
<1>3. p \in Int
  BY <1>1, <1>2, SMT
<1>4. ~(b - a >= TidCount) /\ ~(a < p)
  BY DEF Reused
<1> HIDE DEF p
<1>5. p <= a /\ a < p + CounterMod /\ p <= b /\ b < p + CounterMod
  BY <1>1, <1>2, <1>3, <1>4
<1>6. a % CounterMod = a - p /\ b % CounterMod = b - p
  <2>1. CounterMod * q <= a /\ a < CounterMod * q + CounterMod
    BY <1>5 DEF p
  <2>2. CounterMod * q <= b /\ b < CounterMod * q + CounterMod
    BY <1>5 DEF p
  <2> HIDE DEF q
  <2>3. a % CounterMod = a - CounterMod * q
    BY <1>1, <1>2, <2>1, BlockRemainder
  <2>4. b % CounterMod = b - CounterMod * q
    BY <1>1, <1>2, <2>2, BlockRemainder
  <2> QED
    BY <2>3, <2>4 DEF p
<1>7. a - p \in Nat /\ b - p \in Nat
  BY <1>3, <1>5
<1>8. Tid(a - p) = Tid(b - p)
  BY <1>6 DEF TidOf
<1>9. (a - p) - (b - p) < TidCount /\ (b - p) - (a - p) < TidCount
  BY <1>1, <1>3, <1>4
<1>10. a - p = b - p
  <2> DEFINE x == a - p
             y == b - p
  <2>1. x \in Nat /\ y \in Nat /\ x - y < TidCount /\ y - x < TidCount
    BY <1>7, <1>9
  <2>2. Tid(x) = Tid(y)
    BY <1>8
  <2> HIDE DEF x, y
  <2>3. x = y
    BY <2>1, <2>2, TidInjective
  <2> QED
    BY <2>3 DEF x, y
<1> QED
  BY <1>3, <1>10

\* Before the counter has wrapped, two draws less than TidCount apart with
\* the same TID are the same draw.
LEMMA CloseDraws ==
    ASSUME NEW a \in Nat, NEW b \in Nat, a - b < TidCount, b - a < TidCount,
           a < CounterMod, b < CounterMod, TidOf(a) = TidOf(b)
    PROVE  a = b
<1>1. CounterMod \in Nat \ {0}
  BY CountsAssumption
<1>2. a % CounterMod = a /\ b % CounterMod = b
  BY <1>1, SMT
<1> QED
  BY <1>2, TidInjective DEF TidOf

-----------------------------------------------------------------------------
(* The inductive invariant.                                                *)

\* How many of the latest draws may belong to calls that have not returned.
Span == IF phase = "batch" THEN BatchSize - left ELSE 1

\* The counter is the number of draws modulo its width, and each phase up to
\* the batch has drawn so few TIDs that the batch is issued before the wrap.
CounterOK ==
    /\ next_tid = issued % CounterMod
    /\ phase = "reset" => issued + left <= MaxResets
    /\ phase = "init" => issued + left <= MaxResets + InitCalls
    /\ phase = "batch" => /\ left \in 0 .. BatchSize
                          /\ issued + left <= MaxResets + InitCalls + BatchSize
    /\ phase \in {"reset", "stopped"} => Live = {}

\* A call waits or has expired, never both.
OneState == waiting \cap expired = {}

\* A call that has not returned is one of the latest draws.
LiveRecent ==
    \A c \in Live : /\ c.req < issued
                    /\ c.req >= issued - Span
                    /\ c.tid = TidOf(c.req)

\* A frame in flight has the TID of its draw.
FramesDrawn ==
    /\ \A f \in outbound : f.req < issued /\ f.tid = TidOf(f.req)
    /\ \A f \in inbound : /\ f.req < issued
                          /\ f.tid # 0 => f.tid = TidOf(f.req)

\* A delivered frame has taken the entry of its call out of the table.
SlotsConsumed ==
    \A s \in slots : /\ s.to < issued
                     /\ s.from < issued
                     /\ \A p \in pending : p.req # s.to

IInv ==
    /\ TypeOK
    /\ CounterOK
    /\ OneState
    /\ LiveRecent
    /\ FramesDrawn
    /\ SlotsConsumed
    /\ OwnReply
    /\ NoLostWaiter
    /\ NoTableLeak

-----------------------------------------------------------------------------
(* What the invariant says about two calls.                                *)

\* No more numbers are out than there are TIDs.
LEMMA SpanBound == ASSUME IInv PROVE Span \in 0 .. TidCount
BY CountsAssumption DEF IInv, TypeOK, CounterOK, Span

\* In the batch the counter has not wrapped.
LEMMA BatchUnwrapped ==
    ASSUME IInv, phase = "batch" PROVE issued <= CounterMod
<1>1. /\ issued \in Nat /\ left \in Nat /\ MaxResets \in Nat /\ InitCalls \in Nat
      /\ BatchSize \in Nat /\ CounterMod \in Nat
  BY CountsAssumption DEF IInv, TypeOK
<1> QED
  BY <1>1, BatchBeforeWrap DEF IInv, CounterOK

\* A draw not older than a call that has not returned, with its TID, is that
\* call's own.
LEMMA YoungDrawIsOwn ==
    ASSUME IInv, NEW c \in Live, NEW n \in Nat, c.req <= n, n < issued,
           TidOf(n) = c.tid
    PROVE  n = c.req
<1>1. c \in Calls
  BY DEF IInv, TypeOK, Live
<1>2. /\ c.req \in Nat /\ c.req < issued /\ c.req >= issued - Span
      /\ TidOf(c.req) = c.tid
  BY <1>1 DEF IInv, LiveRecent, Calls
<1>3. issued \in Nat /\ TidCount \in Nat /\ CounterMod \in Nat
  BY CountsAssumption DEF IInv, TypeOK
<1>4. CASE phase = "batch"
  <2>1. issued <= CounterMod
    BY <1>4, BatchUnwrapped
  <2>2. Span \in 0 .. TidCount
    BY SpanBound
  <2>3. n < CounterMod /\ c.req < CounterMod
    BY <1>2, <1>3, <2>1
  <2>4. n - c.req < TidCount /\ c.req - n < TidCount
    BY <1>2, <1>3, <2>2
  <2> QED
    BY <1>2, <2>3, <2>4, CloseDraws
<1>5. CASE phase # "batch"
  <2>1. Span = 1
    BY <1>5 DEF Span
  <2> QED
    BY <1>2, <1>3, <2>1
<1> QED
  BY <1>4, <1>5

\* Calls that have not returned are told apart by their TIDs.
LEMMA SameTidSameCall ==
    ASSUME IInv, NEW c \in Live, NEW d \in Live, c.tid = d.tid
    PROVE  c = d
<1>1. c \in Calls /\ d \in Calls
  BY DEF IInv, TypeOK, Live
<1>2. /\ c.req \in Nat /\ c.req < issued /\ TidOf(c.req) = c.tid
      /\ d.req \in Nat /\ d.req < issued /\ TidOf(d.req) = d.tid
  BY <1>1 DEF IInv, LiveRecent, Calls
<1>3. c.req <= d.req => d.req = c.req
  BY <1>2, YoungDrawIsOwn
<1>4. d.req <= c.req => c.req = d.req
  BY <1>2, YoungDrawIsOwn
<1>5. c.req = d.req
  BY <1>2, <1>3, <1>4
<1> QED
  BY <1>1, <1>5 DEF Calls

\* A call that has not returned is determined by its request.
LEMMA SameReqSameCall ==
    ASSUME IInv, NEW c \in Live, NEW d \in Live, c.req = d.req
    PROVE  c = d
<1>1. c.tid = d.tid
  BY DEF IInv, LiveRecent
<1> QED
  BY <1>1, SameTidSameCall

\* A frame in flight with the TID of a call that has not returned is that
\* call's answer, or one whose TID came round again after its call returned.
LEMMA AnswerIsOwnOrLate ==
    ASSUME IInv, NEW c \in Live, NEW f \in inbound, f.tid # 0, f.tid = c.tid,
           f.req # c.req
    PROVE  /\ Reused(f.req, c.req)
           /\ \A d \in Live : d.req # f.req
<1>1. c \in Calls /\ f \in Answers
  BY DEF IInv, TypeOK, Live
<1>2. /\ c.req \in Nat /\ c.tid = TidOf(c.req)
      /\ f.req \in Nat /\ f.req < issued /\ f.tid = TidOf(f.req)
  BY <1>1 DEF IInv, LiveRecent, FramesDrawn, Calls, Answers
<1>3. f.req < c.req
  <2> SUFFICES ASSUME c.req <= f.req PROVE FALSE
    BY <1>2
  <2> QED
    BY <1>2, YoungDrawIsOwn
<1>4. Reused(f.req, c.req)
  BY <1>2, <1>3, SameTidReused
<1>5. ASSUME NEW d \in Live, d.req = f.req PROVE FALSE
  <2>1. d.tid = c.tid
    BY <1>2, <1>5 DEF IInv, LiveRecent
  <2> QED
    BY <1>5, <2>1, SameTidSameCall
<1> QED
  BY <1>4, <1>5

-----------------------------------------------------------------------------
(* Drawing a TID.                                                          *)

\* The call that is drawn next.
LEMMA NextCallOK ==
    ASSUME IInv
    PROVE  /\ NextCall \in Calls
           /\ NextCall.req = issued
           /\ NextCall.tid = TidOf(issued)
<1>1. issued \in Nat /\ Tid(next_tid) = TidOf(issued)
  BY CountsAssumption DEF IInv, TypeOK, CounterOK, TidOf
<1> QED
  BY <1>1, TidOfType DEF NextCall, Calls

\* Adding one before or after taking the remainder is the same.
LEMMA SuccMod ==
    ASSUME NEW a \in Nat, NEW m \in Nat \ {0}
    PROVE  ((a % m) + 1) % m = (a + 1) % m
<1> DEFINE q == a \div m
           t == a % m
           p == m * q
<1>1. a = p + t /\ t \in 0 .. m - 1 /\ q \in Int
  BY DivMod
<1>2. p \in Int /\ m * (q + 1) = p + m /\ m * 0 = 0 /\ m * 1 = m
  BY <1>1, SMT
<1> HIDE DEF t
<1>3. CASE t + 1 < m
  <2>1. m * q <= a + 1 /\ a + 1 < m * q + m /\ a + 1 \in Nat
    BY <1>1, <1>2, <1>3
  <2>2. (a + 1) % m = (a + 1) - m * q
    <3> DEFINE b == a + 1
    <3>1. b \in Nat /\ m * q <= b /\ b < m * q + m
      BY <2>1
    <3> HIDE DEF b, q
    <3>2. b % m = b - m * q
      BY <1>1, <3>1, BlockRemainder
    <3> QED
      BY <3>2 DEF b
  <2>3. (t + 1) % m = t + 1
    BY <1>1, <1>3, SMT
  <2> QED
    BY <1>1, <1>2, <2>2, <2>3 DEF t
<1>4. CASE t + 1 = m
  <2>1. a + 1 = p + m
    BY <1>1, <1>2, <1>4
  <2>2. (a + 1) % m = 0
    <3> DEFINE b == a + 1
               k == q + 1
    <3>1. b \in Nat /\ k \in Int /\ m * k <= b /\ b < m * k + m /\ b - m * k = 0
      BY <1>1, <1>2, <2>1
    <3> HIDE DEF b, k
    <3>2. b % m = b - m * k
      BY <3>1, BlockRemainder
    <3>3. b % m = 0
      BY <3>1, <3>2
    <3> QED
      BY <3>3 DEF b
  <2>3. m % m = 0
    BY SMT
  <2> QED
    BY <1>4, <2>2, <2>3 DEF t
<1> QED
  BY <1>1, <1>3, <1>4

\* A draw moves the counter on by one.
LEMMA DrawKeepsCounter ==
    ASSUME IInv, alloc_tid
    PROVE  /\ issued' = issued + 1
           /\ issued' \in 0 .. MaxRequests
           /\ next_tid' \in 0 .. CounterMod - 1
           /\ next_tid' = issued' % CounterMod
<1>1. /\ issued \in Nat /\ issued < MaxRequests /\ MaxRequests \in Nat
      /\ next_tid = issued % CounterMod /\ CounterMod \in Nat \ {0}
  BY CountsAssumption DEF IInv, TypeOK, CounterOK, alloc_tid
<1>2. next_tid' = ((issued % CounterMod) + 1) % CounterMod /\ issued' = issued + 1
  BY <1>1 DEF alloc_tid
<1>3. next_tid' = (issued + 1) % CounterMod
  BY <1>1, <1>2, SuccMod
<1>4. issued + 1 \in Nat
  BY <1>1
<1>5. next_tid' \in 0 .. CounterMod - 1
  BY <1>1, <1>3, <1>4, DivMod
<1> QED
  BY <1>1, <1>2, <1>3, <1>5

\* The frames in flight once one more TID is drawn.
LEMMA FramesAfterDraw ==
    ASSUME IInv, issued' = issued + 1,
           inbound' = inbound,
           \A f \in outbound' : f \in outbound \/ f = NextCall
    PROVE  /\ outbound' \subseteq Calls
           /\ inbound' \subseteq Answers
           /\ FramesDrawn'
<1>1. issued \in Nat
  BY CountsAssumption DEF IInv, TypeOK
<1>2. \A f \in outbound : f \in Calls /\ f.req < issued + 1 /\ f.tid = TidOf(f.req)
  BY <1>1 DEF IInv, TypeOK, FramesDrawn, Calls
<1>3. \A f \in inbound : /\ f \in Answers
                         /\ f.req < issued + 1
                         /\ f.tid # 0 => f.tid = TidOf(f.req)
  BY <1>1 DEF IInv, TypeOK, FramesDrawn, Answers
<1>4. NextCall \in Calls /\ NextCall.req < issued + 1 /\ NextCall.tid = TidOf(NextCall.req)
  BY <1>1, NextCallOK
<1>5. \A f \in outbound' : f \in Calls /\ f.req < issued' /\ f.tid = TidOf(f.req)
  BY <1>2, <1>4
<1>6. \A f \in inbound' : /\ f \in Answers
                          /\ f.req < issued'
                          /\ f.tid # 0 => f.tid = TidOf(f.req)
  BY <1>3
<1> QED
  BY <1>5, <1>6 DEF FramesDrawn, TidOf, Tid

-----------------------------------------------------------------------------
(* Every step preserves the invariant: one lemma per kind of step.         *)

\* A step of Issue, whichever phase it is in, as long as the new call's TID
\* is not that of a call that has not returned.
LEMMA IssueStep ==
    ASSUME IInv, Issue,
           phase' = phase, phase \notin {"reset", "stopped"}, left' \in Nat,
           phase = "init" => issued + 1 + left' <= MaxResets + InitCalls,
           phase = "batch" =>
              /\ left' \in 0 .. BatchSize
              /\ issued + 1 + left' <= MaxResets + InitCalls + BatchSize,
           \A c \in Live : c.req >= issued + 1 - Span' /\ c.tid # TidOf(issued),
           Span' \in 1 .. TidCount
    PROVE  IInv'
<1>0. issued \in Nat /\ issued < MaxRequests /\ TidCount \in Nat
  BY CountsAssumption DEF IInv, TypeOK, Issue, alloc_tid
<1>1. /\ NextCall \in Calls
      /\ NextCall.req = issued
      /\ NextCall.tid = TidOf(issued)
  BY NextCallOK
<1>2. /\ issued' = issued + 1
      /\ issued' \in 0 .. MaxRequests
      /\ next_tid' \in 0 .. CounterMod - 1
      /\ next_tid' = issued' % CounterMod
  BY DrawKeepsCounter DEF Issue
<1>3. \A f \in outbound' : f \in outbound \/ f = NextCall
  BY DEF Issue
<1>4. inbound' = inbound
  BY DEF Issue
<1>5. /\ outbound' \subseteq Calls
      /\ inbound' \subseteq Answers
      /\ FramesDrawn'
  BY <1>2, <1>3, <1>4, FramesAfterDraw
<1>6. \A c \in Live : c.tid # NextCall.tid /\ c.req < issued
  BY <1>1 DEF IInv, LiveRecent
<1>7. pending' = IF io_up THEN pending \cup {NextCall} ELSE pending
  BY <1>6 DEF Issue, unregister, IInv, NoTableLeak
<1>8. /\ waiting' = IF io_up THEN waiting \cup {NextCall} ELSE waiting
      /\ expired' = expired /\ slots' = slots
      /\ io_up' = io_up /\ frame_up' = frame_up
  BY DEF Issue, tasks
<1>9. TypeOK'
  BY <1>1, <1>2, <1>5, <1>7, <1>8 DEF IInv, TypeOK
<1>10. CounterOK'
  <2>1. phase' # "reset" /\ phase' # "stopped"
    OBVIOUS
  <2>2. issued' + left' = issued + 1 + left'
    BY <1>0, <1>2
  <2> QED
    BY <1>2, <2>1, <2>2 DEF CounterOK
<1>11. LiveRecent'
  <2>1. \A c \in Live' : c \in Live \/ c = NextCall
    BY <1>8 DEF Live
  <2>2. \A c \in Live : c.req < issued' /\ c.req >= issued' - Span'
                        /\ c.tid = TidOf(c.req)
    <3> TAKE c \in Live
    <3>1. c \in Calls /\ c.req < issued /\ c.tid = TidOf(c.req)
      BY DEF IInv, TypeOK, LiveRecent, Live
    <3>2. c.req \in Nat /\ c.req >= issued + 1 - Span'
      BY <3>1 DEF Calls
    <3> QED
      BY <1>0, <1>2, <3>1, <3>2
  <2>3. NextCall.req < issued' /\ NextCall.req >= issued' - Span'
    <3>1. issued < issued' /\ issued >= issued' - Span'
      <4>1. PICK k \in 1 .. TidCount : Span' = k
        OBVIOUS
      <4>2. issued >= issued + 1 - k
        BY <1>0
      <4> QED
        BY <1>0, <1>2, <4>1, <4>2
    <3> QED
      BY <1>1, <3>1
  <2> QED
    BY <1>1, <2>1, <2>2, <2>3 DEF LiveRecent, TidOf, Tid
<1>12. SlotsConsumed'
  <2>1. \A s \in slots : s.to < issued' /\ s.from < issued' /\ NextCall.req # s.to
    BY <1>0, <1>1, <1>2 DEF IInv, TypeOK, SlotsConsumed, Slots
  <2> QED
    BY <1>7, <1>8, <2>1 DEF IInv, SlotsConsumed
<1>13. OwnReply'
  <2>1. \A c \in Live' : c \in Live \/ c = NextCall
    BY <1>8 DEF Live
  <2>2. \A s \in slots : NextCall.req # s.from
    BY <1>0, <1>1 DEF IInv, TypeOK, SlotsConsumed, Slots
  <2> QED
    BY <1>8, <2>1, <2>2 DEF IInv, OwnReply, Reused
<1>15. NoLostWaiter' /\ NoTableLeak'
  BY <1>7, <1>8 DEF IInv, NoLostWaiter, NoTableLeak, Live
<1>14. OneState'
  BY <1>6, <1>8 DEF IInv, OneState, Live
<1> QED
  BY <1>5, <1>9, <1>10, <1>11, <1>12, <1>13, <1>14, <1>15 DEF IInv

\* Steps of run() that draw or wait for nothing else.
LEMMA MainSteps ==
    ASSUME IInv,
           send_reset \/ reset_acknowledged \/ send_command \/ start_batch
             \/ run_returns \/ issue_query \/ end_batch
    PROVE  IInv'
<1>0. /\ issued \in Nat /\ left \in Nat /\ BatchSize \in 1 .. TidCount
      /\ TidCount \in Nat /\ MaxResets \in Nat /\ InitCalls \in Nat
  BY CountsAssumption DEF IInv, TypeOK
<1>1. CASE send_reset
  <2>1. /\ pending' = pending /\ waiting' = waiting /\ expired' = expired
        /\ slots' = slots /\ io_up' = io_up /\ frame_up' = frame_up
        /\ left' \in Nat /\ phase' \in {"reset", "stopped"}
        /\ Live = {}
    BY <1>0, <1>1 DEF send_reset, tasks, IInv, CounterOK
  <2>2. /\ issued' = issued + 1
        /\ issued' \in 0 .. MaxRequests
        /\ next_tid' \in 0 .. CounterMod - 1
        /\ next_tid' = issued' % CounterMod
    BY <1>1, DrawKeepsCounter DEF send_reset
  <2>3. left > 0 /\ left' = left - 1 /\ phase = "reset"
    BY <1>1 DEF send_reset
  <2>5. inbound' = inbound
    BY <1>1 DEF send_reset
  <2>6. \A f \in outbound' : f \in outbound \/ f = NextCall
    BY <1>1 DEF send_reset
  <2>7. /\ outbound' \subseteq Calls
        /\ inbound' \subseteq Answers
        /\ FramesDrawn'
    BY <2>2, <2>5, <2>6, FramesAfterDraw
  <2>8. TypeOK'
    BY <2>1, <2>2, <2>7 DEF IInv, TypeOK
  <2>9. Live' = {}
    BY <2>1 DEF Live
  <2>10. CounterOK' /\ LiveRecent'
    <3>1. issued' + left' <= MaxResets
      BY <1>0, <2>2, <2>3 DEF IInv, CounterOK
    <3>2. phase' # "init" /\ phase' # "batch"
      BY <2>1
    <3> QED
      BY <2>2, <2>9, <3>1, <3>2 DEF CounterOK, LiveRecent
  <2>11. SlotsConsumed'
    BY <1>0, <2>1, <2>2 DEF IInv, TypeOK, SlotsConsumed, Slots
  <2>12. OneState' /\ OwnReply' /\ NoLostWaiter' /\ NoTableLeak'
    BY <2>1 DEF IInv, OneState, OwnReply, NoLostWaiter, NoTableLeak, Live
  <2> QED
    BY <2>7, <2>8, <2>10, <2>11, <2>12 DEF IInv
<1>2. CASE send_command
  <2>1. /\ Issue /\ phase' = phase /\ phase \in {"init", "run"}
        /\ Live = {}
        /\ phase = "init" => left > 0 /\ left' = left - 1
        /\ phase = "run" => left' = left
    BY <1>2 DEF send_command
  <2>2. Span' = 1
    BY <2>1 DEF Span
  <2>3. left' \in Nat
    BY <1>0, <2>1
  <2>4. phase = "init" => issued + 1 + left' <= MaxResets + InitCalls
    BY <1>0, <2>1 DEF IInv, CounterOK
  <2>5. Span' \in 1 .. TidCount
    BY <1>0, <2>2
  <2>6. phase # "batch" /\ phase \notin {"reset", "stopped"}
    BY <2>1
  <2>7. \A c \in Live : c.req >= issued + 1 - Span' /\ c.tid # TidOf(issued)
    BY <2>1
  <2> QED
    BY <2>1, <2>3, <2>4, <2>5, <2>6, <2>7, IssueStep
<1>3. CASE issue_query
  <2>1. /\ Issue /\ phase' = phase /\ phase = "batch"
        /\ left > 0 /\ left' = left - 1 /\ left \in 0 .. BatchSize
    BY <1>3 DEF issue_query, IInv, CounterOK
  <2>2. Span = BatchSize - left /\ Span' = BatchSize - left'
    BY <2>1 DEF Span
  <2>3. left' \in 0 .. BatchSize /\ Span' = Span + 1 /\ Span' \in 1 .. TidCount
    BY <1>0, <2>1, <2>2
  <2>5. /\ issued + 1 + left' <= MaxResets + InitCalls + BatchSize
        /\ issued < CounterMod
    <3>1. issued + left <= MaxResets + InitCalls + BatchSize /\ CounterMod \in Nat
      BY <2>1, CountsAssumption DEF IInv, CounterOK
    <3> QED
      BY <1>0, <2>1, <3>1, BatchBeforeWrap
  <2>4. \A c \in Live : c.req >= issued + 1 - Span' /\ c.tid # TidOf(issued)
    <3> TAKE c \in Live
    <3>1. c \in Calls /\ c.req >= issued - Span
      BY DEF IInv, TypeOK, LiveRecent, Live
    <3>2. c.req \in Nat /\ Span \in Int /\ Span' = Span + 1
      BY <2>3, <3>1, SpanBound DEF Calls
    <3>3. c.req >= issued + 1 - Span'
      BY <1>0, <3>1, <3>2
    <3>4. c.req < issued /\ c.tid = TidOf(c.req) /\ CounterMod \in Nat
      BY CountsAssumption DEF IInv, LiveRecent
    <3>5. issued - c.req < TidCount /\ c.req - issued < TidCount /\ c.req < CounterMod
      BY <1>0, <2>3, <2>5, <3>2, <3>3, <3>4
    <3>6. c.req # issued
      BY <1>0, <3>2, <3>4
    <3> QED
      BY <1>0, <2>5, <3>2, <3>3, <3>4, <3>5, <3>6, CloseDraws
  <2>6. left' \in Nat
    BY <2>3, CountsAssumption
  <2> QED
    BY <2>1, <2>3, <2>4, <2>5, <2>6, IssueStep
<1>4. CASE reset_acknowledged \/ start_batch \/ run_returns \/ end_batch
  <2>1. /\ next_tid' = next_tid /\ issued' = issued /\ pending' = pending
        /\ waiting' = waiting /\ expired' = expired /\ slots' = slots
        /\ outbound' = outbound /\ inbound' = inbound
        /\ io_up' = io_up /\ frame_up' = frame_up
    BY <1>4 DEF reset_acknowledged, start_batch, run_returns, end_batch, tasks
  <2>2. Live = {}
    BY <1>4 DEF reset_acknowledged, start_batch, run_returns, end_batch,
                IInv, CounterOK
  <2>3. /\ phase' \in {"reset", "init", "batch", "run", "stopped"}
        /\ left' \in Nat
        /\ phase' # "reset"
        /\ phase' = "batch" => left' = BatchSize /\ phase = "init"
        /\ phase' = "init" => left' = InitCalls /\ phase = "reset"
    BY <1>0, <1>4 DEF reset_acknowledged, start_batch, run_returns, end_batch
  <2>4. Live' = {}
    BY <2>1, <2>2 DEF Live
  <2>7. /\ phase' = "init" => issued' + left' <= MaxResets + InitCalls
        /\ phase' = "batch" => /\ left' \in 0 .. BatchSize
                               /\ issued' + left' <= MaxResets + InitCalls + BatchSize
    <3>1. ASSUME phase' = "init" PROVE issued' + left' <= MaxResets + InitCalls
      <4>1. left' = InitCalls /\ issued + left <= MaxResets
        BY <2>3, <3>1 DEF IInv, CounterOK
      <4> QED
        BY <1>0, <2>1, <4>1
    <3>2. ASSUME phase' = "batch"
          PROVE  /\ left' \in 0 .. BatchSize
                 /\ issued' + left' <= MaxResets + InitCalls + BatchSize
      <4>1. left' = BatchSize /\ issued + left <= MaxResets + InitCalls
        BY <2>3, <3>2 DEF IInv, CounterOK
      <4> QED
        BY <1>0, <2>1, <4>1
    <3> QED
      BY <3>1, <3>2
  <2>5. TypeOK' /\ CounterOK' /\ LiveRecent'
    BY <2>1, <2>3, <2>4, <2>7 DEF IInv, TypeOK, CounterOK, LiveRecent
  <2>6. /\ FramesDrawn' /\ SlotsConsumed' /\ OwnReply' /\ NoLostWaiter'
        /\ NoTableLeak' /\ OneState'
    BY <2>1 DEF IInv, OneState, FramesDrawn, TidOf, Tid, SlotsConsumed, OwnReply,
                Reused, NoLostWaiter, NoTableLeak, Live
  <2> QED
    BY <2>5, <2>6 DEF IInv
<1> QED
  BY <1>1, <1>2, <1>3, <1>4

\* Removing a call, and with it what the table and the oneshots hold for it,
\* leaves the other calls as they were.
LEMMA CallReturns ==
    ASSUME IInv, NEW call \in Live,
           waiting' = waiting \ {call}, expired' = expired \ {call},
           \/ pending' = unregister(call.tid)
           \/ pending' = pending /\ call \notin pending,
           slots' \subseteq slots,
           \A s \in slots : s.to # call.req => s \in slots',
           UNCHANGED <<next_tid, issued, outbound, inbound, tasks, phase, left>>
    PROVE  IInv'
<1>1. /\ next_tid' = next_tid /\ issued' = issued /\ outbound' = outbound
      /\ inbound' = inbound /\ io_up' = io_up /\ frame_up' = frame_up
      /\ phase' = phase /\ left' = left
  BY DEF tasks
<1>2. Live' = Live \ {call}
  BY DEF Live
<1>3. pending' = pending \ {call}
  <2>1. \A p \in pending : p.tid = call.tid => p = call
    BY SameTidSameCall DEF IInv, NoTableLeak
  <2> QED
    BY <2>1 DEF unregister
<1>4. TypeOK' /\ CounterOK' /\ OneState' /\ FramesDrawn'
  BY <1>1, <1>2, <1>3 DEF IInv, TypeOK, OneState, CounterOK, FramesDrawn
<1>5. LiveRecent'
  <2>1. Span' = Span
    BY <1>1 DEF Span
  <2> QED
    BY <1>1, <1>2, <2>1 DEF IInv, LiveRecent
<1>6. SlotsConsumed' /\ OwnReply' /\ NoTableLeak'
  BY <1>1, <1>2, <1>3 DEF IInv, SlotsConsumed, OwnReply, NoTableLeak
<1>7. NoLostWaiter'
  <2> SUFFICES ASSUME NEW c \in waiting'
               PROVE  c \in pending' \/ \E s \in slots' : s.to = c.req
    BY DEF NoLostWaiter
  <2>1. c \in waiting /\ c \in Live /\ c # call
    BY DEF Live
  <2>2. c.req # call.req
    BY <2>1, SameReqSameCall
  <2> QED
    BY <1>3, <2>1, <2>2 DEF IInv, NoLostWaiter
<1> QED
  BY <1>4, <1>5, <1>6, <1>7 DEF IInv

\* A caller takes its answer.
LEMMA ReceiveStep ==
    ASSUME IInv, NEW call \in waiting, NEW s \in slots, Receive(call, s)
    PROVE  IInv'
<1>1. call \in Live /\ s.to = call.req
  BY DEF Receive, Live
<1>2. call \notin pending
  BY <1>1 DEF IInv, SlotsConsumed
<1>3. \/ pending' = unregister(call.tid)
      \/ pending' = pending /\ call \notin pending
  BY <1>2 DEF Receive
<1>4. expired' = expired \ {call}
  BY DEF Receive, IInv, OneState
<1>5. slots' \subseteq slots /\ \A t \in slots : t.to # call.req => t \in slots'
  BY <1>1 DEF Receive
<1>6. /\ waiting' = waiting \ {call}
      /\ UNCHANGED <<next_tid, issued, outbound, inbound, tasks, phase, left>>
  BY DEF Receive
<1> QED
  BY <1>1, <1>3, <1>4, <1>5, <1>6, CallReturns

\* A caller gives up: its entry leaves the table with it.
LEMMA FailedStep ==
    ASSUME IInv, NEW call \in Live, Failed(call)
    PROVE  IInv'
<1>1. /\ waiting' = waiting \ {call}
      /\ expired' = expired \ {call}
      /\ pending' = unregister(call.tid)
      /\ UNCHANGED <<next_tid, issued, outbound, inbound, tasks, phase, left>>
  BY DEF Failed
<1>2. slots' \subseteq slots /\ \A s \in slots : s.to # call.req => s \in slots'
  BY DEF Failed
<1> QED
  BY <1>1, <1>2, CallReturns

\* The timeout of a caller fires.
LEMMA ExpireStep ==
    ASSUME IInv, NEW call \in waiting, Expire(call)
    PROVE  IInv'
<1>1. /\ next_tid' = next_tid /\ issued' = issued /\ pending' = pending
      /\ slots' = slots /\ outbound' = outbound /\ inbound' = inbound
      /\ io_up' = io_up /\ frame_up' = frame_up
      /\ phase' = phase /\ left' = left
      /\ waiting' = waiting \ {call}
      /\ expired' = expired \cup {call}
  BY DEF Expire, tasks
<1>2. Live' = Live /\ Span' = Span
  BY <1>1 DEF Live, Span
<1>3. TypeOK' /\ CounterOK' /\ OneState' /\ FramesDrawn'
  BY <1>1, <1>2 DEF IInv, TypeOK, CounterOK, OneState, FramesDrawn
<1>4. LiveRecent' /\ NoTableLeak'
  BY <1>1, <1>2 DEF IInv, LiveRecent, NoTableLeak
<1>5. SlotsConsumed' /\ OwnReply' /\ NoLostWaiter'
  BY <1>1, <1>2 DEF IInv, SlotsConsumed, OwnReply, NoLostWaiter
<1> QED
  BY <1>3, <1>4, <1>5 DEF IInv

-----------------------------------------------------------------------------
(* The frame task, the I/O task and the NCP.                               *)

\* The frame task hands a frame to the caller of its TID.
LEMMA DeliverStep ==
    ASSUME IInv, NEW f \in inbound, deliver(f)
    PROVE  IInv'
<1> DEFINE entry == First(Matches(f.tid))
           slot == [to |-> entry.req, from |-> f.req, ok |-> f.ok]
<1>1. /\ next_tid' = next_tid /\ issued' = issued /\ waiting' = waiting
      /\ expired' = expired /\ outbound' = outbound
      /\ inbound' = inbound \ {f}
      /\ io_up' = io_up /\ frame_up' = frame_up
      /\ phase' = phase /\ left' = left
  BY DEF deliver, tasks
<1>2. Live' = Live /\ Span' = Span
  BY <1>1 DEF Live, Span
<1>3. CounterOK' /\ OneState' /\ FramesDrawn' /\ LiveRecent'
  BY <1>1, <1>2 DEF IInv, CounterOK, OneState, FramesDrawn, LiveRecent
<1>4. CASE Matches(f.tid) = {}
  <2>1. pending' = pending /\ slots' = slots
    BY <1>4 DEF deliver
  <2>2. TypeOK' /\ SlotsConsumed' /\ OwnReply' /\ NoLostWaiter' /\ NoTableLeak'
    BY <1>1, <1>2, <2>1 DEF IInv, TypeOK, SlotsConsumed, OwnReply,
                            NoLostWaiter, NoTableLeak
  <2> QED
    BY <1>3, <2>2 DEF IInv
<1>5. CASE Matches(f.tid) # {}
  <2>1. PICK m : m \in Matches(f.tid)
    BY <1>5
  <2>2. \A p \in Matches(f.tid) : p \in Live /\ p.tid = f.tid /\ f.tid # 0
    BY DEF Matches, IInv, NoTableLeak
  <2>3. \A p \in Matches(f.tid) : p = m
    BY <2>1, <2>2, SameTidSameCall
  <2>4. m \in Calls /\ m \in pending /\ m.req \in Nat
    BY <2>1 DEF Matches, IInv, TypeOK, Calls
  <2>5. \E p \in Matches(f.tid) : \A q \in Matches(f.tid) : p.req <= q.req
    BY <2>1, <2>3, <2>4
  <2>6. entry \in Matches(f.tid)
    BY <2>5 DEF First
  <2>7. entry \in Live /\ entry \in pending /\ entry \in Calls
    BY <2>2, <2>3, <2>4, <2>6
  <2>8. f.req # entry.req => /\ Reused(f.req, entry.req)
                             /\ \A c \in Live : c.req # f.req
    BY <2>2, <2>6, AnswerIsOwnOrLate
  <2>9. pending' = pending \ {entry} /\ slots' = slots \cup {slot}
    BY <1>5, <2>7 DEF deliver
  <2> HIDE DEF entry
  <2>10. slot \in Slots /\ slot.to = entry.req /\ slot.from = f.req
    <3>1. f \in Answers
      BY DEF IInv, TypeOK
    <3> QED
      BY <2>7, <3>1 DEF Answers, Calls, Slots
  <2> HIDE DEF slot
  <2>11. TypeOK'
    BY <1>1, <2>9, <2>10 DEF IInv, TypeOK
  <2>12. OwnReply' /\ NoTableLeak'
    BY <1>2, <2>8, <2>9, <2>10 DEF IInv, OwnReply, Reused, NoTableLeak
  <2>13. NoLostWaiter'
    BY <1>1, <2>9, <2>10 DEF IInv, NoLostWaiter
  <2>14. SlotsConsumed'
    <3>1. entry.req < issued /\ f.req < issued
      BY <2>7 DEF IInv, LiveRecent, FramesDrawn
    <3>2. \A p \in pending : p.req = entry.req => p = entry
      BY <2>7, SameReqSameCall DEF IInv, NoTableLeak
    <3> QED
      BY <1>1, <2>9, <2>10, <3>1, <3>2 DEF IInv, SlotsConsumed
  <2> QED
    BY <1>3, <2>11, <2>12, <2>13, <2>14 DEF IInv
<1> QED
  BY <1>4, <1>5

\* The NCP answers a command that it received.
LEMMA NcpAnswerStep ==
    ASSUME IInv, NEW f \in outbound, NcpAnswer(f)
    PROVE  IInv'
<1>1. /\ next_tid' = next_tid /\ issued' = issued /\ pending' = pending
      /\ waiting' = waiting /\ expired' = expired /\ slots' = slots
      /\ io_up' = io_up /\ frame_up' = frame_up
      /\ phase' = phase /\ left' = left
      /\ outbound' = outbound \ {f}
  BY DEF NcpAnswer, tasks
<1>2. PICK tid \in {0, f.tid}, ok \in BOOLEAN :
         inbound' = inbound \cup {[req |-> f.req, tid |-> tid, ok |-> ok]}
  BY DEF NcpAnswer
<1> DEFINE a == [req |-> f.req, tid |-> tid, ok |-> ok]
<1>3. f \in Calls /\ f.req < issued /\ f.tid = TidOf(f.req)
  BY DEF IInv, TypeOK, FramesDrawn
<1>4. a \in Answers /\ (a.tid # 0 => a.tid = TidOf(f.req))
  BY <1>3, CountsAssumption DEF Calls, Answers
<1>5. a.req = f.req /\ inbound' = inbound \cup {a}
  BY <1>2
<1> HIDE DEF a
<1>6. Live' = Live /\ Span' = Span
  BY <1>1 DEF Live, Span
<1>7. FramesDrawn'
  <2>1. \A g \in inbound' : g \in inbound \/ g = a
    BY <1>5
  <2> QED
    BY <1>1, <1>3, <1>4, <1>5, <2>1 DEF IInv, FramesDrawn
<1>8. a \in Answers
  BY <1>4
<1>9. TypeOK' /\ CounterOK' /\ OneState'
  BY <1>1, <1>5, <1>6, <1>8 DEF IInv, TypeOK, CounterOK, OneState
<1>10. LiveRecent' /\ NoTableLeak' /\ SlotsConsumed' /\ OwnReply' /\ NoLostWaiter'
  BY <1>1, <1>6 DEF IInv, LiveRecent, NoTableLeak, SlotsConsumed, OwnReply,
                    NoLostWaiter
<1> QED
  BY <1>7, <1>9, <1>10 DEF IInv

\* Frames or tasks disappear, or nothing happens at all.
LEMMA LossStep ==
    ASSUME IInv,
           UNCHANGED vars \/ io_exit \/ frame_task_exit
             \/ \E f \in outbound : Lose(f)
    PROVE  IInv'
<1>1. /\ next_tid' = next_tid /\ issued' = issued /\ pending' = pending
      /\ waiting' = waiting /\ expired' = expired /\ slots' = slots
      /\ inbound' = inbound /\ phase' = phase /\ left' = left
      /\ outbound' \subseteq outbound
      /\ io_up' \in BOOLEAN /\ frame_up' \in BOOLEAN
  BY DEF vars, io_exit, frame_task_exit, Lose, tasks, IInv, TypeOK
<1>2. Live' = Live /\ Span' = Span
  BY <1>1 DEF Live, Span
<1>3. TypeOK' /\ CounterOK' /\ OneState' /\ FramesDrawn'
  BY <1>1, <1>2 DEF IInv, TypeOK, CounterOK, OneState, FramesDrawn
<1>4. LiveRecent' /\ NoTableLeak' /\ SlotsConsumed' /\ OwnReply' /\ NoLostWaiter'
  BY <1>1, <1>2 DEF IInv, LiveRecent, NoTableLeak, SlotsConsumed, OwnReply,
                    NoLostWaiter
<1> QED
  BY <1>3, <1>4 DEF IInv

-----------------------------------------------------------------------------
(* Theorems.                                                               *)

\* The invariant holds at the start.
LEMMA InitIInv == ASSUME Init PROVE IInv
<1>1. Live = {}
  BY DEF Init, Live
<1>2. TypeOK
  BY CountsAssumption DEF Init, TypeOK
<1> QED
  BY <1>1, <1>2, CountsAssumption
     DEF Init, IInv, CounterOK, OneState, LiveRecent, FramesDrawn,
         SlotsConsumed, OwnReply, NoLostWaiter, NoTableLeak

\* Every step keeps the invariant.
LEMMA NextIInv == ASSUME IInv, [Next]_vars PROVE IInv'
<1>1. CASE send_reset \/ reset_acknowledged \/ send_command \/ start_batch
             \/ run_returns \/ issue_query \/ end_batch
  BY <1>1, MainSteps
<1>2. ASSUME NEW call \in waiting, NEW s \in slots, Receive(call, s)
      PROVE  IInv'
  BY <1>2, ReceiveStep
<1>3. ASSUME NEW call \in waiting, Expire(call) PROVE IInv'
  BY <1>3, ExpireStep
<1>4. ASSUME NEW call \in Live, Failed(call) PROVE IInv'
  BY <1>4, FailedStep
<1>5. ASSUME NEW f \in inbound, deliver(f) PROVE IInv'
  BY <1>5, DeliverStep
<1>6. ASSUME NEW f \in outbound, NcpAnswer(f) PROVE IInv'
  BY <1>6, NcpAnswerStep
<1>7. CASE UNCHANGED vars \/ io_exit \/ frame_task_exit
             \/ \E f \in outbound : Lose(f)
  BY <1>7, LossStep
<1> QED
  BY <1>1, <1>2, <1>3, <1>4, <1>5, <1>6, <1>7 DEF Next, Resume

\* The inductive invariant holds for every counter width, number of TIDs,
\* batch size and bound on requests.
THEOREM Invariance == Spec => []IInv
<1>1. Init => IInv
  BY InitIInv
<1>2. IInv /\ [Next]_vars => IInv'
  BY NextIInv
<1> QED
  BY <1>1, <1>2, PTL DEF Spec

\* The transaction layer is type correct: every registered or transmitted
\* TID is in 1 .. TidCount.
THEOREM TypeCorrect == Spec => []TypeOK
<1>1. IInv => TypeOK
  BY DEF IInv
<1> QED
  BY <1>1, Invariance, PTL

\* A call receives the answer to another frame only when that frame's call
\* had returned and its TID was drawn again, after a whole cycle or over the
\* wrap of the 8-bit counter (alloc_tid, ResponseTable::deliver), for any
\* interleaving of timers and answers, however late these are.
THEOREM RepliesAreOwn == Spec => []OwnReply
<1>1. IInv => OwnReply
  BY DEF IInv
<1> QED
  BY <1>1, Invariance, PTL

\* A waiting call always keeps its table entry or its answer: no other
\* call's unregister() takes it, also among the queries of the batch.
THEOREM WaitersAreKept == Spec => []NoLostWaiter
<1>1. IInv => NoLostWaiter
  BY DEF IInv
<1> QED
  BY <1>1, Invariance, PTL

\* send_command_timeout() leaves no entry behind in the response table, on
\* any of its return paths.
THEOREM TableDoesNotLeak == Spec => []NoTableLeak
<1>1. IInv => NoTableLeak
  BY DEF IInv
<1> QED
  BY <1>1, Invariance, PTL
=============================================================================
