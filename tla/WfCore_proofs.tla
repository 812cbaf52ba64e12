---------------------------- MODULE WfCore_proofs ----------------------------
(***************************************************************************)
(* Proofs about WfCore: the instance of wfantund, for every plan of calls, *)
(* every set of options and capabilities and every number of faults.       *)
(*                                                                         *)
(* The operators of WfCore map an instance to an instance, and so do the   *)
(* lemmas: Kept (nothing happened to the calls), Finished (one callback    *)
(* was invoked), Goes (the calls took a step of the call service), Steady  *)
(* (the initialisation is where it was, or starts again).                  *)
(***************************************************************************)
EXTENDS WfCore, TLAPS

-----------------------------------------------------------------------------
(* The scripts of the tasks: pieces, turns and ends.                       *)

\* The kinds of step a script of WfTasks is made of.
Ops == {"require", "insist", "await", "turn", "save", "become", "set", "send",
        "skip", "quiet", "scan", "joined", "joinstatus", "yield", "finish"}

\* A step of a script; the states it may ask for are states of the NCP.
IsStep(x) == x.op \in Ops /\ (x.op = "become" => x.s \in NCPState)

\* A sequence, of whatever its elements are.
IsQueue(s) == Len(s) \in Nat /\ s \in Seq({s[n] : n \in 1..Len(s)})

\* A piece of a script without a finish, whose skips reach at most k steps
\* into what follows it.
Piece(s, k) ==
    /\ IsQueue(s)
    /\ \A p \in 1..Len(s) :
          /\ IsStep(s[p]) /\ s[p].op # "finish"
          /\ s[p].op = "skip" => s[p].n \in Nat /\ p + s[p].n <= Len(s) + k

\* A script that runs into a finish: no other step is the last, and no skip
\* leaves it.
WellFormed(s) ==
    /\ IsQueue(s)
    /\ Len(s) > 0
    /\ \A p \in 1..Len(s) :
          /\ IsStep(s[p])
          /\ s[p].op # "finish" => p < Len(s)
          /\ s[p].op = "skip" => s[p].n \in Nat /\ p + 1 + s[p].n <= Len(s)

\* The step at q waits for the task's turn
\* (EH_WAIT_UNTIL(EVENT_STARTING_TASK != event)), and only checks come
\* before it.
TurnAt(s, q) ==
    /\ q \in 1..Len(s)
    /\ s[q].op = "turn"
    /\ \A m \in 1..(q - 1) : s[m].op \in {"require", "await"}

\* Every sequence is a queue.
LEMMA QueueOf == ASSUME NEW S, NEW s \in Seq(S) PROVE IsQueue(s)
  <1>1. Len(s) \in Nat OBVIOUS
  <1>2. s = [n \in 1..Len(s) |-> s[n]] OBVIOUS
  <1>3. QED BY <1>1, <1>2 DEF IsQueue

\* What the concatenation of two queues is, element by element.
LEMMA QueueConcat ==
  ASSUME NEW a, NEW b, IsQueue(a), IsQueue(b)
  PROVE  /\ IsQueue(a \o b)
         /\ Len(a \o b) = Len(a) + Len(b)
         /\ \A p \in 1..Len(a) : (a \o b)[p] = a[p]
         /\ \A p \in 1..Len(b) : (a \o b)[Len(a) + p] = b[p]
         /\ \A p \in 1..(Len(a) + Len(b)) : p > Len(a)
             => (a \o b)[p] = b[p - Len(a)] /\ p - Len(a) \in 1..Len(b)
  <1> DEFINE S == {a[n] : n \in 1..Len(a)} \cup {b[n] : n \in 1..Len(b)}
  <1>1. a \in Seq(S) BY DEF IsQueue
  <1>2. b \in Seq(S) BY DEF IsQueue
  <1> HIDE DEF S
  <1>3. a \o b \in Seq(S) BY <1>1, <1>2
  <1>4. Len(a) \in Nat /\ Len(b) \in Nat BY DEF IsQueue
  <1>5. Len(a \o b) = Len(a) + Len(b) BY <1>1, <1>2
  <1>6. \A p \in 1..Len(a) : (a \o b)[p] = a[p] BY <1>1, <1>2
  <1>7. \A p \in 1..(Len(a) + Len(b)) : p > Len(a) => (a \o b)[p] = b[p - Len(a)] BY <1>1, <1>2
  <1>8. \A p \in 1..Len(b) : Len(a) + p \in 1..(Len(a) + Len(b)) /\ Len(a) + p > Len(a)
      /\ (Len(a) + p) - Len(a) = p BY <1>4
  <1>9. \A p \in 1..(Len(a) + Len(b)) : p > Len(a) => p - Len(a) \in 1..Len(b) BY <1>4
  <1>10. \A p \in 1..Len(b) : (a \o b)[Len(a) + p] = b[p] BY <1>7, <1>8
  <1>11. IsQueue(a \o b) BY <1>3, QueueOf
  <1>. QED BY <1>5, <1>6, <1>7, <1>9, <1>10, <1>11

\* Two pieces of a script make a piece.
LEMMA PieceThenPiece ==
  ASSUME NEW a, NEW b, NEW k \in Nat, NEW l \in Nat, Piece(a, k), Piece(b, l), k <= Len(b) + l
  PROVE  Piece(a \o b, l)
  <1> DEFINE s == a \o b
  <1>1. IsQueue(a) /\ IsQueue(b) /\ Len(a) \in Nat /\ Len(b) \in Nat BY DEF Piece, IsQueue
  <1>2. /\ IsQueue(s) /\ Len(s) = Len(a) + Len(b)
        /\ \A p \in 1..Len(a) : s[p] = a[p]
        /\ \A p \in 1..(Len(a) + Len(b)) : p > Len(a) => s[p] = b[p - Len(a)] /\ p - Len(a) \in 1..Len(b)
    BY <1>1, QueueConcat
  <1> HIDE DEF s
  <1>3. SUFFICES ASSUME NEW p \in 1..Len(s)
                 PROVE  /\ IsStep(s[p]) /\ s[p].op # "finish"
                        /\ s[p].op = "skip" => s[p].n \in Nat /\ p + s[p].n <= Len(s) + l
    BY <1>2 DEF Piece, s
  <1>4. CASE p <= Len(a)
    <2>1. p \in 1..Len(a) /\ s[p] = a[p] BY <1>1, <1>2, <1>4
    <2>. QED BY <1>1, <1>2, <2>1 DEF Piece
  <1>5. CASE p > Len(a)
    <2>1. s[p] = b[p - Len(a)] /\ p - Len(a) \in 1..Len(b) BY <1>1, <1>2, <1>5
    <2>. QED BY <1>1, <1>2, <2>1 DEF Piece
  <1>. QED BY <1>1, <1>2, <1>4, <1>5

\* A piece followed by a well-formed script is well-formed.
LEMMA PieceThenEnd ==
  ASSUME NEW a, NEW b, NEW k \in Nat, Piece(a, k), WellFormed(b), k < Len(b)
  PROVE  WellFormed(a \o b)
  <1> DEFINE s == a \o b
  <1>1. IsQueue(a) /\ IsQueue(b) /\ Len(a) \in Nat /\ Len(b) \in Nat BY DEF Piece, WellFormed, IsQueue
  <1>2. /\ IsQueue(s) /\ Len(s) = Len(a) + Len(b)
        /\ \A p \in 1..Len(a) : s[p] = a[p]
        /\ \A p \in 1..(Len(a) + Len(b)) : p > Len(a) => s[p] = b[p - Len(a)] /\ p - Len(a) \in 1..Len(b)
    BY <1>1, QueueConcat
  <1> HIDE DEF s
  <1>3. SUFFICES ASSUME NEW p \in 1..Len(s)
                 PROVE  /\ IsStep(s[p])
                        /\ s[p].op # "finish" => p < Len(s)
                        /\ s[p].op = "skip" => s[p].n \in Nat /\ p + 1 + s[p].n <= Len(s)
    BY <1>1, <1>2 DEF WellFormed, s
  <1>4. CASE p <= Len(a)
    <2>1. p \in 1..Len(a) /\ s[p] = a[p] BY <1>1, <1>2, <1>4
    <2>. QED BY <1>1, <1>2, <2>1 DEF Piece, WellFormed
  <1>5. CASE p > Len(a)
    <2>1. s[p] = b[p - Len(a)] /\ p - Len(a) \in 1..Len(b) BY <1>1, <1>2, <1>5
    <2>. QED BY <1>1, <1>2, <2>1 DEF WellFormed
  <1>. QED BY <1>1, <1>2, <1>4, <1>5

\* Before its turn a script is at a check or at the wait for the turn.
LEMMA TurnFirst ==
  ASSUME NEW s, NEW q, TurnAt(s, q), Len(s) \in Nat, NEW p \in 1..Len(s),
         \A m \in 1..(p - 1) : s[m].op \in {"require", "await"}
  PROVE  s[p].op \in {"require", "await", "turn"}
  BY DEF TurnAt

\* The turn of the first part is the turn of the whole.
LEMMA TurnInFront ==
  ASSUME NEW a, NEW b, IsQueue(a), IsQueue(b), NEW q, TurnAt(a, q)
  PROVE  TurnAt(a \o b, q)
  BY QueueConcat DEF TurnAt, IsQueue

\* The turn of the second part is the turn of the whole when the first part
\* only checks.
LEMMA TurnBehind ==
  ASSUME NEW a, NEW b, IsQueue(a), IsQueue(b), NEW q, TurnAt(b, q),
         \A p \in 1..Len(a) : a[p].op \in {"require", "await"}
  PROVE  TurnAt(a \o b, Len(a) + q)
  <1> DEFINE s == a \o b
  <1>1. Len(a) \in Nat /\ Len(b) \in Nat BY DEF IsQueue
  <1>2. /\ Len(s) = Len(a) + Len(b)
        /\ \A p \in 1..Len(a) : s[p] = a[p]
        /\ \A p \in 1..Len(b) : s[Len(a) + p] = b[p]
        /\ \A p \in 1..(Len(a) + Len(b)) : p > Len(a) => s[p] = b[p - Len(a)] /\ p - Len(a) \in 1..Len(b)
    BY QueueConcat
  <1> HIDE DEF s
  <1>3. q \in 1..Len(b) /\ b[q].op = "turn" BY DEF TurnAt
  <1>4. ASSUME NEW m \in 1..((Len(a) + q) - 1) PROVE s[m].op \in {"require", "await"}
    <2>1. CASE m <= Len(a) BY <1>1, <1>2, <2>1
    <2>2. CASE m > Len(a)
      <3>1. m - Len(a) \in 1..(q - 1) /\ m \in 1..(Len(a) + Len(b)) BY <1>1, <1>3, <2>2
      <3>2. s[m] = b[m - Len(a)] BY <1>2, <2>2, <3>1
      <3>. QED BY <3>1, <3>2 DEF TurnAt
    <2>. QED BY <1>1, <2>1, <2>2
  <1>5. Len(a) + q \in 1..Len(s) /\ s[Len(a) + q].op = "turn" BY <1>1, <1>2, <1>3
  <1>. QED BY <1>4, <1>5 DEF TurnAt, s

\* A piece that has the turn, and a whole script that has it.
Begins(s) == Piece(s, 0) /\ \E q : TurnAt(s, q)

\* A whole script with its turn: what every task runs.
Program(s) == WellFormed(s) /\ \E q : TurnAt(s, q)

\* What the constructors of steps build.
LEMMA StepOps ==
  /\ \A c, s : Require(c, s).op = "require" /\ Insist(c, s).op = "insist" /\ Send(c, s).op = "send"
  /\ \A c : Await(c).op = "await" /\ Set(c).op = "set"
  /\ \A s : Become(s).op = "become" /\ Become(s).s = s /\ Finish(s).op = "finish"
  /\ \A c, n : SkipUnless(c, n).op = "skip" /\ SkipUnless(c, n).n = n
  /\ Turn.op = "turn" /\ Save.op = "save" /\ Quiet.op = "quiet" /\ ScanLoop.op = "scan" /\ Joined.op = "joined"
  /\ \A o, c, s, n : Step(o, c, s, n).op = o
  BY DEF Require, Insist, Send, Await, Set, Become, Finish, SkipUnless, Turn, Save, Quiet, ScanLoop,
      Joined, Step

\* The empty piece.
LEMMA NoSteps == Piece(<<>>, 0) /\ Len(<<>>) = 0
  <1>1. <<>> \in Seq({}) /\ Len(<<>>) = 0 OBVIOUS
  <1>2. IsQueue(<<>>) BY <1>1, QueueOf
  <1>3. \A p \in 1..0 : FALSE OBVIOUS
  <1>. QED BY <1>1, <1>2, <1>3 DEF Piece

\* A piece of one step.
LEMMA OneStep ==
  ASSUME NEW x, IsStep(x), x.op \notin {"finish", "skip"}
  PROVE  Piece(<<x>>, 0) /\ Len(<<x>>) = 1
  <1>1. <<x>> \in Seq({x}) OBVIOUS
  <1>2. IsQueue(<<x>>) BY <1>1, QueueOf
  <1>3. QED BY <1>2 DEF Piece

\* Sending one command is a piece.
LEMMA SendStep == ASSUME NEW c, NEW s PROVE Piece(<<Send(c, s)>>, 0)
  BY OneStep, StepOps DEF Ops, IsStep, NCPState

\* A lone finish is a well-formed script.
LEMMA LastStep ==
  ASSUME NEW s
  PROVE  WellFormed(<<Finish(s)>>) /\ Len(<<Finish(s)>>) = 1
  <1> DEFINE x == Finish(s)
  <1>0. x.op = "finish" BY StepOps
  <1> HIDE DEF x
  <1>1. <<x>> \in Seq({x}) OBVIOUS
  <1>2. IsQueue(<<x>>) BY <1>1, QueueOf
  <1>3. WellFormed(<<x>>) /\ Len(<<x>>) = 1 BY <1>0, <1>2 DEF WellFormed, Ops, IsStep, NCPState
  <1>. QED BY <1>3 DEF x

\* Pieces whose skips stay inside join.
LEMMA PiecesJoin ==
  ASSUME NEW a, NEW b, Piece(a, 0), Piece(b, 0)
  PROVE  Piece(a \o b, 0)
  <1>1. Len(b) \in Nat BY DEF Piece, IsQueue
  <1>. QED BY <1>1, PieceThenPiece

\* A piece whose skips stay inside may come before any well-formed script.
LEMMA PieceEnds ==
  ASSUME NEW a, NEW b, Piece(a, 0), WellFormed(b)
  PROVE  WellFormed(a \o b)
  <1>1. 0 < Len(b) BY DEF WellFormed, IsQueue
  <1>. QED BY <1>1, PieceThenEnd

\* A piece may follow the beginning of a script.
LEMMA BeginsThen ==
  ASSUME NEW a, NEW b, Begins(a), Piece(b, 0)
  PROVE  Begins(a \o b)
  BY PiecesJoin, TurnInFront DEF Begins, Piece

\* A beginning and a well-formed end make a program.
LEMMA BeginsThenEnd ==
  ASSUME NEW a, NEW b, Begins(a), WellFormed(b)
  PROVE  Program(a \o b)
  BY PieceEnds, TurnInFront DEF Begins, Program, Piece, WellFormed

\* A piece that depends on an option is a piece.
LEMMA GivenPiece ==
  ASSUME NEW o, NEW opts, NEW steps, Piece(steps, 0)
  PROVE  Piece(Given(o, opts, steps), 0)
  BY NoSteps DEF Given

\* So is one that depends on either of two options.
LEMMA EitherGivenPiece ==
  ASSUME NEW o, NEW p, NEW opts, NEW steps, Piece(steps, 0)
  PROVE  Piece(EitherGiven(o, p, opts, steps), 0)
  BY NoSteps DEF EitherGiven

\* The check of mEnabled is a piece of checks only.
LEMMA EnabledPiece ==
    Piece(Enabled, 0) /\ Len(Enabled) = 2 /\ \A p \in 1..2 : Enabled[p].op \in {"require", "await"}
  <1>1. Enabled \in Seq({Enabled[1], Enabled[2]}) /\ Len(Enabled) = 2 BY DEF Enabled
  <1>2. Enabled[1].op = "require" /\ Enabled[2].op = "require" BY StepOps DEF Enabled
  <1>3. IsQueue(Enabled) BY <1>1, QueueOf
  <1>4. \A p \in 1..2 : p = 1 \/ p = 2 OBVIOUS
  <1>. QED BY <1>1, <1>2, <1>3, <1>4 DEF Piece, Ops, IsStep, NCPState

\* The check of mEnabled may come before a beginning.
LEMMA EnabledBegins ==
  ASSUME NEW b, Begins(b)
  PROVE  Begins(Enabled \o b)
  BY EnabledPiece, PiecesJoin, TurnBehind DEF Begins, Piece

\* The check of mEnabled may come before a program.
LEMMA EnabledProgram ==
  ASSUME NEW b, Program(b)
  PROVE  Program(Enabled \o b)
  BY EnabledPiece, PieceEnds, TurnBehind DEF Program, Piece, WellFormed

\* How a form begins.
LEMMA FormBeginBegins == Begins(FormBegin)
  <1> DEFINE s == FormBegin
  <1>1. s \in Seq({s[1], s[2], s[3], s[4], s[5], s[6], s[7], s[8], s[9], s[10]}) /\ Len(s) = 10 BY DEF FormBegin
  <1>2. IsQueue(s) BY <1>1, QueueOf
  <1>3. \A p \in 1..10 : IsStep(s[p]) /\ s[p].op \notin {"finish", "skip"}
      BY StepOps DEF Ops, IsStep, NCPState, FormBegin
  <1>4. s[4].op = "turn" /\ \A m \in 1..3 : s[m].op \in {"require", "await"} BY StepOps DEF FormBegin
  <1>5. TurnAt(s, 4) BY <1>1, <1>4 DEF TurnAt
  <1> HIDE DEF s
  <1>6. Begins(s) BY <1>1, <1>2, <1>3, <1>5 DEF Begins, Program, Piece, WellFormed
  <1>. QED BY <1>6 DEF s

\* How a form ends.
LEMMA FormEndEnds == WellFormed(FormEnd)
  <1> DEFINE s == FormEnd
  <1>1. s \in Seq({s[1], s[2], s[3], s[4]}) /\ Len(s) = 4 BY DEF FormEnd
  <1>2. IsQueue(s) BY <1>1, QueueOf
  <1>3. \A p \in 1..4 : IsStep(s[p]) /\ (s[p].op = "finish" <=> p = 4) /\ s[p].op # "skip"
      BY StepOps DEF Ops, IsStep, NCPState, FormEnd
  <1> HIDE DEF s
  <1>6. WellFormed(s) BY <1>1, <1>2, <1>3 DEF Begins, Program, Piece, WellFormed
  <1>. QED BY <1>6 DEF s

\* How a join begins.
LEMMA JoinBeginBegins == Begins(JoinBegin)
  <1> DEFINE s == JoinBegin
  <1>1. s \in Seq({s[1], s[2], s[3], s[4], s[5], s[6]}) /\ Len(s) = 6 BY DEF JoinBegin
  <1>2. IsQueue(s) BY <1>1, QueueOf
  <1>3. \A p \in 1..6 : IsStep(s[p]) /\ s[p].op \notin {"finish", "skip"}
      BY StepOps DEF Ops, IsStep, NCPState, JoinBegin
  <1>4. s[3].op = "turn" /\ \A m \in 1..2 : s[m].op \in {"require", "await"} BY StepOps DEF JoinBegin
  <1>5. TurnAt(s, 3) BY <1>1, <1>4 DEF TurnAt
  <1> HIDE DEF s
  <1>6. Begins(s) BY <1>1, <1>2, <1>3, <1>5 DEF Begins, Program, Piece, WellFormed
  <1>. QED BY <1>6 DEF s

\* How a join ends.
LEMMA JoinEndEnds == WellFormed(JoinEnd)
  <1> DEFINE s == JoinEnd
  <1>1. s \in Seq({s[1], s[2], s[3], s[4], s[5]}) /\ Len(s) = 5 BY DEF JoinEnd
  <1>2. IsQueue(s) BY <1>1, QueueOf
  <1>3. \A p \in 1..5 : IsStep(s[p]) /\ (s[p].op = "finish" <=> p = 5) /\ s[p].op # "skip"
      BY StepOps DEF Ops, IsStep, NCPState, JoinEnd
  <1> HIDE DEF s
  <1>6. WellFormed(s) BY <1>1, <1>2, <1>3 DEF Begins, Program, Piece, WellFormed
  <1>. QED BY <1>6 DEF s

\* The script of a leave is a program.
LEMMA LeaveProgram == Program(Leave)
  <1> DEFINE s == Leave
  <1>1. s \in Seq({s[1], s[2], s[3], s[4], s[5], s[6], s[7], s[8], s[9], s[10], s[11]}) /\ Len(s) = 11
      BY DEF Leave
  <1>2. IsQueue(s) BY <1>1, QueueOf
  <1>3. \A p \in 1..11 : IsStep(s[p]) /\ (s[p].op = "finish" <=> p = 11) /\ s[p].op # "skip"
      BY StepOps DEF Ops, IsStep, NCPState, Leave
  <1>4. s[2].op = "turn" /\ \A m \in 1..1 : s[m].op \in {"require", "await"} BY StepOps DEF Leave
  <1>5. TurnAt(s, 2) BY <1>1, <1>4 DEF TurnAt
  <1> HIDE DEF s
  <1>6. Program(s) BY <1>1, <1>2, <1>3, <1>5 DEF Begins, Program, Piece, WellFormed
  <1>. QED BY <1>6 DEF s

\* How the joiner tasks begin.
LEMMA JoinerBeginBegins == Begins(JoinerBegin)
  <1> DEFINE s == JoinerBegin
  <1>1. s \in Seq({s[1], s[2], s[3]}) /\ Len(s) = 3 BY DEF JoinerBegin
  <1>2. IsQueue(s) BY <1>1, QueueOf
  <1>3. \A p \in 1..3 : IsStep(s[p]) /\ s[p].op \notin {"finish", "skip"}
      BY StepOps DEF Ops, IsStep, NCPState, JoinerBegin
  <1>4. s[3].op = "turn" /\ \A m \in 1..2 : s[m].op \in {"require", "await"} BY StepOps DEF JoinerBegin
  <1>5. TurnAt(s, 3) BY <1>1, <1>4 DEF TurnAt
  <1> HIDE DEF s
  <1>6. Begins(s) BY <1>1, <1>2, <1>3, <1>5 DEF Begins, Program, Piece, WellFormed
  <1>. QED BY <1>6 DEF s

\* The script of the network topology task is a program.
LEMMA TopologyProgram == Program(GetNetworkTopology)
  <1> DEFINE s == GetNetworkTopology
  <1>1. s \in Seq({s[1], s[2], s[3], s[4]}) /\ Len(s) = 4 BY DEF GetNetworkTopology
  <1>2. IsQueue(s) BY <1>1, QueueOf
  <1>3. \A p \in 1..4 : IsStep(s[p]) /\ (s[p].op = "finish" <=> p = 4) /\ s[p].op # "skip"
      BY StepOps DEF Ops, IsStep, NCPState, GetNetworkTopology
  <1>4. s[2].op = "turn" /\ \A m \in 1..1 : s[m].op \in {"require", "await"} BY StepOps DEF GetNetworkTopology
  <1>5. TurnAt(s, 2) BY <1>1, <1>4 DEF TurnAt
  <1> HIDE DEF s
  <1>6. Program(s) BY <1>1, <1>2, <1>3, <1>5 DEF Begins, Program, Piece, WellFormed
  <1>. QED BY <1>6 DEF s

\* The script of the buffer counters task is a program.
LEMMA BuffersProgram == Program(GetMsgBufferCounters)
  <1> DEFINE s == GetMsgBufferCounters
  <1>1. s \in Seq({s[1], s[2], s[3], s[4], s[5]}) /\ Len(s) = 5 BY DEF GetMsgBufferCounters
  <1>2. IsQueue(s) BY <1>1, QueueOf
  <1>3. \A p \in 1..5 : IsStep(s[p]) /\ (s[p].op = "finish" <=> p = 5) /\ s[p].op # "skip"
      BY StepOps DEF Ops, IsStep, NCPState, GetMsgBufferCounters
  <1>4. s[2].op = "turn" /\ \A m \in 1..1 : s[m].op \in {"require", "await"} BY StepOps DEF GetMsgBufferCounters
  <1>5. TurnAt(s, 2) BY <1>1, <1>4 DEF TurnAt
  <1> HIDE DEF s
  <1>6. Program(s) BY <1>1, <1>2, <1>3, <1>5 DEF Begins, Program, Piece, WellFormed
  <1>. QED BY <1>6 DEF s

\* How a scan begins.
LEMMA ScanBeginBegins == Begins(ScanBegin)
  <1> DEFINE s == ScanBegin
  <1>1. s \in Seq({s[1], s[2], s[3]}) /\ Len(s) = 3 BY DEF ScanBegin
  <1>2. IsQueue(s) BY <1>1, QueueOf
  <1>3. \A p \in 1..3 : IsStep(s[p]) /\ s[p].op \notin {"finish", "skip"}
      BY StepOps DEF Ops, IsStep, NCPState, ScanBegin
  <1>4. s[2].op = "turn" /\ \A m \in 1..1 : s[m].op \in {"require", "await"} BY StepOps DEF ScanBegin
  <1>5. TurnAt(s, 2) BY <1>1, <1>4 DEF TurnAt
  <1> HIDE DEF s
  <1>6. Begins(s) BY <1>1, <1>2, <1>3, <1>5 DEF Begins, Program, Piece, WellFormed
  <1>. QED BY <1>6 DEF s

\* The parameters of a form are a piece, whatever the options.
LEMMA FormParametersPiece == ASSUME NEW opts PROVE Piece(FormParameters(opts), 0)
  BY SendStep, GivenPiece, PiecesJoin DEF FormParameters

\* The prefixes of a form are a piece, whatever the options.
LEMMA FormPrefixesPiece == ASSUME NEW opts, NEW legacy PROVE Piece(FormPrefixes(opts, legacy), 0)
  <1>1. Piece(Given("LegacyPrefix", opts, <<Send("LEGACY_ULA_PREFIX", "ok")>>), 0) BY SendStep, GivenPiece
  <1>2. Piece(EitherGiven("MLPrefix", "MLAddress", opts, <<Send("ML_PREFIX", "ok")>>), 0)
      BY SendStep, EitherGivenPiece
  <1>3. CASE legacy BY <1>1, <1>2, <1>3, PiecesJoin DEF FormPrefixes
  <1>4. CASE ~legacy BY <1>2, <1>4, NoSteps, PiecesJoin DEF FormPrefixes
  <1>. QED BY <1>3, <1>4

\* The script of a form is a program.
LEMMA FormProgram == Program(SpinelNCPTaskForm)
  <1> DEFINE opts == FormOptions(Opts("form"), FALSE)
  <1> HIDE DEF opts
  <1>1. Begins(Enabled \o FormBegin \o FormParameters(opts)
               \o FormPrefixes(opts, "NEST_LEGACY_INTERFACE" \in Capabilities))
    BY FormBeginBegins, EnabledBegins, BeginsThen, FormParametersPiece, FormPrefixesPiece
  <1>. QED BY <1>1, FormEndEnds, BeginsThenEnd DEF SpinelNCPTaskForm, opts

\* The node type of a join is a piece, whatever the options.
LEMMA JoinNodeTypePiece == ASSUME NEW opts, NEW ftd PROVE Piece(JoinNodeType(opts, ftd), 0)
  <1> DEFINE a == Insist("cap_node_type", "FeatureNotSupported")
             b == Send(IF ftd THEN "ROUTER_ROLE_ENABLED" ELSE "NET_CLEAR", "ok")
             c == Send("THREAD_MODE", "ok")
  <1>1. IsStep(a) /\ a.op \notin {"finish", "skip"} /\ IsStep(b) /\ b.op \notin {"finish", "skip"}
      /\ IsStep(c) /\ c.op \notin {"finish", "skip"} BY StepOps DEF Ops, IsStep, NCPState
  <1> HIDE DEF a, b, c
  <1> DEFINE s == <<a, b, c>>
  <1>2. s \in Seq({a, b, c}) /\ Len(s) = 3 OBVIOUS
  <1>3. \A p \in 1..3 : IsStep(s[p]) /\ s[p].op \notin {"finish", "skip"} BY <1>1
  <1>4. IsQueue(s) BY <1>2, QueueOf
  <1> HIDE DEF s
  <1>5. Piece(s, 0) BY <1>2, <1>3, <1>4 DEF Piece
  <1>. QED BY <1>5, GivenPiece DEF JoinNodeType, s, a, b, c

\* The parameters of a join are a piece, whatever the options.
LEMMA JoinParametersPiece == ASSUME NEW opts PROVE Piece(JoinParameters(opts), 0)
  <1>1. Piece(<<Send("PROMISCUOUS_OFF", "any")>> \o
              Given("Channel", opts, <<Send("PHY_CHAN", "ok")>>) \o
              Given("PANID", opts, <<Send("PANID", "ok")>>) \o
              Given("XPANID", opts, <<Send("XPANID", "ok")>>), 0)
    BY SendStep, GivenPiece, PiecesJoin
  <1>. QED BY <1>1, SendStep, GivenPiece, EitherGivenPiece, PiecesJoin DEF JoinParameters

\* The script of a join is a program.
LEMMA JoinProgram == Program(SpinelNCPTaskJoin)
  <1>1. Begins(Enabled \o JoinBegin \o JoinNodeType(Opts("join"), "CONFIG_FTD" \in Capabilities)
               \o JoinParameters(Opts("join")))
    BY JoinBeginBegins, EnabledBegins, BeginsThen, JoinNodeTypePiece, JoinParametersPiece
  <1>. QED BY <1>1, JoinEndEnds, BeginsThenEnd DEF SpinelNCPTaskJoin

\* The parameters of a discovery are a piece.
LEMMA ScanDiscoverPiece == Piece(ScanDiscover, 0)
  <1> DEFINE s == ScanDiscover
  <1>1. s \in Seq({s[1], s[2], s[3], s[4], s[5], s[6]}) /\ Len(s) = 6 BY DEF ScanDiscover
  <1>2. IsQueue(s) BY <1>1, QueueOf
  <1>3. \A p \in 1..6 : IsStep(s[p]) /\ s[p].op # "finish" /\ (s[p].op = "skip" => p = 4 /\ s[p].n = 2)
    BY StepOps DEF Ops, IsStep, NCPState, ScanDiscover
  <1> HIDE DEF s
  <1>4. Piece(s, 0) BY <1>1, <1>2, <1>3 DEF Piece
  <1>. QED BY <1>4 DEF s

\* How a scan ends.
LEMMA ScanEndEnds == WellFormed(ScanEnd)
  <1> DEFINE s == ScanEnd
  <1>1. s \in Seq({s[1], s[2], s[3], s[4], s[5], s[6]}) /\ Len(s) = 6 BY DEF ScanEnd
  <1>2. IsQueue(s) BY <1>1, QueueOf
  <1>3. \A p \in 1..6 : IsStep(s[p]) /\ (s[p].op = "skip"
      => p = 4 /\ s[p].n = 1) /\ (s[p].op = "finish" <=> p = 6)
    BY StepOps DEF Ops, IsStep, NCPState, ScanEnd
  <1> HIDE DEF s
  <1>4. WellFormed(s) BY <1>1, <1>2, <1>3 DEF WellFormed
  <1>. QED BY <1>4 DEF s

\* What a scan does on an error.
LEMMA ScanFailedEnds == WellFormed(ScanFailed)
  <1> DEFINE s == ScanFailed
  <1>1. s \in Seq({s[1], s[2], s[3]}) /\ Len(s) = 3 BY DEF ScanFailed
  <1>2. IsQueue(s) BY <1>1, QueueOf
  <1>3. \A p \in 1..3 : IsStep(s[p]) /\ (s[p].op = "skip"
      => p = 1 /\ s[p].n = 1) /\ (s[p].op = "finish" <=> p = 3)
    BY StepOps DEF Ops, IsStep, NCPState, ScanFailed
  <1> HIDE DEF s
  <1>4. WellFormed(s) BY <1>1, <1>2, <1>3 DEF WellFormed
  <1>. QED BY <1>4 DEF s

\* The script of a scan is a program.
LEMMA ScanProgram == Program(SpinelNCPTaskScan)
  <1>1. Begins(Enabled \o ScanBegin \o Given("Discover", Opts("scan"), ScanDiscover))
    BY ScanBeginBegins, EnabledBegins, BeginsThen, ScanDiscoverPiece, GivenPiece
  <1>. QED BY <1>1, ScanEndEnds, BeginsThenEnd DEF SpinelNCPTaskScan

\* The wait for the turn begins a script.
LEMMA TurnBegins == Begins(<<Turn>>)
  <1> DEFINE x == Turn
  <1>1. x.op = "turn" BY StepOps
  <1> HIDE DEF x
  <1>2. Piece(<<x>>, 0) /\ Len(<<x>>) = 1 BY <1>1, OneStep DEF Ops, IsStep, NCPState
  <1>3. TurnAt(<<x>>, 1) BY <1>1, <1>2 DEF TurnAt
  <1>4. Begins(<<x>>) BY <1>2, <1>3 DEF Begins
  <1>. QED BY <1>4 DEF x

\* The script that stops a joiner is a program.
LEMMA JoinerStopProgram == Program(Enabled \o JoinerStop)
  <1> DEFINE a == Send("IF_DOWN", "okOrAlready")
             b == Send("JOINER_STOP", "ok")
             c == Finish("ret")
  <1>1. a.op = "send" /\ b.op = "send" /\ c.op = "finish" BY StepOps
  <1> HIDE DEF a, b, c
  <1> DEFINE s == <<a, b, c>>
  <1>2. s \in Seq({a, b, c}) /\ Len(s) = 3 OBVIOUS
  <1>3. \A p \in 1..3 : IsStep(s[p]) /\ (s[p].op = "finish" <=> p = 3) /\ s[p].op # "skip"
      BY <1>1 DEF Ops, IsStep, NCPState
  <1>4. IsQueue(s) BY <1>2, QueueOf
  <1> HIDE DEF s
  <1>5. WellFormed(s) BY <1>2, <1>3, <1>4 DEF WellFormed
  <1>6. Program(JoinerBegin \o s) BY <1>5, JoinerBeginBegins, BeginsThenEnd
  <1>. QED BY <1>6, EnabledProgram DEF JoinerStop, s, a, b, c

\* The script that starts a joiner is a program, whatever the options.
LEMMA JoinerStartProgram == ASSUME NEW opts PROVE Program(Enabled \o JoinerStart(opts))
  <1> DEFINE a == Save
             b == Insist("has_pskd", "InvalidArgument")
             c == Insist("discerner_complete", "InvalidArgument")
             d == Become("ASSOCIATING")
             e == Send("PROMISCUOUS_OFF", "any")
             f == Send("IF_UP", "ok")
  <1>1. IsStep(a) /\ a.op \notin {"finish", "skip"} /\ IsStep(b) /\ b.op \notin {"finish", "skip"}
      /\ IsStep(c) /\ c.op \notin {"finish", "skip"} /\ IsStep(d) /\ d.op \notin {"finish", "skip"}
      /\ IsStep(e) /\ e.op \notin {"finish", "skip"} /\ IsStep(f) /\ f.op \notin {"finish", "skip"}
      BY StepOps DEF Ops, IsStep, NCPState
  <1> HIDE DEF a, b, c, d, e, f
  <1> DEFINE s == <<a, b, c, d, e, f>>
  <1>2. s \in Seq({a, b, c, d, e, f}) /\ Len(s) = 6 OBVIOUS
  <1>3. \A p \in 1..6 : IsStep(s[p]) /\ s[p].op \notin {"finish", "skip"} BY <1>1
  <1>4. IsQueue(s) BY <1>2, QueueOf
  <1> HIDE DEF s
  <1>5. Piece(s, 0) BY <1>2, <1>3, <1>4 DEF Piece
  <1> DEFINE w == IF "ReturnImmediately" \in opts THEN <<>> ELSE <<Step("joinstatus", "-", "-", 0)>>
  <1>6. Piece(w, 0)
    <2>1. Piece(<<Step("joinstatus", "-", "-", 0)>>, 0) BY StepOps, OneStep DEF Ops, IsStep, NCPState
    <2>. QED BY <2>1, NoSteps
  <1> HIDE DEF w
  <1> DEFINE g == Given("Discerner", opts, <<Send("JOINER_DISCERNER", "okOrAlready")>>)
  <1>7. Piece(g, 0) BY SendStep, GivenPiece
  <1> HIDE DEF g
  <1>8. Begins(JoinerBegin \o s \o g \o <<Send("JOINER_START", "ok")>> \o w)
    BY <1>5, <1>6, <1>7, SendStep, JoinerBeginBegins, BeginsThen
  <1>9. Program(JoinerBegin \o s \o g \o <<Send("JOINER_START", "ok")>> \o w \o <<Finish("ret")>>)
    BY <1>8, LastStep, BeginsThenEnd
  <1>. QED BY <1>9, EnabledProgram DEF JoinerStart, s, w, g, a, b, c, d, e, f

\* The script that attaches a joiner is a program, whatever the options.
LEMMA JoinerAttachProgram == ASSUME NEW opts PROVE Program(Enabled \o JoinerAttach(opts))
  <1> DEFINE w == IF "ReturnImmediately" \in opts THEN <<>> ELSE <<Await("associated_initialized")>>
  <1>1. Piece(w, 0)
    <2>1. Piece(<<Await("associated_initialized")>>, 0) BY StepOps, OneStep DEF Ops, IsStep, NCPState
    <2>. QED BY <2>1, NoSteps
  <1> HIDE DEF w
  <1>2. Begins(JoinerBegin \o <<Send("STACK_UP", "okOrAlready")>> \o w)
    BY <1>1, SendStep, JoinerBeginBegins, BeginsThen
  <1>3. Program(JoinerBegin \o <<Send("STACK_UP", "okOrAlready")>> \o w \o <<Finish("Ok")>>)
    BY <1>2, LastStep, BeginsThenEnd
  <1>. QED BY <1>3, EnabledProgram DEF JoinerAttach, w

\* The script of host_did_wake is a program, with or without the tickle.
LEMMA HostDidWakeProgram == ASSUME NEW tickle PROVE Program(HostDidWake(tickle))
  <1> DEFINE a == Require("enabled", "Ok")
             b == Require("not_upgrading", "Ok")
             c == Step("await", "initialized", "Ok", 0)
             d == Turn
  <1>1. a.op = "require" /\ b.op = "require" /\ c.op = "await" /\ d.op = "turn" BY StepOps
  <1> HIDE DEF a, b, c, d
  <1> DEFINE s == <<a, b, c, d>>
  <1>2. s \in Seq({a, b, c, d}) /\ Len(s) = 4 OBVIOUS
  <1>3. \A p \in 1..4 : IsStep(s[p]) /\ s[p].op \notin {"finish", "skip"} BY <1>1 DEF Ops, IsStep, NCPState
  <1>4. IsQueue(s) BY <1>2, QueueOf
  <1>5. s[4].op = "turn" /\ \A m \in 1..3 : s[m].op \in {"require", "await"} BY <1>1
  <1> HIDE DEF s
  <1>6. TurnAt(s, 4) BY <1>2, <1>5 DEF TurnAt
  <1>7. Begins(s) BY <1>2, <1>3, <1>4, <1>6 DEF Piece, Begins
  <1> DEFINE w == IF tickle THEN <<Send("NOOP", "ok")>> ELSE <<>>
  <1>8. Piece(w, 0)
    <2>1. CASE tickle BY <2>1, SendStep
    <2>2. CASE ~tickle BY <2>2, NoSteps
    <2>. QED BY <2>1, <2>2
  <1> HIDE DEF w
  <1>9. Begins(s \o w) BY <1>7, <1>8, BeginsThen
  <1>10. Program((s \o w) \o <<Finish("Ok")>>) BY <1>9, LastStep, BeginsThenEnd
  <1>. QED BY <1>10 DEF HostDidWake, s, w, a, b, c, d

\* The script that sends a list of commands is a program, for every list.
LEMMA SendCommandsProgram ==
  ASSUME NEW cmds, Len(cmds) \in Nat, NEW lock, NEW check
  PROVE  Program(SendCommands(cmds, lock, check))
  <1> DEFINE l == IF lock THEN <<Send("LOCK", "okOrBusy")>> ELSE <<>>
             m == [i \in 1..Len(cmds) |-> Send(cmds[i], IF i < Len(cmds) THEN "any" ELSE "ok")]
             k == IF check THEN <<Step("yield", "-", "-", 0), Await("final_check")>> ELSE <<>>
             u == IF lock THEN <<Send("UNLOCK", "unlock")>> ELSE <<>>
  <1>1. Piece(l, 0)
    <2>1. CASE lock BY <2>1, SendStep
    <2>2. CASE ~lock BY <2>2, NoSteps
    <2>. QED BY <2>1, <2>2
  <1>2. Piece(u, 0)
    <2>1. CASE lock BY <2>1, SendStep
    <2>2. CASE ~lock BY <2>2, NoSteps
    <2>. QED BY <2>1, <2>2
  <1>3. Piece(k, 0)
    <2> DEFINE y == Step("yield", "-", "-", 0)
               z == Await("final_check")
    <2>1. y.op = "yield" /\ z.op = "await" BY StepOps
    <2> HIDE DEF y, z
    <2> DEFINE s == <<y, z>>
    <2>2. s \in Seq({y, z}) /\ Len(s) = 2 OBVIOUS
    <2>3. \A p \in 1..2 : IsStep(s[p]) /\ s[p].op \notin {"finish", "skip"} BY <2>1 DEF Ops, IsStep, NCPState
    <2>4. IsQueue(s) BY <2>2, QueueOf
    <2> HIDE DEF s
    <2>5. Piece(s, 0) BY <2>2, <2>3, <2>4 DEF Piece
    <2>6. CASE check BY <2>5, <2>6 DEF s, y, z
    <2>7. CASE ~check BY <2>7, NoSteps
    <2>. QED BY <2>6, <2>7
  <1>4. Piece(m, 0)
    <2>1. \A p \in 1..Len(cmds) : m[p].op = "send" BY StepOps
    <2> HIDE DEF m
    <2>2. m = [p \in 1..Len(cmds) |-> m[p]] BY DEF m
    <2>3. m \in Seq({m[p] : p \in 1..Len(cmds)}) /\ Len(m) = Len(cmds) BY <2>2
    <2>4. IsQueue(m) BY <2>3, QueueOf
    <2>. QED BY <2>1, <2>3, <2>4 DEF Piece, Ops, IsStep, NCPState
  <1> HIDE DEF l, m, k, u
  <1>5. Begins(<<Turn>> \o l \o m \o k \o u) BY <1>1, <1>2, <1>3, <1>4, TurnBegins, BeginsThen
  <1>6. Program(<<Turn>> \o l \o m \o k \o u \o <<Finish("ret")>>) BY <1>5, LastStep, BeginsThenEnd
  <1>. QED BY <1>6 DEF SendCommands, l, m, k, u

\* The script of the deep sleep task is a program, whatever the NCP can do.
LEMMA DeepSleepProgram == ASSUME NEW mcu, NEW power PROVE Program(DeepSleep(mcu, power))
  <1> DEFINE low == IF mcu THEN <<Send("POWER_LOW", "ok")>>
                      ELSE <<Send("PHY_OFF", "any"), Quiet, Become("DEEP_SLEEP")>>
             w == IF power THEN DeepSleepPower ELSE <<>>
             x == <<SkipUnless("not_asleep", 3 + Len(low)), SkipUnless("joining_or_joined", 2),
                    Send("STACK_DOWN", "ok"), Send("IF_DOWN", "ok")>>
  <1>1. Piece(low, 0)
    <2>1. CASE mcu BY <2>1, SendStep
    <2>2. CASE ~mcu
      <3> DEFINE a == Send("PHY_OFF", "any")
                 b == Quiet
                 c == Become("DEEP_SLEEP")
      <3>1. IsStep(a) /\ a.op \notin {"finish", "skip"} /\ IsStep(b) /\ b.op \notin {"finish", "skip"}
          /\ IsStep(c) /\ c.op \notin {"finish", "skip"} BY StepOps DEF Ops, IsStep, NCPState
      <3> HIDE DEF a, b, c
      <3> DEFINE s == <<a, b, c>>
      <3>2. s \in Seq({a, b, c}) /\ Len(s) = 3 OBVIOUS
      <3>3. \A p \in 1..3 : IsStep(s[p]) /\ s[p].op \notin {"finish", "skip"} BY <3>1
      <3>4. IsQueue(s) BY <3>2, QueueOf
      <3> HIDE DEF s
      <3>5. Piece(s, 0) BY <3>2, <3>3, <3>4 DEF Piece
      <3>. QED BY <2>2, <3>5 DEF s, a, b, c
    <2>. QED BY <2>1, <2>2
  <1>2. Piece(w, 0)
    <2> DEFINE s == DeepSleepPower
    <2>2. s \in Seq({s[1], s[2], s[3]}) /\ Len(s) = 3 BY DEF DeepSleepPower
    <2>3. \A p \in 1..3 : IsStep(s[p]) /\ s[p].op \notin {"finish", "skip"}
        BY StepOps DEF Ops, IsStep, NCPState, DeepSleepPower
    <2>4. IsQueue(s) BY <2>2, QueueOf
    <2> HIDE DEF s
    <2>5. Piece(s, 0) BY <2>2, <2>3, <2>4 DEF Piece
    <2>6. CASE power BY <2>5, <2>6 DEF s
    <2>7. CASE ~power BY <2>7, NoSteps
    <2>. QED BY <2>6, <2>7
  <1> HIDE DEF low, w
  <1>3. Len(low) \in Nat BY <1>1 DEF Piece, IsQueue
  <1>4. Piece(x, Len(low))
    <2> DEFINE a == SkipUnless("not_asleep", 3 + Len(low))
               b == SkipUnless("joining_or_joined", 2)
               c == Send("STACK_DOWN", "ok")
               d == Send("IF_DOWN", "ok")
    <2>1. a.op = "skip" /\ a.n = 3 + Len(low) /\ b.op = "skip" /\ b.n = 2 /\ c.op = "send" /\ d.op = "send"
      BY StepOps
    <2> HIDE DEF a, b, c, d
    <2> DEFINE s == <<a, b, c, d>>
    <2>2. s \in Seq({a, b, c, d}) /\ Len(s) = 4 OBVIOUS
    <2>3. s[1].op = "skip" /\ s[1].n = 3 + Len(low) /\ s[2].op = "skip" /\ s[2].n = 2
          /\ s[3].op = "send" /\ s[4].op = "send"
      BY <2>1
    <2>4. IsQueue(s) BY <2>2, QueueOf
    <2> HIDE DEF s
    <2>5. \A p \in 1..4 : p = 1 \/ p = 2 \/ p = 3 \/ p = 4 OBVIOUS
    <2>6. Piece(s, Len(low)) BY <1>3, <2>2, <2>3, <2>4, <2>5 DEF Piece, Ops, IsStep, NCPState
    <2>. QED BY <2>6 DEF s, a, b, c, d
  <1> HIDE DEF x
  <1>5. Begins(<<Turn>> \o w) BY <1>2, TurnBegins, BeginsThen
  <1>6. Begins((<<Turn>> \o w) \o x \o low)
    <2>0. Len(x) \in Nat BY <1>4 DEF Piece, IsQueue
    <2>1. Piece((<<Turn>> \o w) \o x, Len(low)) BY <1>3, <1>4, <1>5, <2>0, PieceThenPiece DEF Begins
    <2>2. Piece((<<Turn>> \o w) \o x \o low, 0) BY <1>1, <1>3, <2>1, PieceThenPiece
    <2>3. IsQueue(<<Turn>> \o w) /\ IsQueue(x) /\ IsQueue(low) /\ IsQueue((<<Turn>> \o w) \o x)
      BY <1>1, <1>4, <1>5, <2>1 DEF Piece, Begins
    <2>4. PICK q : TurnAt(<<Turn>> \o w, q) BY <1>5 DEF Begins
    <2>5. TurnAt((<<Turn>> \o w) \o x, q) BY <2>3, <2>4, TurnInFront
    <2>6. TurnAt((<<Turn>> \o w) \o x \o low, q) BY <2>3, <2>5, TurnInFront
    <2>. QED BY <2>2, <2>6 DEF Begins
  <1>7. Program((<<Turn>> \o w) \o x \o low \o <<Finish("slept")>>) BY <1>6, LastStep, BeginsThenEnd
  <1>. QED BY <1>7 DEF DeepSleep, low, w, x

\* The lists of commands the calls send.
LEMMA CommandLists ==
  /\ Len(<<"IF_UP", "STACK_UP">>) \in Nat /\ Len(<<"RESET">>) \in Nat /\ Len(<<"NOOP">>) \in Nat
  /\ Len(<<"INSERT_ROUTE">>) \in Nat
  /\ Len(<<"RAW_STREAM", "IF_UP">>) \in Nat /\ Len(<<"RAW_STREAM", "PROMISCUOUS_OFF">>) \in Nat
  /\ Len(<<"RAW_STREAM", "IF_UP", "PROMISCUOUS">>) \in Nat
  OBVIOUS

\* And those of the first step into an associated state.
LEMMA InfoList == Len(InfoCommands) \in Nat
  <1> DEFINE S == {"GET_LADDR", "GET_XPANID", "GET_PANID", "GET_CHAN", "GET_ADDRESS_TABLE"}
  <1>1. InfoCommands \in Seq(S) BY InfoAssumption
  <1> HIDE DEF S
  <1>. QED BY <1>1

\* The scenarios make calls of the control interface only.
LEMMA KindsAreCalls == Kinds \subseteq CallKinds
  <1>1. SUFFICES ASSUME NEW s \in Scenarios, NEW n \in DOMAIN s.plan PROVE s.plan[n] \in CallKinds
    BY DEF Kinds
  <1>2. s.plan \in Seq(CallKinds) BY PlansAssumption
  <1> HIDE DEF CallKinds
  <1>. QED BY <1>2

\* The calls and the tasks the daemon starts by itself.
TaskKinds == CallKinds \cup OwnKinds

\* Every task runs a program.
LEMMA ScriptProgram == ASSUME NEW k \in TaskKinds PROVE Program(Script(k))
  <1>1. CASE k = "form" BY <1>1, FormProgram DEF Script
  <1>2. CASE k = "join" BY <1>2, JoinProgram DEF Script
  <1>3. CASE k = "leave" BY <1>3, LeaveProgram, EnabledProgram DEF Script
  <1>4. CASE k = "attach" BY <1>4, SendCommandsProgram, CommandLists DEF Script
  <1>5. CASE k = "reset" BY <1>5, SendCommandsProgram, CommandLists DEF Script
  <1>6. CASE k = "refresh" BY <1>6, SendCommandsProgram, CommandLists DEF Script
  <1>7. CASE k = "add_route" BY <1>7, SendCommandsProgram, CommandLists DEF Script
  <1>8. CASE k = "host_did_wake" BY <1>8, HostDidWakeProgram DEF Script
  <1>9. CASE k = "joiner_start" BY <1>9, JoinerStartProgram DEF Script
  <1>10. CASE k = "joiner_stop" BY <1>10, JoinerStopProgram DEF Script
  <1>11. CASE k = "joiner_attach" BY <1>11, JoinerAttachProgram DEF Script
  <1>12. CASE k = "scan" BY <1>12, ScanProgram DEF Script
  <1>13. CASE k = "topology" BY <1>13, TopologyProgram, EnabledProgram DEF Script
  <1>14. CASE k = "buffers" BY <1>14, BuffersProgram, EnabledProgram DEF Script
  <1>15. CASE k = "info" BY <1>15, SendCommandsProgram, InfoList DEF Script
  <1>16. CASE k = "deep_sleep" BY <1>16, DeepSleepProgram DEF Script
  <1>17. CASE k = "capture" BY <1>17, SendCommandsProgram, CommandLists DEF Script
  <1>18. CASE k = "sniff" BY <1>18, SendCommandsProgram, CommandLists DEF Script
  <1>19. CASE k = "capture_off" BY <1>19, SendCommandsProgram, CommandLists DEF Script
  <1>. QED BY <1>1, <1>2, <1>3, <1>4, <1>5, <1>6, <1>7, <1>8, <1>9, <1>10, <1>11, <1>12, <1>13,
              <1>14, <1>15, <1>16, <1>17, <1>18, <1>19 DEF TaskKinds, CallKinds, OwnKinds

\* What a task does under on_error runs into a finish.
LEMMA ErrorScriptEnds == ASSUME NEW k \in TaskKinds PROVE WellFormed(ErrorScript(k))
  <1>0. ASSUME NEW c PROVE WellFormed(<<Set(c), Finish("ret")>>)
    <2> DEFINE a == Set(c)
               b == Finish("ret")
    <2>1. a.op = "set" /\ b.op = "finish" BY StepOps
    <2> HIDE DEF a, b
    <2> DEFINE s == <<a, b>>
    <2>2. s \in Seq({a, b}) /\ Len(s) = 2 OBVIOUS
    <2>3. \A p \in 1..2 : IsStep(s[p]) /\ (s[p].op = "finish" <=> p = 2) /\ s[p].op # "skip"
        BY <2>1 DEF Ops, IsStep, NCPState
    <2>4. IsQueue(s) BY <2>2, QueueOf
    <2> HIDE DEF s
    <2>5. WellFormed(s) BY <2>2, <2>3, <2>4 DEF WellFormed
    <2>. QED BY <2>5 DEF s, a, b
  <1>1. CASE k = "leave" BY <1>0, <1>1 DEF ErrorScript
  <1>2. CASE k = "host_did_wake" BY <1>0, <1>2 DEF ErrorScript
  <1>3. CASE k = "scan" BY <1>3, ScanFailedEnds DEF ErrorScript
  <1>4. CASE k = "add_route" BY <1>4, SendStep, LastStep, PieceEnds DEF ErrorScript, SendCommandsFailed
  <1>5. CASE k = "deep_sleep" BY <1>5, LastStep DEF ErrorScript
  <1>6. CASE k \notin {"leave", "host_did_wake", "scan", "add_route", "deep_sleep"}
      BY <1>6, LastStep DEF ErrorScript
  <1>. QED BY <1>1, <1>2, <1>3, <1>4, <1>5, <1>6

\* The scripts of the tasks are programs.
LEMMA ScriptsRun ==
  ASSUME NEW k \in DOMAIN Scripts
  PROVE  k \in TaskKinds /\ Program(Scripts[k]) /\ WellFormed(ErrorScripts[k])
  <1>1. k \in Kinds \cup OwnKinds BY DEF Scripts
  <1>2. k \in TaskKinds BY <1>1, KindsAreCalls DEF TaskKinds
  <1>3. Scripts[k] = Script(k) /\ ErrorScripts[k] = ErrorScript(k) BY <1>1 DEF Scripts, ErrorScripts
  <1>. QED BY <1>2, <1>3, ScriptProgram, ErrorScriptEnds

-----------------------------------------------------------------------------
(* The instance: what its handlers keep of the calls and of the initialisation. *)

\* The fields of the instance.
InstFields == {"state", "initializing", "driver", "enabled", "resetExpected",
     "commissioned", "rxon", "capture", "pcap", "failures", "upgrade", "sub", "misbehaving", "online", "running",
     "beacons", "tasks", "resetting", "ctl", "tx", "answers"}

\* The fields of a task.
TaskFields == {"id", "kind", "pc", "err", "sent", "last", "ret", "down"}

\* Where the control protothread may be.
Ctls == InitPcs \cup DisabledPcs \cup
            {"drain", "loop", "as1", "as2", "as_noop", "off_sleep"}

\* The states of the driver (mDriverState).
Drivers == {"INITIALIZING", "WAITING_FOR_RESET", "NORMAL_OPERATION"}

\* Which value the initialisation fetches (mSubPTIndex).
Subs == DOMAIN Fetches

\* The script a task is in.
ScriptOf(t) == IF t.err THEN ErrorScripts[t.kind] ELSE Scripts[t.kind]

\* A task of one of the kinds, at a step of the script it is in.
TaskOK(t) ==
    /\ DOMAIN t = TaskFields
    /\ t.kind \in DOMAIN Scripts
    /\ t.last \in NCPState
    /\ t.err \in BOOLEAN /\ t.sent \in BOOLEAN
    /\ t.pc \in 1..Len(ScriptOf(t))

\* A queue of tasks.
QueueOK(q) == IsQueue(q) /\ \A n \in 1..Len(q) : TaskOK(q[n])

\* A task the daemon starts by itself, before its first step.
Fresh(t) == TaskOK(t) /\ t.id = 0 /\ t.pc = 1 /\ ~t.err /\ ~t.sent

\* r is q with tasks of the daemon's own behind it.
Grown(q, r) ==
    /\ IsQueue(r)
    /\ Len(q) <= Len(r)
    /\ \A n \in 1..Len(q) : r[n] = q[n]
    /\ \A n \in 1..Len(r) : n > Len(q) => Fresh(r[n])

\* The flags of the instance are flags.
FlagsOK(i) ==
    /\ i.initializing \in BOOLEAN /\ i.enabled \in BOOLEAN
    /\ i.resetExpected \in BOOLEAN /\ i.commissioned \in BOOLEAN
    /\ i.rxon \in BOOLEAN /\ i.capture \in BOOLEAN /\ i.pcap \in BOOLEAN
    /\ i.misbehaving \in BOOLEAN /\ i.online \in BOOLEAN /\ i.running \in BOOLEAN

\* Its modes are modes.
ModesOK(i) ==
    /\ i.state \in NCPState
    /\ i.driver \in Drivers
    /\ i.ctl \in Ctls
    /\ i.sub \in Subs
    /\ i.resetting \in Resetters

\* The instance without its queue.
RecOK(i) == DOMAIN i = InstFields /\ FlagsOK(i) /\ ModesOK(i) /\ i.failures \in Nat

\* The type of the instance.
InstOK(i) == RecOK(i) /\ QueueOK(i.tasks)

\* j is i with the same calls: the answers are the same, and the queue has
\* at most new tasks of the daemon's own at its end.
Kept(i, j) == RecOK(j) /\ j.answers = i.answers /\ Grown(i.tasks, j.tasks)

\* The initialisation is where it was, or starts again.
Steady(i, j) ==
    /\ j.driver = i.driver /\ j.initializing = i.initializing
    /\ j.resetting = i.resetting
    /\ j.ctl \in {i.ctl, "start"}

\* Grown is reflexive.
LEMMA GrownRefl == ASSUME NEW q, IsQueue(q) PROVE Grown(q, q)
  BY DEF Grown, IsQueue

\* Grown is transitive.
LEMMA GrownTrans == ASSUME NEW p, NEW q, NEW r, IsQueue(p), Grown(p, q), Grown(q, r) PROVE Grown(p, r)
  <1>1. Len(p) \in Nat /\ Len(q) \in Nat /\ Len(r) \in Nat BY DEF Grown, IsQueue
  <1>2. ASSUME NEW n \in 1..Len(r), n > Len(p) PROVE Fresh(r[n])
    <2>1. CASE n > Len(q) BY <1>1, <2>1 DEF Grown
    <2>2. CASE n <= Len(q)
      <3>1. n \in 1..Len(q) BY <1>1, <2>2
      <3>. QED BY <1>2, <3>1 DEF Grown
    <2>. QED BY <1>1, <2>1, <2>2
  <1>3. ASSUME NEW n \in 1..Len(p) PROVE r[n] = p[n]
    <2>1. n \in 1..Len(q) BY <1>1 DEF Grown
    <2>. QED BY <2>1 DEF Grown
  <1>. QED BY <1>1, <1>2, <1>3 DEF Grown

\* A grown queue is a queue of tasks.
LEMMA GrownQueue == ASSUME NEW q, NEW r, QueueOK(q), Grown(q, r) PROVE QueueOK(r)
  <1>1. Len(q) \in Nat /\ Len(r) \in Nat BY DEF Grown, IsQueue, QueueOK
  <1>2. ASSUME NEW n \in 1..Len(r) PROVE TaskOK(r[n])
    <2>1. CASE n > Len(q) BY <2>1 DEF Grown, Fresh
    <2>2. CASE n <= Len(q)
      <3>1. n \in 1..Len(q) BY <1>1, <2>2
      <3>. QED BY <3>1 DEF Grown, QueueOK
    <2>. QED BY <1>1, <2>1, <2>2
  <1>. QED BY <1>2 DEF QueueOK, Grown

\* Kept is transitive.
LEMMA KeptTrans ==
  ASSUME NEW i, NEW j, NEW k, InstOK(i), Kept(i, j), Kept(j, k) PROVE Kept(i, k) /\ InstOK(k) /\ InstOK(j)
  BY GrownTrans, GrownQueue DEF Kept, InstOK, QueueOK

\* Kept preserves the type of the instance.
LEMMA KeptOK == ASSUME NEW i, NEW j, InstOK(i), Kept(i, j) PROVE InstOK(j)
  BY GrownQueue DEF Kept, InstOK

\* Kept and Steady are reflexive.
LEMMA KeptRefl == ASSUME NEW i, InstOK(i) PROVE Kept(i, i) /\ Steady(i, i)
  BY GrownRefl DEF Kept, InstOK, QueueOK, Steady, ModesOK

\* Steady is transitive.
LEMMA SteadyTrans == ASSUME NEW i, NEW j, NEW k, Steady(i, j), Steady(j, k) PROVE Steady(i, k)
  BY DEF Steady

\* A fresh task at the end of a queue makes it grow.
LEMMA AppendGrown == ASSUME NEW q, NEW t, IsQueue(q), Fresh(t) PROVE Grown(q, Append(q, t))
  <1> DEFINE S == {q[n] : n \in 1..Len(q)} \cup {t}
  <1>1. q \in Seq(S) /\ Len(q) \in Nat BY DEF IsQueue
  <1>2. t \in S OBVIOUS
  <1> HIDE DEF S
  <1>3. Append(q, t) \in Seq(S) BY <1>1, <1>2
  <1>4. IsQueue(Append(q, t)) BY <1>3, QueueOf
  <1>5. Len(Append(q, t)) = Len(q) + 1 /\ Append(q, t)[Len(q) + 1] = t
        /\ \A n \in 1..Len(q) : Append(q, t)[n] = q[n] BY <1>1, <1>2
  <1> DEFINE r == Append(q, t)
  <1> HIDE DEF r
  <1>6. \A n \in 1..Len(r) : n > Len(q) => n = Len(q) + 1 BY <1>1, <1>5 DEF r
  <1>7. Grown(q, r) BY <1>1, <1>4, <1>5, <1>6 DEF Grown, r
  <1>. QED BY <1>7 DEF r

\* set_online keeps the calls and the initialisation.
LEMMA SetOnline == ASSUME NEW i, InstOK(i), NEW b \in BOOLEAN
  PROVE  LET j == set_online(i, b) IN Kept(i, j) /\ Steady(i, j) /\ j.state = i.state
  <1> DEFINE j == set_online(i, b)
  <1>1. CASE i.online = b BY <1>1, KeptRefl DEF set_online
  <1>2. CASE i.online # b
    <2>1. DOMAIN j = InstFields BY <1>2 DEF set_online, InstOK, RecOK
    <2>2. FlagsOK(j) BY <1>2 DEF set_online, InstOK, RecOK, FlagsOK, InstFields
    <2>3. ModesOK(j) BY <1>2 DEF set_online, InstOK, RecOK, ModesOK, InstFields
    <2>4. j.failures = i.failures /\ j.tasks = i.tasks /\ j.answers = i.answers /\ Steady(i, j)
        /\ j.state = i.state
       BY <1>2 DEF set_online, InstOK, RecOK, Steady, InstFields
    <2>. QED BY <2>1, <2>2, <2>3, <2>4, GrownRefl DEF Kept, RecOK, InstOK, QueueOK
  <1>. QED BY <1>1, <1>2

\* An instance with the same queue and answers is kept.
LEMMA KeptSame ==
  ASSUME NEW i, NEW j, InstOK(i), DOMAIN j = InstFields, FlagsOK(j), ModesOK(j),
         j.failures \in Nat, j.tasks = i.tasks, j.answers = i.answers
  PROVE  Kept(i, j)
  BY GrownRefl DEF Kept, RecOK, InstOK, QueueOK

\* reset_interface keeps the calls and the initialisation.
LEMMA ResetInterface == ASSUME NEW i, InstOK(i)
  PROVE  LET j == reset_interface(i) IN Kept(i, j) /\ Steady(i, j) /\ j.state = i.state
  <1> DEFINE j == reset_interface(i)
  <1>1. DOMAIN j = InstFields BY DEF reset_interface, InstOK, RecOK
  <1>2. FlagsOK(j) BY DEF reset_interface, InstOK, RecOK, FlagsOK, InstFields
  <1>3. ModesOK(j) BY DEF reset_interface, InstOK, RecOK, ModesOK, InstFields
  <1>4. j.failures = i.failures /\ j.tasks = i.tasks /\ j.answers = i.answers /\ Steady(i, j)
      /\ j.state = i.state
    BY DEF reset_interface, InstOK, RecOK, Steady, InstFields
  <1>5. i.failures \in Nat BY DEF InstOK, RecOK
  <1>. QED BY <1>1, <1>2, <1>3, <1>4, <1>5, KeptSame

\* A new task is a task; without a call it is fresh.
LEMMA NewTaskOK ==
  ASSUME NEW kind \in DOMAIN Scripts, NEW id, NEW last \in NCPState
  PROVE  /\ TaskOK(NewTask(kind, id, last))
         /\ NewTask(kind, id, last).id = id
         /\ NewTask(kind, id, last).kind = kind
         /\ NewTask(kind, id, last).pc = 1
         /\ ~NewTask(kind, id, last).err /\ ~NewTask(kind, id, last).sent
  <1> DEFINE t == NewTask(kind, id, last)
  <1>1. DOMAIN t = TaskFields BY DEF NewTask, TaskFields
  <1>2. t.id = id /\ t.kind = kind /\ t.pc = 1 /\ t.err = FALSE /\ t.sent = FALSE /\ t.last = last
      BY DEF NewTask
  <1> HIDE DEF t
  <1>3. ScriptOf(t) = Scripts[kind] BY <1>2 DEF ScriptOf
  <1>4. Len(Scripts[kind]) \in Nat /\ Len(Scripts[kind]) > 0 BY ScriptsRun DEF Program, WellFormed, IsQueue
  <1>5. t.pc \in 1..Len(ScriptOf(t)) BY <1>2, <1>3, <1>4
  <1>6. TaskOK(t) BY <1>1, <1>2, <1>5 DEF TaskOK
  <1>. QED BY <1>2, <1>6 DEF t

\* A task the daemon starts by itself keeps the calls.
LEMMA PushTask == ASSUME NEW i, InstOK(i), NEW kind \in DOMAIN Scripts
  PROVE  LET j == push_task(i, kind, 0) IN Kept(i, j) /\ Steady(i, j) /\ j.state = i.state /\ j.ctl = i.ctl
  <1> DEFINE j == push_task(i, kind, 0)
             t == NewTask(kind, 0, i.state)
  <1>1. i.state \in NCPState BY DEF InstOK, RecOK, ModesOK
  <1>2. Fresh(t) BY <1>1, NewTaskOK DEF Fresh
  <1> HIDE DEF t
  <1>3. j = [i EXCEPT !.tasks = Append(@, t)] BY DEF push_task, t
  <1>4. DOMAIN j = InstFields BY <1>3 DEF InstOK, RecOK
  <1>5. FlagsOK(j) BY <1>3 DEF InstOK, RecOK, FlagsOK, InstFields
  <1>6. ModesOK(j) BY <1>3 DEF InstOK, RecOK, ModesOK, InstFields
  <1>7. j.failures = i.failures /\ j.tasks = Append(i.tasks, t) /\ j.answers = i.answers /\ Steady(i, j)
      /\ j.state = i.state /\ j.ctl = i.ctl
    BY <1>3 DEF InstOK, RecOK, Steady, InstFields
  <1> HIDE DEF j
  <1>8. Grown(i.tasks, j.tasks) BY <1>2, <1>7, AppendGrown DEF InstOK, QueueOK
  <1>9. Kept(i, j) BY <1>4, <1>5, <1>6, <1>7, <1>8 DEF Kept, RecOK, InstOK
  <1>. QED BY <1>7, <1>9 DEF j

\* Attaching to the NCP or detaching from it keeps the calls and restarts
\* the protothread.
LEMMA AttachOrDetach == ASSUME NEW i, InstOK(i), NEW new, NEW old
  PROVE  LET j == attach_or_detach(i, new, old) IN Kept(i, j) /\ Steady(i, j) /\ j.state = i.state
  <1> DEFINE j == attach_or_detach(i, new, old)
  <1>1. DOMAIN j = InstFields BY DEF attach_or_detach, InstOK, RecOK
  <1>2. FlagsOK(j) BY DEF attach_or_detach, InstOK, RecOK, FlagsOK, InstFields
  <1>3. ModesOK(j) BY DEF attach_or_detach, InstOK, RecOK, ModesOK, InstFields, Ctls, InitPcs
  <1>4. j.tasks = i.tasks /\ j.answers = i.answers /\ Steady(i, j) /\ j.state = i.state
    BY DEF attach_or_detach, InstOK, RecOK, Steady, InstFields
  <1>5. j.failures \in Nat BY DEF attach_or_detach, InstOK, RecOK, InstFields
  <1>. QED BY <1>1, <1>2, <1>3, <1>4, <1>5, KeptSame

\* The interface follows the state without touching the calls.
LEMMA InterfaceFollows == ASSUME NEW i, InstOK(i), NEW new, NEW old
  PROVE  LET j == interface_follows(i, new, old) IN Kept(i, j) /\ Steady(i, j) /\ j.state = i.state
  <1> DEFINE j == interface_follows(i, new, old)
  <1>1. j \in {i, set_online(i, TRUE), set_online(i, FALSE), reset_interface(i)} BY DEF interface_follows
  <1> HIDE DEF j
  <1>2. Kept(i, i) /\ Steady(i, i) BY KeptRefl
  <1>3. Kept(i, set_online(i, TRUE)) /\ Steady(i, set_online(i, TRUE))
      /\ set_online(i, TRUE).state = i.state BY SetOnline
  <1>4. Kept(i, set_online(i, FALSE)) /\ Steady(i, set_online(i, FALSE))
      /\ set_online(i, FALSE).state = i.state BY SetOnline
  <1>5. Kept(i, reset_interface(i)) /\ Steady(i, reset_interface(i))
      /\ reset_interface(i).state = i.state BY ResetInterface
  <1>6. Kept(i, j) /\ Steady(i, j) /\ j.state = i.state BY <1>1, <1>2, <1>3, <1>4, <1>5
  <1>. QED BY <1>6 DEF j

\* Setting mIsCommissioned keeps everything else.
LEMMA Commission == ASSUME NEW i, InstOK(i), NEW b \in BOOLEAN
  PROVE  LET j == [i EXCEPT !.commissioned = b] IN Kept(i, j) /\ Steady(i, j) /\ j.state = i.state
  <1> DEFINE j == [i EXCEPT !.commissioned = b]
  <1>1. DOMAIN j = InstFields BY DEF InstOK, RecOK
  <1>2. FlagsOK(j) BY DEF InstOK, RecOK, FlagsOK, InstFields
  <1>3. ModesOK(j) BY DEF InstOK, RecOK, ModesOK, InstFields
  <1>4. j.failures = i.failures /\ j.tasks = i.tasks /\ j.answers = i.answers /\ Steady(i, j)
      /\ j.state = i.state
    BY DEF InstOK, RecOK, Steady, InstFields
  <1>5. i.failures \in Nat BY DEF InstOK, RecOK
  <1>. QED BY <1>1, <1>2, <1>3, <1>4, <1>5, KeptSame

\* So does the thread mode.
LEMMA ThreadMode == ASSUME NEW i, InstOK(i), NEW b \in BOOLEAN
  PROVE  LET j == [i EXCEPT !.rxon = b] IN Kept(i, j) /\ Steady(i, j) /\ j.state = i.state
  <1> DEFINE j == [i EXCEPT !.rxon = b]
  <1>1. DOMAIN j = InstFields BY DEF InstOK, RecOK
  <1>2. FlagsOK(j) BY DEF InstOK, RecOK, FlagsOK, InstFields
  <1>3. ModesOK(j) BY DEF InstOK, RecOK, ModesOK, InstFields
  <1>4. j.failures = i.failures /\ j.tasks = i.tasks /\ j.answers = i.answers /\ Steady(i, j) /\ j.state = i.state
    BY DEF InstOK, RecOK, Steady, InstFields
  <1>5. i.failures \in Nat BY DEF InstOK, RecOK
  <1>. QED BY <1>1, <1>2, <1>3, <1>4, <1>5, KeptSame

\* So does a user who opens or closes a capture.
LEMMA SetCaptureFlag == ASSUME NEW i, InstOK(i), NEW b \in BOOLEAN
  PROVE  LET j == [i EXCEPT !.capture = b] IN Kept(i, j) /\ Steady(i, j) /\ j.state = i.state
  <1> DEFINE j == [i EXCEPT !.capture = b]
  <1>1. DOMAIN j = InstFields BY DEF InstOK, RecOK
  <1>2. FlagsOK(j) BY DEF InstOK, RecOK, FlagsOK, InstFields
  <1>3. ModesOK(j) BY DEF InstOK, RecOK, ModesOK, InstFields
  <1>4. j.failures = i.failures /\ j.tasks = i.tasks /\ j.answers = i.answers /\ Steady(i, j) /\ j.state = i.state
    BY DEF InstOK, RecOK, Steady, InstFields
  <1>5. i.failures \in Nat BY DEF InstOK, RecOK
  <1>. QED BY <1>1, <1>2, <1>3, <1>4, <1>5, KeptSame

\* And what capture the NCP is believed to make.
LEMMA CaptureMade == ASSUME NEW i, InstOK(i), NEW b \in BOOLEAN
  PROVE  LET j == [i EXCEPT !.pcap = b] IN Kept(i, j) /\ Steady(i, j) /\ j.state = i.state
  <1> DEFINE j == [i EXCEPT !.pcap = b]
  <1>1. DOMAIN j = InstFields BY DEF InstOK, RecOK
  <1>2. FlagsOK(j) BY DEF InstOK, RecOK, FlagsOK, InstFields
  <1>3. ModesOK(j) BY DEF InstOK, RecOK, ModesOK, InstFields
  <1>4. j.failures = i.failures /\ j.tasks = i.tasks /\ j.answers = i.answers /\ Steady(i, j) /\ j.state = i.state
    BY DEF InstOK, RecOK, Steady, InstFields
  <1>5. i.failures \in Nat BY DEF InstOK, RecOK
  <1>. QED BY <1>1, <1>2, <1>3, <1>4, <1>5, KeptSame

\* The capture follows the state.
LEMMA CaptureFollows == ASSUME NEW i, InstOK(i), NEW new, NEW old
  PROVE  LET j == capture_follows(i, new, old) IN Kept(i, j) /\ Steady(i, j) /\ j.state = i.state
  <1> DEFINE j == [i EXCEPT !.pcap = FALSE]
  <1>1. Kept(i, j) /\ Steady(i, j) /\ j.state = i.state BY CaptureMade
  <1> HIDE DEF j
  <1>2. Kept(i, i) /\ Steady(i, i) BY KeptRefl
  <1>3. capture_follows(i, new, old) = j \/ capture_follows(i, new, old) = i BY DEF capture_follows, j
  <1>. QED BY <1>1, <1>2, <1>3

\* A change of state keeps the calls; the initialisation is where it was,
\* or starts again.
LEMMA HandleNcpStateChange == ASSUME NEW i, InstOK(i), NEW new, NEW old
  PROVE  LET j == handle_ncp_state_change(i, new, old) IN Kept(i, j) /\ Steady(i, j) /\ j.state = i.state
  <1> DEFINE detach == ~ncp_state_is_detached_from_ncp(old) /\ ncp_state_is_detached_from_ncp(new)
             attach == ncp_state_is_detached_from_ncp(old) /\ ~ncp_state_is_detached_from_ncp(new)
             j == IF attach \/ detach THEN attach_or_detach(i, new, old) ELSE i
             h == IF detach THEN j ELSE interface_follows(j, new, old)
             k == capture_follows(h, new, old)
             l == [k EXCEPT !.commissioned = TRUE]
             m == push_task(l, "info", 0)
  <1> HIDE DEF detach, attach
  <1>1. Kept(i, j) /\ Steady(i, j) /\ j.state = i.state BY AttachOrDetach, KeptRefl
  <1> HIDE DEF j
  <1>2. InstOK(j) BY <1>1, KeptOK
  <1>0. Kept(j, h) /\ Steady(j, h) /\ h.state = j.state BY <1>2, InterfaceFollows, KeptRefl
  <1> HIDE DEF h
  <1>h. Kept(h, k) /\ Steady(h, k) /\ k.state = h.state BY <1>0, <1>2, CaptureFollows, KeptOK
  <1> HIDE DEF k
  <1>3. Kept(j, k) /\ Steady(j, k) /\ k.state = j.state BY <1>0, <1>2, <1>h, KeptTrans, SteadyTrans
  <1>4. InstOK(k) BY <1>2, <1>3, KeptOK
  <1>5. Kept(k, l) /\ Steady(k, l) /\ l.state = k.state BY <1>4, Commission
  <1> HIDE DEF l
  <1>6. InstOK(l) BY <1>4, <1>5, KeptOK
  <1>7. "info" \in DOMAIN Scripts BY DEF Scripts, OwnKinds
  <1>8. Kept(l, m) /\ Steady(l, m) /\ m.state = l.state BY <1>6, <1>7, PushTask
  <1> HIDE DEF m
  <1>9. handle_ncp_state_change(i, new, old) \in {m, k}
    BY DEF handle_ncp_state_change, m, l, k, h, j, detach, attach
  <1>10. Kept(i, k) /\ Steady(i, k) /\ k.state = i.state BY <1>1, <1>3, KeptTrans, SteadyTrans
  <1>11. Kept(i, l) /\ Steady(i, l) /\ l.state = i.state BY <1>5, <1>10, KeptTrans, SteadyTrans
  <1>12. Kept(i, m) /\ Steady(i, m) /\ m.state = i.state BY <1>8, <1>11, KeptTrans, SteadyTrans
  <1>. QED BY <1>9, <1>10, <1>12

\* change_ncp_state keeps the calls; the initialisation is where it was, or
\* starts again.
LEMMA ChangeNcpState == ASSUME NEW i, InstOK(i), NEW new \in NCPState
  PROVE  LET j == change_ncp_state(i, new)
         IN  Kept(i, j) /\ Steady(i, j) /\ InstOK(j)
  <1> DEFINE j == [i EXCEPT !.state = new]
             k == handle_ncp_state_change(j, new, i.state)
  <1>1. DOMAIN j = InstFields BY DEF InstOK, RecOK
  <1>2. FlagsOK(j) BY DEF InstOK, RecOK, FlagsOK, InstFields
  <1>3. ModesOK(j) BY DEF InstOK, RecOK, ModesOK, InstFields
  <1>4. j.failures = i.failures /\ j.tasks = i.tasks /\ j.answers = i.answers /\ Steady(i, j)
    BY DEF InstOK, RecOK, Steady, InstFields
  <1>5. i.failures \in Nat BY DEF InstOK, RecOK
  <1>6. Kept(i, j) BY <1>1, <1>2, <1>3, <1>4, <1>5, KeptSame
  <1> HIDE DEF j
  <1>7. Kept(j, k) /\ Steady(j, k) BY <1>6, KeptOK, HandleNcpStateChange
  <1> HIDE DEF k
  <1>8. Kept(i, k) /\ Steady(i, k) BY <1>4, <1>6, <1>7, KeptTrans, SteadyTrans
  <1>9. change_ncp_state(i, new) \in {i, j, k} BY DEF change_ncp_state, j, k
  <1>10. Kept(i, i) /\ Steady(i, i) BY KeptRefl
  <1>. QED BY <1>4, <1>6, <1>8, <1>9, <1>10, KeptOK

\* reinitialize_ncp keeps the calls and restarts the protothread.
LEMMA ReinitializeNcp == ASSUME NEW i, InstOK(i)
  PROVE  LET j == reinitialize_ncp(i) IN Kept(i, j) /\ Steady(i, j) /\ InstOK(j)
  <1> DEFINE j == [i EXCEPT !.ctl = "start"]
             k == change_ncp_state(j, "UNINITIALIZED")
  <1>1. DOMAIN j = InstFields BY DEF InstOK, RecOK
  <1>2. FlagsOK(j) BY DEF InstOK, RecOK, FlagsOK, InstFields
  <1>3. ModesOK(j) BY DEF InstOK, RecOK, ModesOK, InstFields, Ctls, InitPcs
  <1>4. j.failures = i.failures /\ j.tasks = i.tasks /\ j.answers = i.answers /\ Steady(i, j)
    BY DEF InstOK, RecOK, Steady, InstFields
  <1>5. i.failures \in Nat BY DEF InstOK, RecOK
  <1>6. Kept(i, j) /\ InstOK(j) BY <1>1, <1>2, <1>3, <1>4, <1>5, KeptSame, KeptOK
  <1> HIDE DEF j
  <1>7. Kept(j, k) /\ Steady(j, k) BY <1>6, ChangeNcpState DEF NCPState
  <1> HIDE DEF k
  <1>8. Kept(i, k) /\ Steady(i, k) /\ InstOK(k) BY <1>4, <1>6, <1>7, KeptTrans, SteadyTrans
  <1>. QED BY <1>8 DEF reinitialize_ncp, k, j

-----------------------------------------------------------------------------
(* The control protothread.                                                *)

\* The initialisation is complete.
Past(i) == i.driver = "NORMAL_OPERATION" /\ ~i.initializing

\* PastInitIsInitialized of an instance.
PastInit(i) == (i.ctl \notin InitPcs \/ i.resetting = "disabled") => Past(i)

\* The driver's state and the initialising flag are what they were.
Moved(i, j) == j.driver = i.driver /\ j.initializing = i.initializing

\* A step of the protothread that only moves on.
LEMMA SetCtl == ASSUME NEW i, InstOK(i), NEW c \in Ctls
  PROVE  LET j == [i EXCEPT !.ctl = c] IN Kept(i, j) /\ Moved(i, j) /\ j.resetting = i.resetting
      /\ j.ctl = c /\ j.state = i.state
  <1> DEFINE j == [i EXCEPT !.ctl = c]
  <1>1. DOMAIN j = InstFields BY DEF InstOK, RecOK
  <1>2. FlagsOK(j) BY DEF InstOK, RecOK, FlagsOK, InstFields
  <1>3. ModesOK(j) BY DEF InstOK, RecOK, ModesOK, InstFields, Ctls, InitPcs, DisabledPcs, Drivers,
      Resetters, NCPState
  <1>4. j.tasks = i.tasks /\ j.answers = i.answers /\ Moved(i, j) /\ j.resetting = i.resetting
      /\ j.ctl = c /\ j.state = i.state
    BY DEF InstOK, RecOK, Steady, Moved, Past, InitPcs, InstFields
  <1>5. j.failures \in Nat BY DEF InstOK, RecOK, InstFields
  <1>. QED BY <1>1, <1>2, <1>3, <1>4, <1>5, KeptSame

\* A step of the protothread that sends a command.
LEMMA SendCtl == ASSUME NEW i, InstOK(i), NEW c, NEW hdr
  PROVE  LET j == send_ctl(i, c, hdr) IN Kept(i, j) /\ Moved(i, j) /\ j.resetting = i.resetting
      /\ j.ctl = i.ctl /\ j.state = i.state
  <1> DEFINE j == send_ctl(i, c, hdr)
  <1>1. DOMAIN j = InstFields BY DEF InstOK, RecOK, send_ctl
  <1>2. FlagsOK(j) BY DEF InstOK, RecOK, FlagsOK, InstFields, send_ctl
  <1>3. ModesOK(j) BY DEF InstOK, RecOK, ModesOK, InstFields, Ctls, InitPcs, DisabledPcs, Drivers,
      Resetters, NCPState, send_ctl
  <1>4. j.tasks = i.tasks /\ j.answers = i.answers /\ Moved(i, j) /\ j.resetting = i.resetting
      /\ j.ctl = i.ctl /\ j.state = i.state
    BY DEF InstOK, RecOK, Steady, Moved, Past, InitPcs, InstFields, send_ctl
  <1>5. j.failures \in Nat BY DEF InstOK, RecOK, InstFields, send_ctl
  <1>. QED BY <1>1, <1>2, <1>3, <1>4, <1>5, KeptSame

\* A step that changes only the flag of the initialisation.
LEMMA SetFlag == ASSUME NEW i, InstOK(i), NEW b \in BOOLEAN
  PROVE  LET j == [i EXCEPT !.initializing = b] IN Kept(i, j) /\ j.driver = i.driver
      /\ j.initializing = b /\ j.resetting = i.resetting /\ j.ctl = i.ctl
  <1> DEFINE j == [i EXCEPT !.initializing = b]
  <1>1. DOMAIN j = InstFields BY DEF InstOK, RecOK
  <1>2. FlagsOK(j) BY DEF InstOK, RecOK, FlagsOK, InstFields
  <1>3. ModesOK(j) BY DEF InstOK, RecOK, ModesOK, InstFields, Ctls, InitPcs, DisabledPcs, Drivers,
      Resetters, NCPState
  <1>4. j.tasks = i.tasks /\ j.answers = i.answers /\ j.driver = i.driver /\ j.initializing = b
      /\ j.resetting = i.resetting /\ j.ctl = i.ctl
    BY DEF InstOK, RecOK, Steady, Moved, Past, InitPcs, InstFields
  <1>5. j.failures \in Nat BY DEF InstOK, RecOK, InstFields
  <1>. QED BY <1>1, <1>2, <1>3, <1>4, <1>5, KeptSame

\* A step that changes the state of the driver.
LEMMA SetDriver ==
  ASSUME NEW i, InstOK(i), NEW d \in Drivers, NEW c \in Ctls,
         NEW j, DOMAIN j = InstFields, j.driver = d, j.ctl = c,
         \A f \in InstFields \ {"driver", "ctl"} : j[f] = i[f]
  PROVE  Kept(i, j) /\ j.initializing = i.initializing /\ j.resetting = i.resetting
  <1>1. DOMAIN j = InstFields OBVIOUS
  <1>2. FlagsOK(j) BY DEF InstOK, RecOK, FlagsOK, InstFields
  <1>3. ModesOK(j) BY DEF InstOK, RecOK, ModesOK, InstFields, Ctls, InitPcs, DisabledPcs, Drivers,
      Resetters, NCPState
  <1>4. j.tasks = i.tasks /\ j.answers = i.answers /\ j.driver = d /\ j.initializing = i.initializing
      /\ j.resetting = i.resetting /\ j.ctl = c
    BY DEF InstOK, RecOK, InstFields
  <1>5. j.failures \in Nat BY DEF InstOK, RecOK, InstFields
  <1>. QED BY <1>1, <1>2, <1>3, <1>4, <1>5, KeptSame

\* A step that counts a failure.
LEMMA CountFailure == ASSUME NEW i, InstOK(i)
  PROVE  LET j == [i EXCEPT !.failures = @ + 1] IN Kept(i, j) /\ Moved(i, j)
      /\ j.resetting = i.resetting /\ j.ctl = i.ctl
  <1> DEFINE j == [i EXCEPT !.failures = @ + 1]
  <1>1. DOMAIN j = InstFields BY DEF InstOK, RecOK
  <1>2. FlagsOK(j) BY DEF InstOK, RecOK, FlagsOK, InstFields
  <1>3. ModesOK(j) BY DEF InstOK, RecOK, ModesOK, InstFields, Ctls, InitPcs, DisabledPcs, Drivers,
      Resetters, NCPState
  <1>4. j.tasks = i.tasks /\ j.answers = i.answers /\ Moved(i, j) /\ j.resetting = i.resetting /\ j.ctl = i.ctl
    BY DEF InstOK, RecOK, Steady, Moved, Past, InitPcs, InstFields
  <1>5. j.failures \in Nat BY DEF InstOK, RecOK, InstFields
  <1>. QED BY <1>1, <1>2, <1>3, <1>4, <1>5, KeptSame

\* vprocess_init waits for the reset.
LEMMA InitReset == ASSUME NEW i, InstOK(i), NEW e
  PROVE  LET j == init_reset_wait(i, e) IN Kept(i, j) /\ j.resetting = i.resetting /\ j.ctl \in InitPcs
  <1> DEFINE j == init_reset_wait(i, e)
  <1>1. DOMAIN j = InstFields BY DEF InstOK, RecOK, init_reset_wait
  <1>2. FlagsOK(j) BY DEF InstOK, RecOK, FlagsOK, InstFields, init_reset_wait
  <1>3. ModesOK(j) BY DEF InstOK, RecOK, ModesOK, InstFields, Ctls, InitPcs, DisabledPcs, Drivers,
      Resetters, NCPState, init_reset_wait
  <1>4. j.tasks = i.tasks /\ j.answers = i.answers /\ j.resetting = i.resetting /\ j.ctl \in InitPcs
    BY DEF InstOK, RecOK, Steady, Moved, Past, InitPcs, InstFields, init_reset_wait
  <1>5. j.failures \in Nat BY DEF InstOK, RecOK, InstFields, init_reset_wait
  <1>. QED BY <1>1, <1>2, <1>3, <1>4, <1>5, KeptSame

\* vprocess_init counts a failure and starts over.
LEMMA InitRetry == ASSUME NEW i, InstOK(i)
  PROVE  LET j == [i EXCEPT !.ctl = "sleep1", !.failures = @ + 1] IN Kept(i, j)
      /\ j.resetting = i.resetting /\ j.ctl \in InitPcs
  <1> DEFINE j == [i EXCEPT !.ctl = "sleep1", !.failures = @ + 1]
  <1>1. DOMAIN j = InstFields BY DEF InstOK, RecOK
  <1>2. FlagsOK(j) BY DEF InstOK, RecOK, FlagsOK, InstFields
  <1>3. ModesOK(j) BY DEF InstOK, RecOK, ModesOK, InstFields, Ctls, InitPcs, DisabledPcs, Drivers,
      Resetters, NCPState
  <1>4. j.tasks = i.tasks /\ j.answers = i.answers /\ j.resetting = i.resetting /\ j.ctl \in InitPcs
    BY DEF InstOK, RecOK, Steady, Moved, Past, InitPcs, InstFields
  <1>5. j.failures \in Nat BY DEF InstOK, RecOK, InstFields
  <1>. QED BY <1>1, <1>2, <1>3, <1>4, <1>5, KeptSame

\* vprocess_init forgets its failures, the reset it expected and the capture.
LEMMA InitSettled == ASSUME NEW i, InstOK(i)
  PROVE  LET j == [i EXCEPT !.pcap = FALSE, !.failures = 0, !.sub = 1, !.resetExpected = FALSE] 
         IN  Kept(i, j) /\ j.resetting = i.resetting
  <1> DEFINE j == [i EXCEPT !.pcap = FALSE, !.failures = 0, !.sub = 1, !.resetExpected = FALSE]
  <1>1. DOMAIN j = InstFields BY DEF InstOK, RecOK
  <1>2. FlagsOK(j) BY DEF InstOK, RecOK, FlagsOK, InstFields
  <1>3. ModesOK(j) BY DEF InstOK, RecOK, ModesOK, InstFields, Ctls, InitPcs, DisabledPcs, Drivers,
      Resetters, NCPState, Subs, Fetches
  <1>4. j.tasks = i.tasks /\ j.answers = i.answers /\ j.resetting = i.resetting
    BY DEF InstOK, RecOK, Steady, Moved, Past, InitPcs, InstFields
  <1>5. j.failures \in Nat BY DEF InstOK, RecOK, InstFields
  <1>. QED BY <1>1, <1>2, <1>3, <1>4, <1>5, KeptSame

\* The exit of vprocess_disabled.
LEMMA DisabledExit == ASSUME NEW i, InstOK(i)
  PROVE  LET j == disabled_exit(i) IN Kept(i, j) /\ Moved(i, j) /\ j.resetting = i.resetting
  <1> DEFINE j == disabled_exit(i)
  <1>1. DOMAIN j = InstFields BY DEF InstOK, RecOK, disabled_exit
  <1>2. FlagsOK(j) BY DEF InstOK, RecOK, FlagsOK, InstFields, disabled_exit
  <1>3. ModesOK(j) BY DEF InstOK, RecOK, ModesOK, InstFields, Ctls, InitPcs, DisabledPcs, Drivers,
      Resetters, NCPState, disabled_exit
  <1>4. j.tasks = i.tasks /\ j.answers = i.answers /\ Moved(i, j) /\ j.resetting = i.resetting
    BY DEF InstOK, RecOK, Steady, Moved, Past, InitPcs, InstFields, disabled_exit
  <1>5. j.failures \in Nat BY DEF InstOK, RecOK, InstFields, disabled_exit
  <1>. QED BY <1>1, <1>2, <1>3, <1>4, <1>5, KeptSame

\* The top of vprocess_disabled.
LEMMA DisabledTop == ASSUME NEW i, InstOK(i)
  PROVE  LET j == disabled_top(i) IN Kept(i, j) /\ Moved(i, j) /\ j.resetting = i.resetting
  <1> DEFINE a == [i EXCEPT !.ctl = "dis_busy"]
  <1>1. Kept(i, a) /\ Moved(i, a) /\ a.resetting = i.resetting BY SetCtl DEF Ctls, DisabledPcs
  <1> HIDE DEF a
  <1>2. disabled_top(i) \in {a, disabled_exit(i)} BY DEF disabled_top, a
  <1>. QED BY <1>1, <1>2, DisabledExit

\* A call of reset_tasks starts its loop and changes nothing else.
LEMMA ResetTasks == ASSUME NEW i, InstOK(i), NEW who \in Resetters
  PROVE  LET j == reset_tasks(i, who) IN Kept(i, j) /\ Moved(i, j) /\ j.ctl = i.ctl /\ j.resetting = who
  <1> DEFINE j == reset_tasks(i, who)
  <1>1. DOMAIN j = InstFields BY DEF InstOK, RecOK, reset_tasks
  <1>2. FlagsOK(j) BY DEF InstOK, RecOK, FlagsOK, InstFields, reset_tasks
  <1>3. ModesOK(j) BY DEF InstOK, RecOK, ModesOK, InstFields, Ctls, InitPcs, DisabledPcs, Drivers,
      Resetters, NCPState, reset_tasks
  <1>4. j.tasks = i.tasks /\ j.answers = i.answers /\ Moved(i, j) /\ j.ctl = i.ctl /\ j.resetting = who
    BY DEF InstOK, RecOK, Steady, Moved, Past, InitPcs, InstFields, reset_tasks
  <1>5. j.failures \in Nat BY DEF InstOK, RecOK, InstFields, reset_tasks
  <1>. QED BY <1>1, <1>2, <1>3, <1>4, <1>5, KeptSame

\* A step that expects a reset of the NCP.
LEMMA ExpectReset == ASSUME NEW i, InstOK(i), NEW c \in Ctls
  PROVE  LET j == [i EXCEPT !.resetExpected = TRUE, !.ctl = c] IN Kept(i, j) /\ Moved(i, j)
      /\ j.resetting = i.resetting
  <1> DEFINE j == [i EXCEPT !.resetExpected = TRUE, !.ctl = c]
  <1>1. DOMAIN j = InstFields BY DEF InstOK, RecOK
  <1>2. FlagsOK(j) BY DEF InstOK, RecOK, FlagsOK, InstFields
  <1>3. ModesOK(j) BY DEF InstOK, RecOK, ModesOK, InstFields, Ctls, InitPcs, DisabledPcs, Drivers,
      Resetters, NCPState
  <1>4. j.tasks = i.tasks /\ j.answers = i.answers /\ Moved(i, j) /\ j.resetting = i.resetting
    BY DEF InstOK, RecOK, Steady, Moved, Past, InitPcs, InstFields
  <1>5. j.failures \in Nat BY DEF InstOK, RecOK, InstFields
  <1>. QED BY <1>1, <1>2, <1>3, <1>4, <1>5, KeptSame

\* A step that clears the count of failures.
LEMMA ClearFailures == ASSUME NEW i, InstOK(i), NEW c \in Ctls
  PROVE  LET j == [i EXCEPT !.ctl = c, !.failures = 0] IN Kept(i, j) /\ Moved(i, j) /\ j.resetting = i.resetting
  <1> DEFINE j == [i EXCEPT !.ctl = c, !.failures = 0]
  <1>1. DOMAIN j = InstFields BY DEF InstOK, RecOK
  <1>2. FlagsOK(j) BY DEF InstOK, RecOK, FlagsOK, InstFields
  <1>3. ModesOK(j) BY DEF InstOK, RecOK, ModesOK, InstFields, Ctls, InitPcs, DisabledPcs, Drivers,
      Resetters, NCPState
  <1>4. j.tasks = i.tasks /\ j.answers = i.answers /\ Moved(i, j) /\ j.resetting = i.resetting
    BY DEF InstOK, RecOK, Steady, Moved, Past, InitPcs, InstFields
  <1>5. j.failures \in Nat BY DEF InstOK, RecOK, InstFields
  <1>. QED BY <1>1, <1>2, <1>3, <1>4, <1>5, KeptSame

\* set_initializing_ncp keeps the calls.
LEMMA SetInitializing == ASSUME NEW i, InstOK(i), NEW b \in BOOLEAN
  PROVE  LET j == set_initializing_ncp(i, b)
         IN  /\ Kept(i, j) /\ InstOK(j)
             /\ j.driver = i.driver /\ j.resetting = i.resetting /\ j.initializing = b
  <1> DEFINE j == [i EXCEPT !.initializing = b]
             k == change_ncp_state(j, "UNINITIALIZED")
             l == handle_ncp_state_change(j, j.state, "UNINITIALIZED")
             r == set_initializing_ncp(i, b)
  <1>1. Kept(i, j) /\ j.driver = i.driver /\ j.resetting = i.resetting /\ j.initializing = b BY SetFlag
  <1> HIDE DEF j
  <1>2. InstOK(j) BY <1>1, KeptOK
  <1>3. Kept(j, k) /\ Steady(j, k) BY <1>2, ChangeNcpState DEF NCPState
  <1>4. Kept(j, l) /\ Steady(j, l) BY <1>2, HandleNcpStateChange
  <1> HIDE DEF k, l
  <1>5. r \in {j, k, l} \/ (i.initializing = b /\ r = i) BY DEF set_initializing_ncp, j, k, l
  <1> HIDE DEF r
  <1>6. Kept(i, k) /\ Kept(i, l) /\ Kept(i, i) BY <1>1, <1>3, <1>4, KeptTrans, KeptRefl
  <1>7. /\ Kept(i, r) /\ InstOK(r)
        /\ r.driver = i.driver /\ r.resetting = i.resetting /\ r.initializing = b
    BY <1>1, <1>3, <1>4, <1>5, <1>6, KeptOK DEF Steady
  <1>. QED BY <1>7 DEF r

\* The beginning of vprocess_init keeps the calls.
LEMMA InitBegin == ASSUME NEW i, InstOK(i)
  PROVE  LET j == init_begin(i) IN Kept(i, j) /\ j.resetting = i.resetting /\ j.ctl \in InitPcs
  <1> DEFINE h == set_initializing_ncp(i, TRUE)
             j == change_ncp_state(h, "UNINITIALIZED")
             k == [j EXCEPT !.driver = "WAITING_FOR_RESET"]
             c == IF i.state = "UPGRADING" THEN "start" ELSE IF k.resetExpected THEN "rst" ELSE "sleep1"
             r == [j EXCEPT !.driver = "WAITING_FOR_RESET", !.ctl = c]
  <1>1. Kept(i, h) /\ InstOK(h) /\ h.resetting = i.resetting BY SetInitializing
  <1> HIDE DEF h
  <1>2. Kept(h, j) /\ Steady(h, j) /\ InstOK(j) BY <1>1, ChangeNcpState DEF NCPState
  <1> HIDE DEF j
  <1>3. c \in InitPcs /\ c \in Ctls BY DEF InitPcs, Ctls
  <1>4. init_begin(i) = [k EXCEPT !.ctl = c] BY DEF init_begin, k, j, h
  <1>5. [k EXCEPT !.ctl = c] = r BY <1>2 DEF InstOK, RecOK, InstFields
  <1> HIDE DEF c, k
  <1>d. "WAITING_FOR_RESET" \in Drivers BY DEF Drivers
  <1>6. Kept(j, r) /\ r.resetting = j.resetting /\ r.ctl = c
    <2>1. /\ DOMAIN r = InstFields /\ r.driver = "WAITING_FOR_RESET" /\ r.ctl = c
          /\ \A f \in InstFields \ {"driver", "ctl"} : r[f] = j[f]
      BY <1>2 DEF InstOK, RecOK, InstFields
    <2> HIDE DEF r
    <2>. QED BY <1>2, <1>3, <1>d, <2>1, SetDriver
  <1> HIDE DEF r
  <1>7. Kept(i, r) BY <1>1, <1>2, <1>6, KeptTrans
  <1>. QED BY <1>1, <1>2, <1>3, <1>4, <1>5, <1>6, <1>7 DEF Steady

\* vprocess_init after a firmware upgrade.
LEMMA InitUpgraded == ASSUME NEW i, InstOK(i)
  PROVE  LET j == init_upgraded(i) IN Kept(i, j) /\ j.resetting = i.resetting /\ j.ctl \in InitPcs
  <1> DEFINE n == IF i.upgrade = "failed" THEN 1 ELSE 0
             h == [i EXCEPT !.failures = @ + n, !.upgrade = "none"]
  <1>0. n \in Nat OBVIOUS
  <1> HIDE DEF n
  <1>1. Kept(i, h) /\ h.resetting = i.resetting
    <2>1. DOMAIN h = InstFields BY DEF InstOK, RecOK
    <2>2. FlagsOK(h) BY DEF InstOK, RecOK, FlagsOK, InstFields
    <2>3. ModesOK(h) BY DEF InstOK, RecOK, ModesOK, InstFields
    <2>4. h.tasks = i.tasks /\ h.answers = i.answers /\ h.resetting = i.resetting
      BY DEF InstOK, RecOK, InstFields
    <2>5. h.failures = i.failures + n BY DEF InstOK, RecOK, InstFields
    <2>6. h.failures \in Nat BY <1>0, <2>5 DEF InstOK, RecOK
    <2>. QED BY <2>1, <2>2, <2>3, <2>4, <2>6, KeptSame
  <1>2. init_upgraded(i) = init_begin(h) BY DEF init_upgraded, h, n
  <1> HIDE DEF h
  <1>3. Kept(h, init_begin(h)) /\ init_begin(h).resetting = h.resetting /\ init_begin(h).ctl \in InitPcs
    BY <1>1, KeptOK, InitBegin
  <1>4. Kept(i, init_begin(h)) BY <1>1, <1>3, KeptTrans
  <1>. QED BY <1>1, <1>2, <1>3, <1>4

\* vprocess_init before its first command.
LEMMA InitQuery == ASSUME NEW i, InstOK(i)
  PROVE  LET j == init_query(i) IN Kept(i, j) /\ j.resetting = i.resetting /\ j.ctl \in InitPcs
  <1> DEFINE j == init_query(i)
  <1>1. /\ DOMAIN j = InstFields /\ j.driver = "INITIALIZING" /\ j.ctl = "version"
        /\ \A f \in InstFields \ {"driver", "ctl"} : j[f] = i[f]
    BY DEF InstOK, RecOK, InstFields, init_query
  <1> HIDE DEF j
  <1>2. "INITIALIZING" \in Drivers /\ "version" \in Ctls /\ "version" \in InitPcs
    BY DEF Drivers, Ctls, InitPcs
  <1>3. Kept(i, j) /\ j.resetting = i.resetting /\ j.ctl \in InitPcs BY <1>1, <1>2, SetDriver
  <1>. QED BY <1>3 DEF j

\* The end of vprocess_init: only here does the protothread leave it, with
\* the initialisation complete.
LEMMA InitEnd == ASSUME NEW i, InstOK(i)
  PROVE  LET j == init_end(i) IN Kept(i, j) /\ j.resetting = i.resetting /\ Past(j)
  <1> DEFINE h == [i EXCEPT !.pcap = FALSE, !.failures = 0, !.sub = 1, !.resetExpected = FALSE]
             k == set_initializing_ncp(h, FALSE)
             r == [k EXCEPT !.driver = "NORMAL_OPERATION", !.ctl = "drain"]
  <1>2. Kept(i, h) /\ h.resetting = i.resetting BY InitSettled
  <1> HIDE DEF h
  <1>3. InstOK(h) BY <1>2, KeptOK
  <1>4. Kept(h, k) /\ k.resetting = h.resetting /\ k.initializing = FALSE BY <1>3, SetInitializing
  <1> HIDE DEF k
  <1>5. Kept(i, k) /\ InstOK(k) BY <1>2, <1>4, KeptTrans
  <1>d. "NORMAL_OPERATION" \in Drivers /\ "drain" \in Ctls BY DEF Drivers, Ctls
  <1>6. Kept(k, r) /\ r.driver = "NORMAL_OPERATION" /\ r.initializing = k.initializing
      /\ r.resetting = k.resetting
    <2>1. /\ DOMAIN r = InstFields /\ r.driver = "NORMAL_OPERATION" /\ r.ctl = "drain"
          /\ \A f \in InstFields \ {"driver", "ctl"} : r[f] = k[f]
      BY <1>5 DEF InstOK, RecOK, InstFields
    <2> HIDE DEF r
    <2>. QED BY <1>5, <1>d, <2>1, SetDriver
  <1>7. init_end(i) = r BY DEF init_end, r, k, h
  <1> HIDE DEF r
  <1>8. Kept(i, r) BY <1>5, <1>6, KeptTrans
  <1>. QED BY <1>2, <1>4, <1>6, <1>7, <1>8 DEF Past

\* j is i with the same calls and still initialising, or done with it.
Initialises(i, j) == Kept(i, j) /\ j.resetting = i.resetting /\ (j.ctl \in InitPcs \/ Past(j))

\* A step within vprocess_init and the rest of it.
LEMMA InitialisesOn ==
  ASSUME NEW i, NEW j, NEW k, InstOK(i), Kept(i, j), j.resetting = i.resetting, Initialises(j, k)
  PROVE  Initialises(i, k)
  BY KeptTrans DEF Initialises

\* vprocess_init at the first of the values it fetches, or at the retry.
LEMMA InitAt == ASSUME NEW i, InstOK(i), NEW c \in InitPcs, NEW n \in Subs
  PROVE  Initialises(i, [i EXCEPT !.ctl = c, !.sub = n])
  <1> DEFINE j == [i EXCEPT !.ctl = c, !.sub = n]
  <1>1. DOMAIN j = InstFields BY DEF InstOK, RecOK
  <1>2. FlagsOK(j) BY DEF InstOK, RecOK, FlagsOK, InstFields
  <1>3. ModesOK(j) BY DEF InstOK, RecOK, ModesOK, InstFields, Ctls
  <1>4. j.failures = i.failures /\ j.tasks = i.tasks /\ j.answers = i.answers /\ j.resetting = i.resetting
      /\ j.ctl = c
    BY DEF InstOK, RecOK, InstFields
  <1>5. i.failures \in Nat BY DEF InstOK, RecOK
  <1>6. Kept(i, j) BY <1>1, <1>2, <1>3, <1>4, <1>5, KeptSame
  <1>. QED BY <1>4, <1>6 DEF Initialises

\* vprocess_init where it fails.
LEMMA InitFails == ASSUME NEW i, InstOK(i) PROVE Initialises(i, [i EXCEPT !.ctl = "retry"])
  <1>1. "retry" \in InitPcs /\ "retry" \in Ctls BY DEF Ctls, InitPcs
  <1>. QED BY <1>1, SetCtl DEF Initialises

\* vprocess_init where it sends a command and waits for the answer.
LEMMA InitAsks == ASSUME NEW i, InstOK(i), NEW pc \in InitPcs, NEW c
  PROVE  Initialises(i, send_ctl([i EXCEPT !.ctl = pc], c, "ctl"))
  <1> DEFINE j == [i EXCEPT !.ctl = pc]
             k == send_ctl(j, c, "ctl")
  <1>1. pc \in Ctls BY DEF Ctls
  <1>2. Kept(i, j) /\ j.resetting = i.resetting /\ j.ctl = pc BY <1>1, SetCtl
  <1> HIDE DEF j
  <1>3. Kept(j, k) /\ k.resetting = j.resetting /\ k.ctl = j.ctl BY <1>2, KeptOK, SendCtl
  <1> HIDE DEF k
  <1>4. Initialises(i, k) BY <1>2, <1>3, KeptTrans DEF Initialises
  <1>. QED BY <1>4 DEF k, j

\* vprocess_init before the values it fetches.
LEMMA InitFetch == ASSUME NEW i, InstOK(i) PROVE Initialises(i, init_fetch(i))
  <1>1. "fetch" \in InitPcs /\ 1 \in Subs BY DEF InitPcs, Subs, Fetches
  <1>2. Initialises(i, [i EXCEPT !.ctl = "fetch", !.sub = 1]) BY <1>1, InitAt
  <1>3. Initialises(i, init_end(i)) BY InitEnd DEF Initialises
  <1>. QED BY <1>2, <1>3 DEF init_fetch

\* vprocess_init goes on once the state of the NCP is known.
LEMMA InitGoOn == ASSUME NEW i, InstOK(i) PROVE Initialises(i, init_go_on(i))
  <1>1. "pcapq" \in InitPcs BY DEF InitPcs
  <1>2. Initialises(i, send_ctl([i EXCEPT !.ctl = "pcapq"], "RAW_STREAM", "ctl")) BY <1>1, InitAsks
  <1>. QED BY <1>2, InitFails, InitFetch DEF init_go_on

\* vprocess_init when it has asked for the version.
LEMMA InitVersionSent == ASSUME NEW i, InstOK(i) PROVE Initialises(i, init_version_sent(i))
  <1>1. "stackq" \in InitPcs BY DEF InitPcs
  <1>2. Initialises(i, send_ctl([i EXCEPT !.ctl = "stackq"], "GET_STACK_UP", "ctl")) BY <1>1, InitAsks
  <1>. QED BY <1>2, InitGoOn DEF init_version_sent

\* vprocess_init when it knows whether the stack is up.
LEMMA InitStackKnown == ASSUME NEW i, InstOK(i), NEW e PROVE Initialises(i, init_stack_known(i, e))
  BY InitFails, InitGoOn DEF init_stack_known

\* vprocess_init when the NCP captures again.
LEMMA InitCapturing == ASSUME NEW i, InstOK(i), NEW e PROVE Initialises(i, init_capturing(i, e))
  BY InitFails, InitFetch DEF init_capturing

\* vprocess_init after a value it fetched.
LEMMA InitFetched == ASSUME NEW i, InstOK(i), i.ctl \in InitPcs PROVE Initialises(i, init_fetched(i))
  <1>0. i.sub \in 1..5 /\ Subs = 1..5 /\ Len(Fetches) = 5 BY DEF InstOK, RecOK, ModesOK, Subs, Fetches
  <1>1. CASE i.sub = 5 BY <1>0, <1>1, InitEnd DEF Initialises, init_fetched
  <1>2. CASE i.sub # 5
    <2> DEFINE n == i.sub + 1
               c == i.ctl
    <2>1. n \in Subs BY <1>0, <1>2
    <2>2. [i EXCEPT !.sub = @ + 1] = [i EXCEPT !.ctl = c, !.sub = n]
      BY DEF InstOK, RecOK, InstFields
    <2>3. init_fetched(i) = [i EXCEPT !.ctl = c, !.sub = n] BY <1>0, <1>2, <2>2 DEF init_fetched
    <2>4. c \in InitPcs OBVIOUS
    <2> HIDE DEF n, c
    <2>5. Initialises(i, [i EXCEPT !.ctl = c, !.sub = n]) BY <2>1, <2>4, InitAt
    <2>. QED BY <2>3, <2>5
  <1>. QED BY <1>1, <1>2

\* A command that is only flushed, and the rest of vprocess_init.
LEMMA InitFlushed == ASSUME NEW i, InstOK(i), i.ctl \in InitPcs, NEW c
  PROVE  LET j == send_ctl(i, c, "none")
         IN  /\ Initialises(i, [j EXCEPT !.ctl = "retry"])
             /\ Initialises(i, [j EXCEPT !.ctl = "retry", !.sub = 1])
             /\ Initialises(i, init_version_sent(j))
             /\ Initialises(i, init_fetched(j))
  <1> DEFINE j == send_ctl(i, c, "none")
  <1>1. Kept(i, j) /\ j.resetting = i.resetting /\ j.ctl = i.ctl BY SendCtl
  <1> HIDE DEF j
  <1>2. InstOK(j) BY <1>1, KeptOK
  <1>3. "retry" \in InitPcs /\ 1 \in Subs BY DEF InitPcs, Subs, Fetches
  <1>4. Initialises(j, [j EXCEPT !.ctl = "retry"]) BY <1>2, InitFails
  <1>5. Initialises(j, [j EXCEPT !.ctl = "retry", !.sub = 1]) BY <1>2, <1>3, InitAt
  <1>6. Initialises(j, init_version_sent(j)) BY <1>2, InitVersionSent
  <1>7. Initialises(j, init_fetched(j)) BY <1>1, <1>2, InitFetched
  <1>8. \A k : Initialises(j, k) => Initialises(i, k) BY <1>1, InitialisesOn
  <1>9. /\ Initialises(i, [j EXCEPT !.ctl = "retry"])
        /\ Initialises(i, [j EXCEPT !.ctl = "retry", !.sub = 1])
        /\ Initialises(i, init_version_sent(j))
        /\ Initialises(i, init_fetched(j))
    BY <1>4, <1>5, <1>6, <1>7, <1>8
  <1>. QED BY <1>9 DEF j

\* Every step of vprocess_init keeps the calls, and leaves it only when it
\* is complete.
LEMMA VprocessInit == ASSUME NEW i, InstOK(i), NEW e, i.ctl \in InitPcs
  PROVE  Initialises(i, vprocess_init(i, e))
  <1> DEFINE u == [i EXCEPT !.ctl = "upgrade"]
             v == [i EXCEPT !.ctl = "sleep1", !.failures = @ + 1]
             g == send_ctl(i, "GET_VERSION", "none")
             h == send_ctl(i, Fetches[i.sub], "none")
  <1>1. Kept(i, u) /\ u.resetting = i.resetting /\ u.ctl = "upgrade" BY SetCtl DEF Ctls, InitPcs
  <1> HIDE DEF u
  <1>2. Initialises(i, u) BY <1>1 DEF Initialises, InitPcs
  <1>3. Initialises(i, v) BY InitRetry DEF Initialises
  <1> HIDE DEF v
  <1>4. Initialises(i, init_begin(i)) BY InitBegin DEF Initialises
  <1>5. Initialises(i, init_upgraded(i)) BY InitUpgraded DEF Initialises
  <1>6. Initialises(i, init_reset_wait(i, e)) BY InitReset DEF Initialises
  <1>7. Initialises(i, init_query(i)) BY InitQuery DEF Initialises
  <1>8. Initialises(i, [g EXCEPT !.ctl = "retry"]) /\ Initialises(i, init_version_sent(g)) BY InitFlushed
  <1>9. Initialises(i, [h EXCEPT !.ctl = "retry", !.sub = 1]) /\ Initialises(i, init_fetched(h))
    BY InitFlushed
  <1>10. vprocess_init(i, e) \in {u, v, init_begin(i), init_upgraded(i), init_reset_wait(i, e),
                                 init_query(i), [g EXCEPT !.ctl = "retry"], init_version_sent(g),
                                 init_stack_known(i, e), init_capturing(i, e),
                                 [h EXCEPT !.ctl = "retry", !.sub = 1], init_fetched(h)}
    <2> HIDE DEF g, h
    <2>1. CASE i.ctl \in {"start", "upgrade", "rst", "sleep1"} BY <2>1 DEF vprocess_init, u
    <2>2. CASE i.ctl = "version" BY <2>2 DEF vprocess_init, g
    <2>3. CASE i.ctl = "fetch" BY <2>3 DEF vprocess_init, h
    <2>4. CASE i.ctl \in {"stackq", "pcapq", "retry"} BY <2>4 DEF vprocess_init, v
    <2>. QED BY <2>1, <2>2, <2>3, <2>4 DEF InitPcs
  <1> HIDE DEF g, h
  <1>. QED BY <1>2, <1>3, <1>4, <1>5, <1>6, <1>7, <1>8, <1>9, <1>10, InitStackKnown, InitCapturing

\* vprocess_disabled once the daemon is not busy.
LEMMA DisabledNotBusy == ASSUME NEW i, InstOK(i)
  PROVE  LET j == disabled_not_busy(i) IN Kept(i, j) /\ Moved(i, j)
  <1> DEFINE c == reset_tasks(i, "disabled")
  <1>1. Kept(i, c) /\ Moved(i, c) BY ResetTasks DEF Resetters
  <1> HIDE DEF c
  <1>2. disabled_not_busy(i) \in {disabled_exit(i), c} BY DEF disabled_not_busy, c
  <1>. QED BY <1>1, <1>2, DisabledExit

\* A step of the protothread that starts a task.
LEMMA PushAt == ASSUME NEW i, InstOK(i), NEW c \in Ctls, NEW kind \in DOMAIN Scripts
  PROVE  LET j == push_task([i EXCEPT !.ctl = c], kind, 0)
         IN  Kept(i, j) /\ Moved(i, j) /\ j.resetting = i.resetting
  <1> DEFINE h == [i EXCEPT !.ctl = c]
  <1>1. Kept(i, h) /\ Moved(i, h) /\ h.resetting = i.resetting BY SetCtl
  <1> HIDE DEF h
  <1> DEFINE j == push_task(h, kind, 0)
  <1>2. Kept(h, j) /\ Steady(h, j) BY <1>1, KeptOK, PushTask
  <1> HIDE DEF j
  <1>3. Kept(i, j) BY <1>1, <1>2, KeptTrans
  <1>4. Moved(i, j) /\ j.resetting = i.resetting BY <1>1, <1>2 DEF Moved, Steady
  <1>. QED BY <1>3, <1>4 DEF j, h

\* The tasks the daemon starts by itself have scripts.
LEMMA OwnScripts == OwnKinds \subseteq DOMAIN Scripts
  BY DEF Scripts

\* vprocess_disabled after reset_tasks.
LEMMA DisabledTasksReset == ASSUME NEW i, InstOK(i)
  PROVE  LET j == disabled_tasks_reset(i) IN Kept(i, j) /\ Moved(i, j) /\ j.resetting = i.resetting
  <1> DEFINE a == push_task([i EXCEPT !.ctl = "dis_sleep"], "deep_sleep", 0)
             b == [i EXCEPT !.ctl = "dis_idle1"]
  <1>1. Kept(i, a) /\ Moved(i, a) /\ a.resetting = i.resetting BY PushAt, OwnScripts DEF Ctls, DisabledPcs, OwnKinds
  <1>2. Kept(i, b) /\ Moved(i, b) /\ b.resetting = i.resetting BY SetCtl DEF Ctls, DisabledPcs
  <1> HIDE DEF a, b
  <1>3. disabled_tasks_reset(i) \in {a, b} BY DEF disabled_tasks_reset, a, b
  <1>. QED BY <1>1, <1>2, <1>3

\* vprocess_disabled after the deep sleep task.
LEMMA DisabledSlept == ASSUME NEW i, InstOK(i)
  PROVE  LET j == disabled_slept(i) IN Kept(i, j) /\ Moved(i, j) /\ j.resetting = i.resetting
  <1> DEFINE b == [i EXCEPT !.ctl = "dis_idle1"]
             c == disabled_exit(i)
             a == push_task(c, "reset", 0)
  <1>1. Kept(i, c) /\ Moved(i, c) /\ c.resetting = i.resetting BY DisabledExit
  <1>2. Kept(i, b) /\ Moved(i, b) /\ b.resetting = i.resetting BY SetCtl DEF Ctls, DisabledPcs
  <1>3. disabled_slept(i) \in {a, b, c} BY DEF disabled_slept, a, b, c
  <1> HIDE DEF b, c
  <1>4. Kept(c, a) /\ Steady(c, a) BY <1>1, KeptOK, PushTask, OwnScripts DEF OwnKinds
  <1> HIDE DEF a
  <1>5. Kept(i, a) BY <1>1, <1>4, KeptTrans
  <1>6. Moved(i, a) /\ a.resetting = i.resetting BY <1>1, <1>4 DEF Moved, Steady
  <1>. QED BY <1>1, <1>2, <1>3, <1>5, <1>6

\* vprocess_disabled while the NCP sleeps.
LEMMA DisabledTickle == ASSUME NEW i, InstOK(i), NEW e
  PROVE  LET j == disabled_tickle(i, e) IN Kept(i, j) /\ Moved(i, j) /\ j.resetting = i.resetting
  <1> DEFINE a == [i EXCEPT !.resetExpected = TRUE, !.ctl = "dis_reset"]
             b == send_ctl(a, "RESET", "none")
  <1>1. Kept(i, a) /\ Moved(i, a) /\ a.resetting = i.resetting BY ExpectReset DEF Ctls, DisabledPcs
  <1> HIDE DEF a
  <1>2. Kept(a, b) /\ Moved(a, b) /\ b.resetting = a.resetting BY <1>1, KeptOK, SendCtl
  <1>3. disabled_tickle(i, e) \in {b, disabled_top(i)} BY DEF disabled_tickle, a, b
  <1> HIDE DEF b
  <1>4. Kept(i, b) /\ Moved(i, b) /\ b.resetting = i.resetting BY <1>1, <1>2, KeptTrans DEF Moved
  <1>. QED BY <1>3, <1>4, DisabledTop

\* Every step of vprocess_disabled keeps the calls, and the initialisation
\* complete.
LEMMA VprocessDisabled == ASSUME NEW i, InstOK(i), NEW e, i.ctl \in DisabledPcs
  PROVE  LET j == vprocess_disabled(i, e) IN Kept(i, j) /\ Moved(i, j)
  <1> DEFINE a == [i EXCEPT !.ctl = "dis_idle2"]
  <1>1. Kept(i, a) /\ Moved(i, a) BY SetCtl DEF Ctls, DisabledPcs
  <1> HIDE DEF a
  <1>2. vprocess_disabled(i, e) \in {a, disabled_exit(i), disabled_not_busy(i), disabled_slept(i),
                                      disabled_tickle(i, e)}
    BY DEF vprocess_disabled, DisabledPcs, a
  <1>. QED BY <1>1, <1>2, DisabledExit, DisabledNotBusy, DisabledSlept, DisabledTickle

\* Every step of vprocess_associated keeps the calls, and the
\* initialisation complete.
LEMMA VprocessAssociated == ASSUME NEW i, InstOK(i), NEW e, i.ctl \in {"as1", "as2", "as_noop"}
  PROVE  LET j == vprocess_associated(i, e) IN Kept(i, j) /\ Moved(i, j) /\ j.resetting = i.resetting
  <1> DEFINE a == [i EXCEPT !.ctl = "as2"]
             b == [i EXCEPT !.ctl = "loop"]
             c == [i EXCEPT !.ctl = "as_noop"]
             d == send_ctl(c, "NOOP", "ctl")
             f == [i EXCEPT !.ctl = "loop", !.failures = 0]
             g == reinitialize_ncp(i)
             h == [g EXCEPT !.ctl = "loop"]
             P(j) == Kept(i, j) /\ Moved(i, j) /\ j.resetting = i.resetting
  <1>1. P(a) BY SetCtl DEF Ctls
  <1>2. P(b) BY SetCtl DEF Ctls
  <1>3. P(c) BY SetCtl DEF Ctls
  <1>4. P(f) BY ClearFailures DEF Ctls
  <1>5. P(g) /\ InstOK(g) BY ReinitializeNcp DEF Steady, Moved
  <1> HIDE DEF c, g
  <1>6. Kept(c, d) /\ Moved(c, d) /\ d.resetting = c.resetting BY <1>3, KeptOK, SendCtl
  <1>7. Kept(g, h) /\ Moved(g, h) /\ h.resetting = g.resetting BY <1>5, SetCtl DEF Ctls
  <1>8. vprocess_associated(i, e) \in {a, b, d, f, h} BY DEF vprocess_associated, a, b, c, d, f, g, h
  <1> HIDE DEF a, b, d, f, h
  <1>9. P(d) BY <1>3, <1>6, KeptTrans DEF Moved
  <1>10. P(h) BY <1>5, <1>7, KeptTrans DEF Moved
  <1> HIDE DEF P
  <1>11. P(vprocess_associated(i, e)) BY <1>1, <1>2, <1>4, <1>8, <1>9, <1>10
  <1>. QED BY <1>11 DEF P

\* Every step of vprocess_offline keeps the calls, and the initialisation
\* complete.
LEMMA VprocessOffline == ASSUME NEW i, InstOK(i), NEW e
  PROVE  LET j == vprocess_offline(i, e) IN Kept(i, j) /\ Moved(i, j) /\ j.resetting = i.resetting
  <1> DEFINE j == send_ctl(i, "GET_STACK_UP", "none")
             c == IF ncp_state_is_interface_up(i.state) THEN "loop" ELSE "off_sleep"
             r == [j EXCEPT !.ctl = c]
  <1>1. Kept(i, j) /\ Moved(i, j) /\ j.resetting = i.resetting BY SendCtl
  <1> HIDE DEF j
  <1>2. c \in Ctls BY DEF Ctls
  <1> HIDE DEF c
  <1>3. Kept(j, r) /\ Moved(j, r) /\ r.resetting = j.resetting BY <1>1, <1>2, KeptOK, SetCtl
  <1>4. vprocess_offline(i, e) = r BY DEF vprocess_offline, r, c, j
  <1> HIDE DEF r
  <1>. QED BY <1>1, <1>3, <1>4, KeptTrans DEF Moved

\* The loop that chooses among the protothreads.
LEMMA EventLoop == ASSUME NEW i, InstOK(i)
  PROVE  LET j == event_loop(i) IN Kept(i, j) /\ Moved(i, j) /\ j.resetting = i.resetting
  <1> DEFINE a == [i EXCEPT !.ctl = "start"]
             b == [i EXCEPT !.ctl = "as1"]
             c == [i EXCEPT !.ctl = "off_sleep"]
             P(j) == Kept(i, j) /\ Moved(i, j) /\ j.resetting = i.resetting
  <1>1. P(a) BY SetCtl DEF Ctls, InitPcs
  <1>2. P(b) BY SetCtl DEF Ctls
  <1>3. P(c) BY SetCtl DEF Ctls
  <1>4. P(disabled_top(i)) BY DisabledTop
  <1>5. P(i) BY KeptRefl DEF Steady, Moved
  <1>6. event_loop(i) \in {a, b, c, disabled_top(i), i} BY DEF event_loop, a, b, c
  <1> HIDE DEF a, b, c, P
  <1>7. P(event_loop(i)) BY <1>1, <1>2, <1>3, <1>4, <1>5, <1>6
  <1>. QED BY <1>7 DEF P

\* A step of the control protothread.
LEMMA VprocessEvent == ASSUME NEW i, InstOK(i), NEW e, PastInit(i), i.resetting = "no"
  PROVE  LET j == vprocess_event(i, e) IN Kept(i, j) /\ PastInit(j)
  <1> DEFINE j == vprocess_event(i, e)
             d == [i EXCEPT !.ctl = "loop"]
  <1>0. i.ctl \in Ctls BY DEF InstOK, RecOK, ModesOK
  <1>1. CASE i.ctl \in InitPcs
    <2>0. i.ctl \notin DisabledPcs \cup {"as1", "as2", "as_noop", "off_sleep", "drain", "loop"}
      BY <1>1 DEF InitPcs, DisabledPcs
    <2>1. j = vprocess_init(i, e) BY <1>1, <2>0 DEF vprocess_event
    <2> HIDE DEF j
    <2>2. Kept(i, j) /\ j.resetting = i.resetting /\ (j.ctl \in InitPcs \/ Past(j))
      BY <1>1, <2>1, VprocessInit DEF Initialises
    <2>3. Kept(i, j) /\ PastInit(j) BY <2>2 DEF PastInit
    <2>. QED BY <2>3 DEF j
  <1>2. CASE i.ctl \notin InitPcs
    <2>1. Past(i) BY <1>2 DEF PastInit
    <2>2. Kept(i, d) /\ Moved(i, d) BY SetCtl DEF Ctls
    <2>3. j \in {vprocess_disabled(i, e), vprocess_associated(i, e), vprocess_offline(i, e), d, event_loop(i)}
      BY <1>0, <1>2 DEF vprocess_event, Ctls, InitPcs, DisabledPcs, d
    <2>4. Kept(i, j) /\ Moved(i, j)
      <3>1. CASE i.ctl \in DisabledPcs
        <4>1. i.ctl \notin {"as1", "as2", "as_noop", "off_sleep", "drain", "loop"} BY <3>1 DEF DisabledPcs
        <4>. QED BY <1>2, <3>1, <4>1, VprocessDisabled DEF vprocess_event
      <3>2. CASE i.ctl \in {"as1", "as2", "as_noop"}
        BY <1>2, <3>2, VprocessAssociated DEF vprocess_event, DisabledPcs
      <3>3. CASE i.ctl = "off_sleep" BY <1>2, <3>3, VprocessOffline DEF vprocess_event, DisabledPcs
      <3>4. CASE i.ctl = "drain" BY <1>2, <2>2, <3>4 DEF vprocess_event, DisabledPcs
      <3>5. CASE i.ctl = "loop" BY <1>2, <3>5, EventLoop DEF vprocess_event, DisabledPcs
      <3>. QED BY <1>0, <1>2, <3>1, <3>2, <3>3, <3>4, <3>5 DEF Ctls
    <2> HIDE DEF j
    <2>5. Past(j) BY <2>1, <2>4 DEF Past, Moved
    <2>6. Kept(i, j) /\ PastInit(j) BY <2>4, <2>5 DEF PastInit
    <2>. QED BY <2>6 DEF j
  <1>. QED BY <1>1, <1>2

-----------------------------------------------------------------------------
(* The frames from the NCP, and the resets.                                *)

\* A state change that also clears mIsCommissioned.
LEMMA ClearCommissioned == ASSUME NEW i, InstOK(i), NEW new \in NCPState
  PROVE  LET j == [change_ncp_state(i, new) EXCEPT !.commissioned = FALSE] IN Kept(i, j) /\ Steady(i, j)
  <1> DEFINE k == change_ncp_state(i, new)
             j == [k EXCEPT !.commissioned = FALSE]
  <1>1. Kept(i, k) /\ Steady(i, k) /\ InstOK(k) BY ChangeNcpState
  <1> HIDE DEF k
  <1>2. Kept(k, j) /\ Steady(k, j) BY <1>1, Commission
  <1> HIDE DEF j
  <1>3. Kept(i, j) /\ Steady(i, j) BY <1>1, <1>2, KeptTrans, SteadyTrans
  <1>. QED BY <1>3 DEF j, k

\* An NCP whose version is not ours may need an upgrade.
LEMMA SetNcpVersionString == ASSUME NEW i, InstOK(i)
  PROVE  LET j == set_ncp_version_string(i) IN Kept(i, j) /\ Steady(i, j)
  <1> DEFINE k == change_ncp_state(i, "UPGRADING")
             j == [k EXCEPT !.upgrade = "busy"]
  <1>1. Kept(i, k) /\ Steady(i, k) /\ InstOK(k) BY ChangeNcpState DEF NCPState
  <1> HIDE DEF k
  <1>2. DOMAIN j = InstFields BY <1>1 DEF InstOK, RecOK
  <1>3. FlagsOK(j) BY <1>1 DEF InstOK, RecOK, FlagsOK, InstFields
  <1>4. ModesOK(j) BY <1>1 DEF InstOK, RecOK, ModesOK, InstFields
  <1>5. j.failures = k.failures /\ j.tasks = k.tasks /\ j.answers = k.answers /\ Steady(k, j)
    BY <1>1 DEF InstOK, RecOK, Steady, InstFields
  <1>6. k.failures \in Nat BY <1>1 DEF InstOK, RecOK
  <1>7. Kept(k, j) BY <1>1, <1>2, <1>3, <1>4, <1>5, <1>6, KeptSame
  <1> HIDE DEF j
  <1>8. Kept(i, j) /\ Steady(i, j) BY <1>1, <1>5, <1>7, KeptTrans, SteadyTrans
  <1>. QED BY <1>8 DEF j, k, set_ncp_version_string

\* The thread mode may take the state to ASSOCIATING or to ISOLATED.
LEMMA ValueIsThreadMode == ASSUME NEW i, InstOK(i), NEW b \in BOOLEAN
  PROVE  LET j == value_is_thread_mode(i, b) IN Kept(i, j) /\ Steady(i, j)
  <1> DEFINE h == [i EXCEPT !.rxon = b]
  <1>1. Kept(i, h) /\ Steady(i, h) BY ThreadMode
  <1>2. value_is_thread_mode(i, b) \in {h, change_ncp_state(h, "ASSOCIATING"), change_ncp_state(h, "ISOLATED")}
    BY DEF value_is_thread_mode, h
  <1> HIDE DEF h
  <1>3. ASSUME NEW new \in NCPState
        PROVE  Kept(i, change_ncp_state(h, new)) /\ Steady(i, change_ncp_state(h, new))
    <2> DEFINE k == change_ncp_state(h, new)
    <2>1. Kept(h, k) /\ Steady(h, k) BY <1>1, KeptOK, ChangeNcpState
    <2> HIDE DEF k
    <2>2. Kept(i, k) /\ Steady(i, k) BY <1>1, <2>1, KeptTrans, SteadyTrans
    <2>. QED BY <2>2 DEF k
  <1>. QED BY <1>1, <1>2, <1>3 DEF NCPState

\* Whether the network is saved may take the state to OFFLINE.
LEMMA ValueIsNetSaved == ASSUME NEW i, InstOK(i), NEW b \in BOOLEAN
  PROVE  LET j == value_is_net_saved(i, b) IN Kept(i, j) /\ Steady(i, j)
  <1> DEFINE h == [i EXCEPT !.commissioned = b]
             k == change_ncp_state(h, "OFFLINE")
  <1>1. Kept(i, h) /\ Steady(i, h) BY Commission
  <1>2. value_is_net_saved(i, b) \in {h, k} BY DEF value_is_net_saved, h, k
  <1> HIDE DEF h
  <1>3. Kept(h, k) /\ Steady(h, k) BY <1>1, KeptOK, ChangeNcpState DEF NCPState
  <1> HIDE DEF k
  <1>4. Kept(i, k) /\ Steady(i, k) BY <1>1, <1>3, KeptTrans, SteadyTrans
  <1>. QED BY <1>1, <1>2, <1>4

\* The value of a flag is one.
FrameOK(f) == DOMAIN f = {"v", "b", "hdr"} /\ (f.v \in {"is_mode", "is_saved"} => f.b \in BOOLEAN)

\* A frame moves the state of the NCP at most.
LEMMA HandleNcpSpinelValueIs == ASSUME NEW i, InstOK(i), NEW f, FrameOK(f)
  PROVE  LET j == handle_ncp_spinel_value_is(i, f) IN Kept(i, j) /\ Steady(i, j)
  <1> DEFINE j == handle_ncp_spinel_value_is(i, f)
             P(k) == Kept(i, k) /\ Steady(i, k)
             off == [change_ncp_state(i, "OFFLINE") EXCEPT !.commissioned = FALSE]
  <1>1. \A new \in NCPState : P(change_ncp_state(i, new)) BY ChangeNcpState
  <1>2. P(off) BY ClearCommissioned DEF NCPState
  <1>3. P(i) BY KeptRefl
  <1>4. P(set_ncp_version_string(i)) BY SetNcpVersionString
  <1> HIDE DEF P, off
  <1>5. P(value_is_stack_up(i, f.b))
    <2>1. value_is_stack_up(i, f.b) \in {i, off, change_ncp_state(i, "ASSOCIATED"),
                                          change_ncp_state(i, "ISOLATED")}
        BY DEF value_is_stack_up, off
    <2>. QED BY <1>1, <1>2, <1>3, <2>1 DEF NCPState
  <1>6. P(value_is_if_up(i, f.b))
    <2>1. value_is_if_up(i, f.b) \in {i, off} BY DEF value_is_if_up, off
    <2>. QED BY <1>2, <1>3, <2>1
  <1>7. P(value_is_net_role(i, f.b))
    <2>1. value_is_net_role(i, f.b) \in {i, change_ncp_state(i, "ASSOCIATED"), change_ncp_state(i, "ISOLATED")}
      BY DEF value_is_net_role
    <2>. QED BY <1>1, <1>3, <2>1 DEF NCPState
  <1>8. P(value_is_power_state(i, f.b))
    <2>1. value_is_power_state(i, f.b) \in {i, change_ncp_state(i, "DEEP_SLEEP"),
        change_ncp_state(i, "COMMISSIONED"), change_ncp_state(i, "OFFLINE")}
      BY DEF value_is_power_state
    <2>. QED BY <1>1, <1>3, <2>1 DEF NCPState
  <1>9. P(value_is_last_status(i, f.v))
    <2>1. value_is_last_status(i, f.v) \in {i, change_ncp_state(i, "COMMISSIONED"), change_ncp_state(i,
        "CREDENTIALS_NEEDED")}
      BY DEF value_is_last_status
    <2>. QED BY <1>1, <1>3, <2>1 DEF NCPState
  <1>10. P(change_ncp_state(i, "FAULT")) BY <1>1 DEF NCPState
  <1>13. f.v = "is_mode" => P(value_is_thread_mode(i, f.b)) BY ValueIsThreadMode DEF P, FrameOK
  <1>14. f.v = "is_saved" => P(value_is_net_saved(i, f.b)) BY ValueIsNetSaved DEF P, FrameOK
  <1>11. \/ j \in {value_is_stack_up(i, f.b), value_is_if_up(i, f.b), value_is_net_role(i, f.b),
                   value_is_power_state(i, f.b), value_is_last_status(i, f.v),
                   change_ncp_state(i, "FAULT"), set_ncp_version_string(i), i}
         \/ f.v = "is_mode" /\ j = value_is_thread_mode(i, f.b)
         \/ f.v = "is_saved" /\ j = value_is_net_saved(i, f.b)
    <2>1. CASE f.v = "is_stack" BY <2>1 DEF handle_ncp_spinel_value_is, JoinStatus
    <2>2. CASE f.v = "is_if" BY <2>2 DEF handle_ncp_spinel_value_is, JoinStatus
    <2>3. CASE f.v = "is_role" BY <2>3 DEF handle_ncp_spinel_value_is, JoinStatus
    <2>4. CASE f.v = "is_power" BY <2>4 DEF handle_ncp_spinel_value_is, JoinStatus
    <2>5. CASE f.v \in JoinStatus BY <2>5 DEF handle_ncp_spinel_value_is, JoinStatus
    <2>9. CASE f.v = "is_mode" BY <2>9 DEF handle_ncp_spinel_value_is, JoinStatus
    <2>10. CASE f.v = "is_saved" BY <2>10 DEF handle_ncp_spinel_value_is, JoinStatus
    <2>6. CASE f.v \in {"bad_type", "bad_name"} BY <2>6 DEF handle_ncp_spinel_value_is, JoinStatus
    <2>7. CASE f.v = "old_version" BY <2>7 DEF handle_ncp_spinel_value_is, JoinStatus
    <2>8. CASE f.v \notin {"is_stack", "is_if", "is_role", "is_power", "is_mode", "is_saved", "bad_type",
        "bad_name", "old_version"} \cup JoinStatus
      BY <2>8 DEF handle_ncp_spinel_value_is
    <2>. QED BY <2>1, <2>2, <2>3, <2>4, <2>5, <2>6, <2>7, <2>8, <2>9, <2>10
  <1>12. P(j) BY <1>3, <1>4, <1>5, <1>6, <1>7, <1>8, <1>9, <1>10, <1>11, <1>13, <1>14
  <1>. QED BY <1>12 DEF P

\* The reset that was expected has come.
LEMMA NoResetExpected == ASSUME NEW i, InstOK(i), NEW b \in BOOLEAN
  PROVE  LET j == [i EXCEPT !.resetExpected = b] IN Kept(i, j) /\ Steady(i, j)
  <1> DEFINE j == [i EXCEPT !.resetExpected = b]
  <1>1. DOMAIN j = InstFields BY DEF InstOK, RecOK
  <1>2. FlagsOK(j) BY DEF InstOK, RecOK, FlagsOK, InstFields
  <1>3. ModesOK(j) BY DEF InstOK, RecOK, ModesOK, InstFields
  <1>4. j.failures = i.failures /\ j.tasks = i.tasks /\ j.answers = i.answers /\ Steady(i, j)
    BY DEF InstOK, RecOK, Steady, InstFields
  <1>5. i.failures \in Nat BY DEF InstOK, RecOK
  <1>. QED BY <1>1, <1>2, <1>3, <1>4, <1>5, KeptSame

\* What the handler of a reset does after reset_tasks.
LEMMA ResetHandled == ASSUME NEW i, InstOK(i)
  PROVE  LET j == reset_handled(i) IN Kept(i, j) /\ Steady(i, j)
  <1> DEFINE k == IF i.driver = "NORMAL_OPERATION" THEN reinitialize_ncp(i) ELSE i
             j == [k EXCEPT !.resetExpected = FALSE]
  <1>1. Kept(i, k) /\ Steady(i, k) /\ InstOK(k) BY ReinitializeNcp, KeptRefl
  <1> HIDE DEF k
  <1>2. Kept(k, j) /\ Steady(k, j) BY <1>1, NoResetExpected
  <1> HIDE DEF j
  <1>3. Kept(i, j) /\ Steady(i, j) BY <1>1, <1>2, KeptTrans, SteadyTrans
  <1>. QED BY <1>3 DEF j, k, reset_handled

\* A steady step keeps the initialisation complete.
LEMMA SteadyPast == ASSUME NEW i, NEW j, PastInit(i), Steady(i, j) PROVE PastInit(j)
  BY DEF PastInit, Past, Steady, InitPcs

\* The handler of a reset of the NCP.
LEMMA ValueIsReset == ASSUME NEW i, InstOK(i), PastInit(i), NEW how \in {"reset", "crash"}
  PROVE  LET j == value_is_reset(i, how) IN Kept(i, j) /\ PastInit(j)
  <1> DEFINE a == reset_tasks(i, how)
             b == reset_handled(i)
  <1>1. Kept(i, a) /\ Moved(i, a) /\ a.ctl = i.ctl /\ a.resetting = how BY ResetTasks DEF Resetters
  <1>2. Kept(i, b) /\ PastInit(b) BY ResetHandled, SteadyPast
  <1> HIDE DEF a, b
  <1>3. PastInit(a) BY <1>1 DEF PastInit, Past, Moved
  <1>4. value_is_reset(i, how) \in {a, b} BY DEF value_is_reset, a, b
  <1>. QED BY <1>1, <1>2, <1>3, <1>4

\* What process() does after reset_tasks with a misbehaving NCP.
LEMMA MisbehavingReset == ASSUME NEW i, InstOK(i)
  PROVE  LET j == misbehaving_reset(i) IN Kept(i, j) /\ Steady(i, j)
  <1> DEFINE h == reinitialize_ncp(i)
             k == IF h.failures >= FailureThreshold THEN change_ncp_state(h, "FAULT") ELSE h
             j == [k EXCEPT !.misbehaving = FALSE]
  <1>1. Kept(i, h) /\ Steady(i, h) /\ InstOK(h) BY ReinitializeNcp
  <1> HIDE DEF h
  <1>2. Kept(h, k) /\ Steady(h, k) /\ InstOK(k) BY <1>1, ChangeNcpState, KeptRefl DEF NCPState
  <1> HIDE DEF k
  <1>3. DOMAIN j = InstFields BY <1>2 DEF InstOK, RecOK
  <1>4. FlagsOK(j) BY <1>2 DEF InstOK, RecOK, FlagsOK, InstFields
  <1>5. ModesOK(j) BY <1>2 DEF InstOK, RecOK, ModesOK, InstFields
  <1>6. j.failures = k.failures /\ j.tasks = k.tasks /\ j.answers = k.answers /\ Steady(k, j)
    BY <1>2 DEF InstOK, RecOK, Steady, InstFields
  <1>7. k.failures \in Nat BY <1>2 DEF InstOK, RecOK
  <1>8. Kept(k, j) BY <1>2, <1>3, <1>4, <1>5, <1>6, <1>7, KeptSame
  <1> HIDE DEF j
  <1>9. Kept(i, k) /\ Steady(i, k) BY <1>1, <1>2, KeptTrans, SteadyTrans
  <1>10. Kept(i, j) /\ Steady(i, j) BY <1>1, <1>2, <1>6, <1>8, <1>9, KeptTrans, SteadyTrans
  <1>. QED BY <1>10 DEF j, k, h, misbehaving_reset

-----------------------------------------------------------------------------
(* The queue and the calls it carries.                                     *)

\* r is q without its element at n.
Without(q, n, r) ==
    /\ IsQueue(r)
    /\ Len(r) = Len(q) - 1
    /\ \A m \in 1..Len(r) : r[m] = IF m < n THEN q[m] ELSE q[m + 1]

\* RemoveAt takes one element out of a queue.
LEMMA RemoveAtQueue == ASSUME NEW q, IsQueue(q), NEW n \in 1..Len(q) PROVE Without(q, n, RemoveAt(q, n))
  <1> DEFINE S == {q[m] : m \in 1..Len(q)}
             a == SubSeq(q, 1, n - 1)
             b == SubSeq(q, n + 1, Len(q))
  <1>1. q \in Seq(S) /\ Len(q) \in Nat BY DEF IsQueue
  <1> HIDE DEF S
  <1>2. a \in Seq(S) /\ Len(a) = n - 1 /\ \A m \in 1..(n - 1) : a[m] = q[m] BY <1>1
  <1>3. b \in Seq(S) /\ Len(b) = Len(q) - n /\ \A m \in 1..(Len(q) - n) : b[m] = q[n + m] BY <1>1
  <1> HIDE DEF a, b
  <1>4. IsQueue(a) /\ IsQueue(b) BY <1>2, <1>3, QueueOf
  <1> DEFINE r == a \o b
  <1>5. /\ IsQueue(r) /\ Len(r) = Len(a) + Len(b)
        /\ \A p \in 1..Len(a) : r[p] = a[p]
        /\ \A p \in 1..(Len(a) + Len(b)) : p > Len(a) => r[p] = b[p - Len(a)] /\ p - Len(a) \in 1..Len(b)
    BY <1>4, QueueConcat
  <1> HIDE DEF r
  <1>6. Len(r) = Len(q) - 1 BY <1>1, <1>2, <1>3, <1>5
  <1>7. ASSUME NEW m \in 1..Len(r) PROVE r[m] = IF m < n THEN q[m] ELSE q[m + 1]
    <2>1. CASE m < n
      <3>1. m \in 1..(n - 1) BY <2>1
      <3>2. m \in 1..Len(a) BY <1>2, <3>1
      <3>. QED BY <1>2, <1>5, <2>1, <3>1, <3>2
    <2>2. CASE m >= n
      <3>1. m > Len(a) /\ m \in 1..(Len(a) + Len(b)) BY <1>1, <1>2, <1>3, <1>5, <2>2
      <3>2. r[m] = b[m - Len(a)] /\ m - Len(a) \in 1..Len(b) BY <1>5, <3>1
      <3>3. m - Len(a) \in 1..(Len(q) - n) /\ n + (m - Len(a)) = m + 1 BY <1>1, <1>2, <1>3, <3>2
      <3>4. b[m - Len(a)] = q[m + 1] BY <1>3, <3>3
      <3>. QED BY <2>2, <3>2, <3>4
    <2>. QED BY <1>1, <1>6, <2>1, <2>2
  <1>8. Without(q, n, r) BY <1>5, <1>6, <1>7 DEF Without
  <1>9. RemoveAt(q, n) = r BY DEF RemoveAt, r, a, b
  <1>. QED BY <1>8, <1>9

\* Tail takes the first.
LEMMA TailQueue == ASSUME NEW q, IsQueue(q), Len(q) > 0 PROVE Without(q, 1, Tail(q)) /\ Head(q) = q[1]
  <1> DEFINE S == {q[m] : m \in 1..Len(q)}
  <1>1. q \in Seq(S) /\ Len(q) \in Nat BY DEF IsQueue
  <1> HIDE DEF S
  <1>2. q # <<>> BY <1>1
  <1>3. Tail(q) \in Seq(S) /\ Len(Tail(q)) = Len(q) - 1 /\ Head(q) = q[1] BY <1>1, <1>2
  <1>4. \A m \in 1..(Len(q) - 1) : Tail(q)[m] = q[m + 1] BY <1>1, <1>2
  <1>5. IsQueue(Tail(q)) BY <1>3, QueueOf
  <1>6. \A m \in 1..(Len(q) - 1) : ~(m < 1) BY <1>1
  <1>. QED BY <1>3, <1>4, <1>5, <1>6 DEF Without

\* A task that has done nothing yet but check and wait.
Waiting(t) ==
    /\ ~t.err /\ ~t.sent
    /\ \A m \in 1..(t.pc - 1) : Scripts[t.kind][m].op \in {"require", "await"}

\* QueuedTasksWait of a queue.
InLine(q) == \A n \in 1..Len(q) : n > 1 => Waiting(q[n])

\* A fresh task has done nothing.
LEMMA FreshWaits == ASSUME NEW t, Fresh(t) PROVE Waiting(t)
  BY DEF Fresh, Waiting

\* A queue that grows stays in line.
LEMMA GrownInLine == ASSUME NEW q, NEW r, IsQueue(q), InLine(q), Grown(q, r) PROVE InLine(r)
  <1>1. Len(q) \in Nat /\ Len(r) \in Nat BY DEF IsQueue, Grown
  <1>2. SUFFICES ASSUME NEW n \in 1..Len(r), n > 1 PROVE Waiting(r[n]) BY DEF InLine
  <1>3. CASE n > Len(q) BY <1>3, FreshWaits DEF Grown
  <1>4. CASE n <= Len(q)
    <2>1. n \in 1..Len(q) BY <1>1, <1>4
    <2>. QED BY <1>2, <2>1 DEF Grown, InLine
  <1>. QED BY <1>1, <1>3, <1>4

\* A queue that loses a task stays in line.
LEMMA WithoutInLine ==
  ASSUME NEW q, NEW r, QueueOK(q), InLine(q), NEW n \in 1..Len(q), Without(q, n, r)
  PROVE  QueueOK(r) /\ InLine(r)
  <1>1. Len(q) \in Nat /\ Len(r) = Len(q) - 1 BY DEF IsQueue, QueueOK, Without
  <1>2. ASSUME NEW m \in 1..Len(r) PROVE TaskOK(r[m]) /\ (m > 1 => Waiting(r[m]))
    <2>1. m \in 1..Len(q) /\ m + 1 \in 1..Len(q) BY <1>1
    <2>2. CASE m < n BY <2>1, <2>2 DEF Without, QueueOK, InLine
    <2>3. CASE ~(m < n)
      <3>1. r[m] = q[m + 1] BY <2>3 DEF Without
      <3>2. m + 1 > 1 BY <1>1
      <3>. QED BY <2>1, <3>1, <3>2 DEF QueueOK, InLine
    <2>. QED BY <2>2, <2>3
  <1>. QED BY <1>2 DEF QueueOK, InLine, Without

\* MaxCalls is the length of the longest plan.
LEMMA MaxCallsBounds == MaxCalls \in Nat /\ \A s \in Scenarios : Len(s.plan) <= MaxCalls
  <1> DEFINE L == {Len(s.plan) : s \in Scenarios}
             P(n) == \A s \in Scenarios : Len(s.plan) <= n
  <1>1. \A s \in Scenarios : Len(s.plan) \in Nat BY PlansAssumption
  <1>2. \E n \in L : P(n) BY PlansAssumption
  <1>3. MaxCalls = CHOOSE n \in L : P(n) BY DEF MaxCalls
  <1> HIDE DEF P
  <1>4. MaxCalls \in L /\ P(MaxCalls) BY <1>2, <1>3
  <1>. QED BY <1>1, <1>4 DEF P

\* The calls with their tasks and answers: CallsInQueue of a queue, the
\* answers and the number of calls made.
Called(q, a, m) ==
    /\ m \in 0..MaxCalls
    /\ DOMAIN a = CallIds
    /\ \A n \in 1..Len(q) : q[n].id \in 0..m
    /\ \A k, n \in 1..Len(q) : q[k].id = q[n].id => k = n \/ q[k].id = 0
    /\ \A c \in CallIds :
          /\ Len(a[c]) <= 1
          /\ a[c] = <<>> <=> (c > m \/ \E n \in 1..Len(q) : q[n].id = c)

\* What the callers see of them.
Seen(a, m) ==
    [c \in CallIds |->
        IF c > m THEN "none"
        ELSE CASE a[c] = <<>> -> "pending"
               [] Len(a[c]) = 1 -> "answered"
               [] OTHER -> "twice"]

\* b is a with one more answer to the call id, if there is such a call.
Answered(a, b, id) ==
    IF id = 0 THEN b = a ELSE \E x : b = [a EXCEPT ![id] = Append(@, x)]

\* The same tasks carry the same calls; others carry none.
SameCalls(q, r) ==
    /\ Len(q) \in Nat /\ Len(r) \in Nat
    /\ Len(q) <= Len(r)
    /\ \A n \in 1..Len(q) : r[n].id = q[n].id
    /\ \A n \in 1..Len(r) : n > Len(q) => r[n].id = 0

\* What grows a queue carries no call.
LEMMA GrownSameCalls == ASSUME NEW q, NEW r, IsQueue(q), Grown(q, r) PROVE SameCalls(q, r)
  BY DEF Grown, IsQueue, SameCalls, Fresh

\* The calls are in the queue as long as the same tasks carry them.
LEMMA SameCallsCalled ==
  ASSUME NEW q, NEW r, NEW a, NEW m, Called(q, a, m), SameCalls(q, r)
  PROVE  Called(r, a, m)
  <1>1. Len(q) \in Nat /\ Len(r) \in Nat /\ Len(q) <= Len(r) BY DEF SameCalls
  <1>0. m \in Nat /\ MaxCalls \in Nat BY MaxCallsBounds DEF Called
  <1>2. ASSUME NEW n \in 1..Len(r)
        PROVE  /\ r[n].id \in 0..m
               /\ r[n].id = 0 \/ (n \in 1..Len(q) /\ r[n].id = q[n].id)
    <2>1. CASE n > Len(q) BY <1>0, <2>1 DEF SameCalls
    <2>2. CASE n <= Len(q)
      <3>1. n \in 1..Len(q) BY <1>1, <2>2
      <3>. QED BY <3>1 DEF SameCalls, Called
    <2>. QED BY <1>1, <2>1, <2>2
  <1>3. ASSUME NEW k \in 1..Len(r), NEW n \in 1..Len(r), r[k].id = r[n].id PROVE k = n \/ r[k].id = 0
    BY <1>2, <1>3 DEF Called
  <1>4. ASSUME NEW c \in CallIds
        PROVE (\E n \in 1..Len(q) : q[n].id = c) <=> (\E n \in 1..Len(r) : r[n].id = c)
    <2>1. c # 0 BY <1>0 DEF CallIds
    <2>2. \A n \in 1..Len(q) : n \in 1..Len(r) BY <1>1
    <2>. QED BY <1>2, <2>1, <2>2 DEF SameCalls
  <1>. QED BY <1>2, <1>3, <1>4 DEF Called

\* One more answer to a call without any is its only one.
LEMMA OneAnswer ==
  ASSUME NEW a, DOMAIN a = CallIds, NEW b, NEW id \in CallIds, Answered(a, b, id), a[id] = <<>>
  PROVE  /\ DOMAIN b = CallIds
         /\ Len(b[id]) = 1 /\ b[id] # <<>>
         /\ \A c \in CallIds : c # id => b[c] = a[c]
  <1>1. id # 0 BY MaxCallsBounds DEF CallIds
  <1>2. PICK x : b = [a EXCEPT ![id] = Append(@, x)] BY <1>1 DEF Answered
  <1>3. DOMAIN b = CallIds BY <1>2
  <1>4. b[id] = Append(<<>>, x) BY <1>2
  <1>5. Len(Append(<<>>, x)) = 1 /\ Append(<<>>, x) # <<>> OBVIOUS
  <1>6. \A c \in CallIds : c # id => b[c] = a[c] BY <1>2
  <1>. QED BY <1>3, <1>4, <1>5, <1>6

\* Answering the call of a task and taking the task from the queue.
LEMMA TaskAnswered ==
  ASSUME NEW q, NEW r, NEW a, NEW b, NEW m, Len(q) \in Nat, Called(q, a, m), NEW n \in 1..Len(q),
         Without(q, n, r), Answered(a, b, q[n].id)
  PROVE  Called(r, b, m)
  <1> DEFINE id == q[n].id
  <1>1. Len(r) = Len(q) - 1 /\ Len(r) \in Nat BY DEF Without
  <1>2. id \in 0..m /\ m \in Nat /\ MaxCalls \in Nat /\ DOMAIN a = CallIds BY MaxCallsBounds DEF Called
  <1>3. ASSUME NEW k \in 1..Len(r)
        PROVE  \E p \in 1..Len(q) : p # n /\ p = (IF k < n THEN k ELSE k + 1) /\ r[k] = q[p]
    <2>1. CASE k < n BY <1>1, <2>1 DEF Without
    <2>2. CASE ~(k < n)
      <3>1. k + 1 \in 1..Len(q) /\ k + 1 # n BY <1>1, <2>2
      <3>2. r[k] = q[k + 1] BY <2>2 DEF Without
      <3>. QED BY <2>2, <3>1, <3>2
    <2>. QED BY <2>1, <2>2
  <1>4. ASSUME NEW p \in 1..Len(q), p # n PROVE \E k \in 1..Len(r) : r[k] = q[p]
    <2>1. CASE p < n
      <3>1. p \in 1..Len(r) BY <1>1, <2>1
      <3>. QED BY <2>1, <3>1 DEF Without
    <2>2. CASE p > n
      <3>1. p - 1 \in 1..Len(r) /\ ~(p - 1 < n) /\ (p - 1) + 1 = p BY <1>1, <2>2
      <3>2. r[p - 1] = q[p] BY <3>1 DEF Without
      <3>. QED BY <3>1, <3>2
    <2>. QED BY <1>4, <2>1, <2>2
  <1>5. \A k \in 1..Len(r) : r[k].id \in 0..m BY <1>3 DEF Called
  <1>6. ASSUME NEW k \in 1..Len(r), NEW l \in 1..Len(r), r[k].id = r[l].id PROVE k = l \/ r[k].id = 0
    <2>1. PICK p \in 1..Len(q) : p # n /\ p = (IF k < n THEN k ELSE k + 1) /\ r[k] = q[p] BY <1>3
    <2>2. PICK o \in 1..Len(q) : o # n /\ o = (IF l < n THEN l ELSE l + 1) /\ r[l] = q[o] BY <1>3
    <2>3. p = o \/ r[k].id = 0 BY <1>6, <2>1, <2>2 DEF Called
    <2>4. p = o => k = l BY <2>1, <2>2
    <2>. QED BY <2>3, <2>4
  <1>7. ASSUME NEW c \in CallIds, c # id
        PROVE  (\E k \in 1..Len(q) : q[k].id = c) <=> (\E k \in 1..Len(r) : r[k].id = c)
    BY <1>3, <1>4, <1>7
  <1>8. CASE id = 0
    <2>1. b = a BY <1>8 DEF Answered
    <2>2. \A c \in CallIds : c # id BY <1>2, <1>8 DEF CallIds
    <2>. QED BY <1>2, <1>5, <1>6, <1>7, <2>1, <2>2 DEF Called
  <1>9. CASE id # 0
    <2>0. id \in CallIds BY <1>2, <1>9 DEF CallIds, Called
    <2>1. a[id] = <<>> BY <2>0 DEF Called
    <2>2. /\ DOMAIN b = CallIds
          /\ Len(b[id]) = 1 /\ b[id] # <<>>
          /\ \A c \in CallIds : c # id => b[c] = a[c] BY <1>2, <2>0, <2>1, OneAnswer
    <2>3. ~ \E k \in 1..Len(r) : r[k].id = id
      <3>1. SUFFICES ASSUME NEW k \in 1..Len(r), r[k].id = id PROVE FALSE OBVIOUS
      <3>2. PICK p \in 1..Len(q) : p # n /\ r[k] = q[p] BY <1>3
      <3>. QED BY <1>9, <3>1, <3>2 DEF Called
    <2>4. ~(id > m) BY <1>2
    <2> HIDE DEF id
    <2>5. ASSUME NEW c \in CallIds
          PROVE  /\ Len(b[c]) <= 1
                 /\ b[c] = <<>> <=> (c > m \/ \E k \in 1..Len(r) : r[k].id = c)
      <3>1. CASE c = id
        <4>0. Len(b[c]) = 1 /\ b[c] # <<>> BY <2>2, <3>1
        <4>1. Len(b[c]) <= 1 BY <4>0
        <4>. QED BY <2>3, <2>4, <3>1, <4>0, <4>1
      <3>2. CASE c # id
        <4>1. b[c] = a[c] BY <2>2, <3>2
        <4>2. Len(a[c]) <= 1 /\ (a[c] = <<>> <=> (c > m \/ \E k \in 1..Len(q) : q[k].id = c)) BY DEF Called
        <4>. QED BY <1>7, <3>2, <4>1, <4>2
      <3>. QED BY <3>1, <3>2
    <2>. QED BY <1>2, <1>5, <1>6, <2>2, <2>5 DEF Called
  <1>. QED BY <1>8, <1>9

\* What Append makes of a queue.
LEMMA AppendQueue == ASSUME NEW q, NEW t, IsQueue(q)
  PROVE  /\ IsQueue(Append(q, t)) /\ Len(Append(q, t)) = Len(q) + 1
         /\ Append(q, t)[Len(q) + 1] = t
         /\ \A n \in 1..Len(q) : Append(q, t)[n] = q[n]
  <1> DEFINE S == {q[n] : n \in 1..Len(q)} \cup {t}
  <1>1. q \in Seq(S) /\ Len(q) \in Nat BY DEF IsQueue
  <1>2. t \in S OBVIOUS
  <1> HIDE DEF S
  <1>3. Append(q, t) \in Seq(S) BY <1>1, <1>2
  <1>4. IsQueue(Append(q, t)) BY <1>3, QueueOf
  <1>5. Len(Append(q, t)) = Len(q) + 1 /\ Append(q, t)[Len(q) + 1] = t
        /\ \A n \in 1..Len(q) : Append(q, t)[n] = q[n] BY <1>1, <1>2
  <1>. QED BY <1>4, <1>5

\* A call is made: a new task carries it.
LEMMA CallQueued ==
  ASSUME NEW q, NEW a, NEW m, NEW t, IsQueue(q), Called(q, a, m), m < MaxCalls, t.id = m + 1
  PROVE  Called(Append(q, t), a, m + 1)
  <1> DEFINE r == Append(q, t)
  <1>1. m \in Nat /\ MaxCalls \in Nat /\ Len(q) \in Nat /\ m + 1 \in 0..MaxCalls
      BY MaxCallsBounds DEF Called, IsQueue
  <1>2. Len(r) = Len(q) + 1 /\ r[Len(q) + 1] = t /\ \A n \in 1..Len(q) : r[n] = q[n] BY AppendQueue
  <1> HIDE DEF r
  <1>3. ASSUME NEW n \in 1..Len(r)
        PROVE  \/ n \in 1..Len(q) /\ r[n] = q[n] /\ r[n].id \in 0..m
               \/ n = Len(q) + 1 /\ r[n].id = m + 1
    <2>1. CASE n <= Len(q) BY <1>1, <1>2, <2>1 DEF Called
    <2>2. CASE n > Len(q) BY <1>1, <1>2, <2>2
    <2>. QED BY <1>1, <2>1, <2>2
  <1>4. \A n \in 1..Len(r) : r[n].id \in 0..(m + 1) BY <1>1, <1>3
  <1>5. ASSUME NEW k \in 1..Len(r), NEW n \in 1..Len(r), r[k].id = r[n].id PROVE k = n \/ r[k].id = 0
    <2>1. CASE k \in 1..Len(q) /\ n \in 1..Len(q) BY <1>2, <1>5, <2>1 DEF Called
    <2>2. CASE k = Len(q) + 1 /\ n = Len(q) + 1 BY <2>2
    <2>3. CASE k \in 1..Len(q) /\ n = Len(q) + 1 BY <1>1, <1>2, <1>3, <1>5, <2>3
    <2>4. CASE n \in 1..Len(q) /\ k = Len(q) + 1 BY <1>1, <1>2, <1>3, <1>5, <2>4
    <2>. QED BY <1>3, <2>1, <2>2, <2>3, <2>4
  <1>6. ASSUME NEW c \in CallIds PROVE a[c] = <<>> <=> (c > m + 1 \/ \E n \in 1..Len(r) : r[n].id = c)
    <2>0. c \in Nat BY <1>1 DEF CallIds
    <2>1. CASE c = m + 1
      <3>1. Len(q) + 1 \in 1..Len(r) /\ r[Len(q) + 1].id = c BY <1>1, <1>2, <2>1
      <3>2. c > m BY <1>1, <2>1
      <3>. QED BY <3>1, <3>2 DEF Called
    <2>2. CASE c # m + 1
      <3>1. c > m + 1 <=> c > m BY <1>1, <2>0, <2>2
      <3>2. (\E n \in 1..Len(r) : r[n].id = c) => (\E n \in 1..Len(q) : q[n].id = c) BY <1>3, <2>2
      <3>3. \A n \in 1..Len(q) : n \in 1..Len(r) BY <1>1, <1>2
      <3>4. (\E n \in 1..Len(q) : q[n].id = c) => (\E n \in 1..Len(r) : r[n].id = c) BY <1>2, <3>3
      <3>5. a[c] = <<>> <=> (c > m \/ \E n \in 1..Len(q) : q[n].id = c) BY DEF Called
      <3>. QED BY <3>1, <3>2, <3>4, <3>5
    <2>. QED BY <2>1, <2>2
  <1>7. DOMAIN a = CallIds /\ \A c \in CallIds : Len(a[c]) <= 1 BY DEF Called
  <1>8. Called(r, a, m + 1) BY <1>1, <1>4, <1>5, <1>6, <1>7 DEF Called
  <1>. QED BY <1>8 DEF r

\* A call is rejected: it is answered at once.
LEMMA CallRejected ==
  ASSUME NEW q, NEW a, NEW b, NEW m, Len(q) \in Nat, Called(q, a, m), m < MaxCalls, Answered(a, b, m + 1)
  PROVE  Called(q, b, m + 1)
  <1> DEFINE id == m + 1
  <1>1. m \in Nat /\ MaxCalls \in Nat /\ id \in 0..MaxCalls /\ id # 0 /\ DOMAIN a = CallIds
      BY MaxCallsBounds DEF Called
  <1>2. id \in CallIds BY <1>1 DEF CallIds
  <1>3. a[id] = <<>> BY <1>1, <1>2 DEF Called
  <1> HIDE DEF id
  <1>4. /\ DOMAIN b = CallIds
        /\ Len(b[id]) = 1 /\ b[id] # <<>>
        /\ \A c \in CallIds : c # id => b[c] = a[c] BY <1>1, <1>2, <1>3, OneAnswer DEF id
  <1>9. ASSUME NEW n \in 1..Len(q) PROVE q[n].id \in 0..id /\ q[n].id # id
    <2>1. q[n].id \in 0..m BY DEF Called
    <2>. QED BY <1>1, <2>1 DEF id
  <1>10. ASSUME NEW c \in CallIds
         PROVE  /\ Len(b[c]) <= 1
                /\ b[c] = <<>> <=> (c > id \/ \E n \in 1..Len(q) : q[n].id = c)
    <2>0. c \in Nat BY <1>1 DEF CallIds
    <2>1. CASE c = id
      <3>1. Len(b[c]) = 1 /\ b[c] # <<>> BY <1>4, <2>1
      <3>2. Len(b[c]) <= 1 BY <3>1
      <3>3. ~(c > id) BY <2>0, <2>1
      <3>. QED BY <1>9, <2>1, <3>1, <3>2, <3>3
    <2>2. CASE c # id
      <3>1. b[c] = a[c] BY <1>4, <2>2
      <3>2. Len(a[c]) <= 1 /\ (a[c] = <<>> <=> (c > m \/ \E n \in 1..Len(q) : q[n].id = c)) BY DEF Called
      <3>3. c > m <=> c > id BY <1>1, <2>0, <2>2 DEF id
      <3>. QED BY <3>1, <3>2, <3>3
    <2>. QED BY <2>1, <2>2
  <1>11. \A k, n \in 1..Len(q) : q[k].id = q[n].id => k = n \/ q[k].id = 0 BY DEF Called
  <1>12. Called(q, b, id) BY <1>1, <1>4, <1>9, <1>10, <1>11 DEF Called
  <1>. QED BY <1>12 DEF id

\* A step of the call service, on what the callers see.
Makes(s, u, c, x) == s[c] = "none" /\ u = [s EXCEPT ![c] = x]

\* The service answers some pending calls.
Answers(s, u, done) ==
    /\ \A c \in done : s[c] = "pending"
    /\ u = [c \in CallIds |-> IF c \in done THEN "answered" ELSE s[c]]

\* A step of the service, or none.
Serves(s, u) ==
    \/ \E c \in CallIds : \E x \in {"pending", "answered"} : Makes(s, u, c, x)
    \/ \E done \in SUBSET CallIds : Answers(s, u, done)

\* What a caller sees of its call.
LEMMA SeenAt ==
  ASSUME NEW a, NEW m \in Nat, NEW c \in CallIds
  PROVE  /\ c > m => Seen(a, m)[c] = "none"
         /\ c <= m /\ a[c] = <<>> => Seen(a, m)[c] = "pending"
         /\ c <= m /\ a[c] # <<>> /\ Len(a[c]) = 1 => Seen(a, m)[c] = "answered"
  <1>1. c \in Nat BY MaxCallsBounds DEF CallIds
  <1>2. CASE c > m BY <1>1, <1>2 DEF Seen
  <1>3. CASE c <= m
    <2>1. ~(c > m) BY <1>1, <1>3
    <2>2. Len(<<>>) # 1 OBVIOUS
    <2>3. CASE a[c] = <<>> BY <2>1, <2>2, <2>3 DEF Seen
    <2>4. CASE a[c] # <<>> /\ Len(a[c]) = 1 BY <2>1, <2>4 DEF Seen
    <2>. QED BY <2>1, <2>3, <2>4
  <1>. QED BY <1>1, <1>2, <1>3

\* A caller sees something of every call.
LEMMA SeenDomain ==
  ASSUME NEW a, NEW m
  PROVE  Seen(a, m) = [c \in CallIds |-> Seen(a, m)[c]] /\ DOMAIN Seen(a, m) = CallIds
  <1> DEFINE f(c) == IF c > m THEN "none"
                     ELSE CASE a[c] = <<>> -> "pending" [] Len(a[c]) = 1 -> "answered" [] OTHER -> "twice"
  <1>1. Seen(a, m) = [c \in CallIds |-> f(c)] BY DEF Seen
  <1> HIDE DEF f
  <1>. QED BY <1>1

\* Two instances seen alike in every call but some are one step apart.
LEMMA SeenElsewhere ==
  ASSUME NEW a, NEW b, NEW m, NEW c, a[c] = b[c], c \in CallIds PROVE Seen(a, m)[c] = Seen(b, m)[c]
  BY DEF Seen

\* Nothing happened: a step of the service that answers nobody.
LEMMA NothingSeen == ASSUME NEW a, NEW m PROVE Serves(Seen(a, m), Seen(a, m))
  <1> DEFINE s == Seen(a, m)
  <1>1. s = [c \in CallIds |-> s[c]] BY SeenDomain
  <1> HIDE DEF s
  <1>2. s = [c \in CallIds |-> IF c \in {} THEN "answered" ELSE s[c]] BY <1>1
  <1>3. Answers(s, s, {}) BY <1>2 DEF Answers
  <1>4. {} \in SUBSET CallIds OBVIOUS
  <1>5. Serves(s, s) BY <1>3, <1>4 DEF Serves
  <1>. QED BY <1>5 DEF s

\* The callers see the answer of a task as a step of the service.
LEMMA TaskAnsweredSeen ==
  ASSUME NEW q, NEW a, NEW b, NEW m, Len(q) \in Nat, Called(q, a, m), NEW n \in 1..Len(q),
         Answered(a, b, q[n].id)
  PROVE  Serves(Seen(a, m), Seen(b, m))
  <1> DEFINE id == q[n].id
  <1>1. id \in 0..m /\ m \in Nat /\ MaxCalls \in Nat /\ m <= MaxCalls BY MaxCallsBounds DEF Called
  <1>2. CASE id = 0
    <2>1. b = a BY <1>2 DEF Answered
    <2>. QED BY <2>1, NothingSeen
  <1>3. CASE id # 0
    <2>1. id \in CallIds /\ id <= m BY <1>1, <1>3 DEF CallIds
    <2>2. a[id] = <<>> BY <2>1 DEF Called
    <2>3. Len(b[id]) = 1 /\ b[id] # <<>> /\ \A c \in CallIds : c # id => b[c] = a[c]
      BY <2>1, <2>2, OneAnswer DEF Called
    <2> HIDE DEF id
    <2> DEFINE s == Seen(a, m)
               u == Seen(b, m)
    <2>4. s[id] = "pending" BY <1>1, <2>1, <2>2, SeenAt
    <2>5. u[id] = "answered" BY <1>1, <2>1, <2>3, SeenAt
    <2>6. \A c \in CallIds : c # id => u[c] = s[c] BY <2>3, SeenElsewhere
    <2>7. u = [c \in CallIds |-> u[c]] BY SeenDomain
    <2> HIDE DEF s, u
    <2>8. u = [c \in CallIds |-> IF c \in {id} THEN "answered" ELSE s[c]] BY <2>5, <2>6, <2>7
    <2>9. Answers(s, u, {id}) BY <2>4, <2>8 DEF Answers
    <2>10. {id} \in SUBSET CallIds BY <2>1
    <2>11. Serves(s, u) BY <2>9, <2>10 DEF Serves
    <2>. QED BY <2>11 DEF s, u
  <1>. QED BY <1>2, <1>3

\* Making a call is seen in that call alone.
LEMMA CallMadeSeen ==
  ASSUME NEW q, NEW a, NEW b, NEW m, Called(q, a, m), m < MaxCalls,
         \A c \in CallIds : c # m + 1 => b[c] = a[c],
         b[m + 1] = <<>> \/ (b[m + 1] # <<>> /\ Len(b[m + 1]) = 1)
  PROVE  Serves(Seen(a, m), Seen(b, m + 1))
  <1> DEFINE id == m + 1
             s == Seen(a, m)
             u == Seen(b, id)
             x == u[id]
  <1>1. m \in Nat /\ MaxCalls \in Nat /\ id \in Nat /\ id \in CallIds /\ id > m
      BY MaxCallsBounds DEF Called, CallIds
  <1>2. s[id] = "none" BY <1>1, SeenAt
  <1>3. x \in {"pending", "answered"} BY <1>1, SeenAt
  <1>4. ASSUME NEW c \in CallIds, c # id PROVE u[c] = s[c]
    <2>1. c \in Nat /\ (c > m <=> c > id) BY <1>1, <1>4 DEF CallIds
    <2>2. b[c] = a[c] BY <1>4
    <2>. QED BY <2>1, <2>2 DEF Seen
  <1>5. u = [c \in CallIds |-> u[c]] /\ s = [c \in CallIds |-> s[c]] BY SeenDomain
  <1> HIDE DEF s, u, id
  <1>6. u = [s EXCEPT ![id] = x] BY <1>1, <1>4, <1>5
  <1>7. Makes(s, u, id, x) BY <1>2, <1>6 DEF Makes
  <1>8. Serves(s, u) BY <1>1, <1>3, <1>7 DEF Serves
  <1>. QED BY <1>8 DEF s, u, id

-----------------------------------------------------------------------------
(* Finishing tasks.                                                        *)

\* What every step of the instance keeps: its shape, the order of its queue,
\* and the calls, which are seen to make a step of the service.
Goes(i, j) ==
    /\ InstOK(j) /\ InLine(j.tasks)
    /\ \A m : Called(i.tasks, i.answers, m) =>
          Called(j.tasks, j.answers, m) /\ Serves(Seen(i.answers, m), Seen(j.answers, m))

\* What keeps the calls makes no step of the service.
LEMMA KeptGoes == ASSUME NEW i, NEW j, InstOK(i), InLine(i.tasks), Kept(i, j) PROVE Goes(i, j)
  <1>1. IsQueue(i.tasks) /\ Grown(i.tasks, j.tasks) /\ j.answers = i.answers BY DEF InstOK, QueueOK, Kept
  <1>2. SameCalls(i.tasks, j.tasks) BY <1>1, GrownSameCalls
  <1>3. InstOK(j) BY KeptOK
  <1>4. InLine(j.tasks) BY <1>1, GrownInLine
  <1>. QED BY <1>1, <1>2, <1>3, <1>4, SameCallsCalled, NothingSeen DEF Goes

\* The callback of the call id was invoked.
Finished(i, j, id) == RecOK(j) /\ Grown(i.tasks, j.tasks) /\ Answered(i.answers, j.answers, id)

\* SpinelNCPTask::finish invokes the callback of its call, once.
LEMMA AnswerCall == ASSUME NEW i, InstOK(i), NEW t, NEW status
  PROVE  LET j == answer(i, t, status) IN Finished(i, j, t.id) /\ Steady(i, j) /\ j.state = i.state
  <1> DEFINE j == answer(i, t, status)
             x == IF t.kind = "reset" THEN "Ok" ELSE status
  <1>0. IsQueue(i.tasks) BY DEF InstOK, QueueOK
  <1>1. CASE t.id = 0
    <2>1. j = i BY <1>1 DEF answer
    <2>2. Kept(i, i) /\ Steady(i, i) BY KeptRefl
    <2>. QED BY <1>1, <2>1, <2>2 DEF Finished, Answered, Kept
  <1>2. CASE t.id # 0
    <2>1. j = [i EXCEPT !.answers = [i.answers EXCEPT ![t.id] = Append(@, x)]] BY <1>2 DEF answer
    <2> HIDE DEF x
    <2>2. DOMAIN j = InstFields BY <2>1 DEF InstOK, RecOK
    <2>3. FlagsOK(j) BY <2>1 DEF InstOK, RecOK, FlagsOK, InstFields
    <2>4. ModesOK(j) BY <2>1 DEF InstOK, RecOK, ModesOK, InstFields
    <2>5. j.failures = i.failures /\ j.tasks = i.tasks /\ Steady(i, j) /\ j.state = i.state
      BY <2>1 DEF InstOK, RecOK, Steady, InstFields
    <2>6. j.answers = [i.answers EXCEPT ![t.id] = Append(@, x)] BY <2>1 DEF InstOK, RecOK, InstFields
    <2> HIDE DEF j
    <2>7. Answered(i.answers, j.answers, t.id) BY <1>2, <2>6 DEF Answered
    <2>8. i.failures \in Nat BY DEF InstOK, RecOK
    <2>9. RecOK(j) BY <2>2, <2>3, <2>4, <2>5, <2>8 DEF RecOK
    <2>10. Finished(i, j, t.id) /\ Steady(i, j) /\ j.state = i.state
      BY <1>0, <2>5, <2>7, <2>9, GrownRefl DEF Finished
    <2>. QED BY <2>10 DEF j
  <1>. QED BY <1>1, <1>2

\* An answer preserves the type of the instance.
LEMMA FinishedOK == ASSUME NEW i, NEW j, NEW id, InstOK(i), Finished(i, j, id) PROVE InstOK(j)
  BY GrownQueue DEF Finished, InstOK

\* An answer, then a step that keeps the calls.
LEMMA FinishedKept ==
  ASSUME NEW i, NEW j, NEW k, NEW id, InstOK(i), Finished(i, j, id), Kept(j, k) PROVE Finished(i, k, id)
  BY GrownTrans DEF Finished, Kept, InstOK, QueueOK

\* A step that keeps the calls, then an answer.
LEMMA KeptFinished ==
  ASSUME NEW i, NEW j, NEW k, NEW id, InstOK(i), Kept(i, j), Finished(j, k, id) PROVE Finished(i, k, id)
  BY GrownTrans DEF Finished, Kept, InstOK, QueueOK

\* Every finish() invokes the callback of its call once, whatever state it
\* restores.
LEMMA FinishTask == ASSUME NEW i, InstOK(i), NEW t, t.last \in NCPState, NEW status
  PROVE  LET j == finish(i, t, status) IN Finished(i, j, t.id) /\ Steady(i, j)
  <1> DEFINE P(j) == Finished(i, j, t.id) /\ Steady(i, j)
             c == change_ncp_state(i, t.last)
             a == answer(i, t, status)
             ca == answer(c, t, status)
             ac == change_ncp_state(a, t.last)
             r == [i EXCEPT !.resetExpected = FALSE]
             ra == answer(r, t, status)
  <1>1. Kept(i, c) /\ Steady(i, c) /\ InstOK(c) BY ChangeNcpState
  <1>2. P(a) /\ InstOK(a) BY AnswerCall, FinishedOK
  <1>3. Kept(i, r) /\ Steady(i, r) /\ InstOK(r) BY NoResetExpected, KeptOK
  <1>4. P(ca)
    <2> HIDE DEF c
    <2>1. Finished(c, ca, t.id) /\ Steady(c, ca) BY <1>1, AnswerCall
    <2> HIDE DEF ca
    <2>. QED BY <1>1, <2>1, KeptFinished, SteadyTrans
  <1>5. P(ac)
    <2> HIDE DEF a
    <2>1. Kept(a, ac) /\ Steady(a, ac) BY <1>2, ChangeNcpState
    <2> HIDE DEF ac
    <2>. QED BY <1>2, <2>1, FinishedKept, SteadyTrans
  <1>6. P(ra)
    <2> HIDE DEF r
    <2>1. Finished(r, ra, t.id) /\ Steady(r, ra) BY <1>3, AnswerCall
    <2> HIDE DEF ra
    <2>. QED BY <1>3, <2>1, KeptFinished, SteadyTrans
  <1>7. finish(i, t, status) \in {a, ca, ac, ra}
    <2>1. CASE t.kind = "form" BY <2>1 DEF finish
    <2>2. CASE t.kind = "join" BY <2>2 DEF finish
    <2>3. CASE t.kind = "joiner_start" BY <2>3 DEF finish
    <2>4. CASE t.kind = "deep_sleep" BY <2>4 DEF finish
    <2>5. CASE t.kind \notin {"form", "join", "joiner_start", "deep_sleep"} BY <2>5 DEF finish
    <2>. QED BY <2>1, <2>2, <2>3, <2>4, <2>5
  <1> HIDE DEF P, a, ca, ac, ra
  <1>8. P(finish(i, t, status)) BY <1>2, <1>4, <1>5, <1>6, <1>7
  <1>. QED BY <1>8 DEF P

\* The destructor of a finished task does nothing more.
LEMMA DestroyedOnce == ASSUME NEW i, NEW t, "id" \in DOMAIN t, NEW status
  PROVE  finish_and_destroy(i, t, status) = finish(i, t, status)
  <1> DEFINE j == finish(i, t, status)
             u == emptied(t)
  <1>1. u.id = 0 BY DEF emptied
  <1> HIDE DEF j, u
  <1>2. answer(j, u, "Canceled") = j BY <1>1 DEF answer
  <1>. QED BY <1>2 DEF finish_and_destroy, j, u

\* Taking the finished task from the queue.
LEMMA TaskGone ==
  ASSUME NEW i, NEW j, NEW q, InstOK(i), InLine(i.tasks), NEW n \in 1..Len(i.tasks), Finished(i, j,
      i.tasks[n].id),
         Without(j.tasks, n, q)
  PROVE  LET k == [j EXCEPT !.tasks = q] IN Goes(i, k) /\ Steady(j, k)
  <1> DEFINE k == [j EXCEPT !.tasks = q]
  <1>1. InstOK(j) /\ RecOK(j) /\ Grown(i.tasks, j.tasks) /\ Answered(i.answers, j.answers, i.tasks[n].id)
    BY FinishedOK DEF Finished
  <1>2. QueueOK(i.tasks) /\ IsQueue(i.tasks) BY DEF InstOK, QueueOK
  <1>3. Len(i.tasks) \in Nat /\ Len(j.tasks) \in Nat /\ Len(i.tasks) <= Len(j.tasks)
      BY <1>1, <1>2 DEF IsQueue, Grown
  <1>4. n \in 1..Len(j.tasks) /\ j.tasks[n] = i.tasks[n] BY <1>1, <1>3 DEF Grown
  <1>5. InLine(j.tasks) /\ QueueOK(j.tasks) BY <1>1, <1>2, GrownInLine DEF InstOK
  <1>6. QueueOK(q) /\ InLine(q) BY <1>4, <1>5, WithoutInLine
  <1>7. DOMAIN k = InstFields BY <1>1 DEF RecOK
  <1>8. FlagsOK(k) BY <1>1 DEF RecOK, FlagsOK, InstFields
  <1>9. ModesOK(k) BY <1>1 DEF RecOK, ModesOK, InstFields
  <1>10. k.failures = j.failures /\ k.tasks = q /\ k.answers = j.answers /\ Steady(j, k)
    BY <1>1 DEF RecOK, Steady, InstFields
  <1>11. j.failures \in Nat BY <1>1 DEF RecOK
  <1> HIDE DEF k
  <1>12. InstOK(k) /\ InLine(k.tasks) BY <1>6, <1>7, <1>8, <1>9, <1>10, <1>11 DEF InstOK, RecOK
  <1>13. ASSUME NEW m, Called(i.tasks, i.answers, m)
         PROVE  Called(k.tasks, k.answers, m) /\ Serves(Seen(i.answers, m), Seen(k.answers, m))
    <2>1. Called(j.tasks, i.answers, m) BY <1>1, <1>2, <1>13, GrownSameCalls, SameCallsCalled
    <2>2. Called(q, j.answers, m) BY <1>1, <1>3, <1>4, <2>1, TaskAnswered
    <2>3. Serves(Seen(i.answers, m), Seen(j.answers, m)) BY <1>1, <1>3, <1>13, TaskAnsweredSeen
    <2>. QED BY <1>10, <2>2, <2>3
  <1>14. Goes(i, k) BY <1>12, <1>13 DEF Goes
  <1>. QED BY <1>10, <1>14 DEF k

\* A task that ends answers its call and leaves the queue.
LEMMA EndTask ==
  ASSUME NEW i, InstOK(i), InLine(i.tasks), NEW n \in 1..Len(i.tasks), NEW status
  PROVE  LET k == end_task(i, n, status) IN Goes(i, k) /\ Steady(i, k)
  <1> DEFINE t == i.tasks[n]
             j == finish(i, t, status)
             q == RemoveAt(j.tasks, n)
             k == [j EXCEPT !.tasks = q]
  <1>1. t.last \in NCPState /\ "id" \in DOMAIN t BY DEF InstOK, QueueOK, TaskOK, TaskFields
  <1>7. finish_and_destroy(i, t, status) = j BY <1>1, DestroyedOnce
  <1>2. Finished(i, j, t.id) /\ Steady(i, j) BY <1>1, FinishTask
  <1> HIDE DEF j
  <1>3. IsQueue(j.tasks) /\ n \in 1..Len(j.tasks) BY <1>2 DEF Finished, Grown, IsQueue, InstOK, QueueOK
  <1>4. Without(j.tasks, n, q) BY <1>3, RemoveAtQueue
  <1> HIDE DEF q
  <1>5. Goes(i, k) /\ Steady(j, k) BY <1>2, <1>4, TaskGone
  <1> HIDE DEF k
  <1>6. Goes(i, k) /\ Steady(i, k) BY <1>2, <1>5, SteadyTrans
  <1>8. end_task(i, n, status) = k BY <1>7 DEF end_task, k, q, t
  <1>. QED BY <1>6, <1>8

\* A turn of the loop of reset_tasks answers the call of the first task and
\* takes it out.
LEMMA ResetOneTask ==
  ASSUME NEW i, InstOK(i), InLine(i.tasks), Len(i.tasks) > 0
  PROVE  LET k == reset_task(i) IN Goes(i, k) /\ Steady(i, k)
  <1> DEFINE t == i.tasks[1]
             status == ResetStatus(i.resetting)
             j == finish(i, t, status)
             q == Tail(j.tasks)
             k == [j EXCEPT !.tasks = q]
  <1>0. IsQueue(i.tasks) /\ Len(i.tasks) \in Nat /\ 1 \in 1..Len(i.tasks) BY DEF InstOK, QueueOK, IsQueue
  <1>1. t.last \in NCPState /\ "id" \in DOMAIN t BY <1>0 DEF InstOK, QueueOK, TaskOK, TaskFields
  <1>8. finish_and_destroy(i, t, status) = j BY <1>1, DestroyedOnce
  <1>9. Head(i.tasks) = t BY <1>0, TailQueue
  <1>7. reset_task(i) = k BY <1>8, <1>9 DEF reset_task
  <1> HIDE DEF status
  <1>2. Finished(i, j, t.id) /\ Steady(i, j) BY <1>1, FinishTask
  <1> HIDE DEF j
  <1>3. IsQueue(j.tasks) /\ Len(j.tasks) > 0 BY <1>0, <1>2 DEF Finished, Grown, IsQueue
  <1>4. Without(j.tasks, 1, q) BY <1>3, TailQueue
  <1> HIDE DEF q
  <1>5. Goes(i, k) /\ Steady(j, k) BY <1>0, <1>2, <1>4, TaskGone
  <1> HIDE DEF k
  <1>6. Goes(i, k) /\ Steady(i, k) BY <1>2, <1>5, SteadyTrans
  <1>. QED BY <1>6, <1>7

-----------------------------------------------------------------------------
(* The steps of a task.                                                    *)

\* A task is at a step it can leave.
LEMMA StepFacts == ASSUME NEW t, TaskOK(t)
  PROVE  /\ IsStep(StepOf(t))
         /\ StepOf(t).op # "finish" => t.pc + 1 \in 1..Len(ScriptOf(t))
         /\ StepOf(t).op = "skip" => StepOf(t).n \in Nat /\ (t.pc + 1) + StepOf(t).n \in 1..Len(ScriptOf(t))
  <1> DEFINE s == ScriptOf(t)
             st == StepOf(t)
  <1>1. WellFormed(s) BY ScriptsRun DEF TaskOK, ScriptOf, Program
  <1>2. st = s[t.pc] BY DEF StepOf, ScriptOf
  <1>3. t.pc \in 1..Len(s) /\ Len(s) \in Nat BY <1>1 DEF TaskOK, WellFormed, IsQueue
  <1> HIDE DEF s, st
  <1>4. IsStep(st) /\ (st.op # "finish" => t.pc < Len(s))
        /\ (st.op = "skip" => st.n \in Nat /\ t.pc + 1 + st.n <= Len(s)) BY <1>1, <1>2, <1>3 DEF WellFormed
  <1>5. st.op # "finish" => t.pc + 1 \in 1..Len(s) BY <1>3, <1>4
  <1>6. st.op = "skip" => st.n \in Nat /\ (t.pc + 1) + st.n \in 1..Len(s) BY <1>3, <1>4
  <1>. QED BY <1>4, <1>5, <1>6 DEF s, st

\* A step of the task at n that answers no call.
Ran(i, j) == Goes(i, j) /\ Steady(i, j) /\ j.answers = i.answers /\ Len(i.tasks) <= Len(j.tasks)

\* A step that keeps the calls is a step of a task.
LEMMA KeptRan == ASSUME NEW i, NEW j, InstOK(i), InLine(i.tasks), Kept(i, j), Steady(i, j) PROVE Ran(i, j)
  BY KeptGoes DEF Ran, Kept, Grown

\* Ran is transitive.
LEMMA RanTrans == ASSUME NEW i, NEW j, NEW k, InstOK(i), Ran(i, j), Ran(j, k) PROVE Ran(i, k)
  <1>1. Steady(i, k) BY SteadyTrans DEF Ran
  <1>2. Len(i.tasks) \in Nat /\ Len(j.tasks) \in Nat /\ Len(k.tasks) \in Nat
    BY DEF Ran, Goes, InstOK, QueueOK, IsQueue
  <1>3. Len(i.tasks) <= Len(k.tasks) BY <1>2 DEF Ran
  <1>4. Goes(i, k) BY DEF Ran, Goes
  <1>. QED BY <1>1, <1>3, <1>4 DEF Ran

\* Replacing a task by itself at a later step.
LEMMA TaskPut ==
  ASSUME NEW i, NEW j, InstOK(i), InLine(i.tasks), RecOK(j), Steady(i, j), j.answers = i.answers,
         NEW n \in 1..Len(i.tasks), NEW u, j.tasks = [i.tasks EXCEPT ![n] = u],
         TaskOK(u), u.id = i.tasks[n].id, n > 1 => Waiting(u)
  PROVE  Ran(i, j) /\ Len(j.tasks) = Len(i.tasks) /\ j.tasks[n] = u
  <1>1. QueueOK(i.tasks) /\ IsQueue(i.tasks) /\ Len(i.tasks) \in Nat BY DEF InstOK, QueueOK, IsQueue
  <1>2. /\ IsQueue(j.tasks) /\ Len(j.tasks) = Len(i.tasks)
        /\ \A m \in 1..Len(i.tasks) : j.tasks[m] = IF m = n THEN u ELSE i.tasks[m]
    <2> DEFINE q == i.tasks
               S == {q[m] : m \in 1..Len(q)} \cup {u}
               r == [q EXCEPT ![n] = u]
    <2>1. q \in Seq(S) /\ Len(q) \in Nat BY <1>1 DEF IsQueue
    <2>2. u \in S OBVIOUS
    <2> HIDE DEF S
    <2>3. r \in Seq(S) /\ Len(r) = Len(q) BY <2>1, <2>2
    <2>4. \A m \in 1..Len(q) : r[m] = IF m = n THEN u ELSE q[m] BY <2>1
    <2>5. IsQueue(r) BY <2>3, QueueOf
    <2>6. j.tasks = r OBVIOUS
    <2> HIDE DEF r
    <2>. QED BY <2>3, <2>4, <2>5, <2>6
  <1>3. QueueOK(j.tasks) BY <1>1, <1>2 DEF QueueOK
  <1>4. InLine(j.tasks) BY <1>1, <1>2 DEF InLine
  <1>5. \A m \in 1..Len(i.tasks) : j.tasks[m].id = i.tasks[m].id BY <1>2
  <1>6. \A m \in 1..Len(j.tasks) : ~(m > Len(i.tasks)) BY <1>1, <1>2
  <1>7. SameCalls(i.tasks, j.tasks) BY <1>1, <1>2, <1>5, <1>6 DEF SameCalls
  <1>8. Goes(i, j) BY <1>3, <1>4, <1>7, SameCallsCalled, NothingSeen DEF Goes, InstOK
  <1>9. Len(i.tasks) <= Len(j.tasks) BY <1>1, <1>2
  <1>. QED BY <1>2, <1>8, <1>9 DEF Ran

\* The instance with another task at n.
PutTask(i, n, u) == [i EXCEPT !.tasks = [@ EXCEPT ![n] = u]]

\* The step of a task that changes nothing but the task.
LEMMA PutTaskRan ==
  ASSUME NEW i, InstOK(i), InLine(i.tasks), NEW n \in 1..Len(i.tasks), NEW u,
         TaskOK(u), u.id = i.tasks[n].id, n > 1 => Waiting(u)
  PROVE  LET j == PutTask(i, n, u) IN Ran(i, j) /\ Len(j.tasks) = Len(i.tasks) /\ j.tasks[n] = u
  <1> DEFINE j == PutTask(i, n, u)
  <1>1. DOMAIN j = InstFields BY DEF InstOK, RecOK, PutTask
  <1>2. FlagsOK(j) BY DEF InstOK, RecOK, FlagsOK, InstFields, PutTask
  <1>3. ModesOK(j) BY DEF InstOK, RecOK, ModesOK, InstFields, PutTask
  <1>4. j.failures = i.failures /\ j.tasks = [i.tasks EXCEPT ![n] = u] /\ j.answers = i.answers /\ Steady(i, j)
    BY DEF InstOK, RecOK, Steady, InstFields, PutTask
  <1>5. i.failures \in Nat BY DEF InstOK, RecOK
  <1> HIDE DEF j
  <1>6. RecOK(j) BY <1>1, <1>2, <1>3, <1>4, <1>5 DEF RecOK
  <1>7. Ran(i, j) /\ Len(j.tasks) = Len(i.tasks) /\ j.tasks[n] = u BY <1>4, <1>6, TaskPut
  <1>. QED BY <1>7 DEF j

\* The task at its next step is a task.
LEMMA NextTask == ASSUME NEW t, TaskOK(t), StepOf(t).op # "finish", NEW ret
  PROVE  LET u == [t EXCEPT !.pc = @ + 1, !.sent = FALSE, !.ret = ret]
         IN  /\ TaskOK(u) /\ u.id = t.id
             /\ Waiting(t) /\ StepOf(t).op \in {"require", "await"} => Waiting(u)
  <1> DEFINE u == [t EXCEPT !.pc = @ + 1, !.sent = FALSE, !.ret = ret]
  <1>1. DOMAIN u = TaskFields BY DEF TaskOK
  <1>2. u.kind = t.kind /\ u.last = t.last /\ u.id = t.id /\ u.pc = t.pc + 1 BY DEF TaskOK, TaskFields
  <1>3. u.err = t.err /\ u.sent = FALSE BY DEF TaskOK, TaskFields
  <1>4. t.pc + 1 \in 1..Len(ScriptOf(t)) BY StepFacts
  <1> HIDE DEF u
  <1>5. ScriptOf(u) = ScriptOf(t) BY <1>2, <1>3 DEF ScriptOf
  <1>6. u.pc \in 1..Len(ScriptOf(u)) BY <1>2, <1>4, <1>5
  <1>7. TaskOK(u) BY <1>1, <1>2, <1>3, <1>6 DEF TaskOK
  <1>8. ASSUME Waiting(t), StepOf(t).op \in {"require", "await"} PROVE Waiting(u)
    <2>1. t.pc \in Nat BY StepFacts, ScriptsRun DEF TaskOK, ScriptOf, Program, WellFormed, IsQueue
    <2>2. ~t.err BY <1>8 DEF Waiting
    <2>3. StepOf(t) = Scripts[t.kind][t.pc] BY <2>2 DEF StepOf
    <2>4. ASSUME NEW m \in 1..(u.pc - 1) PROVE Scripts[u.kind][m].op \in {"require", "await"}
      <3>1. m = t.pc \/ m \in 1..(t.pc - 1) BY <1>2, <2>1
      <3>2. CASE m = t.pc BY <1>2, <1>8, <2>3, <3>2
      <3>3. CASE m \in 1..(t.pc - 1) BY <1>2, <1>8, <3>3 DEF Waiting
      <3>. QED BY <3>1, <3>2, <3>3
    <2>5. ~u.err /\ ~u.sent BY <1>3, <2>2
    <2>. QED BY <2>4, <2>5 DEF Waiting
  <1>9. TaskOK(u) /\ u.id = t.id /\ (Waiting(t) /\ StepOf(t).op \in {"require", "await"} => Waiting(u))
    BY <1>2, <1>7, <1>8
  <1>. QED BY <1>9 DEF u

\* The task that an event is given to, and what may happen to it.
Turns(i, n) ==
    /\ n \in 1..Len(i.tasks)
    /\ StepOf(i.tasks[n]).op # "finish"
    /\ n > 1 => StepOf(i.tasks[n]).op \in {"require", "await"}

\* next_step is a step of a task.
LEMMA NextStep ==
  ASSUME NEW i, InstOK(i), InLine(i.tasks), NEW n, Turns(i, n), NEW ret
  PROVE  LET j == next_step(i, n, ret) IN Ran(i, j) /\ Len(j.tasks) = Len(i.tasks)
  <1> DEFINE t == i.tasks[n]
             u == [t EXCEPT !.pc = @ + 1, !.sent = FALSE, !.ret = ret]
  <1>1. n \in 1..Len(i.tasks) /\ TaskOK(t) BY DEF Turns, InstOK, QueueOK
  <1>2. TaskOK(u) /\ u.id = t.id /\ (Waiting(t) /\ StepOf(t).op \in {"require", "await"} => Waiting(u))
    BY <1>1, NextTask DEF Turns
  <1>3. n > 1 => Waiting(t) BY <1>1 DEF InLine
  <1>4. next_step(i, n, ret) = PutTask(i, n, u) BY DEF next_step, PutTask
  <1> HIDE DEF u
  <1>. QED BY <1>1, <1>2, <1>3, <1>4, PutTaskRan DEF Turns

\* The task under on_error is a task.
LEMMA ErrorTask == ASSUME NEW t, TaskOK(t), NEW ret
  PROVE  LET u == [t EXCEPT !.err = TRUE, !.pc = 1, !.sent = FALSE, !.ret = ret] IN TaskOK(u) /\ u.id = t.id
  <1> DEFINE u == [t EXCEPT !.err = TRUE, !.pc = 1, !.sent = FALSE, !.ret = ret]
  <1>1. DOMAIN u = TaskFields BY DEF TaskOK
  <1>2. u.kind = t.kind /\ u.last = t.last /\ u.id = t.id /\ u.pc = 1 BY DEF TaskOK, TaskFields
  <1>3. u.err = TRUE /\ u.sent = FALSE BY DEF TaskOK, TaskFields
  <1> HIDE DEF u
  <1>4. ScriptOf(u) = ErrorScripts[t.kind] BY <1>2, <1>3 DEF ScriptOf
  <1>5. Len(ErrorScripts[t.kind]) \in Nat /\ Len(ErrorScripts[t.kind]) > 0
    BY ScriptsRun DEF TaskOK, WellFormed, IsQueue
  <1>6. u.pc \in 1..Len(ScriptOf(u)) BY <1>2, <1>4, <1>5
  <1>7. TaskOK(u) BY <1>1, <1>2, <1>3, <1>6 DEF TaskOK
  <1>. QED BY <1>2, <1>7 DEF u

\* goto_on_error is a step of the task in front.
LEMMA GotoOnError ==
  ASSUME NEW i, InstOK(i), InLine(i.tasks), Len(i.tasks) > 0, NEW status
  PROVE  LET j == goto_on_error(i, 1, status) IN Ran(i, j) /\ Len(j.tasks) = Len(i.tasks)
  <1> DEFINE t == i.tasks[1]
             keep == status # "Ok" \/ i.tasks[1].kind = "host_did_wake"
             ret == IF keep THEN status ELSE "Failure"
             u == [t EXCEPT !.err = TRUE, !.pc = 1, !.sent = FALSE, !.ret = ret]
  <1>1. 1 \in 1..Len(i.tasks) /\ TaskOK(t) BY DEF InstOK, QueueOK, IsQueue
  <1> HIDE DEF ret
  <1>2. TaskOK(u) /\ u.id = t.id BY <1>1, ErrorTask
  <1>3. goto_on_error(i, 1, status) = PutTask(i, 1, u) BY DEF goto_on_error, PutTask, ret
  <1> HIDE DEF u
  <1>. QED BY <1>1, <1>2, <1>3, PutTaskRan

\* The front of a queue that is not empty.
LEMMA FrontIsFirst == ASSUME NEW i, InstOK(i), i.tasks # <<>> PROVE 1 \in 1..Len(i.tasks) /\ Len(i.tasks) > 0
  <1>1. IsQueue(i.tasks) BY DEF InstOK, QueueOK
  <1>2. Len(i.tasks) # 0 BY <1>1 DEF IsQueue
  <1>. QED BY <1>1, <1>2 DEF IsQueue

\* The answer to a command is a step of the task in front.
LEMMA CommandDone ==
  ASSUME NEW i, InstOK(i), InLine(i.tasks), Turns(i, 1), NEW st, NEW r
  PROVE  Ran(i, command_done(i, 1, st, r))
  <1> DEFINE t == i.tasks[1]
             passes == CASE st.s = "any" -> TRUE
                    [] st.s = "ok" -> r = "Ok"
                    [] st.s = "okOrAlready" -> r \in {"Ok", "Already"}
                    [] st.s = "okOrBusy" -> r \in {"Ok", "Busy"}
                    [] st.s = "unlock" -> TRUE
             a == IF t.kind = "host_did_wake" THEN "Failure" ELSE r
             b == IF r # "Ok" THEN r ELSE t.ret
  <1> HIDE DEF passes, a, b
  <1>1. Len(i.tasks) > 0 BY DEF Turns, InstOK, QueueOK, IsQueue
  <1>2. command_done(i, 1, st, r) \in {goto_on_error(i, 1, a), next_step(i, 1, b), next_step(i, 1, r)}
    BY DEF command_done, passes, a, b
  <1>. QED BY <1>1, <1>2, GotoOnError, NextStep

\* The task that has sent its command is a task.
LEMMA SendTask == ASSUME NEW t, TaskOK(t)
  PROVE  LET u == [t EXCEPT !.sent = TRUE] IN TaskOK(u) /\ u.id = t.id
  <1> DEFINE u == [t EXCEPT !.sent = TRUE]
  <1>1. DOMAIN u = TaskFields BY DEF TaskOK
  <1>2. u.kind = t.kind /\ u.last = t.last /\ u.id = t.id /\ u.pc = t.pc BY DEF TaskOK, TaskFields
  <1>3. u.err = t.err /\ u.sent = TRUE BY DEF TaskOK, TaskFields
  <1> HIDE DEF u
  <1>4. ScriptOf(u) = ScriptOf(t) BY <1>2, <1>3 DEF ScriptOf
  <1>5. TaskOK(u) BY <1>1, <1>2, <1>3, <1>4 DEF TaskOK
  <1>. QED BY <1>2, <1>5 DEF u

\* vprocess_send_command is a step of the task in front.
LEMMA VprocessSendCommand ==
  ASSUME NEW i, InstOK(i), InLine(i.tasks), Turns(i, 1), NEW st, NEW e
  PROVE  Ran(i, vprocess_send_command(i, e, 1, st))
  <1> DEFINE t == i.tasks[1]
             u == [t EXCEPT !.sent = TRUE]
             r == IF e.timer = "task" THEN "Timeout"
                ELSE IF st.c = "RESET" THEN "Ok"
                ELSE spinel_status_to_wpantund_status(e.v)
             k == command_done(i, 1, st, r)
             j == [i EXCEPT !.tasks[1].sent = TRUE,
                       !.tx = Append(@, [c |-> st.c, hdr |-> "task"]),
                       !.resetExpected = @ \/ st.c = "RESET"]
  <1>1. 1 \in 1..Len(i.tasks) /\ TaskOK(t) BY DEF Turns, InstOK, QueueOK, IsQueue
  <1>2. TaskOK(u) /\ u.id = t.id BY <1>1, SendTask
  <1>3. DOMAIN j = InstFields BY DEF InstOK, RecOK
  <1>4. FlagsOK(j) BY DEF InstOK, RecOK, FlagsOK, InstFields
  <1>5. ModesOK(j) BY DEF InstOK, RecOK, ModesOK, InstFields
  <1>6. j.failures = i.failures /\ j.answers = i.answers /\ Steady(i, j)
    BY DEF InstOK, RecOK, Steady, InstFields
  <1>7. j.tasks = [i.tasks EXCEPT ![1] = u] BY DEF InstOK, RecOK, InstFields
  <1>8. i.failures \in Nat BY DEF InstOK, RecOK
  <1> HIDE DEF r
  <1>9. vprocess_send_command(i, e, 1, st) \in {j, k} BY DEF vprocess_send_command, r
  <1> HIDE DEF j, u
  <1>10. RecOK(j) BY <1>3, <1>4, <1>5, <1>6, <1>8 DEF RecOK
  <1>11. Ran(i, j) BY <1>1, <1>2, <1>6, <1>7, <1>10, TaskPut
  <1>12. Ran(i, k) BY CommandDone
  <1>. QED BY <1>9, <1>11, <1>12

\* A step that keeps the calls, then one of the task in front.
LEMMA RanBefore ==
  ASSUME NEW i, NEW j, InstOK(i), InLine(i.tasks), Turns(i, 1), Kept(i, j), Steady(i, j), NEW ret
  PROVE  Ran(i, next_step(j, 1, ret))
  <1>1. Ran(i, j) BY KeptRan
  <1>2. InstOK(j) /\ InLine(j.tasks) BY <1>1 DEF Ran, Goes
  <1>3. Turns(j, 1) BY DEF Turns, Kept, Grown, IsQueue, InstOK, QueueOK
  <1> DEFINE k == next_step(j, 1, ret)
  <1>4. Ran(j, k) BY <1>2, <1>3, NextStep
  <1> HIDE DEF k
  <1>5. Ran(i, k) BY <1>1, <1>4, RanTrans
  <1>. QED BY <1>5 DEF k

\* The end of a join is a step of the task in front.
LEMMA JoinFinished ==
  ASSUME NEW i, InstOK(i), InLine(i.tasks), Turns(i, 1), NEW e
  PROVE  Ran(i, join_finished(i, e, 1))
  <1> DEFINE c == change_ncp_state(i, "CREDENTIALS_NEEDED")
  <1>1. Len(i.tasks) > 0 BY DEF Turns, InstOK, QueueOK, IsQueue
  <1>2. Kept(i, c) /\ Steady(i, c) BY ChangeNcpState DEF NCPState
  <1> HIDE DEF c
  <1>3. Ran(i, next_step(c, 1, "InProgress")) BY <1>2, RanBefore
  <1>4. join_finished(i, e, 1) \in {goto_on_error(i, 1, "Failure"), next_step(c, 1, "InProgress"),
                                    next_step(i, 1, "JoinFailedUnknown"), next_step(i, 1, "Ok")}
    <2>1. CASE e.timer = "task" BY <2>1 DEF join_finished
    <2>2. CASE e.timer # "task" /\ e.v \in {"join_security", "join_failure"} BY <2>2 DEF join_finished, c
    <2>3. CASE e.timer # "task" /\ e.v \in {"join_no_peers", "join_success"} BY <2>3 DEF join_finished
    <2>4. CASE e.timer # "task" /\ e.v \notin {"join_security", "join_failure", "join_no_peers", "join_success"}
      BY <2>4 DEF join_finished
    <2>. QED BY <2>1, <2>2, <2>3, <2>4
  <1>. QED BY <1>1, <1>3, <1>4, GotoOnError, NextStep

\* Counting a beacon changes nothing else.
LEMMA CountBeacon == ASSUME NEW i, InstOK(i), NEW b
  PROVE  LET j == [i EXCEPT !.beacons = b] IN Kept(i, j) /\ Steady(i, j)
  <1> DEFINE j == [i EXCEPT !.beacons = b]
  <1>1. DOMAIN j = InstFields BY DEF InstOK, RecOK
  <1>2. FlagsOK(j) BY DEF InstOK, RecOK, FlagsOK, InstFields
  <1>3. ModesOK(j) BY DEF InstOK, RecOK, ModesOK, InstFields
  <1>4. j.failures = i.failures /\ j.tasks = i.tasks /\ j.answers = i.answers /\ Steady(i, j)
    BY DEF InstOK, RecOK, Steady, InstFields
  <1>5. i.failures \in Nat BY DEF InstOK, RecOK
  <1>. QED BY <1>1, <1>2, <1>3, <1>4, <1>5, KeptSame

\* Setting mNCPIsMisbehaving changes nothing else.
LEMMA Misbehaves == ASSUME NEW i, InstOK(i), NEW b \in BOOLEAN
  PROVE  LET j == [i EXCEPT !.misbehaving = b] IN Kept(i, j) /\ Steady(i, j)
  <1> DEFINE j == [i EXCEPT !.misbehaving = b]
  <1>1. DOMAIN j = InstFields BY DEF InstOK, RecOK
  <1>2. FlagsOK(j) BY DEF InstOK, RecOK, FlagsOK, InstFields
  <1>3. ModesOK(j) BY DEF InstOK, RecOK, ModesOK, InstFields
  <1>4. j.failures = i.failures /\ j.tasks = i.tasks /\ j.answers = i.answers /\ Steady(i, j)
    BY DEF InstOK, RecOK, Steady, InstFields
  <1>5. i.failures \in Nat BY DEF InstOK, RecOK
  <1>. QED BY <1>1, <1>2, <1>3, <1>4, <1>5, KeptSame

\* A scan result is a step of the task in front.
LEMMA ScanResult ==
  ASSUME NEW i, InstOK(i), InLine(i.tasks), Turns(i, 1), NEW e
  PROVE  Ran(i, scan_result(i, e, 1))
  <1> DEFINE b == IF i.beacons < 1 THEN i.beacons + 1 ELSE i.beacons
             j == [i EXCEPT !.beacons = b]
  <1>1. Len(i.tasks) > 0 BY DEF Turns, InstOK, QueueOK, IsQueue
  <1>2. scan_result(i, e, 1) \in {goto_on_error(i, 1, "Ok"), next_step(i, 1, "Ok"), j} BY DEF scan_result
  <1> HIDE DEF b
  <1>3. Ran(i, j) BY CountBeacon, KeptRan
  <1> HIDE DEF j
  <1>. QED BY <1>1, <1>2, <1>3, GotoOnError, NextStep

\* A leave that takes the interface down is a task.
LEMMA TakeDown == ASSUME NEW t, TaskOK(t)
  PROVE  LET u == [t EXCEPT !.down = TRUE] IN TaskOK(u) /\ u.id = t.id
  <1> DEFINE u == [t EXCEPT !.down = TRUE]
  <1>1. DOMAIN u = TaskFields BY DEF TaskOK
  <1>2. u.kind = t.kind /\ u.last = t.last /\ u.id = t.id /\ u.pc = t.pc BY DEF TaskOK, TaskFields
  <1>3. u.err = t.err /\ u.sent = t.sent BY DEF TaskOK, TaskFields
  <1> HIDE DEF u
  <1>4. ScriptOf(u) = ScriptOf(t) BY <1>2, <1>3 DEF ScriptOf
  <1>5. TaskOK(u) BY <1>1, <1>2, <1>3, <1>4 DEF TaskOK
  <1>. QED BY <1>2, <1>5 DEF u

\* Setting a member of the instance is a step of the task in front.
LEMMA SetMember ==
  ASSUME NEW i, InstOK(i), InLine(i.tasks), Turns(i, 1), NEW c
  PROVE  Ran(i, set_member(i, 1, c))
  <1> DEFINE ret == i.tasks[1].ret
             j == next_step(i, 1, ret)
             u == [j.tasks[1] EXCEPT !.down = TRUE]
             d == PutTask(j, 1, u)
             m == [j EXCEPT !.misbehaving = TRUE]
             n == [j EXCEPT !.commissioned = FALSE]
             s == change_ncp_state(j, "DEEP_SLEEP")
             r == reinitialize_ncp(j)
  <1> HIDE DEF ret
  <1>1. Ran(i, j) /\ Len(j.tasks) = Len(i.tasks) BY NextStep
  <1>2. set_member(i, 1, c) \in {n, j, d, m, s, r}
    <2>0. [j EXCEPT !.tasks[1].down = TRUE] = d BY DEF PutTask
    <2>1. CASE c = "uncommission" BY <2>1 DEF set_member, ret
    <2>2. CASE c = "forget_key" BY <2>2 DEF set_member, ret
    <2>3. CASE c = "take_down"
      <3> HIDE DEF d, u
      <3>1. set_member(i, 1, c) = [j EXCEPT !.tasks[1].down = TRUE] BY <2>3 DEF set_member, ret
      <3>. QED BY <2>0, <3>1
    <2>4. CASE c = "misbehaving" BY <2>4 DEF set_member, ret
    <2>5. CASE c = "power_off" BY <2>5 DEF set_member, ret
    <2>6. CASE c \notin {"uncommission", "forget_key", "take_down", "misbehaving", "power_off"}
      BY <2>6 DEF set_member, ret
    <2>. QED BY <2>1, <2>2, <2>3, <2>4, <2>5, <2>6
  <1> HIDE DEF j
  <1>3. InstOK(j) /\ InLine(j.tasks) BY <1>1 DEF Ran, Goes
  <1>4. 1 \in 1..Len(j.tasks) BY <1>1 DEF Turns
  <1>5. TaskOK(j.tasks[1]) BY <1>3, <1>4 DEF InstOK, QueueOK
  <1>6. TaskOK(u) /\ u.id = j.tasks[1].id BY <1>5, TakeDown
  <1> HIDE DEF u
  <1>7. Ran(j, d) BY <1>3, <1>4, <1>6, PutTaskRan
  <1>8. Ran(j, m) BY <1>3, Misbehaves, KeptRan
  <1>9. Ran(j, n) BY <1>3, Commission, KeptRan
  <1>10. Ran(j, s) BY <1>3, ChangeNcpState, KeptRan DEF NCPState
  <1>11. Ran(j, r) BY <1>3, ReinitializeNcp, KeptRan
  <1> HIDE DEF d, m, n, s, r
  <1>12. Ran(i, d) BY <1>1, <1>7, RanTrans
  <1>13. Ran(i, m) BY <1>1, <1>8, RanTrans
  <1>14. Ran(i, n) BY <1>1, <1>9, RanTrans
  <1>15. Ran(i, s) BY <1>1, <1>10, RanTrans
  <1>16. Ran(i, r) BY <1>1, <1>11, RanTrans
  <1>. QED BY <1>1, <1>2, <1>12, <1>13, <1>14, <1>15, <1>16

\* A task that saves the state is a task.
LEMMA SaveTask == ASSUME NEW t, TaskOK(t), NEW s \in NCPState
  PROVE  LET u == [t EXCEPT !.last = s] IN TaskOK(u) /\ u.id = t.id /\ StepOf(u) = StepOf(t)
  <1> DEFINE u == [t EXCEPT !.last = s]
  <1>1. DOMAIN u = TaskFields BY DEF TaskOK
  <1>2. u.kind = t.kind /\ u.last = s /\ u.id = t.id /\ u.pc = t.pc BY DEF TaskOK, TaskFields
  <1>3. u.err = t.err /\ u.sent = t.sent BY DEF TaskOK, TaskFields
  <1> HIDE DEF u
  <1>4. ScriptOf(u) = ScriptOf(t) /\ StepOf(u) = StepOf(t) BY <1>2, <1>3 DEF ScriptOf, StepOf
  <1>5. TaskOK(u) BY <1>1, <1>2, <1>3, <1>4 DEF TaskOK
  <1>. QED BY <1>2, <1>4, <1>5 DEF u

\* A task that skips steps is a task.
LEMMA SkipTask == ASSUME NEW t, TaskOK(t), NEW p \in 1..Len(ScriptOf(t))
  PROVE  LET u == [t EXCEPT !.pc = p] IN TaskOK(u) /\ u.id = t.id
  <1> DEFINE u == [t EXCEPT !.pc = p]
  <1>1. DOMAIN u = TaskFields BY DEF TaskOK
  <1>2. u.kind = t.kind /\ u.last = t.last /\ u.id = t.id /\ u.pc = p BY DEF TaskOK, TaskFields
  <1>3. u.err = t.err /\ u.sent = t.sent BY DEF TaskOK, TaskFields
  <1> HIDE DEF u
  <1>4. ScriptOf(u) = ScriptOf(t) BY <1>2, <1>3 DEF ScriptOf
  <1>5. TaskOK(u) BY <1>1, <1>2, <1>3, <1>4 DEF TaskOK
  <1>. QED BY <1>2, <1>5 DEF u

\* A task that is not at the front is given EVENT_STARTING_TASK alone, and
\* gets no further than to its turn.
LEMMA QueuedTaskStarts ==
  ASSUME NEW i, InstOK(i), InLine(i.tasks), NEW e, TaskReady(i, e), e.k = "starting" => e.timer # "task",
         TaskIndex(i, e) > 1
  PROVE  LET n == TaskIndex(i, e)
         IN  /\ StepOf(i.tasks[n]).op \in {"require", "await"}
             /\ StepOf(i.tasks[n]).op = "await" => Holds(StepOf(i.tasks[n]).c, i, i.tasks[n])
  <1> DEFINE n == TaskIndex(i, e)
             t == i.tasks[n]
             st == StepOf(t)
             s == Scripts[t.kind]
  <1>1. e.k = "starting" /\ n = Len(i.tasks) BY DEF TaskIndex
  <1>2. Len(i.tasks) \in Nat /\ n \in 1..Len(i.tasks) BY <1>1 DEF InstOK, QueueOK, IsQueue
  <1>3. TaskOK(t) /\ Waiting(t) BY <1>2 DEF InstOK, QueueOK, InLine
  <1>4. st = s[t.pc] /\ t.pc \in 1..Len(s) BY <1>3 DEF Waiting, StepOf, TaskOK, ScriptOf
  <1>5. Program(s) BY <1>3, ScriptsRun DEF TaskOK
  <1>6. PICK q : TurnAt(s, q) BY <1>5 DEF Program
  <1>7. Len(s) \in Nat BY <1>5 DEF Program, WellFormed, IsQueue
  <1>8. \A m \in 1..(t.pc - 1) : s[m].op \in {"require", "await"} BY <1>3 DEF Waiting
  <1> HIDE DEF s
  <1>9. s[t.pc].op \in {"require", "await", "turn"} BY <1>4, <1>6, <1>7, <1>8, TurnFirst
  <1>10. TaskReady(i, e) => (st.op = "turn" => e.k # "starting")
    BY DEF TaskReady
  <1>11. TaskReady(i, e) => (st.op = "await" => Holds(st.c, i, t) \/ e.timer = "task")
    BY DEF TaskReady
  <1>. QED BY <1>1, <1>4, <1>9, <1>10, <1>11

\* A step of a task.
LEMMA TaskSteps ==
  ASSUME NEW i, InstOK(i), InLine(i.tasks), NEW e, TaskReady(i, e), e.k = "starting" => e.timer # "task"
  PROVE  LET j == TaskStep(i, e) IN Goes(i, j) /\ Steady(i, j)
  <1> DEFINE n == TaskIndex(i, e)
             t == i.tasks[n]
             st == StepOf(t)
             j == TaskStep(i, e)
             P(k) == Goes(i, k) /\ Steady(i, k)
  <1>1. i.tasks # <<>> BY DEF TaskReady, HasTask
  <1>2. 1 \in 1..Len(i.tasks) /\ Len(i.tasks) > 0 /\ Len(i.tasks) \in Nat
    BY <1>1, FrontIsFirst DEF InstOK, QueueOK, IsQueue
  <1>3. n \in 1..Len(i.tasks) BY <1>2 DEF TaskIndex
  <1>4. TaskOK(t) BY <1>3 DEF InstOK, QueueOK
  <1>5. n > 1 => st.op \in {"require", "await"} /\ (st.op = "await" => Holds(st.c, i, t)) BY QueuedTaskStarts
  <1>6. st.op # "finish" => Turns(i, n) BY <1>3, <1>5 DEF Turns
  <1>7. IsStep(st) BY <1>4, StepFacts
  <1>8. \A k : Ran(i, k) => P(k) BY DEF Ran
  <1>9. \A ret : st.op # "finish" => P(next_step(i, n, ret)) BY <1>6, <1>8, NextStep
  <1>10. \A s : n = 1 => P(goto_on_error(i, n, s)) BY <1>2, <1>8, GotoOnError
  <1>11. \A s : P(end_task(i, n, s)) BY <1>3, EndTask
  <1>12. i.state \in NCPState BY DEF InstOK, RecOK, ModesOK
  <1>13. n = 1 \/ n > 1 BY <1>2, <1>3
  <1>14. st.op \notin {"require", "await"} => n = 1 BY <1>5, <1>13
  <1> HIDE DEF n
  <1>15. CASE st.op = "require"
    <2>1. j \in {next_step(i, n, t.ret), end_task(i, n, st.s)} BY <1>15 DEF TaskStep, n
    <2> HIDE DEF P, j, t, st
    <2>2. P(j) BY <1>9, <1>11, <1>15, <2>1
    <2>. QED BY <2>2 DEF P, j
  <1>16. CASE st.op = "insist"
    <2>1. j \in {next_step(i, n, t.ret), goto_on_error(i, n, st.s)} BY <1>16 DEF TaskStep, n
    <2>2. n = 1 BY <1>14, <1>16
    <2> HIDE DEF P, j, t, st
    <2>3. P(j) BY <1>9, <1>10, <1>16, <2>1, <2>2
    <2>. QED BY <2>3 DEF P, j
  <1>17. CASE st.op = "await"
    <2> DEFINE s == IF t.kind = "reset" THEN "Timeout" ELSE st.s
    <2>1. j = IF Holds(st.c, i, t) THEN next_step(i, n, "Failure") ELSE goto_on_error(i, n, s)
      BY <1>17 DEF TaskStep, n
    <2> HIDE DEF P, j, t, st, s
    <2>2. P(j) BY <1>5, <1>9, <1>10, <1>13, <1>17, <2>1
    <2>. QED BY <2>2 DEF P, j
  <1>18. CASE st.op \in {"turn", "yield"}
    <2>1. j = next_step(i, n, t.ret) BY <1>18 DEF TaskStep, n
    <2> HIDE DEF P, j, t, st
    <2>2. P(j) BY <1>9, <1>18, <2>1
    <2>. QED BY <2>2 DEF P, j
  <1>19. CASE st.op = "quiet"
    <2>1. j = next_step(i, n, "Failure") BY <1>19 DEF TaskStep, n
    <2> HIDE DEF P, j, t, st
    <2>2. P(j) BY <1>9, <1>19, <2>1
    <2>. QED BY <2>2 DEF P, j
  <1>20. CASE st.op = "save"
    <2> DEFINE u == [t EXCEPT !.last = i.state]
               k == PutTask(i, 1, u)
               ret == t.ret
               l == next_step(k, 1, ret)
    <2>1. n = 1 BY <1>14, <1>20
    <2>2. j = l
      <3>1. j = next_step([i EXCEPT !.tasks[n].last = i.state], n, t.ret) BY <1>20 DEF TaskStep, n
      <3>2. [i EXCEPT !.tasks[n].last = i.state] = k BY <2>1 DEF PutTask
      <3> HIDE DEF k, t
      <3>. QED BY <2>1, <3>1, <3>2 DEF t
    <2>3. TaskOK(u) /\ u.id = t.id /\ StepOf(u) = st BY <1>4, <1>12, SaveTask
    <2> HIDE DEF u, ret
    <2>4. Ran(i, k) /\ Len(k.tasks) = Len(i.tasks) /\ k.tasks[1] = u BY <1>2, <2>1, <2>3, PutTaskRan
    <2> HIDE DEF k
    <2>5. InstOK(k) /\ InLine(k.tasks) BY <2>4 DEF Ran, Goes
    <2>6. Turns(k, 1) BY <1>2, <1>20, <2>3, <2>4 DEF Turns
    <2>7. Ran(k, l) BY <2>5, <2>6, NextStep
    <2> HIDE DEF l
    <2>8. Ran(i, l) BY <2>4, <2>7, RanTrans
    <2>. QED BY <1>8, <2>2, <2>8
  <1>21. CASE st.op = "become"
    <2> DEFINE ret == t.ret
               k == next_step(i, n, ret)
               l == change_ncp_state(k, st.s)
    <2>1. j = l BY <1>21 DEF TaskStep, n
    <2>2. st.s \in NCPState BY <1>7, <1>21 DEF IsStep
    <2> HIDE DEF ret
    <2>3. Ran(i, k) BY <1>6, <1>21, NextStep
    <2> HIDE DEF k
    <2>4. InstOK(k) /\ InLine(k.tasks) BY <2>3 DEF Ran, Goes
    <2> HIDE DEF st
    <2>5. Ran(k, l) BY <2>2, <2>4, ChangeNcpState, KeptRan
    <2> HIDE DEF l
    <2>6. Ran(i, l) BY <2>3, <2>5, RanTrans
    <2>. QED BY <1>8, <2>1, <2>6
  <1>22. CASE st.op = "set"
    <2>1. n = 1 BY <1>14, <1>22
    <2>2. j = set_member(i, 1, st.c) BY <1>22, <2>1 DEF TaskStep, n
    <2> HIDE DEF st
    <2>3. Ran(i, set_member(i, 1, st.c)) BY <1>6, <1>22, <2>1, SetMember
    <2>. QED BY <1>8, <2>2, <2>3
  <1>23. CASE st.op = "send"
    <2>1. n = 1 BY <1>14, <1>23
    <2>2. j = vprocess_send_command(i, e, 1, st) BY <1>23, <2>1 DEF TaskStep, n
    <2> HIDE DEF st
    <2>3. Ran(i, vprocess_send_command(i, e, 1, st)) BY <1>6, <1>23, <2>1, VprocessSendCommand
    <2>. QED BY <1>8, <2>2, <2>3
  <1>24. CASE st.op = "skip"
    <2> DEFINE h == IF Holds(st.c, i, t) THEN 0 ELSE st.n
               p == (t.pc + 1) + h
               u == [t EXCEPT !.pc = p]
    <2>1. n = 1 BY <1>14, <1>24
    <2>2. j = PutTask(i, 1, u)
      <3>1. j = [i EXCEPT !.tasks[n].pc = @ + 1 + IF Holds(st.c, i, t) THEN 0 ELSE st.n]
          BY <1>24 DEF TaskStep, n
      <3>. QED BY <2>1, <3>1 DEF PutTask
    <2>3. st.n \in Nat /\ (t.pc + 1) + st.n \in 1..Len(ScriptOf(t)) /\ t.pc + 1 \in 1..Len(ScriptOf(t))
      BY <1>4, <1>24, StepFacts
    <2>4. p \in 1..Len(ScriptOf(t))
      <3> HIDE DEF st, t
      <3>1. CASE h = 0 BY <2>3, <3>1
      <3>2. CASE h = st.n BY <2>3, <3>2
      <3>. QED BY <3>1, <3>2
    <2> HIDE DEF p
    <2>5. TaskOK(u) /\ u.id = t.id BY <1>4, <2>4, SkipTask
    <2> HIDE DEF u
    <2>6. Ran(i, PutTask(i, 1, u)) BY <1>2, <2>1, <2>5, PutTaskRan
    <2>. QED BY <1>8, <2>2, <2>6
  <1>25. CASE st.op = "scan"
    <2>1. n = 1 BY <1>14, <1>25
    <2>2. j = scan_result(i, e, 1) BY <1>25, <2>1 DEF TaskStep, n
    <2>3. Ran(i, scan_result(i, e, 1)) BY <1>6, <1>25, <2>1, ScanResult
    <2>. QED BY <1>8, <2>2, <2>3
  <1>26. CASE st.op = "joined"
    <2>1. n = 1 BY <1>14, <1>26
    <2>2. j = join_finished(i, e, 1) BY <1>26, <2>1 DEF TaskStep, n
    <2>3. Ran(i, join_finished(i, e, 1)) BY <1>6, <1>26, <2>1, JoinFinished
    <2>. QED BY <1>8, <2>2, <2>3
  <1>27. CASE st.op = "joinstatus"
    <2> DEFINE ret == convert_joiner_status_to_wpan_error(e.v)
    <2>1. j \in {goto_on_error(i, n, "Failure"), next_step(i, n, ret)} BY <1>27 DEF TaskStep, n
    <2>2. n = 1 BY <1>14, <1>27
    <2> HIDE DEF P, j, t, st, ret
    <2>3. P(j) BY <1>9, <1>10, <1>27, <2>1, <2>2
    <2>. QED BY <2>3 DEF P, j
  <1>28. CASE st.op = "finish"
    <2> DEFINE s == finish_status(i, t, st.s)
    <2>1. j = end_task(i, n, s) BY <1>28 DEF TaskStep, n
    <2> HIDE DEF P, j, t, st, s
    <2>2. P(j) BY <1>11, <2>1
    <2>. QED BY <2>2 DEF P, j
  <1>. QED BY <1>7, <1>15, <1>16, <1>17, <1>18, <1>19, <1>20, <1>21, <1>22, <1>23, <1>24, <1>25, <1>26,
      <1>27, <1>28
          DEF IsStep, Ops

-----------------------------------------------------------------------------
(* The inductive invariant, one lemma per action of Next.                  *)

\* The fields of an event.
EventFields == {"k", "hdr", "timer", "v"}

\* The fields of left.
LeftFields == {"plan", "toggles", "captures", "notices", "faults", "made"}

\* A task that starts has no timer yet.
EventOK(e) == DOMAIN e = EventFields /\ (e.k = "starting" => e.timer = "none")

\* The frames not read yet.
RxOK(q) == IsQueue(q) /\ Len(q) <= MaxRx /\ \A n \in 1..Len(q) : FrameOK(q[n])

\* The calls made and those still to come.
LeftOK(l) ==
    /\ DOMAIN l = LeftFields
    /\ IsQueue(l.plan) /\ \A n \in 1..Len(l.plan) : l.plan[n] \in Kinds
    /\ l.made \in Nat
    /\ l.made + Len(l.plan) <= MaxCalls

\* The inductive invariant of the instance, m calls having been made.
WholeInst(i, m) ==
    /\ InstOK(i) /\ InLine(i.tasks) /\ PastInit(i)
    /\ Called(i.tasks, i.answers, m)

\* The inductive invariant.
CoreInv ==
    /\ WholeInst(inst, left.made)
    /\ EventOK(ev)
    /\ RxOK(rx)
    /\ LeftOK(left)

\* What a step keeps, and the step of the call service it is.
Keeps == CoreInv' /\ Serves(Seen(inst.answers, left.made), Seen(inst'.answers, left'.made))

\* The events are events.
LEMMA EventsOK ==
  /\ EventOK(Idle) /\ EventOK(Starting) /\ EventOK(SendFinished)
  /\ \A who : EventOK(Expired(who))
  /\ \A f : EventOK(FrameEvent(f))
  BY DEF EventOK, EventFields, Idle, Starting, SendFinished, Expired, FrameEvent

\* What is left of an event is one.
LEMMA ConsumedOK == ASSUME NEW e, EventOK(e), NEW who PROVE EventOK(Consumed(e, who))
  BY DEF EventOK, EventFields, Consumed

\* Settle keeps a queue as long as it was, and its frames.
LEMMA SettleOK == ASSUME NEW q, IsQueue(q), NEW i, \A n \in 1..Len(q) : FrameOK(q[n])
  PROVE  IsQueue(Settle(q, i)) /\ Len(Settle(q, i)) = Len(q) /\ \A n \in 1..Len(q) : FrameOK(Settle(q, i)[n])
  <1> DEFINE r == Settle(q, i)
             x(n) == IF Waits(i, q[n].hdr) THEN q[n] ELSE [q[n] EXCEPT !.hdr = "none"]
  <1>1. DOMAIN q = 1..Len(q) /\ Len(q) \in Nat BY DEF IsQueue
  <1>2. r = [n \in 1..Len(q) |-> x(n)] BY <1>1 DEF Settle
  <1>5. \A n \in 1..Len(q) : FrameOK(x(n))
    <2>1. SUFFICES ASSUME NEW n \in 1..Len(q) PROVE FrameOK(x(n)) OBVIOUS
    <2> DEFINE f == q[n]
               g == [f EXCEPT !.hdr = "none"]
    <2>2. FrameOK(f) OBVIOUS
    <2>3. x(n) = f \/ x(n) = g OBVIOUS
    <2> HIDE DEF f, x
    <2>4. FrameOK(g) BY <2>2 DEF FrameOK
    <2>. QED BY <2>2, <2>3, <2>4
  <1> HIDE DEF x, r
  <1>3. r \in Seq({x(n) : n \in 1..Len(q)}) /\ Len(r) = Len(q) BY <1>1, <1>2
  <1>4. IsQueue(r) BY <1>3, QueueOf
  <1>6. \A n \in 1..Len(q) : r[n] = x(n) BY <1>2
  <1>. QED BY <1>3, <1>4, <1>5, <1>6 DEF r

\* The transmit queue is of no account here.
LEMMA OtherTx == ASSUME NEW i, NEW m, WholeInst(i, m), NEW x
  PROVE  LET j == [i EXCEPT !.tx = x] IN WholeInst(j, m) /\ j.answers = i.answers
  <1> DEFINE j == [i EXCEPT !.tx = x]
  <1>0. InstOK(i) /\ RecOK(i) /\ QueueOK(i.tasks) BY DEF WholeInst, InstOK
  <1>1. DOMAIN j = InstFields BY <1>0 DEF RecOK
  <1>2. FlagsOK(j) BY <1>0 DEF RecOK, FlagsOK, InstFields
  <1>3. ModesOK(j) BY <1>0 DEF RecOK, ModesOK, InstFields
  <1>4. j.failures = i.failures /\ j.tasks = i.tasks /\ j.answers = i.answers /\ Steady(i, j)
    BY <1>0 DEF RecOK, Steady, InstFields
  <1>5. i.failures \in Nat BY <1>0 DEF RecOK
  <1> HIDE DEF j
  <1>6. InstOK(j) BY <1>0, <1>1, <1>2, <1>3, <1>4, <1>5 DEF InstOK, RecOK
  <1>7. PastInit(j) BY <1>4, SteadyPast DEF WholeInst
  <1>8. WholeInst(j, m) /\ j.answers = i.answers BY <1>4, <1>6, <1>7 DEF WholeInst
  <1>. QED BY <1>8 DEF j

\* Whatever the instance became.
LEMMA InstanceBecame ==
  ASSUME CoreInv, NEW j, Goes(inst, j), PastInit(j), Became(j), EventOK(ev'), LeftOK(left'),
      left'.made = left.made
  PROVE  Keeps
  <1> DEFINE m == left.made
  <1>1. WholeInst(j, m) /\ Serves(Seen(inst.answers, m), Seen(j.answers, m)) BY DEF CoreInv, WholeInst, Goes
  <1>2. inst' = [j EXCEPT !.tx = Settle(j.tx, j)] /\ rx' = Settle(rx, j) BY DEF Became
  <1>3. WholeInst(inst', m) /\ inst'.answers = j.answers BY <1>1, <1>2, OtherTx
  <1>4. RxOK(rx') BY <1>2, SettleOK DEF CoreInv, RxOK
  <1>. QED BY <1>1, <1>3, <1>4 DEF Keeps, CoreInv

\* A step that keeps the calls preserves the invariant.
LEMMA InstanceKept ==
  ASSUME CoreInv, NEW j, Kept(inst, j), PastInit(j), Became(j), EventOK(ev'), LeftOK(left'),
      left'.made = left.made
  PROVE  Keeps
  <1>1. Goes(inst, j) BY KeptGoes DEF CoreInv, WholeInst
  <1>. QED BY <1>1, InstanceBecame

\* So does one that changes only what is under way to and from the NCP.
LEMMA OnlyTx ==
  ASSUME CoreInv, NEW x, inst' = inst \/ inst' = [inst EXCEPT !.tx = x], EventOK(ev'), RxOK(rx'), LeftOK(left'),
         left'.made = left.made
  PROVE  Keeps
  <1>0. WholeInst(inst, left.made) BY DEF CoreInv
  <1>1. WholeInst(inst', left.made) /\ inst'.answers = inst.answers
    <2>1. CASE inst' = inst BY <1>0, <2>1
    <2>2. CASE inst' = [inst EXCEPT !.tx = x] BY <1>0, <2>2, OtherTx
    <2>. QED BY <2>1, <2>2
  <1>. QED BY <1>1, NothingSeen DEF Keeps, CoreInv

\* Spending a toggle, a capture, a notice or a fault makes no call.
LEMMA Spending ==
  ASSUME CoreInv, NEW b \in {"toggles", "captures", "notices", "faults"}, Spend(b) PROVE LeftOK(left') /\ left'.made = left.made
  <1>1. LeftOK(left) BY DEF CoreInv
  <1>2. left' = [left EXCEPT ![b] = @ - 1] BY DEF Spend
  <1>3. DOMAIN left' = LeftFields /\ left'.plan = left.plan /\ left'.made = left.made
    BY <1>1, <1>2 DEF LeftOK, LeftFields
  <1>. QED BY <1>1, <1>3 DEF LeftOK

\* So does leaving them alone.
LEMMA SameLeft == ASSUME CoreInv, left' = left PROVE LeftOK(left') /\ left'.made = left.made
  BY DEF CoreInv

\* RunTask preserves the invariant and is a step of the call service or
\* none.
LEMMA RunTaskKeeps == ASSUME CoreInv, RunTask PROVE Keeps
  <1> DEFINE j == TaskStep(inst, ev)
  <1>0. InstOK(inst) /\ InLine(inst.tasks) /\ PastInit(inst) BY DEF CoreInv, WholeInst
  <1>1. EventOK(ev) /\ (ev.k = "starting" => ev.timer # "task") BY DEF CoreInv, EventOK
  <1>2. TaskReady(inst, ev) /\ Became(j) /\ left' = left BY DEF RunTask
  <1>3. Goes(inst, j) /\ Steady(inst, j) BY <1>0, <1>1, <1>2, TaskSteps
  <1>4. ev' \in {Idle, Consumed(ev, "task")} BY DEF RunTask
  <1>5. EventOK(ev') BY <1>1, <1>4, EventsOK, ConsumedOK
  <1> HIDE DEF j
  <1>6. PastInit(j) BY <1>0, <1>3, SteadyPast
  <1>. QED BY <1>2, <1>3, <1>5, <1>6, InstanceBecame, SameLeft

\* RunControl preserves the invariant and is a step of the call service or
\* none.
LEMMA RunControlKeeps == ASSUME CoreInv, RunControl PROVE Keeps
  <1> DEFINE j == vprocess_event(inst, ev)
  <1>0. InstOK(inst) /\ PastInit(inst) /\ inst.resetting = "no" BY DEF CoreInv, WholeInst, RunControl
  <1>1. Became(j) /\ left' = left /\ ev' = Consumed(ev, "ctl") BY DEF RunControl
  <1>2. Kept(inst, j) /\ PastInit(j) BY <1>0, VprocessEvent
  <1>3. EventOK(ev') BY <1>1, ConsumedOK DEF CoreInv
  <1> HIDE DEF j
  <1>. QED BY <1>1, <1>2, <1>3, InstanceKept, SameLeft

\* NextPass preserves the invariant and is a step of the call service or
\* none.
LEMMA NextPassKeeps == ASSUME CoreInv, NextPass PROVE Keeps
  <1>1. inst' = inst /\ rx' = rx /\ left' = left /\ ev' = Idle BY DEF NextPass
  <1>2. EventOK(ev') /\ RxOK(rx') BY <1>1, EventsOK DEF CoreInv
  <1>. QED BY <1>1, <1>2, OnlyTx, SameLeft

\* SetEnabled preserves the invariant and is a step of the call service or
\* none.
LEMMA SetEnabledKeeps == ASSUME CoreInv, SetEnabled PROVE Keeps
  <1> DEFINE i == inst
             j == [i EXCEPT !.enabled = ~@]
  <1>0. InstOK(i) /\ PastInit(i) BY DEF CoreInv, WholeInst
  <1>1. Became(j) /\ ev' = ev /\ Spend("toggles") BY DEF SetEnabled
  <1> HIDE DEF i
  <1>2. DOMAIN j = InstFields BY <1>0 DEF InstOK, RecOK
  <1>3. FlagsOK(j) BY <1>0 DEF InstOK, RecOK, FlagsOK, InstFields
  <1>4. ModesOK(j) BY <1>0 DEF InstOK, RecOK, ModesOK, InstFields
  <1>5. j.failures = i.failures /\ j.tasks = i.tasks /\ j.answers = i.answers /\ Steady(i, j)
    BY <1>0 DEF InstOK, RecOK, Steady, InstFields
  <1>6. i.failures \in Nat BY <1>0 DEF InstOK, RecOK
  <1>7. Kept(i, j) BY <1>0, <1>2, <1>3, <1>4, <1>5, <1>6, KeptSame
  <1> HIDE DEF j
  <1>8. PastInit(j) BY <1>0, <1>5, SteadyPast
  <1>9. EventOK(ev') BY <1>1 DEF CoreInv
  <1>. QED BY <1>1, <1>7, <1>8, <1>9, Spending, InstanceKept DEF i

\* SetCapture preserves the invariant and is a step of the call service or
\* none.
LEMMA SetCaptureKeeps == ASSUME CoreInv, SetCapture PROVE Keeps
  <1> DEFINE b == ~inst.capture
             j == [inst EXCEPT !.capture = b]
  <1>0. InstOK(inst) /\ PastInit(inst) BY DEF CoreInv, WholeInst
  <1>1. b \in BOOLEAN OBVIOUS
  <1>2. Became(j) /\ ev' = ev /\ Spend("captures") BY DEF SetCapture
  <1> HIDE DEF b
  <1>3. Kept(inst, j) /\ Steady(inst, j) BY <1>0, <1>1, SetCaptureFlag
  <1> HIDE DEF j
  <1>4. PastInit(j) BY <1>0, <1>3, SteadyPast
  <1>5. EventOK(ev') BY <1>2 DEF CoreInv
  <1>. QED BY <1>2, <1>3, <1>4, <1>5, Spending, InstanceKept

\* Capture preserves the invariant and is a step of the call service or
\* none.
LEMMA CaptureKeeps == ASSUME CoreInv, Capture PROVE Keeps
  <1> DEFINE j == [inst EXCEPT !.pcap = inst.capture]
             k == capture_task(inst)
  <1>0. InstOK(inst) /\ PastInit(inst) /\ inst.capture \in BOOLEAN
    BY DEF CoreInv, WholeInst, InstOK, RecOK, FlagsOK
  <1>1. Became(k) /\ ev' = ev /\ left' = left BY DEF Capture
  <1>2. Kept(inst, j) /\ Steady(inst, j) BY <1>0, CaptureMade
  <1>3. k = j \/ \E kind \in OwnKinds : k = push_task(j, kind, 0) BY DEF capture_task, j, OwnKinds
  <1> HIDE DEF j, k
  <1>4. ASSUME NEW kind \in OwnKinds PROVE Kept(inst, push_task(j, kind, 0)) /\ Steady(inst, push_task(j, kind, 0))
    <2> DEFINE l == push_task(j, kind, 0)
    <2>1. kind \in DOMAIN Scripts BY OwnScripts
    <2>2. Kept(j, l) /\ Steady(j, l) BY <1>0, <1>2, <2>1, KeptOK, PushTask
    <2> HIDE DEF l
    <2>3. Kept(inst, l) /\ Steady(inst, l) BY <1>0, <1>2, <2>2, KeptTrans, SteadyTrans
    <2>. QED BY <2>3 DEF l
  <1>5. Kept(inst, k) /\ Steady(inst, k) BY <1>2, <1>3, <1>4
  <1>6. PastInit(k) BY <1>0, <1>5, SteadyPast
  <1>7. EventOK(ev') BY <1>1 DEF CoreInv
  <1>. QED BY <1>1, <1>5, <1>6, <1>7, SameLeft, InstanceKept

\* Flushed preserves the invariant and is a step of the call service or
\* none.
LEMMA FlushedKeeps == ASSUME CoreInv, Flushed PROVE Keeps
  <1>1. inst' = inst /\ ev' = SendFinished /\ rx' = rx /\ left' = left BY DEF Flushed
  <1>2. RxOK(rx') /\ EventOK(ev') BY <1>1, EventsOK DEF CoreInv
  <1>. QED BY <1>1, <1>2, SameLeft, OnlyTx

\* Expire preserves the invariant and is a step of the call service or
\* none.
LEMMA ExpireKeeps == ASSUME CoreInv, NEW who, Expire(who) PROVE Keeps
  <1>1. inst' = inst /\ rx' = rx /\ ev' = Expired(who) /\ (left' = left \/ Spend("faults")) BY DEF Expire
  <1>2. EventOK(ev') /\ RxOK(rx') BY <1>1, EventsOK DEF CoreInv
  <1>3. LeftOK(left') /\ left'.made = left.made BY <1>1, Spending, SameLeft
  <1>. QED BY <1>1, <1>2, <1>3, OnlyTx

\* FirmwareUpgraded preserves the invariant and is a step of the call
\* service or none.
LEMMA FirmwareUpgradedKeeps == ASSUME CoreInv, FirmwareUpgraded PROVE Keeps
  <1>0. InstOK(inst) /\ PastInit(inst) BY DEF CoreInv, WholeInst
  <1>1. PICK r : Became([inst EXCEPT !.upgrade = r]) /\ ev' = ev /\ left' = left BY DEF FirmwareUpgraded
  <1> DEFINE i == inst
             j == [i EXCEPT !.upgrade = r]
  <1> HIDE DEF i
  <1>2. DOMAIN j = InstFields BY <1>0 DEF InstOK, RecOK, i
  <1>3. FlagsOK(j) BY <1>0 DEF InstOK, RecOK, FlagsOK, InstFields, i
  <1>4. ModesOK(j) BY <1>0 DEF InstOK, RecOK, ModesOK, InstFields, i
  <1>5. j.failures = i.failures /\ j.tasks = i.tasks /\ j.answers = i.answers /\ Steady(i, j)
    BY <1>0 DEF InstOK, RecOK, Steady, InstFields, i
  <1>6. i.failures \in Nat BY <1>0 DEF InstOK, RecOK, i
  <1>7. Kept(i, j) BY <1>0, <1>2, <1>3, <1>4, <1>5, <1>6, KeptSame DEF i
  <1>8. Became(j) BY <1>1 DEF i
  <1> HIDE DEF j
  <1>9. PastInit(j) BY <1>0, <1>5, SteadyPast DEF i
  <1>10. EventOK(ev') BY <1>1 DEF CoreInv
  <1>. QED BY <1>1, <1>7, <1>8, <1>9, <1>10, SameLeft, InstanceKept DEF i

\* The beginning of process() with a misbehaving NCP.
LEMMA CountAndReset == ASSUME NEW i, InstOK(i)
  PROVE  LET j == [i EXCEPT !.failures = @ + 1, !.tx = <<>>] IN Kept(i, j) /\ Steady(i, j)
  <1> DEFINE j == [i EXCEPT !.failures = @ + 1, !.tx = <<>>]
  <1>1. DOMAIN j = InstFields BY DEF InstOK, RecOK
  <1>2. FlagsOK(j) BY DEF InstOK, RecOK, FlagsOK, InstFields
  <1>3. ModesOK(j) BY DEF InstOK, RecOK, ModesOK, InstFields
  <1>4. j.tasks = i.tasks /\ j.answers = i.answers /\ Steady(i, j) BY DEF InstOK, RecOK, Steady, InstFields
  <1>5. j.failures \in Nat BY DEF InstOK, RecOK, InstFields
  <1>. QED BY <1>1, <1>2, <1>3, <1>4, <1>5, KeptSame

\* Misbehaving preserves the invariant and is a step of the call service or
\* none.
LEMMA MisbehavingKeeps == ASSUME CoreInv, Misbehaving PROVE Keeps
  <1> DEFINE i == inst
             h == [i EXCEPT !.failures = @ + 1, !.tx = <<>>]
             j == reset_tasks(h, "misbehaving")
  <1>0. InstOK(i) /\ PastInit(i) BY DEF CoreInv, WholeInst
  <1>1. Became(j) /\ ev' = ev /\ left' = left BY DEF Misbehaving
  <1>2. EventOK(ev') BY <1>1 DEF CoreInv
  <1>3. Kept(i, h) /\ Steady(i, h) BY <1>0, CountAndReset
  <1> HIDE DEF h
  <1>4. InstOK(h) /\ PastInit(h) BY <1>0, <1>3, KeptOK, SteadyPast
  <1>5. Kept(h, j) /\ Moved(h, j) /\ j.ctl = h.ctl /\ j.resetting = "misbehaving"
      BY <1>4, ResetTasks DEF Resetters
  <1> HIDE DEF j
  <1>6. PastInit(j) BY <1>4, <1>5 DEF PastInit, Past, Moved
  <1>7. Kept(i, j) BY <1>0, <1>3, <1>5, KeptTrans
  <1>. QED BY <1>1, <1>2, <1>6, <1>7, InstanceKept, SameLeft

\* ResetTask preserves the invariant and is a step of the call service or
\* none.
LEMMA ResetTaskKeeps == ASSUME CoreInv, ResetTask PROVE Keeps
  <1> DEFINE j == reset_task(inst)
  <1>0. InstOK(inst) /\ InLine(inst.tasks) /\ PastInit(inst) BY DEF CoreInv, WholeInst
  <1>1. Became(j) /\ ev' = ev /\ left' = left /\ inst.tasks # <<>> BY DEF ResetTask
  <1>2. EventOK(ev') BY <1>1 DEF CoreInv
  <1>3. Len(inst.tasks) > 0 BY <1>0, <1>1, FrontIsFirst
  <1>4. Goes(inst, j) /\ Steady(inst, j) BY <1>0, <1>3, ResetOneTask
  <1> HIDE DEF j
  <1>5. PastInit(j) BY <1>0, <1>4, SteadyPast
  <1>. QED BY <1>1, <1>2, <1>4, <1>5, InstanceBecame, SameLeft

\* The loop of reset_tasks is over.
LEMMA ResetDone == ASSUME NEW i, InstOK(i)
  PROVE  LET j == [i EXCEPT !.resetting = "no"]
         IN Kept(i, j) /\ Moved(i, j) /\ j.ctl = i.ctl /\ j.resetting = "no"
  <1> DEFINE j == [i EXCEPT !.resetting = "no"]
  <1>1. DOMAIN j = InstFields BY DEF InstOK, RecOK
  <1>2. FlagsOK(j) BY DEF InstOK, RecOK, FlagsOK, InstFields
  <1>3. ModesOK(j) BY DEF InstOK, RecOK, ModesOK, InstFields, Resetters
  <1>4. j.failures = i.failures /\ j.tasks = i.tasks /\ j.answers = i.answers
        /\ Moved(i, j) /\ j.ctl = i.ctl /\ j.resetting = "no"
    BY DEF InstOK, RecOK, Moved, InstFields
  <1>5. i.failures \in Nat BY DEF InstOK, RecOK
  <1>. QED BY <1>1, <1>2, <1>3, <1>4, <1>5, KeptSame

\* TasksReset preserves the invariant and is a step of the call service or
\* none.
LEMMA TasksResetKeeps == ASSUME CoreInv, TasksReset PROVE Keeps
  <1> DEFINE i == inst
             h == [i EXCEPT !.resetting = "no"]
             a == disabled_tasks_reset(h)
             b == misbehaving_reset(h)
             c == reset_handled(h)
             j == CASE i.resetting = "disabled" -> a [] i.resetting = "misbehaving" -> b [] OTHER -> c
  <1>0. InstOK(i) /\ PastInit(i) BY DEF CoreInv, WholeInst
  <1>1. Became(j) /\ ev' = ev /\ left' = left BY DEF TasksReset
  <1>2. EventOK(ev') BY <1>1 DEF CoreInv
  <1> HIDE DEF i
  <1>3. Kept(i, h) /\ Moved(i, h) /\ h.ctl = i.ctl /\ h.resetting = "no" BY <1>0, ResetDone
  <1> HIDE DEF h
  <1>4. InstOK(h) /\ PastInit(h) BY <1>0, <1>3, KeptOK DEF PastInit, Past, Moved
  <1>5. Kept(h, a) /\ Moved(h, a) /\ a.resetting = h.resetting BY <1>4, DisabledTasksReset
  <1>6. Kept(h, b) /\ Steady(h, b) BY <1>4, MisbehavingReset
  <1>7. Kept(h, c) /\ Steady(h, c) BY <1>4, ResetHandled
  <1> HIDE DEF a, b, c
  <1>8. PastInit(b) /\ PastInit(c) BY <1>4, <1>6, <1>7, SteadyPast
  <1>9. i.resetting = "disabled" => PastInit(a) BY <1>0, <1>3, <1>5 DEF PastInit, Past, Moved
  <1>10. Kept(h, j) /\ PastInit(j)
    <2>1. CASE i.resetting = "disabled" BY <1>5, <1>9, <2>1
    <2>2. CASE i.resetting = "misbehaving" BY <1>6, <1>8, <2>2
    <2>3. CASE i.resetting \notin {"disabled", "misbehaving"} BY <1>7, <1>8, <2>3
    <2>. QED BY <2>1, <2>2, <2>3
  <1> HIDE DEF j
  <1>11. Kept(i, j) BY <1>0, <1>3, <1>10, KeptTrans
  <1>. QED BY <1>1, <1>2, <1>10, <1>11, InstanceKept, SameLeft DEF i

\* The frames behind the first.
LEMMA RxTail == ASSUME NEW q, RxOK(q), Len(q) > 0 PROVE RxOK(Tail(q))
  <1> DEFINE r == Tail(q)
  <1>1. IsQueue(q) /\ Len(q) \in Nat /\ MaxRx \in Nat BY BudgetsAreNaturals DEF RxOK, IsQueue
  <1>2. IsQueue(r) /\ Len(r) = Len(q) - 1 /\ \A m \in 1..Len(r) : r[m] = IF m < 1 THEN q[m] ELSE q[m + 1]
    BY <1>1, TailQueue DEF Without
  <1> HIDE DEF r
  <1>3. Len(r) <= MaxRx BY <1>1, <1>2 DEF RxOK
  <1>4. ASSUME NEW m \in 1..Len(r) PROVE FrameOK(r[m])
    <2>1. m + 1 \in 1..Len(q) /\ ~(m < 1) BY <1>1, <1>2
    <2>2. r[m] = q[m + 1] BY <1>2, <2>1
    <2>. QED BY <2>1, <2>2 DEF RxOK
  <1>5. RxOK(r) BY <1>2, <1>3, <1>4 DEF RxOK
  <1>. QED BY <1>5 DEF r

\* Receive preserves the invariant and is a step of the call service or
\* none.
LEMMA ReceiveKeeps == ASSUME CoreInv, Receive PROVE Keeps
  <1> DEFINE f == Head(rx)
             a == value_is_reset(inst, f.v)
             b == handle_ncp_spinel_value_is(inst, f)
             i == IF f.v \in {"reset", "crash"} THEN a
                  ELSE IF ncp_state_is_detached_from_ncp(inst.state) THEN inst ELSE b
  <1>0. InstOK(inst) /\ InLine(inst.tasks) /\ PastInit(inst) /\ RxOK(rx) BY DEF CoreInv, WholeInst
  <1>1. /\ rx # <<>> /\ left' = left /\ ev' \in {Idle, FrameEvent(f)}
        /\ inst' = [i EXCEPT !.tx = Settle(i.tx, i)] /\ rx' = Settle(Tail(rx), i) BY DEF Receive
  <1>2. EventOK(ev') BY <1>1, EventsOK
  <1> HIDE DEF f
  <1>3. f.v \in {"reset", "crash"} => Kept(inst, a) /\ PastInit(a) BY <1>0, ValueIsReset
  <1>f. FrameOK(f)
    <2>1. Len(rx) > 0 /\ Len(rx) \in Nat /\ 1 \in 1..Len(rx) BY <1>0, <1>1 DEF RxOK, IsQueue
    <2>2. f = rx[1] BY <1>0, <2>1, TailQueue DEF f, RxOK
    <2>. QED BY <1>0, <2>1, <2>2 DEF RxOK
  <1>4. Kept(inst, b) /\ PastInit(b) BY <1>0, <1>f, HandleNcpSpinelValueIs, SteadyPast
  <1>5. Kept(inst, inst) BY <1>0, KeptRefl
  <1> HIDE DEF a, b
  <1>6. Kept(inst, i) /\ PastInit(i) BY <1>0, <1>3, <1>4, <1>5
  <1> HIDE DEF i
  <1>7. Goes(inst, i) BY <1>0, <1>6, KeptGoes
  <1>8. WholeInst(i, left.made) /\ Serves(Seen(inst.answers, left.made), Seen(i.answers, left.made))
    BY <1>6, <1>7 DEF CoreInv, WholeInst, Goes
  <1>9. WholeInst(inst', left.made) /\ inst'.answers = i.answers BY <1>1, <1>8, OtherTx
  <1>10. Len(rx) > 0 /\ Len(rx) \in Nat BY <1>0, <1>1 DEF RxOK, IsQueue
  <1>11. RxOK(Tail(rx)) BY <1>0, <1>10, RxTail
  <1>14. RxOK(rx') BY <1>1, <1>11, SettleOK DEF RxOK
  <1>15. LeftOK(left') /\ left'.made = left.made BY <1>1, SameLeft
  <1>. QED BY <1>2, <1>8, <1>9, <1>14, <1>15 DEF Keeps, CoreInv

\* What is left after a call.
LEMMA LeftAfterCall == ASSUME NEW l, LeftOK(l), l.plan # <<>>
  PROVE  LET k == [l EXCEPT !.plan = Tail(@), !.made = @ + 1]
         IN  LeftOK(k) /\ k.made = l.made + 1 /\ l.made < MaxCalls /\ Head(l.plan) \in Kinds
  <1> DEFINE p == Tail(l.plan)
             k == [l EXCEPT !.plan = p, !.made = @ + 1]
  <1>1. IsQueue(l.plan) /\ Len(l.plan) \in Nat /\ l.made \in Nat /\ DOMAIN l = LeftFields /\ MaxCalls \in Nat
    BY MaxCallsBounds DEF LeftOK, IsQueue
  <1>2. Len(l.plan) > 0 BY <1>1 DEF IsQueue
  <1>3. Without(l.plan, 1, p) /\ Head(l.plan) = l.plan[1] BY <1>1, <1>2, TailQueue
  <1> HIDE DEF p
  <1>4. IsQueue(p) /\ Len(p) = Len(l.plan) - 1 BY <1>3 DEF Without
  <1>5. ASSUME NEW n \in 1..Len(p) PROVE p[n] \in Kinds
    <2>1. n + 1 \in 1..Len(l.plan) /\ ~(n < 1) BY <1>1, <1>4
    <2>2. p[n] = l.plan[n + 1] BY <1>3, <2>1 DEF Without
    <2>. QED BY <2>1, <2>2 DEF LeftOK
  <1>6. DOMAIN k = LeftFields /\ k.plan = p /\ k.made = l.made + 1 BY <1>1 DEF LeftFields
  <1>7. l.made + Len(l.plan) <= MaxCalls BY DEF LeftOK
  <1> HIDE DEF k
  <1>8. k.made + Len(k.plan) <= MaxCalls /\ k.made \in Nat /\ l.made < MaxCalls BY <1>1, <1>2, <1>4, <1>6, <1>7
  <1>9. Head(l.plan) \in Kinds BY <1>1, <1>2, <1>3 DEF LeftOK
  <1>10. LeftOK(k) BY <1>4, <1>5, <1>6, <1>8 DEF LeftOK
  <1>. QED BY <1>6, <1>8, <1>9, <1>10 DEF k, p

\* The task of a call goes to the end of the queue.
LEMMA CallTaskPushed ==
  ASSUME NEW i, InstOK(i), InLine(i.tasks), NEW kind \in DOMAIN Scripts, NEW id
  PROVE  LET j == push_task(i, kind, id)
         IN  /\ InstOK(j) /\ InLine(j.tasks) /\ Steady(i, j) /\ j.answers = i.answers
             /\ j.tasks = Append(i.tasks, NewTask(kind, id, i.state))
  <1> DEFINE j == push_task(i, kind, id)
             t == NewTask(kind, id, i.state)
  <1>1. i.state \in NCPState BY DEF InstOK, RecOK, ModesOK
  <1>2. TaskOK(t) /\ t.pc = 1 /\ ~t.err /\ ~t.sent BY <1>1, NewTaskOK
  <1>3. Waiting(t) BY <1>2 DEF Waiting
  <1> HIDE DEF t
  <1>4. j = [i EXCEPT !.tasks = Append(@, t)] BY DEF push_task, t
  <1>5. DOMAIN j = InstFields BY <1>4 DEF InstOK, RecOK
  <1>6. FlagsOK(j) BY <1>4 DEF InstOK, RecOK, FlagsOK, InstFields
  <1>7. ModesOK(j) BY <1>4 DEF InstOK, RecOK, ModesOK, InstFields
  <1>8. j.failures = i.failures /\ j.tasks = Append(i.tasks, t) /\ j.answers = i.answers /\ Steady(i, j)
    BY <1>4 DEF InstOK, RecOK, Steady, InstFields
  <1>9. i.failures \in Nat BY DEF InstOK, RecOK
  <1> HIDE DEF j
  <1>10. IsQueue(i.tasks) /\ Len(i.tasks) \in Nat BY DEF InstOK, QueueOK, IsQueue
  <1>11. /\ IsQueue(j.tasks) /\ Len(j.tasks) = Len(i.tasks) + 1 /\ j.tasks[Len(i.tasks) + 1] = t
         /\ \A n \in 1..Len(i.tasks) : j.tasks[n] = i.tasks[n] BY <1>8, <1>10, AppendQueue
  <1>12. \A n \in 1..Len(j.tasks) : n \in 1..Len(i.tasks) \/ n = Len(i.tasks) + 1 BY <1>10, <1>11
  <1>13. QueueOK(j.tasks) BY <1>2, <1>11, <1>12 DEF QueueOK, InstOK
  <1>14. InLine(j.tasks) BY <1>3, <1>11, <1>12 DEF InLine
  <1>15. InstOK(j) BY <1>5, <1>6, <1>7, <1>8, <1>9, <1>13 DEF InstOK, RecOK
  <1>. QED BY <1>8, <1>14, <1>15 DEF j, t

\* Call preserves the invariant and is a step of the call service or none.
LEMMA CallKeeps == ASSUME CoreInv, Call PROVE Keeps
  <1> DEFINE m == left.made
             id == m + 1
             kind == Head(left.plan)
             i == IF kind = "reset" /\ inst.state = "FAULT"
                  THEN change_ncp_state(inst, "UNINITIALIZED") ELSE inst
             t == NewTask(kind, id, i.state)
             r == finish(i, t, "InvalidWhenDisabled")
             p == push_task(i, kind, id)
  <1>0. InstOK(inst) /\ InLine(inst.tasks) /\ PastInit(inst) /\ Called(inst.tasks, inst.answers, m)
    BY DEF CoreInv, WholeInst
  <1>1. LeftOK(left') /\ left'.made = id /\ m < MaxCalls /\ kind \in Kinds
    <2>1. left.plan # <<>> /\ left' = [left EXCEPT !.plan = Tail(@), !.made = @ + 1] /\ LeftOK(left)
      BY DEF Call, CoreInv
    <2>. QED BY <2>1, LeftAfterCall
  <1>2. (Became(r) /\ ev' = ev) \/ (Became(p) /\ ev' = Starting)
    <2>1. "id" \in DOMAIN t BY DEF NewTask
    <2>2. finish_and_destroy(i, t, "InvalidWhenDisabled") = r BY <2>1, DestroyedOnce
    <2>3. \/ Became(finish_and_destroy(i, t, "InvalidWhenDisabled")) /\ ev' = ev
          \/ Became(p) /\ ev' = Starting BY DEF Call
    <2>. QED BY <2>2, <2>3
  <1>3. EventOK(ev') BY <1>2, EventsOK DEF CoreInv
  <1>4. kind \in DOMAIN Scripts BY <1>1 DEF Scripts
  <1> HIDE DEF kind
  <1>5. Kept(inst, i) /\ Steady(inst, i) BY <1>0, ChangeNcpState, KeptRefl DEF NCPState
  <1> HIDE DEF i
  <1>6. InstOK(i) /\ InLine(i.tasks) /\ PastInit(i) BY <1>0, <1>5, KeptGoes, SteadyPast DEF Goes
  <1>7. Called(i.tasks, i.answers, m) /\ i.answers = inst.answers BY <1>0, <1>5, KeptGoes DEF Goes, Kept
  <1>8. i.state \in NCPState BY <1>6 DEF InstOK, RecOK, ModesOK
  <1>9. t.id = id /\ t.last = i.state BY <1>4, <1>8, NewTaskOK DEF NewTask
  <1> HIDE DEF t
  <1>10. m \in Nat /\ MaxCalls \in Nat /\ id \in CallIds
      BY <1>1, MaxCallsBounds DEF Called, LeftOK, CoreInv, CallIds
  <1>11. inst.answers[id] = <<>> /\ DOMAIN inst.answers = CallIds
    <2>1. id > m BY <1>10
    <2>. QED BY <1>0, <1>10, <2>1 DEF Called
  <1>12. CASE Became(r) /\ ev' = ev
    <2>1. Finished(i, r, id) /\ Steady(i, r) BY <1>6, <1>8, <1>9, FinishTask
    <2> HIDE DEF r
    <2>2. InstOK(r) /\ PastInit(r) BY <1>6, <2>1, FinishedOK, SteadyPast
    <2>3. IsQueue(i.tasks) /\ Grown(i.tasks, r.tasks) /\ Answered(inst.answers, r.answers, id)
      BY <1>6, <1>7, <2>1 DEF InstOK, QueueOK, Finished
    <2>4. InLine(r.tasks) BY <1>6, <2>3, GrownInLine
    <2>5. Called(r.tasks, inst.answers, m) BY <1>7, <2>3, GrownSameCalls, SameCallsCalled
    <2>6. Len(r.tasks) \in Nat BY <2>3 DEF Grown, IsQueue
    <2>7. Called(r.tasks, r.answers, id) BY <1>1, <2>3, <2>5, <2>6, CallRejected
    <2>8. /\ Len(r.answers[id]) = 1 /\ r.answers[id] # <<>>
          /\ \A c \in CallIds : c # id => r.answers[c] = inst.answers[c] BY <1>10, <1>11, <2>3, OneAnswer
    <2>9. Serves(Seen(inst.answers, m), Seen(r.answers, id)) BY <1>0, <1>1, <2>8, CallMadeSeen
    <2>10. WholeInst(r, id) BY <2>2, <2>4, <2>7 DEF WholeInst
    <2>11. inst' = [r EXCEPT !.tx = Settle(r.tx, r)] /\ rx' = Settle(rx, r) BY <1>12 DEF Became
    <2>12. WholeInst(inst', id) /\ inst'.answers = r.answers BY <2>10, <2>11, OtherTx
    <2>13. RxOK(rx') BY <2>11, SettleOK DEF CoreInv, RxOK
    <2>. QED BY <1>1, <1>3, <2>9, <2>12, <2>13 DEF Keeps, CoreInv
  <1>13. CASE Became(p) /\ ev' = Starting
    <2>1. InstOK(p) /\ InLine(p.tasks) /\ Steady(i, p) /\ p.answers = i.answers /\ p.tasks = Append(i.tasks, t)
      BY <1>4, <1>6, CallTaskPushed DEF t
    <2> HIDE DEF p
    <2>2. PastInit(p) BY <1>6, <2>1, SteadyPast
    <2>3. IsQueue(i.tasks) BY <1>6 DEF InstOK, QueueOK
    <2>4. Called(p.tasks, p.answers, id) BY <1>1, <1>7, <1>9, <2>1, <2>3, CallQueued
    <2>5. Serves(Seen(inst.answers, m), Seen(p.answers, id)) BY <1>0, <1>1, <1>7, <1>11, <2>1, CallMadeSeen
    <2>10. WholeInst(p, id) BY <2>1, <2>2, <2>4 DEF WholeInst
    <2>11. inst' = [p EXCEPT !.tx = Settle(p.tx, p)] /\ rx' = Settle(rx, p) BY <1>13 DEF Became
    <2>12. WholeInst(inst', id) /\ inst'.answers = p.answers BY <2>10, <2>11, OtherTx
    <2>13. RxOK(rx') BY <2>11, SettleOK DEF CoreInv, RxOK
    <2>. QED BY <1>1, <1>3, <2>5, <2>12, <2>13 DEF Keeps, CoreInv
  <1>. QED BY <1>2, <1>12, <1>13

\* One more frame, while there is room.
LEMMA RxAppend == ASSUME RxOK(rx), Len(rx) < MaxRx, NEW x, FrameOK(x) PROVE RxOK(Append(rx, x))
  <1> DEFINE q == Append(rx, x)
  <1>1. IsQueue(rx) /\ Len(rx) \in Nat /\ MaxRx \in Nat BY BudgetsAreNaturals DEF RxOK, IsQueue
  <1>2. /\ IsQueue(q) /\ Len(q) = Len(rx) + 1 /\ q[Len(rx) + 1] = x
        /\ \A n \in 1..Len(rx) : q[n] = rx[n] BY <1>1, AppendQueue
  <1> HIDE DEF q
  <1>3. \A n \in 1..Len(q) : n \in 1..Len(rx) \/ n = Len(rx) + 1 BY <1>1, <1>2
  <1>4. RxOK(q) BY <1>1, <1>2, <1>3 DEF RxOK
  <1>. QED BY <1>4 DEF q

\* What the NCP sends are frames.
LEMMA FramesOK ==
  ASSUME NEW v, NEW b, NEW hdr, v \in {"is_mode", "is_saved"} => b \in BOOLEAN PROVE FrameOK(Frame(v, b, hdr))
  BY DEF FrameOK, Frame

\* Short sequences are queues.
LEMMA ShortQueues == ASSUME NEW x, NEW y, NEW z
  PROVE  IsQueue(<<>>) /\ IsQueue(<<x>>) /\ IsQueue(<<x, y>>) /\ IsQueue(<<x, y, z>>)
         /\ Len(<<>>) = 0 /\ Len(<<x>>) = 1
  <1>1. <<>> \in Seq({x}) /\ <<x>> \in Seq({x}) /\ <<x, y>> \in Seq({x, y})
      /\ <<x, y, z>> \in Seq({x, y, z}) OBVIOUS
  <1>2. Len(<<>>) = 0 /\ Len(<<x>>) = 1 OBVIOUS
  <1>. QED BY <1>1, <1>2, QueueOf

\* A queue of frames.
FramesIn(q) == IsQueue(q) /\ \A n \in 1..Len(q) : FrameOK(q[n])

\* One frame, or three, are a queue of frames.
LEMMA FewFrames == ASSUME NEW x, NEW y, NEW z, FrameOK(x), FrameOK(y), FrameOK(z)
  PROVE  FramesIn(<<x>>) /\ FramesIn(<<x, y, z>>)
  <1>1. IsQueue(<<x>>) /\ IsQueue(<<x, y, z>>) BY ShortQueues
  <1>2. FramesIn(<<x>>)
    <2> DEFINE s == <<x>>
    <2>1. Len(s) = 1 /\ s[1] = x /\ \A n \in 1..1 : n = 1 OBVIOUS
    <2> HIDE DEF s
    <2>2. \A n \in 1..Len(s) : FrameOK(s[n]) BY <2>1
    <2>. QED BY <1>1, <2>2 DEF FramesIn, s
  <1>3. FramesIn(<<x, y, z>>)
    <2> DEFINE s == <<x, y, z>>
    <2>1. Len(s) = 3 /\ s[1] = x /\ s[2] = y /\ s[3] = z /\ \A n \in 1..3 : n = 1 \/ n = 2 \/ n = 3 OBVIOUS
    <2> HIDE DEF s
    <2>2. \A n \in 1..Len(s) : FrameOK(s[n]) BY <2>1
    <2>. QED BY <1>1, <2>2 DEF FramesIn, s
  <1>. QED BY <1>2, <1>3

\* The NCP answers a command with a queue of frames.
LEMMA AnswersAreFrames == ASSUME NEW c, NEW hdr, NEW r PROVE FramesIn(NcpAnswer(c, hdr, r).frames)
  <1> DEFINE One(v, b) == <<Frame(v, b, hdr)>>
             g == NcpAnswer(c, hdr, r).frames
             scan == <<Frame("ok", TRUE, hdr), Frame("beacon", TRUE, "none"), Frame("scan_idle", TRUE, "none")>>
             rst == <<Frame("reset", TRUE, "none")>>
  <1>1. ASSUME NEW v, NEW b, v \in {"is_mode", "is_saved"} => b \in BOOLEAN PROVE FramesIn(One(v, b))
    <2>1. FrameOK(Frame(v, b, hdr)) BY <1>1, FramesOK
    <2>. QED BY <2>1, FewFrames
  <1>2. FramesIn(scan)
    <2>1. FrameOK(Frame("ok", TRUE, hdr)) /\ FrameOK(Frame("beacon", TRUE, "none"))
        /\ FrameOK(Frame("scan_idle", TRUE, "none")) BY FramesOK
    <2>. QED BY <2>1, FewFrames
  <1>3. FramesIn(rst)
    <2>1. FrameOK(Frame("reset", TRUE, "none")) BY FramesOK
    <2>. QED BY <2>1, FewFrames
  <1>4. \A b : FramesIn(One("is_stack", b)) /\ FramesIn(One("is_if", b)) /\ FramesIn(One("is_power", b))
             /\ FramesIn(One("is_role", b)) /\ FramesIn(One("ok", b)) BY <1>1
  <1>5. FramesIn(One("is_mode", "Sleepy" \notin Opts("join"))) BY <1>1
  <1> HIDE DEF scan, rst
  <1>6. FramesIn(g)
    <2>1. CASE c \in {"STACK_UP", "STACK_DOWN"}
      <3>1. g = One("is_stack", c = "STACK_UP") BY <2>1 DEF NcpAnswer
      <3>. QED BY <1>4, <3>1
    <2>2. CASE c \in {"IF_UP", "IF_DOWN"}
      <3>1. g = One("is_if", c = "IF_UP") BY <2>2 DEF NcpAnswer
      <3>. QED BY <1>4, <3>1
    <2>3. CASE c = "GET_STACK_UP"
      <3>1. g = One("is_stack", r.stack) BY <2>3 DEF NcpAnswer
      <3>. QED BY <1>4, <3>1
    <2>4. CASE c = "POWER_LOW"
      <3>1. g = One("is_power", TRUE) BY <2>4 DEF NcpAnswer
      <3>. QED BY <1>4, <3>1
    <2>5. CASE c = "GET_IF_UP"
      <3>1. g = One("is_if", r.if) BY <2>5 DEF NcpAnswer
      <3>. QED BY <1>4, <3>1
    <2>6. CASE c = "GET_ROLE"
      <3>1. g = One("is_role", r.role = "attached") BY <2>6 DEF NcpAnswer
      <3>. QED BY <1>4, <3>1
    <2>7. CASE c = "THREAD_MODE"
      <3>1. g = One("is_mode", "Sleepy" \notin Opts("join")) BY <2>7 DEF NcpAnswer
      <3>. QED BY <1>5, <3>1
    <2>8. CASE c = "RESET"
      <3>1. g = rst BY <2>8 DEF NcpAnswer, rst
      <3>. QED BY <1>3, <3>1
    <2>9. CASE c = "SCAN_START"
      <3>1. g = scan BY <2>9 DEF NcpAnswer, scan
      <3>. QED BY <1>2, <3>1
    <2>10. CASE c \in {"JOINER_START", "REQUIRE_JOIN_EXISTING"}
      <3>1. g = One("ok", TRUE) BY <2>10 DEF NcpAnswer
      <3>. QED BY <1>4, <3>1
    <2>11. CASE c \notin {"STACK_UP", "STACK_DOWN", "IF_UP", "IF_DOWN", "GET_STACK_UP", "POWER_LOW",
                          "GET_IF_UP", "GET_ROLE", "THREAD_MODE", "RESET", "SCAN_START", "JOINER_START",
                          "REQUIRE_JOIN_EXISTING"}
      <3>1. g = One("ok", TRUE) BY <2>11 DEF NcpAnswer
      <3>. QED BY <1>4, <3>1
    <2>. QED BY <2>1, <2>2, <2>3, <2>4, <2>5, <2>6, <2>7, <2>8, <2>9, <2>10, <2>11
  <1>. QED BY <1>6 DEF g

\* Two queues of frames make one.
LEMMA FramesConcat == ASSUME NEW a, NEW b, FramesIn(a), FramesIn(b)
  PROVE  FramesIn(a \o b) /\ Len(a \o b) = Len(a) + Len(b)
  <1> DEFINE q == a \o b
  <1>1. IsQueue(a) /\ IsQueue(b) /\ Len(a) \in Nat /\ Len(b) \in Nat BY DEF FramesIn, IsQueue
  <1>2. /\ IsQueue(q) /\ Len(q) = Len(a) + Len(b)
        /\ \A n \in 1..Len(a) : q[n] = a[n]
        /\ \A n \in 1..(Len(a) + Len(b)) : n > Len(a) => q[n] = b[n - Len(a)] /\ n - Len(a) \in 1..Len(b)
    BY <1>1, QueueConcat
  <1> HIDE DEF q
  <1>3. ASSUME NEW n \in 1..Len(q) PROVE FrameOK(q[n])
    <2>1. CASE n <= Len(a) BY <1>1, <1>2, <2>1 DEF FramesIn
    <2>2. CASE n > Len(a)
      <3>1. q[n] = b[n - Len(a)] /\ n - Len(a) \in 1..Len(b) BY <1>2, <2>2
      <3>. QED BY <3>1 DEF FramesIn
    <2>. QED BY <1>1, <1>2, <2>1, <2>2
  <1>4. FramesIn(q) BY <1>2, <1>3 DEF FramesIn
  <1>. QED BY <1>2, <1>4 DEF q

\* Room for one more.
LEMMA RoomForOne ==
  ASSUME NEW x \in Nat, NEW y \in Nat, NEW z, NEW m \in Nat, x + y < m, z = 0 \/ z = 1
  PROVE  x + y + z <= m
  OBVIOUS

\* NcpServe preserves the invariant and is a step of the call service or
\* none.
LEMMA NcpServeKeeps == ASSUME CoreInv, NcpServe PROVE Keeps
  <1> DEFINE cmd == Head(inst.tx)
             a == NcpAnswer(cmd.c, cmd.hdr, radio)
             g == a.frames
             i == [inst EXCEPT !.tx = Tail(inst.tx)]
             extra == IF cmd.c = "FETCH_RADIO" /\ Waits(i, "task") THEN <<Frame("ok", TRUE, "task")>> ELSE <<>>
             e == Frame("error", TRUE, cmd.hdr)
             y == Frame("already", TRUE, cmd.hdr)
  <1>1. Len(rx) + Len(g) < MaxRx /\ inst' = i /\ ev' = ev BY DEF NcpServe
  <1>2. \/ rx' = rx \o g \o extra /\ left' = left
        \/ rx' = Append(rx, e) /\ Spend("faults")
        \/ rx' = Append(rx, y) /\ left' = left
        \/ Spend("faults") /\ \E v \in OddReplies : rx' = Append(rx, Frame(v, TRUE, "none"))
    BY DEF NcpServe, Odd
  <1>3. FramesIn(g) BY AnswersAreFrames
  <1>4. FramesIn(extra) /\ Len(extra) \in {0, 1}
    <2>1. FrameOK(Frame("ok", TRUE, "task")) BY FramesOK
    <2>2. IsQueue(<<>>) /\ Len(<<>>) = 0 BY ShortQueues
    <2>3. FramesIn(<<>>) BY <2>2 DEF FramesIn
    <2>4. Len(<<Frame("ok", TRUE, "task")>>) = 1 BY ShortQueues
    <2>. QED BY <2>1, <2>2, <2>3, <2>4, FewFrames
  <1>11. FrameOK(e) /\ FrameOK(y) BY FramesOK
  <1>12. \A v : FrameOK(Frame(v, TRUE, "none")) BY FramesOK
  <1> HIDE DEF g, extra, i, e, y
  <1>5. RxOK(rx) /\ FramesIn(rx) /\ Len(rx) \in Nat /\ Len(g) \in Nat /\ MaxRx \in Nat /\ Len(rx) < MaxRx
    BY <1>1, <1>3, BudgetsAreNaturals DEF CoreInv, RxOK, FramesIn, IsQueue
  <1>6. RxOK(rx \o g \o extra)
    <2> DEFINE p == rx \o g
               q == p \o extra
    <2>2. FramesIn(p) /\ Len(p) = Len(rx) + Len(g) BY <1>3, <1>5, FramesConcat
    <2> HIDE DEF p
    <2>3. FramesIn(q) /\ Len(q) = Len(p) + Len(extra) BY <1>4, <2>2, FramesConcat
    <2> HIDE DEF q
    <2>4. Len(q) <= MaxRx
      <3>1. Len(extra) = 0 \/ Len(extra) = 1 BY <1>4
      <3>2. Len(q) = Len(rx) + Len(g) + Len(extra) BY <2>2, <2>3
      <3>3. Len(rx) \in Nat /\ Len(g) \in Nat /\ MaxRx \in Nat /\ Len(rx) + Len(g) < MaxRx BY <1>1, <1>5
      <3>4. Len(rx) + Len(g) + Len(extra) <= MaxRx BY <3>1, <3>3, RoomForOne
      <3>. QED BY <3>2, <3>4
    <2>5. RxOK(q) BY <2>3, <2>4 DEF RxOK, FramesIn
    <2>. QED BY <2>5 DEF p, q
  <1>8. RxOK(rx')
    <2>1. \A x : FrameOK(x) => RxOK(Append(rx, x)) BY <1>5, RxAppend
    <2>. QED BY <1>2, <1>6, <1>11, <1>12, <2>1
  <1>9. LeftOK(left') /\ left'.made = left.made BY <1>2, Spending, SameLeft
  <1>10. EventOK(ev') BY <1>1 DEF CoreInv
  <1>. QED BY <1>1, <1>8, <1>9, <1>10, OnlyTx DEF i

\* NcpAttaches preserves the invariant and is a step of the call service or
\* none.
LEMMA NcpAttachesKeeps == ASSUME CoreInv, NcpAttaches PROVE Keeps
  <1>1. inst' = inst /\ ev' = ev /\ left' = left /\ Len(rx) < MaxRx
      /\ rx' = Append(rx, Frame("is_role", TRUE, "none"))
    BY DEF NcpAttaches
  <1>3. FrameOK(Frame("is_role", TRUE, "none")) BY FramesOK
  <1>2. RxOK(rx') /\ EventOK(ev') BY <1>1, <1>3, RxAppend DEF CoreInv
  <1>. QED BY <1>1, <1>2, SameLeft, OnlyTx

\* NcpJoins preserves the invariant and is a step of the call service or
\* none.
LEMMA NcpJoinsKeeps == ASSUME CoreInv, NcpJoins PROVE Keeps
  <1>1. PICK v : inst' = inst /\ ev' = ev /\ left' = left /\ Len(rx) < MaxRx
      /\ rx' = Append(rx, Frame(v, TRUE, "none"))
    BY DEF NcpJoins
  <1>3. FrameOK(Frame(v, TRUE, "none")) BY FramesOK
  <1>2. RxOK(rx') /\ EventOK(ev') BY <1>1, <1>3, RxAppend DEF CoreInv
  <1>. QED BY <1>1, <1>2, SameLeft, OnlyTx

\* NcpReports preserves the invariant and is a step of the call service or
\* none.
LEMMA NcpReportsKeeps == ASSUME CoreInv, NcpReports PROVE Keeps
  <1>1. PICK n \in Notices : inst' = inst /\ ev' = ev /\ Spend("notices") /\ Len(rx) < MaxRx
      /\ rx' = Append(rx, Frame(n.v, n.b, "none"))
    BY DEF NcpReports
  <1>2. n.b \in BOOLEAN BY OddRepliesAssumption
  <1>3. FrameOK(Frame(n.v, n.b, "none")) BY <1>2, FramesOK
  <1>4. RxOK(rx') /\ EventOK(ev') BY <1>1, <1>3, RxAppend DEF CoreInv
  <1>. QED BY <1>1, <1>4, Spending, OnlyTx

\* NcpDrops preserves the invariant and is a step of the call service or
\* none.
LEMMA NcpDropsKeeps == ASSUME CoreInv, NcpDrops PROVE Keeps
  <1>1. PICK v \in {"is_role", "is_stack"} : inst' = inst /\ ev' = ev /\ Spend("faults") /\ Len(rx) < MaxRx
      /\ rx' = Append(rx, Frame(v, FALSE, "none"))
    BY DEF NcpDrops
  <1>3. FrameOK(Frame(v, FALSE, "none")) BY FramesOK
  <1>2. RxOK(rx') /\ EventOK(ev') BY <1>1, <1>3, RxAppend DEF CoreInv
  <1>. QED BY <1>1, <1>2, Spending, OnlyTx

\* NcpResets preserves the invariant and is a step of the call service or
\* none.
LEMMA NcpResetsKeeps == ASSUME CoreInv, NcpResets PROVE Keeps
  <1>1. PICK v : inst' = [inst EXCEPT !.tx = <<>>] /\ ev' = ev /\ Spend("faults") /\ Len(rx) < MaxRx
      /\ rx' = Append(rx, Frame(v, TRUE, "none"))
    BY DEF NcpResets
  <1>3. FrameOK(Frame(v, TRUE, "none")) BY FramesOK
  <1>2. RxOK(rx') /\ EventOK(ev') BY <1>1, <1>3, RxAppend DEF CoreInv
  <1>. QED BY <1>1, <1>2, Spending, OnlyTx

\* Lose preserves the invariant and is a step of the call service or none.
LEMMA LoseKeeps == ASSUME CoreInv, Lose PROVE Keeps
  <1> DEFINE x == Tail(inst.tx)
  <1>1. /\ ev' = ev /\ Spend("faults")
        /\ \/ rx # <<>> /\ rx' = Tail(rx) /\ inst' = inst
           \/ inst' = [inst EXCEPT !.tx = x] /\ rx' = rx BY DEF Lose
  <1> HIDE DEF x
  <1>2. RxOK(rx) BY DEF CoreInv
  <1>3. RxOK(rx')
    <2>1. CASE rx' = rx BY <1>2, <2>1
    <2>2. CASE rx # <<>> /\ rx' = Tail(rx)
      <3>1. Len(rx) > 0 BY <1>2, <2>2 DEF RxOK, IsQueue
      <3>. QED BY <1>2, <2>2, <3>1, RxTail
    <2>. QED BY <1>1, <2>1, <2>2
  <1>4. EventOK(ev') BY <1>1 DEF CoreInv
  <1>5. LeftOK(left') /\ left'.made = left.made BY <1>1, Spending
  <1>6. inst' = inst \/ inst' = [inst EXCEPT !.tx = x] BY <1>1
  <1>. QED BY <1>3, <1>4, <1>5, <1>6, OnlyTx

\* A step that changes nothing preserves the invariant.
LEMMA StutterKeeps == ASSUME CoreInv, UNCHANGED vars PROVE Keeps
  <1>1. inst' = inst /\ ev' = ev /\ rx' = rx /\ left' = left BY DEF vars
  <1>2. RxOK(rx') /\ EventOK(ev') BY <1>1 DEF CoreInv
  <1>. QED BY <1>1, <1>2, SameLeft, OnlyTx

\* Every step keeps the invariant, and is a step of the call service.
LEMMA NextKeeps == ASSUME CoreInv, [Next]_vars PROVE Keeps
  <1>1. CASE RunTask BY <1>1, RunTaskKeeps
  <1>2. CASE RunControl BY <1>2, RunControlKeeps
  <1>3. CASE NextPass BY <1>3, NextPassKeeps
  <1>4. CASE Call BY <1>4, CallKeeps
  <1>5. CASE SetEnabled BY <1>5, SetEnabledKeeps
  <1>6. CASE Receive BY <1>6, ReceiveKeeps
  <1>7. CASE \E who \in {"task", "ctl"} : Expire(who) BY <1>7, ExpireKeeps
  <1>8. CASE Misbehaving BY <1>8, MisbehavingKeeps
  <1>9. CASE ResetTask BY <1>9, ResetTaskKeeps
  <1>10. CASE TasksReset BY <1>10, TasksResetKeeps
  <1>11. CASE FirmwareUpgraded BY <1>11, FirmwareUpgradedKeeps
  <1>12. CASE NcpServe BY <1>12, NcpServeKeeps
  <1>13. CASE NcpAttaches BY <1>13, NcpAttachesKeeps
  <1>14. CASE NcpJoins BY <1>14, NcpJoinsKeeps
  <1>15. CASE NcpDrops BY <1>15, NcpDropsKeeps
  <1>16. CASE NcpResets BY <1>16, NcpResetsKeeps
  <1>17. CASE Lose BY <1>17, LoseKeeps
  <1>18. CASE UNCHANGED vars BY <1>18, StutterKeeps
  <1>19. CASE SetCapture BY <1>19, SetCaptureKeeps
  <1>20. CASE Capture BY <1>20, CaptureKeeps
  <1>21. CASE Flushed BY <1>21, FlushedKeeps
  <1>22. CASE NcpReports BY <1>22, NcpReportsKeeps
  <1>. QED BY <1>1, <1>2, <1>3, <1>4, <1>5, <1>6, <1>7, <1>8, <1>9, <1>10, <1>11, <1>12, <1>13, <1>14,
              <1>15, <1>16, <1>17, <1>18, <1>19, <1>20, <1>21, <1>22 DEF Next

\* The invariant holds initially.
LEMMA InitKeeps == ASSUME Init PROVE CoreInv
  <1>1. inst = InitInst /\ ev = Idle /\ rx = <<>> BY DEF Init
  <1>2. PICK s \in Scenarios : left = [plan |-> s.plan, toggles |-> s.toggles, captures |-> s.captures,
                                       notices |-> s.notices, faults |-> s.faults, made |-> 0]
    BY DEF Init
  <1>3. EventOK(ev) BY <1>1, EventsOK
  <1>4. RxOK(rx)
    <2>1. IsQueue(<<>>) /\ Len(<<>>) = 0 BY ShortQueues
    <2>2. MaxRx \in Nat BY BudgetsAreNaturals
    <2>. QED BY <1>1, <2>1, <2>2 DEF RxOK
  <1>5. LeftOK(left) /\ left.made = 0
    <2>1. s.plan \in Seq(CallKinds) BY PlansAssumption
    <2>2. IsQueue(s.plan) /\ DOMAIN s.plan = 1..Len(s.plan) /\ Len(s.plan) \in Nat BY <2>1, QueueOf
    <2>3. \A n \in 1..Len(s.plan) : s.plan[n] \in Kinds BY <2>2 DEF Kinds
    <2>4. left.plan = s.plan /\ left.made = 0 /\ DOMAIN left = LeftFields BY <1>2 DEF LeftFields
    <2>5. Len(s.plan) <= MaxCalls /\ MaxCalls \in Nat BY MaxCallsBounds
    <2>. QED BY <2>2, <2>3, <2>4, <2>5 DEF LeftOK
  <1>6. WholeInst(inst, 0)
    <2> DEFINE i == InitInst
    <2>0. IsQueue(<<>>) /\ Len(<<>>) = 0 BY ShortQueues
    <2>1. DOMAIN i = InstFields BY DEF InitInst, InstFields
    <2>2. FlagsOK(i) BY DEF InitInst, FlagsOK
    <2>3. ModesOK(i) BY DEF InitInst, ModesOK, NCPState, Drivers, Ctls, InitPcs, Resetters, Subs, Fetches
    <2>4. i.failures = 0 /\ i.tasks = <<>> /\ i.ctl = "start" /\ i.resetting = "no"
          /\ i.answers = [c \in CallIds |-> <<>>] BY DEF InitInst
    <2> HIDE DEF i
    <2>5. QueueOK(i.tasks) /\ InLine(i.tasks) BY <2>0, <2>4 DEF QueueOK, InLine
    <2>6. PastInit(i) BY <2>4 DEF PastInit, InitPcs
    <2>7. Called(i.tasks, i.answers, 0)
      <3>1. \A c \in CallIds : c > 0 /\ i.answers[c] = <<>> /\ Len(i.answers[c]) <= 1
        BY <2>0, <2>4, MaxCallsBounds DEF CallIds
      <3>2. DOMAIN i.answers = CallIds /\ 0 \in 0..MaxCalls BY <2>4, MaxCallsBounds
      <3>. QED BY <2>0, <2>4, <3>1, <3>2 DEF Called
    <2>8. InstOK(i) BY <2>1, <2>2, <2>3, <2>4, <2>5 DEF InstOK, RecOK
    <2>. QED BY <1>1, <2>5, <2>6, <2>7, <2>8 DEF WholeInst, i
  <1>. QED BY <1>3, <1>4, <1>5, <1>6 DEF CoreInv

\* The invariant implies CoreConsistent.
LEMMA CoreInvConsistent == ASSUME CoreInv PROVE CoreConsistent
  <1>1. InstOK(inst) /\ InLine(inst.tasks) /\ PastInit(inst) /\ Called(inst.tasks, inst.answers, left.made)
    BY DEF CoreInv, WholeInst
  <1>2. QueueOK(inst.tasks) /\ DOMAIN inst.tasks = 1..Len(inst.tasks) BY <1>1 DEF InstOK, QueueOK, IsQueue
  <1>3. TypeOK
    <2>1. RecOK(inst) BY <1>1 DEF InstOK
    <2>2. inst.state \in NCPState /\ inst.driver \in Drivers /\ inst.ctl \in Ctls
        /\ inst.resetting \in Resetters /\ inst.sub \in DOMAIN Fetches
      BY <2>1 DEF RecOK, ModesOK, Subs
    <2>3. {inst.initializing, inst.enabled, inst.resetExpected, inst.commissioned,
           inst.rxon, inst.capture, inst.pcap, inst.misbehaving, inst.online, inst.running} \subseteq BOOLEAN
      BY <2>1, Zenon DEF RecOK, FlagsOK
    <2>4. inst.failures \in Nat BY <2>1 DEF RecOK
    <2>5. Len(rx) <= MaxRx BY DEF CoreInv, RxOK
    <2>6. ASSUME NEW n \in DOMAIN inst.tasks
          PROVE  LET t == inst.tasks[n]
                 IN  /\ t.kind \in DOMAIN Scripts
                     /\ t.last \in NCPState
                     /\ t.pc \in DOMAIN (IF t.err THEN ErrorScripts ELSE Scripts)[t.kind]
      <3> DEFINE t == inst.tasks[n]
      <3>1. TaskOK(t) BY <1>2, <2>6 DEF QueueOK
      <3> HIDE DEF t
      <3>2. WellFormed(ScriptOf(t)) BY <3>1, ScriptsRun DEF TaskOK, ScriptOf, Program
      <3>3. DOMAIN ScriptOf(t) = 1..Len(ScriptOf(t)) BY <3>2 DEF WellFormed, IsQueue
      <3>4. ScriptOf(t) = (IF t.err THEN ErrorScripts ELSE Scripts)[t.kind] BY DEF ScriptOf
      <3>5. t.pc \in DOMAIN (IF t.err THEN ErrorScripts ELSE Scripts)[t.kind] BY <3>1, <3>3, <3>4 DEF TaskOK
      <3>. QED BY <3>1, <3>5 DEF TaskOK, t
    <2>. QED BY <2>2, <2>3, <2>4, <2>5, <2>6 DEF TypeOK, Drivers, Ctls
  <1>4. CallsInQueue BY <1>1, <1>2 DEF CallsInQueue, Called
  <1>5. QueuedTasksWait BY <1>1, <1>2 DEF QueuedTasksWait, InLine, Waiting
  <1>6. PastInitIsInitialized BY <1>1 DEF PastInitIsInitialized, PastInit, Past
  <1>. QED BY <1>3, <1>4, <1>5, <1>6 DEF CoreConsistent

\* In every reachable state of the instance the calls made and not answered
\* are carried by exactly one task each, the queued tasks have done
\* nothing, and the control protothread is past vprocess_init only with the
\* initialisation complete (SpinelNCPInstance, NCPInstanceBase).
THEOREM CoreIsConsistent == Spec => []CoreConsistent
  <1>1. Init => CoreInv BY InitKeeps
  <1>2. CoreInv /\ [Next]_vars => CoreInv' BY NextKeeps DEF Keeps
  <1>3. CoreInv => CoreConsistent BY CoreInvConsistent
  <1>. QED BY <1>1, <1>2, <1>3, PTL DEF Spec

\* The refinement of the call service, its initial states and its steps.
THEOREM CallsAreServed == Spec => Service!Init /\ [][Service!Next]_<<CallsOf, inst.state = "FAULT">>
  <1> DEFINE f == (inst.state = "FAULT")
  <1>1. Init => CoreInv /\ Service!Init
    <2>1. SUFFICES ASSUME Init PROVE CoreInv /\ Service!Init OBVIOUS
    <2>2. CoreInv BY <2>1, InitKeeps
    <2>3. inst.state = "UNINITIALIZED" BY <2>1 DEF Init, InitInst
    <2>4. left.made = 0 BY <2>1 DEF Init
    <2>5. \A c \in CallIds : c > left.made BY <2>4, MaxCallsBounds DEF CallIds
    <2>6. CallsOf = [c \in CallIds |-> "none"] BY <2>5 DEF CallsOf
    <2>. QED BY <2>2, <2>3, <2>6 DEF Service!Init
  <1>2. CoreInv /\ [Next]_vars => CoreInv' /\ Service!Next
    <2>1. SUFFICES ASSUME CoreInv, [Next]_vars PROVE CoreInv' /\ Service!Next OBVIOUS
    <2>2. CoreInv' /\ Serves(Seen(inst.answers, left.made), Seen(inst'.answers, left'.made))
        BY <2>1, NextKeeps DEF Keeps
    <2>3. CallsOf = Seen(inst.answers, left.made) BY DEF CallsOf, Seen
    <2>4. CallsOf' = Seen(inst'.answers, left'.made) BY DEF CallsOf, Seen
    <2>5. (inst.state = "FAULT")' \in BOOLEAN OBVIOUS
    <2>6. Serves(CallsOf, CallsOf') BY <2>2, <2>3, <2>4
    <2>7. Service!Next
      <3>1. CASE \E c \in CallIds : \E x \in {"pending", "answered"} : Makes(CallsOf, CallsOf', c, x)
        BY <2>5, <3>1 DEF Makes, Service!Next, Service!Make
      <3>2. CASE \E done \in SUBSET CallIds : Answers(CallsOf, CallsOf', done)
        BY <2>5, <3>2 DEF Answers, Service!Next, Service!Answer
      <3>. QED BY <2>6, <3>1, <3>2 DEF Serves
    <2>. QED BY <2>2, <2>7
  <1>. QED BY <1>1, <1>2, PTL DEF Spec
==============================================================================
