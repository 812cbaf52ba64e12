------------------------ MODULE ScanCollector_proofs ------------------------
(***************************************************************************)
(* Proofs about ScanCollector: what scan() returns can be believed, for    *)
(* any number of scans and of beacons.                                     *)
(***************************************************************************)
EXTENDS ScanCollector, TLAPS

-----------------------------------------------------------------------------
(* The inductive invariant.                                                *)

\* scan() before its command to start has been answered.
BeforeStart == {"guard", "register", "mask", "start"}

\* While the current scan is registered the slot holds its sender.
Registered == main \in {"mask", "start", "collect", "unregister"} => collector = scans

\* The loop ends with IDLE or by the deadline, never for want of a sender.
HowEnded == main = "unregister" => ended \in {"idle", "timeout"}

\* The NCP knows nothing of a scan that has not been started.
Unstarted(n) == n > scans \/ (n = scans /\ main \in BeforeStart)
NothingBefore ==
    /\ \A n \in Scans : Unstarted(n) => beacons[n] = 0 /\ ncp # n
    /\ main \in BeforeStart => results = <<>>

\* The first n scans ended with IDLE, or were refused before they registered.
CleanTo(r, n) == \A m \in 1 .. n : r[m].ended \in {"idle", "refused"}
Clean == CleanTo(returned, Len(returned))

\* The NCP is done with such a scan.
NotAgain == \A n \in 1 .. Len(returned) : CleanTo(returned, n) => ncp # n

\* After nothing but such scans nothing is on its way between two scans.
Quiet ==
    Clean /\ main \notin {"collect", "unregister"} =>
        line = <<>> /\ channel = <<>> /\ ncp = None

\* The frames on their way to the current scan, first those in its channel.
Pending == Len(channel) + Len(line)
Pend(j) == IF j <= Len(channel) THEN channel[j] ELSE line[j - Len(channel)]

\* The NCP has reported IDLE.
Last == IF ncp = None THEN 1 ELSE 0

\* Of p frames the first s report that the scan has begun and the last ones
\* that it is over.
Kind(j, s, p, last) ==
    IF j <= s THEN "scanning" ELSE IF j > p - last THEN "idle" ELSE "beacon"

\* What is on its way and what has been collected are what the NCP sent.
Accounted(s) ==
    /\ s + Last <= Pending
    /\ \A j \in 1 .. Pending : Pend(j) = [kind |-> Kind(j, s, Pending, Last), of |-> scans]
    /\ beacons[scans] + s + Last = Len(results) + Pending

OwnResults == \A k \in 1 .. Len(results) : results[k] = scans

Collecting ==
    Clean /\ main = "collect" =>
        /\ ncp \in {None, scans}
        /\ \E s \in {0, 1} : Accounted(s)
        /\ OwnResults

\* The loop has ended with IDLE: everything has been collected.
Drained ==
    Clean /\ main = "unregister" /\ ended = "idle" =>
        /\ line = <<>> /\ channel = <<>> /\ ncp = None
        /\ Len(results) = beacons[scans] /\ OwnResults

Local == Registered /\ HowEnded /\ NothingBefore
Past == EndsAtIdle /\ ResultsComplete /\ NotAgain
Flow == Quiet /\ Collecting /\ Drained
ScanInv == TypeOK /\ Local /\ Past /\ Flow

-----------------------------------------------------------------------------
(* Types and the slot.                                                     *)

\* The collector that a scan registered stays until it unregisters: recv()
\* returns a frame or waits.
LEMMA ReceiveGets ==
    ASSUME ScanInv, receive
    PROVE  /\ channel # <<>> /\ Head(channel) \in ScanFrames
           /\ Tail(channel) \in Seq(ScanFrames)
           /\ main = "collect" /\ main' \in {"collect", "unregister"}
           /\ main' = "unregister" <=> Head(channel).kind = "idle"
           /\ ended' = IF main' = "unregister" THEN "idle" ELSE ended
           /\ channel' = Tail(channel)
           /\ results' = IF Head(channel).kind = "beacon"
                         THEN Append(results, Head(channel).of) ELSE results
<1>1. main = "collect" /\ collector = scans /\ channel # <<>>
  BY DEF receive, ScanInv, Local, Registered
<1>2. channel \in Seq(ScanFrames)
  BY DEF ScanInv, TypeOK
<1>3. Head(channel) \in ScanFrames /\ Tail(channel) \in Seq(ScanFrames)
  BY <1>1, <1>2
<1> QED
  BY <1>1, <1>3 DEF receive, Breaks

\* Frames have the fields of frames.
LEMMA FrameFields ==
    /\ \A f \in ScanFrames : f.kind \in {"beacon", "scanning", "idle"} /\ f.of \in Scans
    /\ \A k \in {"beacon", "scanning", "idle"}, n \in Scans : [kind |-> k, of |-> n] \in ScanFrames
BY DEF ScanFrames

\* What a scan may return.
Outcomes == [ended : {"refused", "failed", "idle", "dropped", "timeout"}, results : Seq(Scans)]

\* scan() returns.
LEMMA ReturnTypes ==
    ASSUME TypeOK, main # "idle", NEW how \in {"refused", "failed", "idle", "dropped", "timeout"},
           NEW found \in Seq(Scans), Return(how, found)
    PROVE  /\ returned' \in Seq(Outcomes) /\ Len(returned') = scans' /\ scans' = scans
           /\ scans = Len(returned) + 1 /\ scans \in Scans /\ main' = "idle"
           /\ channel' = <<>> /\ channel' \in Seq(ScanFrames)
           /\ \A n \in 1 .. Len(returned) : returned'[n] = returned[n]
           /\ returned'[scans] = [ended |-> how, results |-> found]
<1> DEFINE x == [ended |-> how, results |-> found]
<1>1. returned \in Seq(Outcomes) /\ Len(returned) = scans - 1 /\ scans \in 0 .. MaxScans
  BY DEF TypeOK, Outcomes
<1>2. x \in Outcomes
  BY DEF Outcomes
<1>3. returned' = Append(returned, x) /\ scans' = scans /\ main' = "idle" /\ channel' = <<>>
  BY DEF Return
<1>4. MaxScans \in Nat
  BY ScanAssumption
<1>5. Len(returned) \in Nat /\ scans = Len(returned) + 1 /\ scans \in Scans
  BY <1>1, <1>4 DEF Scans
<1> HIDE DEF x
<1>6. /\ returned' \in Seq(Outcomes) /\ Len(returned') = Len(returned) + 1
      /\ \A n \in 1 .. Len(returned) : returned'[n] = returned[n]
      /\ returned'[Len(returned) + 1] = x
  BY <1>1, <1>2, <1>3
<1> QED
  BY <1>3, <1>5, <1>6 DEF x

\* Every step keeps the types.
LEMMA TypesKept ==
    ASSUME ScanInv, Next PROVE TypeOK'
<1>0. /\ TypeOK /\ MaxScans \in Nat /\ MaxBeacons \in Nat
  BY ScanAssumption DEF ScanInv
<1>1. CASE scan
  <2>1. <<>> \in Seq(Scans) /\ scans' \in 0 .. MaxScans /\ scans = scans' - 1
    BY <1>0, <1>1 DEF scan, TypeOK
  <2> QED
    BY <1>0, <1>1, <2>1 DEF scan, TypeOK
<1>2. CASE wait_for_state
  <2>1. CASE main' = "register" /\ UNCHANGED <<scans, returned, channel>>
    BY <1>0, <1>2, <2>1 DEF wait_for_state, TypeOK
  <2>2. CASE Return("refused", <<>>)
    <3>1. main # "idle" /\ <<>> \in Seq(Scans)
      BY <1>2 DEF wait_for_state
    <3> QED
      BY <1>0, <1>2, <2>2, <3>1, ReturnTypes DEF wait_for_state, TypeOK, Outcomes
  <2> QED
    BY <1>2, <2>1, <2>2 DEF wait_for_state
<1>3. CASE register_scan_collector
  BY <1>0, <1>3 DEF register_scan_collector, TypeOK, Scans, None
<1>4. CASE set_mask
  <2>1. CASE main' = "start" /\ UNCHANGED <<scans, returned, channel>>
    BY <1>0, <1>4, <2>1 DEF set_mask, TypeOK
  <2>2. CASE Return("failed", <<>>)
    <3>1. main # "idle" /\ <<>> \in Seq(Scans)
      BY <1>4 DEF set_mask
    <3> QED
      BY <1>0, <1>4, <2>2, <3>1, ReturnTypes DEF set_mask, TypeOK, Outcomes
  <2> QED
    BY <1>4, <2>1, <2>2 DEF set_mask
<1>5. CASE start_scan
  <2>0. scans \in Scans
    <3>1. Len(returned) \in Nat /\ Len(returned) = scans - 1 /\ scans \in 0 .. MaxScans
      BY <1>0, <1>5 DEF start_scan, TypeOK
    <3> QED
      BY <1>0, <3>1 DEF Scans
  <2>1. ncp' \in {None} \cup Scans
    BY <1>0, <1>5, <2>0 DEF start_scan, TypeOK
  <2>2. line' \in Seq(ScanFrames)
    <3>1. [kind |-> "scanning", of |-> scans] \in ScanFrames /\ line \in Seq(ScanFrames)
      BY <1>0, <2>0, FrameFields DEF TypeOK
    <3>2. Append(line, [kind |-> "scanning", of |-> scans]) \in Seq(ScanFrames)
      BY <3>1
    <3>3. line' = line \/ line' = Append(line, [kind |-> "scanning", of |-> scans])
      BY <1>5 DEF start_scan
    <3> QED
      BY <3>1, <3>2, <3>3
  <2>3. CASE main' = "collect" /\ UNCHANGED <<scans, returned, channel>>
    BY <1>0, <1>5, <2>1, <2>2, <2>3 DEF start_scan, TypeOK
  <2>4. CASE Return("failed", <<>>)
    <3>1. main # "idle" /\ <<>> \in Seq(Scans)
      BY <1>5 DEF start_scan
    <3> QED
      BY <1>0, <1>5, <2>1, <2>2, <2>4, <3>1, ReturnTypes DEF start_scan, TypeOK, Outcomes
  <2> QED
    BY <1>5, <2>3, <2>4 DEF start_scan
<1>6. CASE receive
  <2>1. results' \in Seq(Scans)
    <3>1. Head(channel).of \in Scans /\ results \in Seq(Scans)
      BY <1>0, <1>6, ReceiveGets, FrameFields DEF TypeOK
    <3>2. Append(results, Head(channel).of) \in Seq(Scans)
      BY <3>1
    <3> QED
      BY <1>6, <3>1, <3>2, ReceiveGets
  <2>2. channel' \in Seq(ScanFrames) /\ main' \in {"collect", "unregister"}
        /\ ended' \in {"running", "idle", "dropped", "timeout"} /\ main = "collect"
    BY <1>0, <1>6, ReceiveGets DEF TypeOK
  <2>3. UNCHANGED <<scans, returned, collector, frame_task, line, ncp, beacons>>
    BY <1>6 DEF receive
  <2> QED
    BY <1>0, <2>1, <2>2, <2>3 DEF TypeOK
<1>7. CASE deadline
  BY <1>0, <1>7 DEF deadline, TypeOK
<1>8. CASE unregister_scan_collector
  <2> DEFINE found == IF ended = "timeout" THEN <<>> ELSE results
  <2>1. main # "idle" /\ collector' = None /\ Return(ended, found)
        /\ UNCHANGED <<results, ended, frame_task, line, ncp, beacons>>
    BY <1>8 DEF unregister_scan_collector
  <2>2. ended \in {"refused", "failed", "idle", "dropped", "timeout"}
    BY <1>8 DEF unregister_scan_collector, ScanInv, Local, HowEnded
  <2>3. found \in Seq(Scans)
    <3>1. <<>> \in Seq(Scans) /\ results \in Seq(Scans)
      BY <1>0 DEF TypeOK
    <3> QED
      BY <3>1
  <2> HIDE DEF found
  <2>4. /\ returned' \in Seq(Outcomes) /\ Len(returned') = scans' /\ scans' = scans
        /\ main' = "idle" /\ channel' \in Seq(ScanFrames)
    BY <1>0, <2>1, <2>2, <2>3, ReturnTypes
  <2> QED
    BY <1>0, <2>1, <2>4 DEF TypeOK, Outcomes
<1>9. CASE dispatch_unsolicited
  <2>1. line # <<>> /\ line \in Seq(ScanFrames) /\ channel \in Seq(ScanFrames)
    BY <1>0, <1>9 DEF dispatch_unsolicited, TypeOK
  <2>2. Head(line) \in ScanFrames /\ Tail(line) \in Seq(ScanFrames)
    BY <2>1
  <2>3. Append(channel, Head(line)) \in Seq(ScanFrames)
    BY <2>1, <2>2
  <2> QED
    BY <1>0, <1>9, <2>2, <2>3 DEF dispatch_unsolicited, scanner, Slot, TypeOK
<1>10. CASE NcpBeacon \/ NcpIdle
  <2>1. ncp \in Scans /\ line \in Seq(ScanFrames)
    BY <1>0, <1>10 DEF NcpBeacon, NcpIdle, TypeOK
  <2>2. /\ [kind |-> "beacon", of |-> ncp] \in ScanFrames
        /\ [kind |-> "idle", of |-> ncp] \in ScanFrames
    BY <2>1, FrameFields
  <2>3. /\ Append(line, [kind |-> "beacon", of |-> ncp]) \in Seq(ScanFrames)
        /\ Append(line, [kind |-> "idle", of |-> ncp]) \in Seq(ScanFrames)
    BY <2>1, <2>2
  <2>4. line' \in Seq(ScanFrames)
    BY <1>10, <2>3 DEF NcpBeacon, NcpIdle
  <2>5. beacons' \in [Scans -> 0 .. MaxBeacons]
    <3>1. CASE NcpIdle
      BY <1>0, <3>1 DEF NcpIdle, TypeOK
    <3>2. CASE NcpBeacon
      <4>1. beacons[ncp] + 1 \in 0 .. MaxBeacons
        BY <1>0, <2>1, <3>2 DEF NcpBeacon, TypeOK
      <4> QED
        BY <1>0, <3>2, <4>1 DEF NcpBeacon, TypeOK
    <3> QED
      BY <1>10, <3>1, <3>2
  <2>6. ncp' \in {None} \cup Scans
    BY <1>10, <2>1 DEF NcpBeacon, NcpIdle
  <2> QED
    BY <1>0, <1>10, <2>4, <2>5, <2>6 DEF NcpBeacon, NcpIdle, scanner, TypeOK
<1> QED
  BY <1>1, <1>2, <1>3, <1>4, <1>5, <1>6, <1>7, <1>8, <1>9, <1>10 DEF Next, MainTask

\* Every step keeps the slot and what has not begun.
LEMMA LocalKept ==
    ASSUME ScanInv, Next PROVE Local'
<1>0. /\ TypeOK /\ Local /\ MaxScans \in Nat /\ scans \in Nat
      /\ \A n \in Scans : n \in Nat /\ n # None
  BY ScanAssumption DEF ScanInv, TypeOK, Scans, None
<1>u. ASSUME \A n \in Scans : Unstarted(n)' => Unstarted(n),
             \A n \in Scans : Unstarted(n)' => \/ beacons'[n] = beacons[n] /\ ncp' # n
                                               \/ ncp' = ncp /\ beacons' = beacons,
             main' \in BeforeStart => results' = <<>>
      PROVE  NothingBefore'
  BY <1>0, <1>u DEF Local, NothingBefore
<1>1. CASE scan
  <2>1. \A n \in Scans : Unstarted(n)' => Unstarted(n)
    BY <1>0, <1>1 DEF scan, Unstarted
  <2>2. NothingBefore'
    BY <1>1, <1>u, <2>1 DEF scan
  <2> QED
    BY <1>1, <2>2 DEF scan, Local, Registered, HowEnded
<1>2. CASE wait_for_state \/ register_scan_collector \/ set_mask
  <2>1. /\ UNCHANGED <<scans, results, ended, beacons, ncp>> /\ main \in BeforeStart
        /\ main' \in {"register", "mask", "start", "idle"}
    BY <1>2 DEF wait_for_state, register_scan_collector, set_mask, Return, BeforeStart
  <2>2. \A n \in Scans : Unstarted(n)' => Unstarted(n)
    BY <2>1 DEF Unstarted
  <2>3. NothingBefore'
    BY <1>0, <1>u, <2>1, <2>2 DEF Local, NothingBefore
  <2>4. Registered'
    BY <1>0, <1>2, <2>1 DEF wait_for_state, register_scan_collector, set_mask, Return,
                            Local, Registered
  <2> QED
    BY <2>1, <2>3, <2>4 DEF Local, HowEnded
<1>3. CASE start_scan
  <2>1. /\ UNCHANGED <<scans, results, ended, beacons, collector>> /\ ncp' \in {ncp, scans}
        /\ main' \in {"collect", "idle"} /\ main = "start"
    BY <1>3 DEF start_scan, Return
  <2>2. \A n \in Scans : Unstarted(n)' => n > scans
    BY <2>1 DEF Unstarted, BeforeStart
  <2>3. \A n \in Scans : n > scans => beacons[n] = 0 /\ ncp # n /\ n # scans
    BY <1>0 DEF Local, NothingBefore, Unstarted
  <2>4. NothingBefore'
    BY <2>1, <2>2, <2>3 DEF NothingBefore, BeforeStart
  <2> QED
    BY <1>0, <2>1, <2>4 DEF Local, HowEnded, Registered
<1>4. CASE receive
  <2>1. /\ UNCHANGED <<scans, beacons, collector, ncp>>
        /\ main' \in {"collect", "unregister"} /\ main = "collect"
        /\ main' = "unregister" => ended' = "idle"
    BY <1>4, ReceiveGets DEF receive
  <2>2. \A n \in Scans : Unstarted(n)' => Unstarted(n)
    BY <2>1 DEF Unstarted, BeforeStart
  <2>3. NothingBefore'
    BY <1>u, <2>1, <2>2 DEF BeforeStart
  <2> QED
    BY <1>0, <2>1, <2>3 DEF Local, HowEnded, Registered
<1>5. CASE deadline
  <2>1. /\ UNCHANGED <<scans, beacons, collector, ncp>>
        /\ main' = "unregister" /\ main = "collect" /\ ended' = "timeout"
    BY <1>5 DEF deadline
  <2>2. \A n \in Scans : Unstarted(n)' => Unstarted(n)
    BY <2>1 DEF Unstarted, BeforeStart
  <2>3. NothingBefore'
    BY <1>u, <2>1, <2>2 DEF BeforeStart
  <2> QED
    BY <1>0, <2>1, <2>3 DEF Local, HowEnded, Registered
<1>6. CASE unregister_scan_collector
  <2>1. UNCHANGED <<scans, beacons, ncp>> /\ main' = "idle"
    BY <1>6 DEF unregister_scan_collector, Return
  <2>2. \A n \in Scans : Unstarted(n)' => Unstarted(n)
    BY <2>1 DEF Unstarted, BeforeStart
  <2>3. NothingBefore'
    BY <1>u, <2>1, <2>2 DEF BeforeStart
  <2> QED
    BY <2>1, <2>3 DEF Local, HowEnded, Registered
<1>7. CASE dispatch_unsolicited
  BY <1>0, <1>7 DEF dispatch_unsolicited, scanner, Slot, Local, Registered, HowEnded,
                    NothingBefore, Unstarted
<1>8. CASE NcpBeacon \/ NcpIdle
  <2>1. /\ UNCHANGED <<scans, main, results, ended, collector>> /\ ncp \in Scans
        /\ ncp' \in {ncp, None} /\ beacons \in [Scans -> 0 .. MaxBeacons]
    BY <1>0, <1>8 DEF NcpBeacon, NcpIdle, scanner, TypeOK
  <2>2. \A n \in Scans : n # ncp => beacons'[n] = beacons[n]
    BY <1>8, <2>1 DEF NcpBeacon, NcpIdle
  <2>3. \A n \in Scans : Unstarted(n)' => Unstarted(n)
    BY <2>1 DEF Unstarted
  <2>4. NothingBefore'
    BY <1>0, <2>1, <2>2, <2>3 DEF Local, NothingBefore
  <2> QED
    BY <1>0, <2>1, <2>4 DEF Local, Registered, HowEnded
<1> QED
  BY <1>1, <1>2, <1>3, <1>4, <1>5, <1>6, <1>7, <1>8 DEF Next, MainTask

-----------------------------------------------------------------------------
(* The scans that have returned.                                           *)

\* A step in which no scan returns.
LEMMA PastStays ==
    ASSUME ScanInv, returned' = returned,
           \A n \in 1 .. Len(returned) : CleanTo(returned, n) => beacons'[n] = beacons[n] /\ ncp' # n
    PROVE  Past'
<1>1. EndsAtIdle' /\ NotAgain'
  BY DEF ScanInv, Past, EndsAtIdle, NotAgain
<1>2. ASSUME NEW n \in 1 .. Len(returned), returned[n].ended = "idle",
             \A m \in 1 .. n - 1 : returned[m].ended \in {"idle", "refused"}
      PROVE  returned[n].results = [i \in 1 .. beacons'[n] |-> n]
  <2>1. n \in Nat /\ \A m \in 1 .. n : m = n \/ m \in 1 .. n - 1
    BY DEF ScanInv, TypeOK
  <2>2. CleanTo(returned, n)
    BY <1>2, <2>1 DEF CleanTo
  <2> QED
    BY <1>2, <2>2 DEF ScanInv, Past, ResultsComplete
<1>3. ResultsComplete'
  BY <1>2 DEF ResultsComplete
<1> QED
  BY <1>1, <1>3 DEF Past

\* A step in which scan() returns.
LEMMA PastGrows ==
    ASSUME ScanInv, main # "idle", NEW how \in {"refused", "failed", "idle", "timeout"},
           NEW found \in Seq(Scans), Return(how, found), beacons' = beacons,
           \A n \in 1 .. Len(returned) : CleanTo(returned, n) => ncp' # n,
           Clean /\ how \in {"idle", "refused"} => ncp' # scans,
           Clean /\ how = "idle" => found = [i \in 1 .. beacons[scans] |-> scans]
    PROVE  Past'
<1>1. /\ Len(returned') = scans /\ scans = Len(returned) + 1 /\ Len(returned) \in Nat
      /\ \A n \in 1 .. Len(returned) : returned'[n] = returned[n]
      /\ returned'[scans] = [ended |-> how, results |-> found]
  BY ReturnTypes DEF ScanInv, TypeOK
<1>2. /\ returned'[scans].ended = how /\ returned'[scans].results = found
      /\ \A n \in 1 .. Len(returned') : n \in Nat /\ (n = scans \/ n \in 1 .. Len(returned))
      /\ \A n \in 1 .. Len(returned') : \A m \in 1 .. n - 1 : m \in 1 .. n /\ m \in 1 .. Len(returned)
      /\ \A n \in 1 .. Len(returned) : \A m \in 1 .. n : m \in 1 .. Len(returned)
      /\ \A m \in 1 .. Len(returned) : m \in 1 .. scans - 1 /\ m \in 1 .. scans
      /\ scans \in 1 .. scans
  BY <1>1
<1>3. EndsAtIdle'
  BY <1>1, <1>2 DEF ScanInv, Past, EndsAtIdle
<1>4. \A n \in 1 .. Len(returned) : CleanTo(returned', n) => CleanTo(returned, n)
  BY <1>1, <1>2 DEF CleanTo
<1>5. CleanTo(returned', scans) => Clean /\ how \in {"idle", "refused"}
  BY <1>1, <1>2 DEF Clean, CleanTo
<1>6. NotAgain'
  BY <1>2, <1>4, <1>5 DEF NotAgain
<1>7. ASSUME NEW n \in 1 .. Len(returned'), returned'[n].ended = "idle",
             \A m \in 1 .. n - 1 : returned'[m].ended \in {"idle", "refused"}
      PROVE  returned'[n].results = [i \in 1 .. beacons'[n] |-> n]
  <2>1. CASE n = scans
    <3>1. Clean /\ how = "idle"
      BY <1>1, <1>2, <1>7, <2>1 DEF Clean, CleanTo
    <3> QED
      BY <1>2, <2>1, <3>1
  <2>2. CASE n \in 1 .. Len(returned)
    <3>1. returned[n].ended = "idle" /\ \A m \in 1 .. n - 1 : returned[m].ended \in {"idle", "refused"}
      BY <1>1, <1>2, <1>7, <2>2
    <3> QED
      BY <1>1, <2>2, <3>1 DEF ScanInv, Past, ResultsComplete
  <2> QED
    BY <1>2, <2>1, <2>2
<1>8. ResultsComplete'
  BY <1>7 DEF ResultsComplete
<1> QED
  BY <1>3, <1>6, <1>8 DEF Past

\* Every step keeps what is known of the scans that have returned.
LEMMA PastKept ==
    ASSUME ScanInv, Next PROVE Past'
<1>0. /\ TypeOK /\ Len(returned) \in Nat /\ MaxScans \in Nat
      /\ Len(returned) = IF main = "idle" THEN scans ELSE scans - 1
      /\ scans \in 0 .. MaxScans
  BY ScanAssumption DEF ScanInv, TypeOK
<1>1. /\ \A n \in 1 .. Len(returned) : n \in Scans
      /\ \A n \in 1 .. Len(returned) : n # None
      /\ \A n \in 1 .. Len(returned) : main # "idle" => n # scans
      /\ main # "idle" => scans \in Scans
  BY <1>0 DEF Scans, None
<1>2. \A n \in 1 .. Len(returned) : CleanTo(returned, n) => ncp # n
  BY DEF ScanInv, Past, NotAgain
<1>e. <<>> \in Seq(Scans)
  OBVIOUS
<1>3. CASE returned' = returned /\ UNCHANGED <<ncp, beacons>>
  BY <1>2, <1>3, PastStays
<1>4. CASE wait_for_state
  <2>1. CASE Return("refused", <<>>)
    <3>1. main = "guard" /\ UNCHANGED <<ncp, beacons>>
      BY <1>4 DEF wait_for_state
    <3>2. ncp # scans
      BY <1>1, <3>1 DEF ScanInv, Local, NothingBefore, Unstarted, BeforeStart
    <3> QED
      BY <1>2, <1>e, <2>1, <3>1, <3>2, PastGrows
  <2> QED
    BY <1>3, <1>4, <2>1 DEF wait_for_state
<1>5. CASE set_mask
  <2>1. CASE Return("failed", <<>>)
    <3>1. main = "mask" /\ UNCHANGED <<ncp, beacons>>
      BY <1>5 DEF set_mask
    <3> QED
      BY <1>2, <1>e, <2>1, <3>1, PastGrows
  <2> QED
    BY <1>3, <1>5, <2>1 DEF set_mask
<1>6. CASE start_scan
  <2>0. main = "start" /\ ncp' \in {ncp, scans} /\ beacons' = beacons
    BY <1>6 DEF start_scan
  <2>1. \A n \in 1 .. Len(returned) : CleanTo(returned, n) => ncp' # n
    BY <1>1, <1>2, <2>0
  <2>2. CASE Return("failed", <<>>)
    BY <1>e, <2>0, <2>1, <2>2, PastGrows
  <2>3. CASE returned' = returned
    BY <2>0, <2>1, <2>3, PastStays
  <2> QED
    BY <1>6, <2>2, <2>3 DEF start_scan
<1>7. CASE unregister_scan_collector
  <2> DEFINE found == IF ended = "timeout" THEN <<>> ELSE results
  <2>1. main = "unregister" /\ Return(ended, found) /\ UNCHANGED <<ncp, beacons>>
    BY <1>7 DEF unregister_scan_collector
  <2>2. ended \in {"idle", "timeout"}
    BY <2>1 DEF ScanInv, Local, HowEnded
  <2>3. found \in Seq(Scans)
    BY <1>0, <1>e DEF TypeOK
  <2>4. ASSUME Clean, ended = "idle"
        PROVE  ncp # scans /\ found = [i \in 1 .. beacons[scans] |-> scans]
    <3>1. /\ ncp = None /\ Len(results) = beacons[scans] /\ OwnResults
      BY <2>1, <2>4 DEF ScanInv, Flow, Drained
    <3>2. ncp # scans
      BY <1>1, <2>1, <3>1 DEF Scans, None
    <3>3. results \in Seq(Scans) /\ found = results
      BY <1>0, <2>4 DEF TypeOK
    <3>4. results = [i \in 1 .. Len(results) |-> results[i]]
      BY <3>3
    <3> QED
      BY <3>1, <3>2, <3>3, <3>4 DEF OwnResults
  <2> HIDE DEF found
  <2> QED
    BY <1>2, <2>1, <2>2, <2>3, <2>4, PastGrows
<1>8. CASE NcpBeacon \/ NcpIdle
  <2>1. /\ ncp' \in {ncp, None} /\ beacons \in [Scans -> 0 .. MaxBeacons] /\ returned' = returned
    BY <1>0, <1>8 DEF NcpBeacon, NcpIdle, scanner, TypeOK
  <2>2. \A n \in Scans : n # ncp => beacons'[n] = beacons[n]
    BY <1>8, <2>1 DEF NcpBeacon, NcpIdle
  <2> QED
    BY <1>1, <1>2, <2>1, <2>2, PastStays
<1>9. CASE scan \/ register_scan_collector \/ receive \/ deadline \/ dispatch_unsolicited
  BY <1>3, <1>9 DEF scan, register_scan_collector, receive, deadline, dispatch_unsolicited, scanner
<1> QED
  BY <1>4, <1>5, <1>6, <1>7, <1>8, <1>9 DEF Next, MainTask

-----------------------------------------------------------------------------
(* The frames on their way.                                                *)

\* dispatch_unsolicited() moves a frame from the line to the end of the channel.
LEMMA PassFrame ==
    ASSUME channel \in Seq(ScanFrames), line \in Seq(ScanFrames), line # <<>>,
           channel' = Append(channel, Head(line)), line' = Tail(line)
    PROVE  Pending' = Pending /\ \A j \in 1 .. Pending : Pend(j)' = Pend(j)
<1>1. /\ Len(channel) \in Nat /\ Len(line) \in Nat \ {0} /\ Head(line) = line[1]
      /\ Len(channel') = Len(channel) + 1 /\ Len(line') = Len(line) - 1
  OBVIOUS
<1>2. /\ \A j \in 1 .. Len(channel) : channel'[j] = channel[j]
      /\ channel'[Len(channel) + 1] = line[1]
      /\ \A j \in 1 .. Len(line) - 1 : line'[j] = line[j + 1]
  BY <1>1
<1> QED
  BY <1>1, <1>2 DEF Pending, Pend

\* The NCP sends a frame.
LEMMA SendFrame ==
    ASSUME channel \in Seq(ScanFrames), line \in Seq(ScanFrames), NEW f \in ScanFrames,
           channel' = channel, line' = Append(line, f)
    PROVE  /\ Pending' = Pending + 1
           /\ \A j \in 1 .. Pending + 1 : Pend(j)' = IF j = Pending + 1 THEN f ELSE Pend(j)
<1>1. /\ Len(channel) \in Nat /\ Len(line) \in Nat /\ Len(line') = Len(line) + 1
      /\ \A j \in 1 .. Len(line) : line'[j] = line[j]
      /\ line'[Len(line) + 1] = f
  OBVIOUS
<1> QED
  BY <1>1 DEF Pending, Pend

\* recv() takes the first frame of the channel.
LEMMA TakeFrame ==
    ASSUME channel \in Seq(ScanFrames), line \in Seq(ScanFrames), channel # <<>>,
           channel' = Tail(channel), line' = line
    PROVE  /\ Pending' = Pending - 1 /\ Pending >= 1 /\ Head(channel) = Pend(1)
           /\ \A j \in 1 .. Pending - 1 : Pend(j)' = Pend(j + 1)
<1>1. /\ Len(channel) \in Nat \ {0} /\ Len(line) \in Nat /\ Len(channel') = Len(channel) - 1
      /\ \A j \in 1 .. Len(channel) - 1 : channel'[j] = channel[j + 1]
      /\ Head(channel) = channel[1]
  OBVIOUS
<1> QED
  BY <1>1 DEF Pending, Pend

\* The quantities of Accounted are numbers.
LEMMA Counts ==
    ASSUME TypeOK, main # "idle"
    PROVE  /\ Pending \in Nat /\ Last \in {0, 1} /\ Len(results) \in Nat
           /\ scans \in Scans /\ beacons[scans] \in Nat /\ scans # None
           /\ channel \in Seq(ScanFrames) /\ line \in Seq(ScanFrames) /\ results \in Seq(Scans)
<1>1. /\ Len(returned) \in Nat /\ Len(returned) = scans - 1 /\ scans \in 0 .. MaxScans
      /\ channel \in Seq(ScanFrames) /\ line \in Seq(ScanFrames) /\ results \in Seq(Scans)
      /\ beacons \in [Scans -> 0 .. MaxBeacons] /\ MaxScans \in Nat /\ MaxBeacons \in Nat
  BY ScanAssumption DEF TypeOK
<1>2. scans \in Scans /\ scans # None
  BY <1>1 DEF Scans, None
<1>3. Pending \in Nat /\ Last \in {0, 1} /\ Len(results) \in Nat
  BY <1>1 DEF Pending, Last
<1>4. beacons[scans] \in Nat
  BY <1>1, <1>2
<1> QED
  BY <1>1, <1>2, <1>3, <1>4

\* After a step in which scan() returns, only clean scans have returned if
\* this one and those before were clean.
LEMMA CleanReturn ==
    ASSUME ScanInv, main # "idle", NEW how \in {"refused", "failed", "idle", "timeout"},
           NEW found \in Seq(Scans), Return(how, found), Clean'
    PROVE  Clean /\ how \in {"idle", "refused"}
<1>1. /\ Len(returned') = scans /\ scans = Len(returned) + 1 /\ Len(returned) \in Nat
      /\ \A n \in 1 .. Len(returned) : returned'[n] = returned[n]
      /\ returned'[scans] = [ended |-> how, results |-> found]
  BY ReturnTypes DEF ScanInv, TypeOK
<1>2. returned'[scans].ended = how /\ scans \in 1 .. scans /\ \A m \in 1 .. Len(returned) : m \in 1 .. scans
  BY <1>1
<1> QED
  BY <1>1, <1>2 DEF Clean, CleanTo

\* recv() in the loop of a scan after nothing but clean ones.
LEMMA ReceiveKeeps ==
    ASSUME ScanInv, receive, Clean PROVE Flow'
<1>1. /\ channel # <<>> /\ main = "collect" /\ main' \in {"collect", "unregister"}
      /\ main' = "unregister" <=> Head(channel).kind = "idle"
      /\ channel' = Tail(channel)
      /\ results' = IF Head(channel).kind = "beacon"
                    THEN Append(results, Head(channel).of) ELSE results
  BY ReceiveGets
<1>2. UNCHANGED <<scans, line, ncp, beacons>>
  BY DEF receive
<1>3. /\ Pending \in Nat /\ Last \in {0, 1} /\ Len(results) \in Nat
      /\ scans \in Scans /\ beacons[scans] \in Nat
      /\ channel \in Seq(ScanFrames) /\ line \in Seq(ScanFrames) /\ results \in Seq(Scans)
  BY <1>1, Counts DEF ScanInv
<1>4. /\ Pending' = Pending - 1 /\ Pending >= 1 /\ Head(channel) = Pend(1)
      /\ \A j \in 1 .. Pending - 1 : Pend(j)' = Pend(j + 1)
  BY <1>1, <1>2, <1>3, TakeFrame
<1>5. ncp \in {None, scans} /\ OwnResults
  BY <1>1 DEF ScanInv, Flow, Collecting
<1>6. PICK s \in {0, 1} : Accounted(s)
  BY <1>1 DEF ScanInv, Flow, Collecting
<1>7. /\ s + Last <= Pending /\ beacons[scans] + s + Last = Len(results) + Pending
      /\ \A j \in 1 .. Pending : Pend(j) = [kind |-> Kind(j, s, Pending, Last), of |-> scans]
  BY <1>6 DEF Accounted
<1>8. Head(channel).kind = Kind(1, s, Pending, Last) /\ Head(channel).of = scans
  BY <1>4, <1>7
<1>9. Last' = Last
  BY <1>2 DEF Last
<1>10. CASE s = 1
  <2>1. Head(channel).kind = "scanning"
    BY <1>8, <1>10 DEF Kind
  <2>2. main' = "collect" /\ results' = results
    BY <1>1, <2>1
  <2>3. \A j \in 1 .. Pending - 1 : j + 1 \in 1 .. Pending /\ Kind(j + 1, 1, Pending, Last) = Kind(j, 0, Pending - 1, Last)
    BY <1>3 DEF Kind
  <2>4. \A j \in 1 .. Pending - 1 : Pend(j)' = [kind |-> Kind(j, 0, Pending - 1, Last), of |-> scans]
    BY <1>4, <1>7, <1>10, <2>3
  <2>5. /\ 0 + Last <= Pending - 1
        /\ beacons[scans] + 0 + Last = Len(results) + (Pending - 1)
    BY <1>3, <1>7, <1>10
  <2>6. Accounted(0)'
    BY <1>2, <1>4, <1>9, <2>2, <2>4, <2>5 DEF Accounted
  <2>7. Collecting'
    BY <1>2, <1>5, <2>2, <2>6 DEF Collecting, OwnResults
  <2> QED
    BY <2>2, <2>7 DEF Flow, Quiet, Drained
<1>11. CASE s = 0 /\ Pending = Last
  <2>1. Pending = 1 /\ Last = 1 /\ ncp = None
    BY <1>3, <1>4, <1>11 DEF Last
  <2>2. Head(channel).kind = "idle"
    BY <1>8, <1>11, <2>1 DEF Kind
  <2>3. main' = "unregister" /\ results' = results
    BY <1>1, <2>2
  <2>4. Len(channel) = 1 /\ Len(line) = 0
    <3>1. Len(channel) \in Nat \ {0} /\ Len(line) \in Nat
      BY <1>1, <1>3
    <3>2. Len(channel) + Len(line) = 1
      BY <2>1 DEF Pending
    <3>3. \A a \in Nat \ {0}, b \in Nat : a + b = 1 => a = 1 /\ b = 0
      OBVIOUS
    <3> QED
      BY <3>1, <3>2, <3>3
  <2>5. channel' = <<>> /\ line' = <<>>
    BY <1>1, <1>2, <1>3, <2>4
  <2>6. Len(results) = beacons[scans]
    BY <1>3, <1>7, <1>11, <2>1
  <2>7. Drained'
    BY <1>2, <1>5, <2>1, <2>3, <2>5, <2>6 DEF Drained, OwnResults
  <2> QED
    BY <2>3, <2>7 DEF Flow, Quiet, Collecting
<1>12. CASE s = 0 /\ Pending # Last
  <2>0. Pending - Last >= 1
    BY <1>3, <1>7, <1>12
  <2>1. Head(channel).kind = "beacon"
    BY <1>3, <1>8, <1>12, <2>0 DEF Kind
  <2>2. main' = "collect" /\ results' = Append(results, scans)
    BY <1>1, <1>8, <2>1
  <2>3. Len(results') = Len(results) + 1 /\ OwnResults'
    <3>1. /\ Len(results') = Len(results) + 1 /\ results'[Len(results) + 1] = scans
          /\ \A k \in 1 .. Len(results) : results'[k] = results[k]
      BY <1>3, <2>2
    <3> QED
      BY <1>2, <1>3, <1>5, <3>1 DEF OwnResults
  <2>4. \A j \in 1 .. Pending - 1 : j + 1 \in 1 .. Pending /\ Kind(j + 1, 0, Pending, Last) = Kind(j, 0, Pending - 1, Last)
    BY <1>3 DEF Kind
  <2>5. \A j \in 1 .. Pending - 1 : Pend(j)' = [kind |-> Kind(j, 0, Pending - 1, Last), of |-> scans]
    BY <1>4, <1>7, <1>12, <2>4
  <2>6. /\ 0 + Last <= Pending - 1
        /\ beacons[scans] + 0 + Last = Len(results) + 1 + (Pending - 1)
    BY <1>3, <1>7, <1>12, <2>0
  <2>7. Accounted(0)'
    BY <1>2, <1>4, <1>9, <2>3, <2>5, <2>6 DEF Accounted
  <2>8. Collecting'
    BY <1>2, <1>5, <2>2, <2>3, <2>7 DEF Collecting
  <2> QED
    BY <2>2, <2>8 DEF Flow, Quiet, Drained
<1> QED
  BY <1>10, <1>11, <1>12

\* What is known before a frame moves on the line after nothing but clean
\* scans: it belongs to the current scan, which is collecting or timed out.
LEMMA OnlyWhileCollecting ==
    ASSUME ScanInv, Clean, line # <<>> \/ ncp # None
    PROVE  main = "collect" \/ (main = "unregister" /\ ended = "timeout")
BY DEF ScanInv, Flow, Quiet, Drained, Local, HowEnded

\* dispatch_unsolicited() after nothing but clean scans.
LEMMA DispatchKeeps ==
    ASSUME ScanInv, dispatch_unsolicited, Clean PROVE Flow'
<1>1. UNCHANGED <<scans, main, results, ended, ncp, beacons>> /\ line # <<>> /\ line' = Tail(line)
  BY DEF dispatch_unsolicited, scanner
<1>2. CASE main = "collect"
  <2>1. /\ scans \in Scans /\ channel \in Seq(ScanFrames) /\ line \in Seq(ScanFrames)
    BY <1>2, Counts DEF ScanInv
  <2>2. channel' = Append(channel, Head(line))
    BY <1>2 DEF dispatch_unsolicited, ReceiverAlive, ScanInv, Local, Registered
  <2>3. Pending' = Pending /\ \A j \in 1 .. Pending : Pend(j)' = Pend(j)
    BY <1>1, <2>1, <2>2, PassFrame
  <2>4. Last' = Last
    BY <1>1 DEF Last
  <2>5. ncp \in {None, scans} /\ OwnResults /\ \E s \in {0, 1} : Accounted(s)
    BY <1>2 DEF ScanInv, Flow, Collecting
  <2>6. \A s \in {0, 1} : Accounted(s) => Accounted(s)'
    BY <1>1, <2>3, <2>4 DEF Accounted
  <2>7. Collecting'
    BY <1>1, <2>5, <2>6 DEF Collecting, OwnResults
  <2> QED
    BY <1>1, <1>2, <2>7 DEF Flow, Quiet, Drained
<1>3. CASE main = "unregister" /\ ended = "timeout"
  BY <1>1, <1>3 DEF Flow, Quiet, Collecting, Drained
<1> QED
  BY <1>1, <1>2, <1>3, OnlyWhileCollecting

\* The NCP sends a beacon, or IDLE, after nothing but clean scans.
LEMMA NcpKeeps ==
    ASSUME ScanInv, NcpBeacon \/ NcpIdle, Clean PROVE Flow'
<1>1. UNCHANGED <<scans, main, results, ended, channel>> /\ ncp # None
  BY DEF NcpBeacon, NcpIdle, scanner
<1>2. CASE main = "collect"
  <2>1. /\ Pending \in Nat /\ Last \in {0, 1} /\ Len(results) \in Nat
        /\ scans \in Scans /\ beacons[scans] \in Nat
        /\ channel \in Seq(ScanFrames) /\ line \in Seq(ScanFrames)
    BY <1>2, Counts DEF ScanInv
  <2>2. ncp = scans /\ OwnResults
    BY <1>1, <1>2 DEF ScanInv, Flow, Collecting
  <2>3. PICK s \in {0, 1} : Accounted(s)
    BY <1>2 DEF ScanInv, Flow, Collecting
  <2>4. /\ s + Last <= Pending /\ beacons[scans] + s + Last = Len(results) + Pending
        /\ \A j \in 1 .. Pending : Pend(j) = [kind |-> Kind(j, s, Pending, Last), of |-> scans]
        /\ Last = 0
    BY <1>1, <2>3 DEF Accounted, Last
  <2>5. OwnResults'
    BY <1>1, <2>2 DEF OwnResults
  <2>6. CASE NcpBeacon
    <3> DEFINE f == [kind |-> "beacon", of |-> scans]
    <3>1. f \in ScanFrames /\ line' = Append(line, f) /\ ncp' = ncp
      BY <2>1, <2>2, <2>6, FrameFields DEF NcpBeacon
    <3>2. beacons'[scans] = beacons[scans] + 1
      BY <2>1, <2>2, <2>6 DEF NcpBeacon, ScanInv, TypeOK
    <3>3. Last' = 0
      BY <2>4, <3>1 DEF Last
    <3> HIDE DEF f
    <3>4. /\ Pending' = Pending + 1
          /\ \A j \in 1 .. Pending + 1 : Pend(j)' = IF j = Pending + 1 THEN f ELSE Pend(j)
      BY <1>1, <2>1, <3>1, SendFrame
    <3>5. \A j \in 1 .. Pending : Kind(j, s, Pending, 0) = Kind(j, s, Pending + 1, 0)
      BY <2>1 DEF Kind
    <3>6. Kind(Pending + 1, s, Pending + 1, 0) = "beacon"
      BY <2>1, <2>4 DEF Kind
    <3>7. \A j \in 1 .. Pending + 1 : Pend(j)' = [kind |-> Kind(j, s, Pending + 1, 0), of |-> scans]
      <4>1. \A j \in 1 .. Pending + 1 : j = Pending + 1 \/ j \in 1 .. Pending
        BY <2>1
      <4> QED
        BY <2>1, <2>4, <3>4, <3>5, <3>6, <4>1 DEF f
    <3>8. s + 0 <= Pending + 1 /\ beacons'[scans] + s + 0 = Len(results) + (Pending + 1)
      BY <2>1, <2>4, <3>2
    <3>9. Accounted(s)'
      BY <1>1, <3>3, <3>4, <3>7, <3>8 DEF Accounted
    <3>10. Collecting'
      BY <1>1, <2>2, <2>5, <3>1, <3>9 DEF Collecting
    <3> QED
      BY <1>1, <1>2, <3>10 DEF Flow, Quiet, Drained
  <2>7. CASE NcpIdle
    <3> DEFINE f == [kind |-> "idle", of |-> scans]
    <3>1. f \in ScanFrames /\ line' = Append(line, f) /\ ncp' = None /\ beacons' = beacons
      BY <2>1, <2>2, <2>7, FrameFields DEF NcpIdle
    <3>3. Last' = 1
      BY <3>1 DEF Last
    <3> HIDE DEF f
    <3>4. /\ Pending' = Pending + 1
          /\ \A j \in 1 .. Pending + 1 : Pend(j)' = IF j = Pending + 1 THEN f ELSE Pend(j)
      BY <1>1, <2>1, <3>1, SendFrame
    <3>5. \A j \in 1 .. Pending : Kind(j, s, Pending, 0) = Kind(j, s, Pending + 1, 1)
      BY <2>1 DEF Kind
    <3>6. Kind(Pending + 1, s, Pending + 1, 1) = "idle"
      BY <2>1, <2>4 DEF Kind
    <3>7. \A j \in 1 .. Pending + 1 : Pend(j)' = [kind |-> Kind(j, s, Pending + 1, 1), of |-> scans]
      <4>1. \A j \in 1 .. Pending + 1 : j = Pending + 1 \/ j \in 1 .. Pending
        BY <2>1
      <4> QED
        BY <2>1, <2>4, <3>4, <3>5, <3>6, <4>1 DEF f
    <3>8. s + 1 <= Pending + 1 /\ beacons[scans] + s + 1 = Len(results) + (Pending + 1)
      BY <2>1, <2>4
    <3>9. Accounted(s)'
      BY <1>1, <3>1, <3>3, <3>4, <3>7, <3>8 DEF Accounted
    <3>10. Collecting'
      BY <1>1, <2>5, <3>1, <3>9 DEF Collecting
    <3> QED
      BY <1>1, <1>2, <3>10 DEF Flow, Quiet, Drained
  <2> QED
    BY <2>6, <2>7
<1>3. CASE main = "unregister" /\ ended = "timeout"
  BY <1>1, <1>3 DEF Flow, Quiet, Collecting, Drained
<1> QED
  BY <1>1, <1>2, <1>3, OnlyWhileCollecting

\* The NCP starts the scan, after nothing but clean ones.
LEMMA StartKeeps ==
    ASSUME ScanInv, start_scan, main' = "collect", UNCHANGED <<returned, channel, scans>>,
           ncp = None, ncp' = scans, Clean
    PROVE  Flow'
<1>1. /\ main = "start" /\ UNCHANGED <<results, beacons>>
      /\ line' \in {line, Append(line, [kind |-> "scanning", of |-> scans])}
  BY DEF start_scan
<1>2. line = <<>> /\ channel = <<>>
  BY <1>1 DEF ScanInv, Flow, Quiet
<1>3. scans \in Scans /\ scans # None /\ line \in Seq(ScanFrames) /\ channel \in Seq(ScanFrames)
  BY <1>1, Counts DEF ScanInv
<1>4. beacons[scans] = 0 /\ results = <<>>
  BY <1>1, <1>3 DEF ScanInv, Local, NothingBefore, Unstarted, BeforeStart
<1>5. Last' = 0 /\ Pending = 0 /\ Len(results) = 0
  BY <1>2, <1>3, <1>4 DEF Last, Pending
<1>6. OwnResults'
  BY <1>1, <1>5 DEF OwnResults
<1>7. CASE line' = line
  <2>1. Pending' = 0
    BY <1>2, <1>7 DEF Pending
  <2>2. Accounted(0)'
    BY <1>1, <1>4, <1>5, <2>1 DEF Accounted
  <2> QED
    BY <1>6, <2>2 DEF Flow, Quiet, Drained, Collecting
<1>8. CASE line' = Append(line, [kind |-> "scanning", of |-> scans])
  <2> DEFINE f == [kind |-> "scanning", of |-> scans]
  <2>1. f \in ScanFrames /\ line' = Append(line, f)
    BY <1>3, <1>8, FrameFields
  <2> HIDE DEF f
  <2>2. Pending' = 1 /\ \A j \in 1 .. 1 : Pend(j)' = f
    BY <1>3, <1>5, <2>1, SendFrame
  <2>3. \A j \in 1 .. 1 : Kind(j, 1, 1, 0) = "scanning"
    BY DEF Kind
  <2>4. Accounted(1)'
    BY <1>1, <1>4, <1>5, <2>2, <2>3 DEF Accounted, f
  <2> QED
    BY <1>6, <2>4 DEF Flow, Quiet, Drained, Collecting
<1> QED
  BY <1>1, <1>7, <1>8

\* Every step keeps the account of the frames.
LEMMA FlowKept ==
    ASSUME ScanInv, Next PROVE Flow'
<1>0. ~Clean' => Flow'
  BY DEF Flow, Quiet, Collecting, Drained
<1> SUFFICES ASSUME Clean' PROVE Flow'
  BY <1>0
<1>1. returned' = returned => Clean
  BY DEF Clean
<1>e. <<>> \in Seq(Scans)
  OBVIOUS
<1>2. ASSUME NEW how \in {"refused", "failed"}, main \in BeforeStart, Return(how, <<>>)
      PROVE  Clean /\ how = "refused"
  BY <1>2, <1>e, CleanReturn DEF BeforeStart
<1>3. CASE scan
  BY <1>1, <1>3 DEF scan, ScanInv, Flow, Quiet, Collecting, Drained
<1>4. CASE wait_for_state \/ register_scan_collector \/ set_mask
  <2>1. /\ UNCHANGED <<line, ncp>> /\ channel' \in {channel, <<>>} /\ main \in BeforeStart
        /\ main \notin {"collect", "unregister"} /\ main' \notin {"collect", "unregister"}
        /\ returned' = returned \/ (\E how \in {"refused", "failed"} : Return(how, <<>>))
    BY <1>4 DEF wait_for_state, register_scan_collector, set_mask, Return, BeforeStart
  <2>2. Clean
    BY <1>1, <1>2, <2>1
  <2> QED
    BY <2>1, <2>2 DEF ScanInv, Flow, Quiet, Collecting, Drained
<1>5. CASE start_scan
  <2>1. CASE Return("failed", <<>>)
    BY <1>2, <1>5, <2>1 DEF start_scan, BeforeStart
  <2>2. CASE ~Return("failed", <<>>)
    <3>1. main' = "collect" /\ UNCHANGED <<returned, channel, scans>> /\ ncp = None /\ ncp' = scans
      BY <1>5, <2>2 DEF start_scan
    <3> QED
      BY <1>1, <1>5, <3>1, StartKeeps
  <2> QED
    BY <2>1, <2>2
<1>6. CASE receive
  BY <1>1, <1>6, ReceiveKeeps DEF receive
<1>7. CASE deadline
  BY <1>7 DEF deadline, Flow, Quiet, Collecting, Drained
<1>8. CASE unregister_scan_collector
  <2> DEFINE found == IF ended = "timeout" THEN <<>> ELSE results
  <2>1. main = "unregister" /\ Return(ended, found) /\ UNCHANGED <<ncp, line>>
        /\ main' = "idle" /\ channel' = <<>>
    BY <1>8 DEF unregister_scan_collector, Return
  <2>2. ended \in {"idle", "timeout"}
    BY <2>1 DEF ScanInv, Local, HowEnded
  <2>3. found \in Seq(Scans)
    BY <1>e DEF ScanInv, TypeOK
  <2> HIDE DEF found
  <2>4. Clean /\ ended = "idle"
    BY <2>1, <2>2, <2>3, CleanReturn
  <2> QED
    BY <2>1, <2>4 DEF ScanInv, Flow, Quiet, Collecting, Drained
<1>9. CASE dispatch_unsolicited
  BY <1>1, <1>9, DispatchKeeps DEF dispatch_unsolicited, scanner
<1>10. CASE NcpBeacon \/ NcpIdle
  BY <1>1, <1>10, NcpKeeps DEF NcpBeacon, NcpIdle, scanner
<1> QED
  BY <1>3, <1>4, <1>5, <1>6, <1>7, <1>8, <1>9, <1>10 DEF Next, MainTask

-----------------------------------------------------------------------------

\* What scan() returns can be believed (tasks/scan.rs, instance/base.rs): a
\* scan that succeeds has collected until the NCP reported IDLE, and after
\* nothing but scans that ended so, or were refused before they registered,
\* its results are exactly the beacons that the NCP sent in it; for every
\* number of scans and of beacons, wherever the frames are.
THEOREM ScansAreBelievable == Spec => []ScanConsistent
<1>1. Init => ScanInv
  <2> SUFFICES ASSUME Init PROVE ScanInv
    OBVIOUS
  <2>0. /\ scans = 0 /\ main = "idle" /\ channel = <<>> /\ results = <<>> /\ returned = <<>>
        /\ line = <<>> /\ ncp = None /\ collector = None /\ frame_task = "recv"
        /\ ended = "running" /\ beacons = [n \in Scans |-> 0]
    BY DEF Init, Scans
  <2>1. /\ <<>> \in Seq(ScanFrames) /\ <<>> \in Seq(Scans) /\ <<>> \in Seq(Outcomes) /\ Len(<<>>) = 0
    OBVIOUS
  <2>2. MaxScans \in Nat /\ MaxBeacons \in Nat
    BY ScanAssumption
  <2>3. TypeOK
    BY <2>0, <2>1, <2>2 DEF TypeOK, Outcomes
  <2>4. Len(returned) = 0
    BY <2>0
  <2>5. Local
    BY <2>0, <2>2 DEF Local, Registered, HowEnded, NothingBefore, BeforeStart, None, Scans
  <2>6. Past
    BY <2>4 DEF Past, EndsAtIdle, ResultsComplete, NotAgain
  <2>7. Flow
    BY <2>0 DEF Flow, Quiet, Collecting, Drained
  <2> QED
    BY <2>3, <2>5, <2>6, <2>7 DEF ScanInv
<1>2. ScanInv /\ [Next]_vars => ScanInv'
  <2>1. CASE Next
    BY <2>1, TypesKept, LocalKept, PastKept, FlowKept DEF ScanInv
  <2>2. ASSUME ScanInv, UNCHANGED vars PROVE ScanInv'
    <3>1. TypeOK'
      BY <2>2 DEF vars, scanner, ScanInv, TypeOK
    <3>2. Local'
      BY <2>2 DEF vars, scanner, ScanInv, Local, Registered, HowEnded, NothingBefore, Unstarted
    <3>3. Past'
      BY <2>2 DEF vars, scanner, ScanInv, Past, EndsAtIdle, ResultsComplete, NotAgain
    <3>4. (\E s \in {0, 1} : Accounted(s)) => \E s \in {0, 1} : Accounted(s)'
      BY <2>2 DEF vars, scanner, Accounted, Pending, Pend, Last
    <3>5. Clean' => Clean
      BY <2>2 DEF vars, scanner, Clean
    <3>6. Flow'
      BY <2>2, <3>4, <3>5 DEF vars, scanner, ScanInv, Flow, Quiet, Collecting, Drained, OwnResults
    <3> QED
      BY <3>1, <3>2, <3>3, <3>6 DEF ScanInv
  <2> QED
    BY <2>1, <2>2
<1>3. ScanInv => ScanConsistent
  BY DEF ScanInv, Past, ScanConsistent
<1> QED
  BY <1>1, <1>2, <1>3, PTL DEF Spec

=============================================================================
