--------------------------- MODULE Device_proofs ---------------------------
(***************************************************************************)
(* Proofs about Device for any number of starts, any lease times, ports,   *)
(* searches and filter table: its types, and what a control point may rely *)
(* on while the device runs.                                               *)
(***************************************************************************)
EXTENDS Device, TLAPS

-----------------------------------------------------------------------------
(* Arithmetic.                                                             *)

\* A remainder is no greater than what is divided.
LEMMA Remainder ==
    ASSUME NEW a \in Nat, NEW w \in Nat \ {0}
    PROVE  a % w \in Nat /\ a % w <= a
<1>1. a \div w \in Nat /\ a % w \in Nat /\ a = w * (a \div w) + (a % w)
  BY SMT
<1>2. w * (a \div w) \in Nat
  BY <1>1
<1> QED BY <1>1, <1>2

\* The advertiser's wait ends before the lease.
LEMMA IntervalFact ==
    ASSUME NEW l \in Nat, NEW n \in Interval(l)
    PROVE  n \in Nat /\ (l > 0 => n < l)
<1>1. PICK r \in 0 .. l \div 4 : n = (l \div 4 + r) % Wrap
  BY DEF Interval
<1>2. l \div 4 \in Nat /\ r \in Nat /\ r <= l \div 4 /\ 4 * (l \div 4) <= l
  BY <1>1
<1>3. l \div 4 + r \in Nat /\ (l > 0 => l \div 4 + r < l)
  BY <1>2
<1>4. n \in Nat /\ n <= l \div 4 + r
  BY <1>1, <1>3, Remainder, DeviceAssumption
<1> QED BY <1>3, <1>4

-----------------------------------------------------------------------------
(* Types.                                                                  *)

\* What start relies on: there is a generation left for it, and a port that is free.
Starting ==
    /\ pc \notin {"idle", "announce", "startAdvertiser"} /\ op = "start" => gen < MaxStarts
    /\ pc \in {"openHttp", "openSsdp"} => op = "start"
    /\ pc \in {"announce", "startAdvertiser"} => gen > 0
    /\ MaxPort \notin taken

Typed == TypeOK /\ Starting

\* At first the device is stopped.
LEMMA TypedInit == Init => Typed
<1> SUFFICES ASSUME Init PROVE Typed
  OBVIOUS
<1>1. 1 \in Ports /\ 0 \in 0 .. FilterInterval /\ FilterInterval \in 0 .. FilterInterval
  BY DeviceAssumption DEF Ports
<1>2. /\ adv \in [Gens -> {"none", "created", "check", "wait", "announce", "gone"}]
      /\ rx \in [Gens -> {"none", "recv", "delay", "loop", "gone"}]
      /\ wait \in [Gens -> Nat] /\ period \in [Gens -> Leases \cup {0}]
  BY DEF Init
<1>3. quiet \in [Slots -> 0 .. FilterInterval] /\ since \in [Keys -> 0 .. FilterInterval]
  BY <1>1 DEF Init
<1>4. heard \in [left : Nat, port : Ports \cup {None}]
  BY DEF Init
<1>5. flag \in BOOLEAN /\ fault \in BOOLEAN
  BY DEF Init
<1>6. gen \in 0 .. MaxStarts /\ port \in Ports /\ taken \subseteq Ports
  BY <1>1, DeviceAssumption DEF Init
<1>7. pc = "idle" /\ op = "stop" /\ ssdp = "closed" /\ lease \in Leases /\ bound = None
  BY DEF Init
<1>8. TypeOK
  BY <1>2, <1>3, <1>4, <1>5, <1>6, <1>7 DEF TypeOK
<1>9. Starting
  BY DeviceAssumption DEF Init, Starting
<1> QED BY <1>9, <1>8 DEF Typed

\* Start and stop.
LEMMA TypedApp == ASSUME Typed, CallStart \/ CallStop \/ AppStep PROVE Typed'
<1> USE DeviceAssumption DEF Typed, Starting, Goto
<1>1. CASE CallStart
  BY <1>1 DEF CallStart, TypeOK, advVars, rxVars
<1>2. CASE CallStop
  BY <1>2 DEF CallStop, TypeOK, advVars, rxVars
<1>3. CASE ByeBye
  BY <1>3 DEF ByeBye, TypeOK, advVars, rxVars
<1>4. CASE StopAdvertiser
  <2>1. wait' \in [Gens -> Nat]
    BY <1>4 DEF StopAdvertiser, TypeOK
  <2> QED BY <1>4, <2>1 DEF StopAdvertiser, TypeOK, rxVars
<1>5. CASE StopHttp
  BY <1>5 DEF StopHttp, Occupied, TypeOK, advVars, rxVars, Ports
<1>6. CASE StopSsdp
  BY <1>6 DEF StopSsdp, TypeOK, advVars
<1>7. CASE CloseSsdp
  BY <1>7 DEF CloseSsdp, TypeOK, advVars
<1>8. CASE OpenHttp
  BY <1>8 DEF OpenHttp, TypeOK, advVars, rxVars, Ports
<1>9. CASE OpenSsdp
  <2>1. gen' = gen + 1 /\ gen + 1 \in Gens /\ gen + 1 \in 0 .. MaxStarts /\ gen + 1 > 0
    BY <1>9 DEF OpenSsdp, TypeOK, Gens
  <2>2. rx' \in [Gens -> {"none", "recv", "delay", "loop", "gone"}]
        /\ ssdp' \in {"open", "stopping", "closed"}
    BY <1>9, <2>1 DEF OpenSsdp, TypeOK
  <2> QED BY <1>9, <2>1, <2>2 DEF OpenSsdp, TypeOK, advVars
<1>10. CASE Announce
  BY <1>10 DEF Announce, TellAlive, TypeOK, advVars, rxVars
<1>11. CASE StartAdvertiser
  <2>1. adv' \in [Gens -> {"none", "created", "check", "wait", "announce", "gone"}]
    BY <1>11 DEF StartAdvertiser, TypeOK
  <2>2. flag' \in BOOLEAN
    BY <1>11 DEF StartAdvertiser
  <2> QED BY <1>11, <2>1, <2>2 DEF StartAdvertiser, TypeOK, rxVars
<1> QED BY <1>1, <1>2, <1>3, <1>4, <1>5, <1>6, <1>7, <1>8, <1>9, <1>10, <1>11 DEF AppStep

\* The advertiser threads.
LEMMA TypedAdv == ASSUME Typed, NEW g \in Gens, AdvStep(g) PROVE Typed'
<1> USE DeviceAssumption DEF Typed, Starting, appVars
<1>1. CASE AdvCreated(g)
  BY <1>1 DEF AdvCreated, TypeOK, rxVars
<1>2. CASE AdvCheck(g)
  <2>1. \A n \in Interval(period[g]) : n \in Nat
    BY IntervalFact DEF TypeOK
  <2> QED BY <1>2, <2>1 DEF AdvCheck, End, TypeOK, rxVars
<1>3. CASE AdvAwake(g)
  BY <1>3 DEF AdvAwake, End, TypeOK, rxVars
<1>4. CASE AdvAnnounce(g)
  BY <1>4 DEF AdvAnnounce, TellAlive, TypeOK, rxVars
<1> QED BY <1>1, <1>2, <1>3, <1>4 DEF AdvStep

\* The receive threads.
LEMMA TypedRx ==
    ASSUME Typed, NEW g \in Gens, RxStep(g) \/ \E k \in Keys : RxSearch(g, k)
    PROVE  Typed'
<1> USE DeviceAssumption DEF Typed, Starting, appVars, advVars
<1>1. ASSUME NEW k \in Keys, RxSearch(g, k) PROVE Typed'
  BY <1>1 DEF RxSearch, FilteredFor, TypeOK, Slots
<1>2. CASE RxAnswer(g)
  BY <1>2 DEF RxAnswer, TellAlive, TypeOK
<1>3. CASE RxLoop(g)
  BY <1>3 DEF RxLoop, TypeOK
<1>4. CASE RxUseAfterFree(g)
  BY <1>4 DEF RxUseAfterFree, TypeOK
<1>5. CASE RxEnd(g)
  BY <1>5 DEF RxEnd, TypeOK
<1> QED BY <1>1, <1>2, <1>3, <1>4, <1>5 DEF RxStep

\* Time only counts down.
LEMMA TypedTick == ASSUME Typed, Tick PROVE Typed'
BY DeviceAssumption DEF Typed, Starting, TypeOK, Tick, Less, appVars

\* Every step keeps the types.
LEMMA TypedStep == ASSUME Typed, [Next]_vars PROVE Typed'
<1>1. CASE UNCHANGED vars
  BY <1>1 DEF vars, appVars, advVars, rxVars, Typed, TypeOK, Starting
<1> QED BY <1>1, TypedApp, TypedAdv, TypedRx, TypedTick DEF Next

\* The variables keep their types; the port stays within the range that start searches.
THEOREM DeviceTypes == Spec => []TypeOK
<1>1. Typed => TypeOK
  BY DEF Typed
<1> QED BY <1>1, TypedInit, TypedStep, PTL DEF Spec

-----------------------------------------------------------------------------
(* What a control point hears.                                             *)

\* From the stop until start has created a new advertiser the flag is clear.
Between == {"stopHttp", "stopSsdp", "closeSsdp", "openHttp", "openSsdp", "announce",
            "startAdvertiser"}

Quiet == pc \in Between => ~flag

\* The port stands once a server is bound to it, and the announcement has told it.
Located ==
    /\ pc \in {"openSsdp", "announce", "startAdvertiser"} => bound = port
    /\ pc = "startAdvertiser" => heard.port = port
    /\ Running => bound = port /\ heard.port = port

\* No advertiser of a start to come is there.
Fresh ==
    /\ \A g \in Gens : g > gen => adv[g] = "none"
    /\ pc \in {"announce", "startAdvertiser"} => adv[gen] = "none"

\* The advertiser of the last start runs and wakes before the lease it has told ends.
Leased ==
    /\ pc = "startAdvertiser" => heard.left = lease
    /\ Running =>
          /\ gen > 0 /\ heard.left > 0 /\ heard.left <= lease
          /\ adv[gen] \in {"created", "check", "wait", "announce"}
          /\ adv[gen] # "created" => period[gen] = lease
          /\ adv[gen] \in {"created", "check"} => heard.left = lease
          /\ adv[gen] = "wait" => wait[gen] < heard.left

Heard == Typed /\ Quiet /\ Located /\ Fresh /\ Leased

\* At first nothing has been heard and nothing runs.
LEMMA HeardInit == Init => Heard
<1> SUFFICES ASSUME Init PROVE Heard
  OBVIOUS
<1>1. pc = "idle" /\ flag = FALSE /\ \A g \in Gens : adv[g] = "none"
  BY DEF Init
<1> QED BY <1>1, TypedInit DEF Heard, Quiet, Between, Located, Fresh, Leased, Running

\* Start and stop.
LEMMA HeardApp == ASSUME Heard, CallStart \/ CallStop \/ AppStep PROVE Heard'
<1> USE DeviceAssumption DEF Heard, Typed, Starting, TypeOK, Goto, Gens
<1>0. Typed'
  BY TypedApp
<1>1. CASE CallStart
  BY <1>0, <1>1 DEF CallStart, Quiet, Between, Located, Fresh, Leased, Running, advVars, rxVars
<1>2. CASE CallStop
  BY <1>0, <1>2 DEF CallStop, Quiet, Between, Located, Fresh, Leased, Running, advVars, rxVars
<1>3. CASE ByeBye
  BY <1>0, <1>3 DEF ByeBye, Quiet, Between, Located, Fresh, Leased, Running, advVars, rxVars
<1>4. CASE StopAdvertiser
  BY <1>0, <1>4 DEF StopAdvertiser, Quiet, Between, Located, Fresh, Leased, Running, rxVars
<1>5. CASE StopHttp
  BY <1>0, <1>5 DEF StopHttp, Quiet, Between, Located, Fresh, Leased, Running, advVars, rxVars
<1>6. CASE StopSsdp
  BY <1>0, <1>6 DEF StopSsdp, Quiet, Between, Located, Fresh, Leased, Running, advVars
<1>7. CASE CloseSsdp
  BY <1>0, <1>7 DEF CloseSsdp, Quiet, Between, Located, Fresh, Leased, Running, advVars
<1>8. CASE OpenHttp
  BY <1>0, <1>8 DEF OpenHttp, Quiet, Between, Located, Fresh, Leased, Running, advVars, rxVars
<1>9. CASE OpenSsdp
  BY <1>0, <1>9 DEF OpenSsdp, Quiet, Between, Located, Fresh, Leased, Running, advVars
<1>10. CASE Announce
  BY <1>0, <1>10 DEF Announce, TellAlive, Quiet, Between, Located, Fresh, Leased, Running,
                     advVars, rxVars
<1>11. CASE StartAdvertiser
  BY <1>0, <1>11 DEF StartAdvertiser, Quiet, Between, Located, Fresh, Leased, Running, rxVars
<1> QED BY <1>1, <1>2, <1>3, <1>4, <1>5, <1>6, <1>7, <1>8, <1>9, <1>10, <1>11 DEF AppStep

\* The advertiser threads, of the last start and of earlier ones.
LEMMA HeardAdv == ASSUME Heard, NEW g \in Gens, AdvStep(g) PROVE Heard'
<1>1. Typed'
  BY TypedAdv DEF Heard
<1>2. UNCHANGED <<appVars, flag>>
  BY DEF AdvStep, AdvCreated, AdvCheck, AdvAwake, AdvAnnounce
<1>11. /\ gen \in Nat /\ (gen > 0 => gen \in Gens)
       /\ (pc \in {"announce", "startAdvertiser"} => gen > 0)
       /\ lease \in Nat /\ lease > 0
  BY DeviceAssumption DEF Heard, Typed, TypeOK, Starting, Gens
<1>12. Running' = Running
  BY <1>2 DEF Running, appVars
<1>3. adv[g] # "none" /\ \A h \in Gens \ {g} : adv'[h] = adv[h] /\ wait'[h] = wait[h]
      /\ period'[h] = period[h]
  BY DEF Heard, Typed, TypeOK, AdvStep, AdvCreated, AdvCheck, AdvAwake, AdvAnnounce, End
<1>4. Quiet' /\ Fresh'
  <2>1. Quiet'
    BY <1>2 DEF Heard, Quiet, appVars, Between
  <2>2. \A h \in Gens : h > gen => adv'[h] = "none"
    BY <1>3 DEF Heard, Fresh
  <2>3. pc \in {"announce", "startAdvertiser"} => adv'[gen] = "none"
    BY <1>3, <1>11 DEF Heard, Fresh
  <2> QED BY <1>2, <2>1, <2>2, <2>3 DEF Fresh, appVars
<1>5. heard' = heard \/ (heard'.left = lease /\ heard'.port = port)
  BY DEF AdvStep, AdvCreated, AdvCheck, AdvAwake, AdvAnnounce, TellAlive
<1>6. Located'
  BY <1>2, <1>5 DEF Heard, Located, Running, appVars
<1>7. (pc = "startAdvertiser" => heard.left = lease)'
  BY <1>2, <1>5 DEF Heard, Leased, appVars
<1>8. ASSUME Running, gen # g
      PROVE  Leased'
  <2>1. gen' = gen /\ lease' = lease /\ adv'[gen] = adv[gen] /\ wait'[gen] = wait[gen]
        /\ period'[gen] = period[gen]
    BY <1>2, <1>3, <1>8, <1>11 DEF Heard, Leased, appVars
  <2>2. wait[gen] \in Nat /\ heard.left \in Nat
    BY <1>8, <1>11 DEF Heard, Leased, Typed, TypeOK
  <2> QED BY <1>5, <1>7, <1>8, <1>11, <1>12, <2>1, <2>2 DEF Heard, Leased
<1>9. ASSUME Running, gen = g
      PROVE  Leased'
  <2>1. CASE AdvCreated(g)
    BY <1>2, <1>7, <1>9, <1>11, <2>1 DEF AdvCreated, Heard, Typed, TypeOK, Leased, Running, appVars
  <2>2. CASE AdvCheck(g)
    <3>1. /\ adv[g] = "check" /\ period[g] = lease /\ heard.left = lease /\ heard' = heard
          /\ adv'[g] = "wait" /\ period' = period /\ wait'[g] \in Interval(lease)
      BY <1>9, <2>2 DEF AdvCheck, Heard, Typed, TypeOK, Leased, Running
    <3>2. wait'[g] < lease
      BY <1>11, <3>1, IntervalFact
    <3> QED BY <1>2, <1>7, <1>9, <1>11, <3>1, <3>2 DEF Heard, Leased, appVars
  <2>3. CASE AdvAwake(g)
    BY <1>2, <1>7, <1>9, <1>11, <2>3 DEF AdvAwake, Heard, Typed, TypeOK, Leased, Running, appVars
  <2>4. CASE AdvAnnounce(g)
    BY <1>2, <1>7, <1>9, <1>11, <2>4 DEF AdvAnnounce, TellAlive, Heard, Typed, TypeOK, Leased,
       Running, appVars
  <2> QED BY <2>1, <2>2, <2>3, <2>4 DEF AdvStep
<1>10. ASSUME ~Running PROVE Leased'
  BY <1>2, <1>7, <1>10 DEF Leased, Running, appVars
<1> QED BY <1>1, <1>4, <1>6, <1>8, <1>9, <1>10 DEF Heard

\* The receive threads: an answer tells the same as an announcement.
LEMMA HeardRx ==
    ASSUME Heard, NEW g \in Gens, RxStep(g) \/ \E k \in Keys : RxSearch(g, k)
    PROVE  Heard'
<1> USE DeviceAssumption DEF Heard, Typed, TypeOK, appVars, advVars
<1>0. Typed'
  BY TypedRx
<1>1. /\ UNCHANGED <<appVars, advVars>>
      /\ heard' = heard \/ TellAlive
  BY DEF RxStep, RxSearch, RxAnswer, RxLoop, RxUseAfterFree, RxEnd
<1>2. CASE heard' = heard
  BY <1>0, <1>1, <1>2 DEF Quiet, Between, Located, Fresh, Leased, Running
<1>3. CASE TellAlive
  <2>1. heard'.left = lease /\ heard'.port = port /\ lease > 0
    BY <1>3 DEF TellAlive
  <2>2. Quiet' /\ Fresh'
    BY <1>1 DEF Quiet, Between, Fresh
  <2>3. Located'
    BY <1>1, <2>1 DEF Located, Running
  <2>4. Running => gen \in Gens /\ wait[gen] \in Nat /\ heard.left \in Nat /\ lease \in Nat
    BY DEF Leased, Gens
  <2>5. Leased'
    BY <1>1, <2>1, <2>4 DEF Leased, Running
  <2> QED BY <1>0, <2>2, <2>3, <2>5
<1> QED BY <1>1, <1>2, <1>3

\* Time passes only while the advertiser waits, for it and for the lease alike.
LEMMA HeardTick == ASSUME Heard, Tick PROVE Heard'
<1>1. Typed'
  BY TypedTick DEF Heard
<1>2. /\ pc = "idle" /\ UNCHANGED <<appVars, flag, adv, period>>
      /\ heard'.port = heard.port /\ heard'.left = Less(heard.left)
      /\ \A g \in Gens : /\ wait'[g] = Less(wait[g])
                         /\ adv[g] \notin {"created", "check", "announce"}
                         /\ adv[g] = "wait" => wait[g] # 0
  BY DEF Heard, Typed, TypeOK, Tick, Urgent
<1>3. gen > 0 => gen \in Gens /\ wait[gen] \in Nat /\ heard.left \in Nat
  BY DEF Heard, Typed, TypeOK, Gens
<1>4. Running' = Running
  BY <1>2 DEF Running, appVars
<1>5. Quiet' /\ Fresh'
  BY <1>2 DEF Heard, Quiet, Between, Fresh, appVars
<1>6. Located'
  BY <1>2, <1>4 DEF Heard, Located, appVars
<1>7. ASSUME Running
      PROVE  Leased'
  <2>1. /\ gen > 0 /\ heard.left > 0 /\ heard.left <= lease /\ lease \in Nat
        /\ adv[gen] = "wait" /\ period[gen] = lease /\ wait[gen] < heard.left /\ wait[gen] # 0
    BY <1>2, <1>3, <1>7, DeviceAssumption DEF Heard, Typed, TypeOK, Leased
  <2>2. wait'[gen] = wait[gen] - 1 /\ heard'.left = heard.left - 1
    BY <1>2, <1>3, <1>7, <2>1 DEF Less
  <2>3. heard'.left > 0 /\ heard'.left <= lease /\ wait'[gen] < heard'.left
    BY <1>3, <2>1, <2>2
  <2> QED BY <1>2, <2>1, <2>3 DEF Leased, appVars
<1>8. ASSUME ~Running PROVE Leased'
  BY <1>2, <1>4, <1>8 DEF Leased, appVars
<1> QED BY <1>1, <1>5, <1>6, <1>7, <1>8 DEF Heard

\* Every step keeps what a control point relies on.
LEMMA HeardStep == ASSUME Heard, [Next]_vars PROVE Heard'
<1>1. CASE UNCHANGED vars
  <2>1. Typed'
    BY <1>1, TypedStep DEF Heard
  <2> QED BY <1>1, <2>1 DEF vars, appVars, advVars, Heard, Quiet, Located, Fresh, Leased, Running
<1> QED BY <1>1, HeardApp, HeardAdv, HeardRx, HeardTick DEF Next

\* So it always holds.
LEMMA HeardInvariant == Spec => []Heard
BY HeardInit, HeardStep, PTL DEF Spec

\* A device that runs is announced before the lease it has told runs out, whatever the
\* lease times, however often it is started anew and whatever old advertisers do.
THEOREM LeaseKept == Spec => []AnnouncedInLease
<1>1. Heard => AnnouncedInLease
  BY DEF Heard, Leased, AnnouncedInLease
<1> QED BY <1>1, HeardInvariant, PTL

\* The LOCATION that was heard of a running device is served, whatever ports are taken.
THEOREM LocationCorrect == Spec => []LocationServed
<1>1. Heard => LocationServed
  BY DEF Heard, Located, LocationServed
<1> QED BY <1>1, HeardInvariant, PTL

-----------------------------------------------------------------------------
(* The filter of M-SEARCH.                                                 *)

\* While searches of a slot pass, all its keys have waited for the interval.
Spaced == \A k \in Keys : quiet[Hash[k]] + since[k] >= FilterInterval

\* At first every key has waited for the interval.
LEMMA SpacedInit == Init => Spaced
BY DeviceAssumption DEF Init, Spaced, Slots

\* Only the answer to a search, which needs its slot to be quiet, starts a wait anew.
LEMMA SpacedStep == ASSUME Typed, Spaced, [Next]_vars PROVE Spaced'
<1> USE DeviceAssumption DEF Typed, TypeOK, Spaced, Slots
<1>1. CASE UNCHANGED <<quiet, since>>
  BY <1>1
<1>2. CASE CloseSsdp
  BY <1>2 DEF CloseSsdp
<1>3. CASE Tick
  BY <1>3 DEF Tick, Less
<1>4. ASSUME NEW g \in Gens, NEW k \in Keys, RxSearch(g, k) PROVE Spaced'
  BY <1>4 DEF RxSearch, FilteredFor
<1> QED
  BY <1>1, <1>2, <1>3, <1>4
  DEF Next, vars, rxVars, CallStart, CallStop, AppStep, ByeBye, StopAdvertiser, StopHttp, StopSsdp,
      OpenHttp, OpenSsdp, Announce, StartAdvertiser, AdvStep, AdvCreated, AdvCheck, AdvAwake,
      AdvAnnounce, RxStep, RxAnswer, RxLoop, RxEnd, RxUseAfterFree

\* A search is answered only when the interval has passed since its last answer.
LEMMA SpacedAnswer ==
    ASSUME Typed, Spaced, NEW g \in Gens, NEW k \in Keys, RxSearch(g, k), rx'[g] = "delay"
    PROVE  since[k] = FilterInterval
<1>1. quiet[Hash[k]] = 0
  BY DEF Typed, TypeOK, RxSearch
<1> QED BY <1>1, DeviceAssumption DEF Typed, TypeOK, Spaced

\* The filter keeps its interval for every requester, although requesters share slots
\* of its table and a search that is dropped writes the slot too.
THEOREM AnswersSpaced == Spec => AnswerSpacing
<1>1. Init => Typed /\ Spaced
  BY TypedInit, SpacedInit
<1>2. Typed /\ Spaced /\ [Next]_vars => Typed' /\ Spaced'
  BY TypedStep, SpacedStep
<1>3. Typed /\ Spaced /\ [Next]_vars =>
          [\A g \in Gens, k \in Keys :
              RxSearch(g, k) /\ rx'[g] = "delay" => since[k] = FilterInterval]_vars
  BY SpacedAnswer
<1> QED BY <1>1, <1>2, <1>3, PTL DEF Spec, AnswerSpacing

=============================================================================
