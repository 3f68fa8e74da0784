--------------------------- MODULE Control_proofs ---------------------------
(***************************************************************************)
(* Control uses the cache of connections as its module says, so that what  *)
(* is proved of the cache holds of every system of callers, devices and    *)
(* notifiers; the subscriber of an evented variable is told its value; and *)
(* a call gets the result of its own job.                                  *)
(*                                                                         *)
(* The invariant of the last one, OwnInv, follows a call on its way: the   *)
(* mutex of the cache is owned from the lock to the unlock (Serial), so    *)
(* that the one job at work is its owner's (Served), what it finds in the  *)
(* shared lists and variables is its own (Work), so is its answer (Fits),  *)
(* and the reply and the outcome are that answer (Replied, Returned).      *)
(***************************************************************************)
EXTENDS Control, ConnectionCache_refinement

-----------------------------------------------------------------------------
(* Composition.                                                            *)

\* A caller's step is a step of its post, or the cache is not touched.
LEMMA CallerUsesCache ==
    ASSUME ~fault, NEW c \in Callers, CallerStep(c)
    PROVE  [CacheNext]_cvars
<1>1. c \in Users
  BY ControlAssumption
<1>2. CASE Call(c) \/ PostAgain(c)
  <2>1. \A d : Address(d) \in Hosts
    BY ControlAssumption DEF Address
  <2> QED BY <1>1, <1>2, <2>1 DEF Call, PostAgain, CacheNext
<1>3. CASE Return(c) \/ TryAgain(c)
  BY <1>1, <1>3 DEF Return, TryAgain, CacheNext, PostSteps
<1>4. CASE Answered(c) \/ GiveUp(c) \/ AnsweredElsewhere(c)
  BY <1>1, <1>4 DEF Answered, GiveUp, AnsweredElsewhere, CacheNext
<1>5. CASE Request(c)
  BY <1>5 DEF Request
<1> QED BY <1>2, <1>3, <1>4, <1>5 DEF CallerStep

\* So is a job's step, and a notifying thread's.
LEMMA DeviceUsesCache ==
    ASSUME ~fault,
           \/ \E j \in Jobs : JobStep(j)
           \/ \E t \in Notifiers : LockService(t)
           \/ Set \/ ServiceStep
    PROVE  [CacheNext]_cvars
<1>0. Service \in Users /\ EventHost \in Hosts
  BY ControlAssumption
<1>1. ASSUME NEW j \in Jobs, JobStep(j) PROVE UNCHANGED cvars
  BY <1>1 DEF JobStep, AnswerInvalid, SetArguments, Prepare, Listen, Respond, Blank, Sense,
              RespondQuery, ActionFrame, QueryFrame
<1>2. ASSUME NEW t \in Notifiers, LockService(t) PROVE UNCHANGED cvars
  BY <1>2 DEF LockService
<1>3. CASE Set \/ TellAlone \/ UnlockService
  BY <1>3 DEF Set, TellAlone, UnlockService, Alone, QueryFrame
<1>4. CASE PostNotify \/ Tell
  BY <1>0, <1>4 DEF PostNotify, Tell, CacheNext
<1> QED BY <1>1, <1>2, <1>3, <1>4 DEF ServiceStep

\* Every step of Control is a step of the cache or leaves it alone.
LEMMA StepUsesCache == ASSUME [Next]_vars PROVE [CacheNext]_cvars
<1>1. CASE UNCHANGED vars
  BY <1>1 DEF vars
<1>2. ASSUME ~fault, NEW u \in Users, CacheStep(u) \/ NoHandle(u) PROVE [CacheNext]_cvars
  <2>1. FirstFree(u) => Open(u)
    BY DEF FirstFree
  <2> QED BY <1>2, <2>1 DEF CacheStep, NoHandle, CacheNext, PostSteps
<1>3. ASSUME ~fault, DeleteControlPoint \/ AppStep \/ TimePasses PROVE [CacheNext]_cvars
  BY <1>3 DEF DeleteControlPoint, AppStep, TimePasses, CacheNext
<1> QED BY <1>1, <1>2, <1>3, CallerUsesCache, DeviceUsesCache DEF Next

\* Callers, devices and notifiers use the cache as ConnectionCache says.
THEOREM ControlUsesCache == Spec => CacheSpec
<1>1. Init => CacheInit
  BY DEF Init
<1>2. [Next]_vars => [CacheNext]_cvars
  BY StepUsesCache
<1> QED BY <1>1, <1>2, PTL DEF Spec, CacheSpec

\* The connections of a process that calls, serves and notifies have one owner each.
THEOREM ControlHandles == Spec => []HandlesOwned
BY ControlUsesCache, HandlesCorrect, PTL

\* Its cache is used only while it exists, unless a control point comes or goes meanwhile.
THEOREM ControlDelete == Spec => []SafeDelete
BY ControlUsesCache, DeleteCorrect, PTL

\* A connection is lost only by the thread that opened it, for want of a cache or of memory.
THEOREM ControlLeakFree == Spec => NoLeak
BY ControlUsesCache, LeakFree, PTL

\* Its requests go through a pool of connections.
THEOREM ControlUsesPool == Spec => PoolSpec
BY ControlUsesCache, CacheImplementsPool, PTL

-----------------------------------------------------------------------------
(* What the subscriber is told.                                            *)

\* A value that is not told yet is about to be: a thread will notify, or is notifying it.
Pending ==
    /\ posting # None => svcLock # None
    /\ subscribed => wants # {} \/ (IF posting = None THEN told ELSE posting) = value
    /\ value = 0 /\ ~refused => \E j \in Jobs : step[j] = "sense"

DataOK ==
    /\ value \in Nat /\ last \in Nat /\ last > 0
    /\ step \in [Jobs -> {"none", "arguments", "prepare", "listen", "response", "fault",
                          "blank", "sense", "read", "refuse", "invalid", "sent"}]

TellInv == Pending /\ DataOK

LEMMA TellInit == ASSUME Init PROVE TellInv
BY DEF Init, TellInv, Pending, DataOK

LEMMA TellStep == ASSUME TellInv, [Next]_vars PROVE TellInv'
<1> USE DEF TellInv
<1>1. ASSUME UNCHANGED <<step, varVars, notifyVars, refused>> PROVE TellInv'
  BY <1>1 DEF Pending, DataOK, varVars, notifyVars
<1>2. ASSUME NEW c \in Callers, CallerStep(c) PROVE TellInv'
  <2>1. CASE Request(c)
    <3>1. UNCHANGED <<varVars, notifyVars, refused>> /\ step[Job(c)] = "none"
      BY <2>1 DEF Request
    <3>2. /\ DOMAIN step' = Jobs
          /\ step' \in [Jobs -> {"none", "arguments", "prepare", "listen", "response",
                          "fault", "blank", "sense", "read", "refuse", "invalid", "sent"}]
          /\ \A j \in Jobs : step[j] = "sense" => step'[j] = "sense"
      BY <2>1, <3>1 DEF Request, DataOK
    <3> QED BY <3>1, <3>2 DEF Pending, DataOK, varVars, notifyVars
  <2>2. CASE Call(c) \/ PostAgain(c) \/ Return(c) \/ TryAgain(c) \/ Answered(c)
             \/ GiveUp(c) \/ AnsweredElsewhere(c)
    BY <1>1, <2>2 DEF Call, PostAgain, Return, TryAgain, Answered, GiveUp,
                      AnsweredElsewhere, deviceVars, jobVars
  <2> QED BY <1>2, <2>1, <2>2 DEF CallerStep
<1>3. ASSUME NEW j \in Jobs, JobStep(j) PROVE TellInv'
  <2>1. CASE AnswerInvalid(j) \/ SetArguments(j) \/ Prepare(j) \/ Listen(j) \/ Respond(j)
    <3>1. /\ UNCHANGED <<varVars, notifyVars, refused>> /\ step[j] # "sense"
          /\ \E s \in {"sent", "prepare", "listen", "response", "fault"} :
                step' = [step EXCEPT ![j] = s]
      BY <2>1 DEF AnswerInvalid, SetArguments, Prepare, Listen, Respond, ActionFrame, At,
                  StepTo, Send
    <3> QED BY <3>1 DEF Pending, DataOK, varVars, notifyVars
  <2>2. CASE Blank(j)
    <3>1. /\ value' = 0 /\ wants' = wants \cup {j} /\ step' = [step EXCEPT ![j] = "sense"]
          /\ UNCHANGED <<last, svcLock, posting, subscribed, told, refused>>
      BY <2>2 DEF Blank, SetValue, StepTo, QueryFrame
    <3> QED BY <3>1 DEF Pending, DataOK
  <2>3. CASE Sense(j)
    <3>1. UNCHANGED <<svcLock, posting, subscribed, told>>
      BY <2>3 DEF Sense, QueryFrame
    <3>2. CASE /\ value' = last + 1 /\ wants' = wants \cup {j} /\ last' = last + 1
               /\ step' = [step EXCEPT ![j] = "read"]
      BY <3>1, <3>2 DEF Pending, DataOK
    <3>3. CASE /\ refused' = TRUE /\ UNCHANGED <<value, wants, last>>
               /\ step' = [step EXCEPT ![j] = "refuse"]
      BY <3>1, <3>3 DEF Pending, DataOK
    <3> QED BY <2>3, <3>2, <3>3 DEF Sense, SetValue, StepTo
  <2>4. CASE RespondQuery(j)
    <3>1. /\ UNCHANGED <<varVars, notifyVars, refused>> /\ step[j] # "sense"
          /\ step' = [step EXCEPT ![j] = "sent"]
      BY <2>4 DEF RespondQuery, QueryFrame, At, StepTo, Send, varVars, notifyVars
    <3> QED BY <3>1 DEF Pending, DataOK, varVars, notifyVars
  <2> QED BY <1>3, <2>1, <2>2, <2>3, <2>4 DEF JobStep
<1>4. CASE Set
  <2>1. /\ value' = last + 1 /\ wants' = wants \cup {Setter} /\ last' = last + 1
        /\ UNCHANGED <<step, svcLock, posting, subscribed, told, refused>>
    BY <1>4 DEF Set, SetValue, QueryFrame, jobVars
  <2> QED BY <2>1 DEF Pending, DataOK
<1>5. ASSUME NEW t \in Notifiers, LockService(t) PROVE TellInv'
  <2>1. /\ svcLock' = t /\ posting' = IF subscribed THEN value ELSE None
        /\ UNCHANGED <<step, varVars, refused, subscribed, told>>
        /\ t # None /\ value # None
    BY <1>5, ControlAssumption, CacheAssumption
       DEF LockService, NotifyFrame, jobVars, Notifiers, DataOK
  <2> QED BY <2>1 DEF Pending, DataOK, varVars
<1>6. CASE TellAlone \/ Tell
  <2>1. /\ posting # None /\ posting' = None
        /\ UNCHANGED <<step, varVars, refused, wants, svcLock>>
        /\ \/ told' = posting /\ UNCHANGED subscribed
           \/ subscribed' = FALSE
    BY <1>6 DEF TellAlone, Tell, NotifyFrame, jobVars
  <2> QED BY <2>1 DEF Pending, DataOK, varVars
<1>7. CASE PostNotify
  BY <1>1, <1>7 DEF PostNotify, NotifyFrame, jobVars
<1>8. CASE UnlockService
  <2>1. /\ posting = None /\ svcLock' = None
        /\ UNCHANGED <<step, varVars, refused, wants, posting, subscribed, told>>
    BY <1>8 DEF UnlockService, NotifyFrame, jobVars
  <2> QED BY <2>1 DEF Pending, DataOK, varVars
<1>9. ASSUME NEW u \in Users, CacheStep(u) \/ NoHandle(u) PROVE TellInv'
  <2>1. CASE CacheStep(u)
    BY <1>1, <2>1 DEF CacheStep, ControlFrame, deviceVars, jobVars
  <2>2. CASE NoHandle(u)
    <3>1. /\ UNCHANGED <<step, varVars, refused, wants, svcLock, told>>
          /\ \/ posting' = None /\ subscribed' = FALSE
             \/ UNCHANGED <<posting, subscribed>>
      BY <2>2 DEF NoHandle, NotifyFrame, jobVars
    <3> QED BY <3>1 DEF Pending, DataOK, varVars
  <2> QED BY <1>9, <2>1, <2>2
<1>10. CASE DeleteControlPoint \/ AppStep \/ TimePasses
  BY <1>1, <1>10 DEF DeleteControlPoint, AppStep, TimePasses, ControlFrame, deviceVars, jobVars
<1>11. CASE UNCHANGED vars
  BY <1>1, <1>11 DEF vars, jobVars
<1> QED BY <1>2, <1>3, <1>4, <1>5, <1>6, <1>7, <1>8, <1>9, <1>10, <1>11
        DEF Next, ServiceStep

\* When nobody is about to notify or notifying, the subscriber knows the variable's value,
\* whatever jobs, setters and failures came before.
THEOREM SubscriberTold == Spec => []ToldCurrent
<1>1. Init => TellInv
  BY TellInit
<1>2. TellInv /\ [Next]_vars => TellInv'
  BY TellStep
<1>3. TellInv => ToldCurrent
  BY DEF TellInv, Pending, ToldCurrent
<1> QED BY <1>1, <1>2, <1>3, PTL DEF Spec
-----------------------------------------------------------------------------
(* Types.                                                                  *)

CallerTypes ==
    /\ plan \in Scenarios /\ made \in [Callers -> 0 .. MaxCalls]
    /\ method \in [Callers -> {"POST", "M-POST"}] /\ reply \in [Callers -> Replies]
    /\ outcome \in [Callers -> [ok : BOOLEAN, status : {"ok", "invalid", "refused"},
                                value : Nat, out : Jobs \cup {None}]]

JobTypes ==
    /\ step \in [Jobs -> {"none", "arguments", "prepare", "listen", "response", "fault",
                          "blank", "sense", "read", "refuse", "invalid", "sent"}]
    /\ answer \in [Jobs -> Replies]

ActionTypes ==
    /\ argIn \in Jobs \cup {None} /\ argOut \in Jobs \cup {None}
    /\ status \in {"ok", "invalid", "refused"}

VarTypes ==
    /\ last \in Nat /\ last > 0 /\ value \in 0 .. last
    /\ varStatus \in {"ok", "invalid", "refused"}

\* What is posted or has been told is a value the application has given or the empty one.
NotifyTypes ==
    /\ wants \subseteq Notifiers /\ svcLock \in Notifiers \cup {None}
    /\ posting \in (0 .. last) \cup {None} /\ told \in 0 .. last /\ subscribed \in BOOLEAN

HistoryTypes == clears \in 0 .. plan.clears /\ gaveUp \in BOOLEAN /\ refused \in BOOLEAN

Typed == CallerTypes /\ JobTypes /\ ActionTypes /\ VarTypes /\ NotifyTypes /\ HistoryTypes

LEMMA ReplyTypes ==
    ASSUME NEW k \in {"none", "ok", "invalid", "refused", "notAllowed"},
           NEW v \in Nat, NEW o \in Jobs \cup {None}
    PROVE  [kind |-> k, value |-> v, out |-> o] \in Replies
BY DEF Replies

LEMMA NothingTyped == Nothing \in Replies
BY ReplyTypes DEF Nothing

\* A caller works on the last call it has made.
Calling ==
    \A c \in Callers :
       /\ made[c] <= Len(plan.calls[c])
       /\ made[c] = 0 => pc[c] = "idle" /\ reply[c].kind = "none"

LEMMA TypesInit == ASSUME Init PROVE Typed
<1>1. \A s \in Scenarios : s.clears \in Nat /\ s.subscribed \in BOOLEAN
  BY ControlAssumption
<1>2. CallerTypes
  BY NothingTyped DEF Init, CallerTypes, MaxCalls
<1>3. JobTypes /\ ActionTypes
  BY NothingTyped DEF Init, JobTypes, ActionTypes
<1>4. VarTypes /\ NotifyTypes /\ HistoryTypes
  <2>1. VarTypes
    BY DEF Init, VarTypes
  <2>2. NotifyTypes
    BY <1>1 DEF Init, NotifyTypes
  <2>3. HistoryTypes
    <3>1. plan.clears \in Nat /\ clears = 0
      BY <1>1 DEF Init
    <3>2. clears \in 0 .. plan.clears
      BY <3>1
    <3>3. gaveUp \in BOOLEAN /\ refused \in BOOLEAN
      BY DEF Init
    <3> QED BY <3>2, <3>3 DEF HistoryTypes
  <2> QED BY <2>1, <2>2, <2>3
<1> QED BY <1>2, <1>3, <1>4 DEF Typed

\* What a call returns is a result.
LEMMA ResultTyped ==
    ASSUME Typed, NEW c \in Callers
    PROVE  Result(c) \in [ok : BOOLEAN, status : {"ok", "invalid", "refused"},
                          value : Nat, out : Jobs \cup {None}]
<1>1. reply[c] \in Replies
  BY DEF Typed, CallerTypes
<1>2. outcome[c] \in [ok : BOOLEAN, status : {"ok", "invalid", "refused"},
                      value : Nat, out : Jobs \cup {None}]
  BY DEF Typed, CallerTypes
<1> QED BY <1>1, <1>2 DEF Result, Replies

LEMMA CallerTyped ==
    ASSUME Typed, Calling, NEW c \in Callers, CallerStep(c) PROVE Typed'
<1>1. CASE Request(c)
  <2>1. /\ JobTypes'
        /\ UNCHANGED <<plan, callerVars, actionVars, varVars, notifyVars, clears, gaveUp,
                       refused>>
    BY <1>1 DEF Request, Typed, JobTypes
  <2> QED BY <2>1 DEF Typed, CallerTypes, ActionTypes, VarTypes, NotifyTypes, HistoryTypes,
                      callerVars, actionVars, varVars, notifyVars
<1>2. ASSUME CallerTypes', UNCHANGED <<plan, deviceVars, clears>>, gaveUp' \in BOOLEAN
      PROVE  Typed'
  BY <1>2 DEF Typed, JobTypes, ActionTypes, VarTypes, NotifyTypes, HistoryTypes,
              deviceVars, jobVars, actionVars, varVars, notifyVars
<1>3. CASE Call(c)
  <2>1. made[c] + 1 \in 0 .. MaxCalls
    <3>1. /\ plan.calls \in [Callers -> Seq({"action", "query", "unknown"} \cup Hosts)]
          /\ Len(plan.calls[c]) <= MaxCalls
      BY ControlAssumption DEF Typed, CallerTypes
    <3>2. made[c] \in Nat /\ made[c] < Len(plan.calls[c]) /\ Len(plan.calls[c]) \in Nat
      BY <1>3, <3>1 DEF Call, Typed, CallerTypes, MaxCalls
    <3> QED BY <3>1, <3>2 DEF MaxCalls
  <2>2. CallerTypes'
    BY <1>3, <2>1, NothingTyped DEF Call, Typed, CallerTypes
  <2> QED BY <1>2, <1>3, <2>2 DEF Call, Typed, HistoryTypes
<1>4. CASE PostAgain(c)
  <2>1. CallerTypes'
    BY <1>4, NothingTyped DEF PostAgain, Typed, CallerTypes
  <2> QED BY <1>2, <1>4, <2>1 DEF PostAgain, Typed, HistoryTypes
<1>5. CASE Return(c)
  <2>1. CallerTypes'
    BY <1>5, ResultTyped DEF Return, Typed, CallerTypes
  <2> QED BY <1>2, <1>5, <2>1 DEF Return, Typed, HistoryTypes
<1>6. CASE TryAgain(c) \/ GiveUp(c)
  <2>1. CallerTypes' /\ gaveUp' \in BOOLEAN
    BY <1>6 DEF TryAgain, GiveUp, Typed, CallerTypes, HistoryTypes, callerVars
  <2> QED BY <1>2, <1>6, <2>1 DEF TryAgain, GiveUp
<1>7. CASE Answered(c)
  <2>1. Job(c) \in Jobs
    <3>1. pc[c] # "idle" /\ made[c] \in 0 .. MaxCalls
      BY <1>7 DEF Answered, Exchange, Typed, CallerTypes
    <3>2. made[c] \in 1 .. MaxCalls
      BY <3>1 DEF Calling, MaxCalls
    <3> QED BY <3>2 DEF Job, Jobs
  <2>2. CallerTypes'
    BY <1>7, <2>1 DEF Answered, Typed, CallerTypes, JobTypes
  <2> QED BY <1>2, <1>7, <2>2 DEF Answered, Typed, HistoryTypes
<1>8. CASE AnsweredElsewhere(c)
  <2>1. \E k \in {"notAllowed", "ok"} :
           reply' = [reply EXCEPT ![c] = [Nothing EXCEPT !.kind = k]]
    BY <1>8 DEF AnsweredElsewhere
  <2>2. \A k \in {"notAllowed", "ok"} : [Nothing EXCEPT !.kind = k] \in Replies
    BY DEF Nothing, Replies
  <2>3. CallerTypes'
    BY <1>8, <2>1, <2>2 DEF AnsweredElsewhere, Typed, CallerTypes
  <2> QED BY <1>2, <1>8, <2>3 DEF AnsweredElsewhere, Typed, HistoryTypes
<1> QED BY <1>1, <1>3, <1>4, <1>5, <1>6, <1>7, <1>8 DEF CallerStep

LEMMA JobTyped == ASSUME Typed, NEW j \in Jobs, JobStep(j) PROVE Typed'
<1> USE DEF At, StepTo
<1>1. UNCHANGED <<plan, callerVars, clears, gaveUp, svcLock, posting, subscribed, told>>
  BY DEF JobStep, AnswerInvalid, SetArguments, Prepare, Listen, Respond, Blank, Sense,
         RespondQuery, ActionFrame, QueryFrame, notifyVars
<1>2. CallerTypes' /\ (clears \in 0 .. plan.clears)' /\ gaveUp' \in BOOLEAN
  BY <1>1 DEF Typed, CallerTypes, HistoryTypes, callerVars
<1>3. ASSUME ActionTypes', JobTypes', UNCHANGED <<varVars, wants, refused>> PROVE Typed'
  BY <1>1, <1>2, <1>3 DEF Typed, VarTypes, NotifyTypes, HistoryTypes, varVars
<1>4. ASSUME ActionTypes', JobTypes', VarTypes', last' >= last,
             wants' \in {wants, wants \cup {j}}, refused' \in BOOLEAN
      PROVE  Typed'
  BY <1>1, <1>2, <1>4 DEF Typed, VarTypes, NotifyTypes, HistoryTypes, Notifiers
<1>5. CASE AnswerInvalid(j)
  BY <1>3, <1>5, ReplyTypes
     DEF AnswerInvalid, Send, ActionFrame, Typed, JobTypes, ActionTypes, actionVars, notifyVars
<1>6. CASE SetArguments(j) \/ Prepare(j) \/ Listen(j)
  BY <1>3, <1>6
     DEF SetArguments, Prepare, Listen, ActionFrame, Typed, JobTypes, ActionTypes, notifyVars
<1>7. CASE Respond(j)
  <2>1. JobTypes'
    BY <1>7, ReplyTypes DEF Respond, Send, Typed, JobTypes, ActionTypes
  <2> QED BY <1>3, <1>7, <2>1 DEF Respond, ActionFrame, Typed, ActionTypes, actionVars,
                                  notifyVars
<1>8. CASE Blank(j)
  <2>1. JobTypes' /\ ActionTypes'
    BY <1>8 DEF Blank, QueryFrame, Typed, JobTypes, ActionTypes, actionVars
  <2>2. VarTypes' /\ last' = last /\ wants' = wants \cup {j} /\ refused' = refused
    BY <1>8 DEF Blank, SetValue, Typed, VarTypes
  <2> QED BY <1>4, <2>1, <2>2 DEF Typed, VarTypes, HistoryTypes
<1>9. CASE Sense(j)
  <2>1. JobTypes' /\ ActionTypes'
    BY <1>9 DEF Sense, QueryFrame, Typed, JobTypes, ActionTypes, actionVars
  <2>2. /\ VarTypes' /\ last' >= last /\ wants' \in {wants, wants \cup {j}}
        /\ refused' \in BOOLEAN
    <3>1. CASE value' = last + 1 /\ wants' = wants \cup {j} /\ last' = last + 1
               /\ UNCHANGED <<varStatus, refused>>
      BY <3>1 DEF Typed, VarTypes, HistoryTypes
    <3>2. CASE /\ varStatus' = "refused" /\ refused' = TRUE
               /\ UNCHANGED <<value, wants, last>>
      BY <3>2 DEF Typed, VarTypes
    <3> QED BY <1>9, <3>1, <3>2 DEF Sense, SetValue
  <2> QED BY <1>4, <2>1, <2>2
<1>10. CASE RespondQuery(j)
  <2>1. JobTypes'
    BY <1>10, ReplyTypes DEF RespondQuery, Send, Typed, JobTypes, VarTypes
  <2> QED BY <1>3, <1>10, <2>1 DEF RespondQuery, QueryFrame, Typed, ActionTypes, actionVars
<1> QED BY <1>5, <1>6, <1>7, <1>8, <1>9, <1>10 DEF JobStep

\* The steps of the notifying threads, of the application and of the cache.
LEMMA NotifierTyped ==
    ASSUME Typed, Set \/ ServiceStep \/ \E t \in Notifiers : LockService(t)
    PROVE  Typed'
<1> USE DEF Typed
<1>1. CASE Set
  <2>1. /\ value' = last + 1 /\ last' = last + 1 /\ wants' = wants \cup {Setter}
        /\ UNCHANGED <<plan, callerVars, actionVars, jobVars, varStatus, refused, svcLock,
                       posting, subscribed, told, clears, gaveUp>>
    BY <1>1 DEF Set, SetValue, QueryFrame
  <2>2. VarTypes' /\ NotifyTypes'
    BY <2>1 DEF VarTypes, NotifyTypes, Notifiers
  <2> QED BY <2>1, <2>2 DEF CallerTypes, JobTypes, ActionTypes, HistoryTypes, callerVars,
                            actionVars, jobVars
<1>2. ASSUME NotifyFrame, NotifyTypes' PROVE Typed'
  BY <1>2 DEF NotifyFrame, CallerTypes, JobTypes, ActionTypes, HistoryTypes, VarTypes,
              callerVars, actionVars, jobVars, varVars
<1>3. ASSUME NEW t \in Notifiers, LockService(t) PROVE Typed'
  <2>1. NotifyTypes'
    BY <1>3 DEF LockService, NotifyFrame, NotifyTypes, VarTypes, varVars
  <2> QED BY <1>2, <1>3, <2>1 DEF LockService
<1>4. CASE ServiceStep
  <2>1. NotifyFrame /\ last' = last
    BY <1>4 DEF ServiceStep, TellAlone, PostNotify, Tell, UnlockService, NotifyFrame, varVars
  <2>2. CASE TellAlone \/ Tell
    BY <1>2, <2>1, <2>2 DEF TellAlone, Tell, NotifyTypes
  <2>3. CASE PostNotify \/ UnlockService
    BY <1>2, <2>1, <2>3 DEF PostNotify, UnlockService, NotifyTypes, notifyVars
  <2> QED BY <1>4, <2>2, <2>3 DEF ServiceStep
<1> QED BY <1>1, <1>3, <1>4

LEMMA CacheTyped ==
    ASSUME Typed,
           \/ \E u \in Users : CacheStep(u) \/ NoHandle(u)
           \/ DeleteControlPoint \/ AppStep \/ TimePasses \/ UNCHANGED vars
    PROVE  Typed'
<1> USE DEF Typed
<1>1. ASSUME ControlFrame, (clears \in 0 .. plan.clears)' PROVE Typed'
  BY <1>1 DEF ControlFrame, CallerTypes, JobTypes, ActionTypes, VarTypes, NotifyTypes,
              HistoryTypes, callerVars, deviceVars, jobVars, actionVars, varVars, notifyVars
<1>2. ASSUME NEW u \in Users, NoHandle(u) PROVE Typed'
  <2>1. NotifyTypes'
    BY <1>2 DEF NoHandle, NotifyFrame, NotifyTypes, varVars
  <2> QED BY <1>2, <2>1 DEF NoHandle, NotifyFrame, CallerTypes, JobTypes, ActionTypes,
             HistoryTypes, VarTypes, callerVars, actionVars, jobVars, varVars
<1>3. ASSUME NEW u \in Users, CacheStep(u) PROVE Typed'
  BY <1>1, <1>3 DEF CacheStep, ControlFrame, HistoryTypes
<1>4. CASE DeleteControlPoint
  <2>1. plan.clears \in Nat
    BY ControlAssumption DEF CallerTypes
  <2> QED BY <1>1, <1>4, <2>1 DEF DeleteControlPoint, ControlFrame, HistoryTypes
<1>5. CASE AppStep \/ TimePasses
  BY <1>1, <1>5 DEF AppStep, TimePasses, ControlFrame, HistoryTypes
<1>6. CASE UNCHANGED vars
  BY <1>1, <1>6 DEF vars, ControlFrame, HistoryTypes, deviceVars
<1> QED BY <1>2, <1>3, <1>4, <1>5, <1>6

LEMMA CallLength ==
    ASSUME Typed, NEW c \in Callers
    PROVE  Len(plan.calls[c]) \in 0 .. MaxCalls
<1>1. /\ plan.calls \in [Callers -> Seq({"action", "query", "unknown"} \cup Hosts)]
      /\ Len(plan.calls[c]) <= MaxCalls
  BY ControlAssumption DEF Typed, CallerTypes
<1>2. plan.calls[c] \in Seq({"action", "query", "unknown"} \cup Hosts)
  BY <1>1
<1>3. Len(plan.calls[c]) \in Nat
  BY <1>2, LenProperties
<1>4. Len(plan.calls[c]) <= 3
  BY <1>1 DEF MaxCalls
<1>5. \A n \in Nat : n <= 3 => n \in 0 .. 3
  OBVIOUS
<1> QED BY <1>3, <1>4, <1>5, Zenon DEF MaxCalls

LEMMA CallingInit == ASSUME Init PROVE Calling
<1>1. Typed
  BY TypesInit
<1>2. ASSUME NEW c \in Callers PROVE made[c] <= Len(plan.calls[c])
  BY <1>1, CallLength DEF Init, MaxCalls
<1>3. Callers \subseteq Users
  BY ControlAssumption
<1> QED BY <1>2, <1>3 DEF Init, CacheInit, Calling, Nothing

\* A thread's step leaves the others where they are.
LEMMA OthersStay ==
    ASSUME CacheTypeOK, NEW u \in Users, NEW v \in Users, u # v,
           PostSteps(u) \/ OpenFails(u) \/ Exchange(u) \/ \E h \in Hosts : Post(u, h)
    PROVE  pc'[v] = pc[v]
BY DEF CacheTypeOK, PostSteps, OpenFails, Exchange, Post, LockTest, Acquire, Unguarded,
       Expire, Take, Open, Put, PutFails, Unlock, Goto, userVars

LEMMA CallingStep == ASSUME CacheTypeOK, Typed, Calling, [Next]_vars PROVE Calling'
<1>1. Callers \subseteq Users /\ Service \in Users \ Callers
  BY ControlAssumption
<1>2. ASSUME UNCHANGED <<plan, made, reply>>,
             \A c \in Callers : made[c] = 0 => pc'[c] = pc[c]
      PROVE  Calling'
  BY <1>2 DEF Calling
<1>3. ASSUME NEW c \in Callers, CallerStep(c) PROVE Calling'
  <2>1. \A d : Address(d) \in Hosts
    BY ControlAssumption DEF Address
  <2>2. CASE Call(c)
    <3>1. /\ made' = [made EXCEPT ![c] = @ + 1] /\ reply' = [reply EXCEPT ![c] = Nothing]
          /\ plan' = plan /\ made[c] < Len(plan.calls[c]) /\ made[c] \in Nat
          /\ Len(plan.calls[c]) \in Nat
      <4>1. made[c] \in Nat /\ Len(plan.calls[c]) \in Nat
        BY CallLength DEF Typed, CallerTypes, MaxCalls
      <4> QED BY <2>2, <4>1 DEF Call
    <3>2. \A d \in Callers \ {c} : pc'[d] = pc[d]
      BY <1>1, <2>1, <2>2, OthersStay DEF Call
    <3>3. \A d \in Callers \ {c} : made'[d] = made[d] /\ reply'[d] = reply[d]
      BY <3>1 DEF Typed, CallerTypes
    <3>4. made'[c] = made[c] + 1
      BY <3>1 DEF Typed, CallerTypes
    <3> QED BY <3>1, <3>2, <3>3, <3>4 DEF Calling
  <2>3. CASE Request(c)
    BY <1>2, <2>3 DEF Request, cvars, userVars, callerVars
  <2>4. ASSUME made[c] # 0, UNCHANGED <<plan, made>>,
               \A d \in Callers \ {c} : pc'[d] = pc[d] /\ reply'[d] = reply[d]
        PROVE  Calling'
    BY <2>4 DEF Calling
  <2>5. CASE PostAgain(c)
    <3>1. \A d \in Callers \ {c} : pc'[d] = pc[d]
      BY <1>1, <2>1, <2>5, OthersStay DEF PostAgain
    <3> QED BY <2>4, <2>5, <3>1 DEF PostAgain, Calling, Typed, CallerTypes
  <2>6. CASE Return(c) \/ TryAgain(c)
    <3>1. Unlock(c) /\ UNCHANGED <<plan, made, reply>>
      BY <2>6 DEF Return, TryAgain, callerVars
    <3>2. \A d \in Callers \ {c} : pc'[d] = pc[d]
      BY <1>1, <3>1, OthersStay DEF PostSteps
    <3> QED BY <2>4, <3>1, <3>2 DEF Unlock, Calling
  <2>7. CASE Answered(c) \/ GiveUp(c) \/ AnsweredElsewhere(c)
    <3>1. Exchange(c) /\ UNCHANGED <<plan, made>>
      BY <2>7 DEF Answered, GiveUp, AnsweredElsewhere, callerVars
    <3>2. \A d \in Callers \ {c} : pc'[d] = pc[d]
      BY <1>1, <3>1, OthersStay
    <3>3. \A d \in Callers \ {c} : reply'[d] = reply[d]
      BY <2>7 DEF Answered, GiveUp, AnsweredElsewhere, callerVars, Typed, CallerTypes
    <3> QED BY <2>4, <3>1, <3>2, <3>3 DEF Exchange, Calling
  <2> QED BY <1>3, <2>2, <2>3, <2>5, <2>6, <2>7 DEF CallerStep
<1>4. ASSUME NEW j \in Jobs, JobStep(j) PROVE Calling'
  BY <1>2, <1>4 DEF JobStep, AnswerInvalid, SetArguments, Prepare, Listen, Respond, Blank,
         Sense, RespondQuery, ActionFrame, QueryFrame, cvars, userVars, callerVars
<1>5. CASE Set \/ ServiceStep \/ \E t \in Notifiers : LockService(t)
  <2>1. UNCHANGED <<plan, made, reply>>
    BY <1>5 DEF Set, ServiceStep, TellAlone, PostNotify, Tell, UnlockService, LockService,
                QueryFrame, NotifyFrame, callerVars
  <2>2. CASE Set \/ TellAlone \/ UnlockService \/ \E t \in Notifiers : LockService(t)
    BY <1>2, <2>1, <2>2 DEF Set, TellAlone, Alone, UnlockService, LockService, QueryFrame,
                            cvars, userVars
  <2>3. CASE PostNotify \/ Tell
    <3>1. Exchange(Service) \/ \E h \in Hosts : Post(Service, h)
      BY <2>3, ControlAssumption DEF PostNotify, Tell
    <3>2. \A c \in Callers : pc'[c] = pc[c]
      BY <1>1, <3>1, OthersStay
    <3> QED BY <1>2, <2>1, <3>2
  <2> QED BY <1>5, <2>2, <2>3 DEF ServiceStep
<1>6. ASSUME NEW u \in Users, CacheStep(u) \/ NoHandle(u) PROVE Calling'
  <2>1. UNCHANGED <<plan, made, reply>>
    BY <1>6 DEF CacheStep, NoHandle, ControlFrame, NotifyFrame, callerVars
  <2>2. PostSteps(u) \/ OpenFails(u)
    BY <1>6 DEF CacheStep, NoHandle, FirstFree, PostSteps
  <2>3. \A c \in Callers : c # u => pc'[c] = pc[c]
    BY <1>1, <2>2, OthersStay
  <2>4. pc[u] # "idle"
    BY <2>2 DEF PostSteps, OpenFails, GetsNone, LockTest, Acquire, Unguarded, Expire, Take,
                Open, Put, PutFails, Unlock
  <2> QED BY <1>2, <2>1, <2>3, <2>4 DEF Calling
<1>7. CASE DeleteControlPoint \/ AppStep \/ TimePasses \/ UNCHANGED vars
  BY <1>2, <1>7
     DEF DeleteControlPoint, AppStep, TimePasses, ControlFrame, callerVars, vars, cvars,
         ClearStart, InitMutex, AppSteps, ClearLock, Clear, ClearUnlock, DeleteMutex, Forget,
         InitLock, InitCache, InitUnlock, Tick, AppGoto, userVars
<1> QED BY <1>3, <1>4, <1>5, <1>6, <1>7 DEF Next

LEMMA TypesStep == ASSUME Typed, Calling, [Next]_vars PROVE Typed'
BY CallerTyped, JobTyped, NotifierTyped, CacheTyped DEF Next

\* Everything has its type for any callers, calls and scenarios.
THEOREM ControlTypeCorrect == Spec => []TypeOK
<1>1. Init => Typed /\ Calling
  BY TypesInit, CallingInit
<1>2. CacheTypeOK /\ Typed /\ Calling /\ [Next]_vars => (Typed /\ Calling)'
  BY TypesStep, CallingStep
<1>3. Typed /\ CacheTypeOK => TypeOK
  BY DEF Typed, CallerTypes, JobTypes, ActionTypes, VarTypes, NotifyTypes, HistoryTypes, TypeOK
<1> QED BY <1>1, <1>2, <1>3, ControlUsesCache, CacheTypeCorrect, PTL DEF Spec
-----------------------------------------------------------------------------
(* A call's result is its own job's.                                       *)

\* Nothing has been given up while its job went on, and the cache has not been cleared.
Undisturbed == ~gaveUp /\ clears = 0

\* From the lock to the unlock a thread owns the mutex of the cache.
SerialNow ==
    /\ mutex = "live" /\ cache # None /\ appPc = "idle"
    /\ \A u \in Users : pc[u] \in {"get", "exchange", "put", "unlock"} => owner = u

Serial == clears = 0 => SerialNow

Busy == {"arguments", "prepare", "listen", "response", "fault",
         "blank", "sense", "read", "refuse", "invalid"}

\* A job that is at work is the one whose caller waits for it in the exchange.
Served ==
    \A j \in Jobs :
       /\ j[2] > made[j[1]] => step[j] = "none"
       /\ (Undisturbed /\ step[j] \in Busy) => j = Job(j[1]) /\ pc[j[1]] = "exchange"

CallOf(j) == plan.calls[j[1]][j[2]]

\* What a job at work serves, and what it has left in the lists and variables that it
\* shares with the others.
Work(j) ==
    /\ step[j] \in {"arguments", "prepare", "listen", "response", "fault"} =>
          CallOf(j) = "action"
    /\ step[j] \in {"prepare", "listen"} => argIn = j
    /\ step[j] = "response" => argOut = j
    /\ step[j] = "fault" => status = "refused"
    /\ step[j] \in {"blank", "sense", "read", "refuse"} => CallOf(j) = "query"
    /\ step[j] = "read" => value # 0
    /\ step[j] = "refuse" => varStatus = "refused"
    /\ step[j] = "invalid" => CallOf(j) = "unknown"

\* An answer a that fits the call j: the result of j itself.
Fits(a, j) ==
    /\ CallOf(j) = "action" => a.kind = "refused" \/ (a.kind = "ok" /\ a.out = j)
    /\ CallOf(j) = "query" => a.kind = "refused" \/ (a.kind = "ok" /\ a.value # 0)
    /\ CallOf(j) = "unknown" => a.kind = "invalid"

Sound(j) == Work(j) /\ (step[j] = "sent" => Fits(answer[j], j))

Answers == Undisturbed => \A j \in Jobs : Sound(j)

\* The caller has no reply yet, or one that fits.
Replied ==
    Undisturbed =>
       \A c \in Callers : made[c] > 0 => reply[c].kind = "none" \/ Fits(reply[c], Job(c))

\* The outcome of a call is what it was replied.
Reported(c) ==
    IF reply[c].kind = "ok"
    THEN /\ outcome[c].ok
         /\ IF Current(c) = "query" THEN outcome[c].value = reply[c].value
            ELSE outcome[c].out = reply[c].out
    ELSE ~outcome[c].ok

\* A call that has returned has what it was replied.
Returned ==
    \A c \in Callers :
       (made[c] > 0 /\ pc[c] = "idle" /\ reply[c].kind # "notAllowed") => Reported(c)

OwnInv == Serial /\ Served /\ Answers /\ Replied /\ Returned

LEMMA JobFact ==
    ASSUME NEW j \in Jobs
    PROVE  j[1] \in Callers /\ j[2] \in 1 .. MaxCalls /\ j = <<j[1], j[2]>>
BY DEF Jobs

\* The job of a caller that waits in the exchange.
LEMMA JobOfCaller ==
    ASSUME Typed, Calling, NEW c \in Callers, pc[c] # "idle"
    PROVE  Job(c) \in Jobs /\ Job(c)[1] = c /\ Job(c)[2] = made[c] /\ made[c] > 0
           /\ CallOf(Job(c)) = Current(c)
<1>1. made[c] \in 1 .. MaxCalls
  BY DEF Typed, CallerTypes, Calling, MaxCalls
<1> QED BY <1>1 DEF Job, Jobs, CallOf, Current

LEMMA OwnInit == ASSUME Init PROVE OwnInv
<1>1. Typed /\ Calling
  BY TypesInit, CallingInit
<1>2. Callers \subseteq Users
  BY ControlAssumption
<1>3. Serial
  <2>1. <<>> # None
    BY EmptyList, ListNotNone
  <2> QED BY <2>1 DEF Init, CacheInit, Serial, SerialNow
<1>4. Served
  BY DEF Init, Served, Busy
<1>5. Answers /\ Replied /\ Returned
  BY DEF Init, Answers, Sound, Work, Replied, Returned
<1> QED BY <1>3, <1>4, <1>5 DEF OwnInv

UserStep(u) == PostSteps(u) \/ OpenFails(u) \/ Exchange(u) \/ \E h \in Hosts : Post(u, h)

LEMMA SerialUser ==
    ASSUME CInv, ~fault, SerialNow, NEW u \in Users, UserStep(u) PROVE SerialNow'
<1> USE DEF SerialNow
<1>1. CacheTypeOK /\ CacheTypeOK' /\ Phases'
  <2>1. CacheNext
    BY DEF UserStep, CacheNext
  <2> QED BY <2>1, StepInv DEF CInv
<1>2. cache' # None /\ mutex' = "live" /\ appPc' = "idle"
  <2>1. UNCHANGED <<mutex, appPc>>
    BY DEF UserStep, PostSteps, OpenFails, Exchange, Post, LockTest, Acquire, Unguarded,
           Expire, Take, Put, PutFails, Open, Unlock, cacheVars
  <2> QED BY <1>1, <2>1 DEF Phases
<1>3. \A v \in Users : v # u => pc'[v] = pc[v]
  BY <1>1, OthersStay DEF UserStep
<1>4. /\ owner' \in {owner, u, None} /\ (owner' = u => owner \in {u, None})
      /\ (owner' = None /\ owner # None => owner = u)
      /\ pc'[u] \in {"get", "exchange", "put", "unlock"} => owner' = u
  <2>1. CASE Acquire(u)
    BY <1>1, <2>1 DEF Acquire, Goto, CacheTypeOK
  <2>2. CASE Unlock(u)
    BY <1>1, <2>2 DEF Unlock, Goto, CacheTypeOK
  <2>3. CASE LockTest(u) \/ \E h \in Hosts : Post(u, h)
    BY <1>1, <2>3 DEF LockTest, Post, Goto, CacheTypeOK, cacheVars
  <2>4. CASE Unguarded(u) \/ Expire(u) \/ Take(u) \/ Open(u) \/ Put(u) \/ PutFails(u)
             \/ OpenFails(u) \/ Exchange(u)
    <3>1. owner' = owner /\ pc[u] \in {"get", "exchange", "put", "unlock"}
      BY <2>4
         DEF Unguarded, Expire, Take, Open, GetsNone, Put, PutFails, OpenFails, Exchange,
             cacheVars
    <3> QED BY <3>1
  <2> QED BY <2>1, <2>2, <2>3, <2>4 DEF UserStep, PostSteps
<1>6. u # None /\ None \notin Users
  BY CacheAssumption
<1>7. ASSUME NEW v \in Users, pc'[v] \in {"get", "exchange", "put", "unlock"}
      PROVE  owner' = v
  <2>1. CASE v = u
    BY <1>4, <1>7, <2>1
  <2>2. CASE v # u
    <3>1. owner = v
      BY <1>3, <1>7, <2>2
    <3> QED BY <1>4, <1>6, <1>7, <2>2, <3>1
  <2> QED BY <2>1, <2>2
<1> QED BY <1>2, <1>7

\* What a step does to the cache: a thread's step, the application's, or nothing.
LEMMA StepKinds ==
    ASSUME [Next]_vars
    PROVE  \/ ~fault /\ (\E u \in Users : UserStep(u)) /\ clears' = clears
           \/ UNCHANGED cvars /\ clears' = clears
           \/ DeleteControlPoint
           \/ (AppStep \/ TimePasses) /\ clears' = clears
<1>1. Service \in Users /\ EventHost \in Hosts /\ Callers \subseteq Users
  BY ControlAssumption
<1>2. \A d : Address(d) \in Hosts
  BY ControlAssumption DEF Address
<1>3. ASSUME ~fault, NEW c \in Callers, CallerStep(c)
      PROVE  (UserStep(c) /\ clears' = clears) \/ (UNCHANGED cvars /\ UNCHANGED clears)
  <2>1. CASE Call(c) \/ PostAgain(c)
    BY <1>2, <2>1 DEF Call, PostAgain, UserStep
  <2>2. CASE Return(c) \/ TryAgain(c) \/ Answered(c) \/ GiveUp(c) \/ AnsweredElsewhere(c)
    BY <2>2 DEF Return, TryAgain, Answered, GiveUp, AnsweredElsewhere, UserStep, PostSteps
  <2>3. CASE Request(c)
    BY <2>3 DEF Request
  <2> QED BY <1>3, <2>1, <2>2, <2>3 DEF CallerStep
<1>4. ASSUME NEW j \in Jobs, JobStep(j) PROVE UNCHANGED <<cvars, clears>>
  BY <1>4 DEF JobStep, AnswerInvalid, SetArguments, Prepare, Listen, Respond, Blank, Sense,
              RespondQuery, ActionFrame, QueryFrame
<1>5. ASSUME Set \/ TellAlone \/ UnlockService \/ \E t \in Notifiers : LockService(t)
      PROVE  UNCHANGED <<cvars, clears>>
  BY <1>5 DEF Set, TellAlone, Alone, UnlockService, LockService, QueryFrame, NotifyFrame
<1>6. ASSUME PostNotify \/ Tell PROVE UserStep(Service) /\ clears' = clears
  BY <1>1, <1>6 DEF PostNotify, Tell, UserStep, NotifyFrame
<1>7. ASSUME NEW u \in Users, CacheStep(u) \/ NoHandle(u) PROVE UserStep(u) /\ clears' = clears
  BY <1>7 DEF CacheStep, NoHandle, FirstFree, UserStep, PostSteps, NotifyFrame
<1>8. UNCHANGED vars => UNCHANGED <<cvars, clears>>
  BY DEF vars
<1>9. AppStep \/ TimePasses => clears' = clears
  BY DEF AppStep, TimePasses
<1> QED BY <1>1, <1>3, <1>4, <1>5, <1>6, <1>7, <1>8, <1>9 DEF Next, ServiceStep

LEMMA SerialStep == ASSUME CInv, Typed, Serial, [Next]_vars PROVE Serial'
<1>1. CASE ~fault /\ (\E u \in Users : UserStep(u)) /\ clears' = clears
  BY <1>1, SerialUser DEF Serial
<1>2. CASE UNCHANGED cvars /\ clears' = clears
  BY <1>2 DEF Serial, SerialNow, cvars, cacheVars, userVars
<1>3. CASE DeleteControlPoint
  BY <1>3 DEF DeleteControlPoint, Serial, Typed, HistoryTypes
<1>4. CASE AppStep /\ clears' = clears
  BY <1>4 DEF Serial, SerialNow, AppStep, InitMutex, AppSteps, ClearLock, Clear, ClearUnlock,
              DeleteMutex, Forget, InitLock, InitCache, InitUnlock
<1>5. CASE TimePasses /\ clears' = clears
  BY <1>5 DEF Serial, SerialNow, TimePasses, Tick, userVars
<1> QED BY <1>1, <1>2, <1>3, <1>4, <1>5, StepKinds
Jobwise == Served /\ Answers /\ Replied /\ Returned

\* Two jobs are never at work at once.
LEMMA OneBusy ==
    ASSUME Typed, Serial, Served, Undisturbed,
           NEW j \in Jobs, NEW k \in Jobs, step[j] \in Busy, step[k] \in Busy
    PROVE  j = k
<1>1. j = Job(j[1]) /\ k = Job(k[1]) /\ pc[j[1]] = "exchange" /\ pc[k[1]] = "exchange"
  BY DEF Served
<1>2. j[1] \in Users /\ k[1] \in Users
  BY JobFact, ControlAssumption
<1>3. j[1] = owner /\ k[1] = owner
  BY <1>1, <1>2 DEF Undisturbed, Serial, SerialNow
<1> QED BY <1>1, <1>3 DEF Job

\* Steps that let a caller's exchange go on and end no call.
LEMMA ElsewhereOwn ==
    ASSUME Jobwise, Undisturbed' => Undisturbed,
           UNCHANGED <<plan, made, reply, outcome, step, answer, argIn, argOut, status, varStatus>>,
           value' = value \/ value' # 0,
           \A c \in Callers : /\ pc[c] = "exchange" => pc'[c] = "exchange"
                              /\ pc'[c] = "idle" => pc[c] = "idle"
    PROVE  Jobwise'
<1> USE DEF Jobwise
<1>1. Served'
  BY JobFact DEF Served, Job
<1>2. ASSUME NEW j \in Jobs, Work(j) PROVE Work(j)'
  BY <1>2 DEF Work, CallOf
<1>3. Answers' /\ Replied'
  BY <1>2 DEF Answers, Sound, Replied, Fits, CallOf, Job
<1>4. Returned'
  BY DEF Returned, Reported, Current
<1> QED BY <1>1, <1>3, <1>4

\* The step of a job that is at work: the other jobs are not.
LEMMA AtWorkOwn ==
    ASSUME Typed, Serial, Jobwise, NEW j \in Jobs, step[j] \in Busy,
           UNCHANGED <<pc, plan, made, reply, outcome, clears, gaveUp>>,
           NEW s \in Busy \cup {"sent"}, step' = [step EXCEPT ![j] = s],
           \A k \in Jobs : k # j => answer'[k] = answer[k],
           Undisturbed /\ Work(j) => Sound(j)'
    PROVE  Jobwise'
<1> USE DEF Jobwise
<1>1. step'[j] = s /\ \A k \in Jobs : k # j => step'[k] = step[k]
  BY DEF Typed, JobTypes
<1>2. Served'
  <2>1. \A k \in Jobs : k[2] > made[k[1]] => step'[k] = "none"
    BY <1>1 DEF Served, Busy
  <2>2. Undisturbed' => \A k \in Jobs : step'[k] \in Busy => k = Job(k[1]) /\ pc[k[1]] = "exchange"
    BY <1>1 DEF Served, Undisturbed
  <2> QED BY <2>1, <2>2 DEF Served, Job
<1>3. Answers'
  <2> SUFFICES ASSUME Undisturbed', NEW k \in Jobs PROVE Sound(k)'
    BY DEF Answers
  <2>1. Undisturbed
    BY DEF Undisturbed
  <2>2. Sound(k)
    BY <2>1 DEF Answers
  <2>3. CASE k = j
    BY <2>1, <2>2, <2>3 DEF Sound
  <2>4. CASE k # j
    <3>1. step[k] \notin Busy /\ step'[k] = step[k] /\ answer'[k] = answer[k]
      BY <1>1, <2>1, <2>4, OneBusy
    <3>2. Work(k)'
      BY <3>1 DEF Work, Busy
    <3>3. step'[k] = "sent" => Fits(answer[k], k)'
      BY <2>2, <3>1 DEF Sound, Fits, CallOf
    <3> QED BY <3>2, <3>3 DEF Sound
  <2> QED BY <2>3, <2>4
<1>4. Replied' /\ Returned'
  BY DEF Replied, Returned, Reported, Current, Undisturbed, Fits, CallOf, Job
<1> QED BY <1>2, <1>3, <1>4

LEMMA JobOwn ==
    ASSUME Typed, Serial, Jobwise, NEW j \in Jobs, JobStep(j)
    PROVE  Jobwise'
<1> USE DEF At, StepTo
<1>1. step[j] \in Busy
  BY DEF JobStep, AnswerInvalid, SetArguments, Prepare, Listen, Respond, Blank, Sense,
         RespondQuery, Busy
<1>2. UNCHANGED <<pc, plan, made, reply, outcome, clears, gaveUp>>
  BY DEF JobStep, AnswerInvalid, SetArguments, Prepare, Listen, Respond, Blank, Sense,
         RespondQuery, ActionFrame, QueryFrame, cvars, userVars, callerVars
<1>3. \A k \in Jobs : k # j => answer'[k] = answer[k]
  BY DEF JobStep, AnswerInvalid, SetArguments, Prepare, Listen, Respond, Blank, Sense,
         RespondQuery, Send, Typed, JobTypes
<1>4. ASSUME NEW s \in Busy \cup {"sent"}, step' = [step EXCEPT ![j] = s],
             Work(j) => Sound(j)'
      PROVE  Jobwise'
  BY <1>1, <1>2, <1>3, <1>4, AtWorkOwn
<1>5. \A s : (step' = [step EXCEPT ![j] = s]) => step'[j] = s
  BY DEF Typed, JobTypes
<1>6. {"prepare", "listen", "response", "fault", "sense", "read", "refuse"} \subseteq Busy
  BY DEF Busy
<1>7. CallOf(j)' = CallOf(j)
  BY <1>2 DEF CallOf
<1>8. CASE AnswerInvalid(j)
  <2>1. step' = [step EXCEPT ![j] = "sent"] /\ answer'[j].kind = "invalid"
    BY <1>8 DEF AnswerInvalid, Send, Typed, JobTypes
  <2>2. Work(j) => Sound(j)'
    BY <1>5, <1>7, <1>8, <2>1 DEF AnswerInvalid, Work, Sound, Fits
  <2> QED BY <1>4, <2>1, <2>2
<1>9. CASE SetArguments(j)
  <2>1. step' = [step EXCEPT ![j] = "prepare"] /\ argIn' = j /\ step[j] = "arguments"
    BY <1>9 DEF SetArguments
  <2>2. Work(j) => Sound(j)'
    BY <1>5, <1>7, <2>1 DEF Work, Sound
  <2> QED BY <1>4, <1>6, <2>1, <2>2
<1>10. CASE Prepare(j)
  <2>1. step' = [step EXCEPT ![j] = "listen"] /\ argIn' = argIn /\ step[j] = "prepare"
    BY <1>10 DEF Prepare
  <2>2. Work(j) => Sound(j)'
    BY <1>5, <1>7, <2>1 DEF Work, Sound
  <2> QED BY <1>4, <1>6, <2>1, <2>2
<1>11. CASE Listen(j)
  <2>1. CASE step' = [step EXCEPT ![j] = "response"] /\ argOut' = argIn
    <3>1. Work(j) => Sound(j)'
      BY <1>5, <1>7, <1>11, <2>1 DEF Work, Sound, Listen
    <3> QED BY <1>4, <1>6, <2>1, <3>1
  <2>2. CASE step' = [step EXCEPT ![j] = "fault"] /\ status' = "refused"
    <3>1. Work(j) => Sound(j)'
      BY <1>5, <1>7, <1>11, <2>2 DEF Work, Sound, Listen
    <3> QED BY <1>4, <1>6, <2>2, <3>1
  <2> QED BY <1>11, <2>1, <2>2 DEF Listen
<1>12. CASE Respond(j)
  <2>1. \/ /\ step[j] = "response"
           /\ answer'[j].kind = "ok" /\ answer'[j].out = argOut
        \/ step[j] = "fault" /\ answer'[j].kind = status
    BY <1>12 DEF Respond, Send, Typed, JobTypes
  <2>2. step' = [step EXCEPT ![j] = "sent"]
    BY <1>12 DEF Respond, Send
  <2>3. Work(j) => Fits(answer[j], j)'
    BY <1>7, <2>1 DEF Work, Fits
  <2>4. Work(j)'
    BY <1>5, <2>2 DEF Work
  <2> QED BY <1>4, <2>2, <2>3, <2>4 DEF Sound
<1>13. CASE Blank(j)
  <2>1. step' = [step EXCEPT ![j] = "sense"] /\ step[j] = "blank"
    BY <1>13 DEF Blank
  <2>2. Work(j) => Sound(j)'
    BY <1>5, <1>7, <2>1 DEF Work, Sound
  <2> QED BY <1>4, <1>6, <2>1, <2>2
<1>14. CASE Sense(j)
  <2>1. CASE step' = [step EXCEPT ![j] = "read"] /\ value' = last + 1
    <3>1. value' # 0
      BY <2>1 DEF Typed, VarTypes
    <3>2. Work(j) => Sound(j)'
      BY <1>5, <1>7, <1>14, <2>1, <3>1 DEF Work, Sound, Sense
    <3> QED BY <1>4, <1>6, <2>1, <3>2
  <2>2. CASE step' = [step EXCEPT ![j] = "refuse"] /\ varStatus' = "refused"
    <3>1. Work(j) => Sound(j)'
      BY <1>5, <1>7, <1>14, <2>2 DEF Work, Sound, Sense
    <3> QED BY <1>4, <1>6, <2>2, <3>1
  <2> QED BY <1>14, <2>1, <2>2 DEF Sense, SetValue
<1>15. CASE RespondQuery(j)
  <2>1. \/ /\ step[j] = "read"
           /\ answer'[j].kind = "ok" /\ answer'[j].value = value
        \/ step[j] = "refuse" /\ answer'[j].kind = varStatus
    BY <1>15 DEF RespondQuery, Send, Typed, JobTypes
  <2>2. step' = [step EXCEPT ![j] = "sent"]
    BY <1>15 DEF RespondQuery, Send
  <2>3. Work(j) => Fits(answer[j], j)'
    BY <1>7, <2>1 DEF Work, Fits
  <2>4. Work(j)'
    BY <1>5, <2>2 DEF Work
  <2> QED BY <1>4, <2>2, <2>3, <2>4 DEF Sound
<1> QED BY <1>8, <1>9, <1>10, <1>11, <1>12, <1>13, <1>14, <1>15 DEF JobStep
\* Steps that leave every job as it is: the caller c moves on from outside its job's work.
LEMMA CallerMoves ==
    ASSUME Typed, Calling, Jobwise, NEW c \in Callers,
           Undisturbed' => Undisturbed,
           UNCHANGED <<plan, step, answer, argIn, argOut, status, value, varStatus>>,
           pc[c] # "exchange" \/ (step[Job(c)] \notin Busy) \/ ~Undisturbed',
           \A d \in Callers : d # c =>
              pc'[d] = pc[d] /\ made'[d] = made[d] /\ reply'[d] = reply[d]
                             /\ outcome'[d] = outcome[d],
           made'[c] >= made[c] /\ made'[c] \in Nat,
           Undisturbed' /\ made'[c] > 0 => reply'[c].kind = "none" \/ Fits(reply[c], Job(c))',
           (made'[c] > 0 /\ pc'[c] = "idle" /\ reply'[c].kind # "notAllowed") => Reported(c)'
    PROVE  Jobwise'
<1> USE DEF Jobwise
<1>1. ASSUME NEW d \in Callers, d # c PROVE Job(d)' = Job(d) /\ made'[d] = made[d]
  BY <1>1 DEF Job
<1>2. Served'
  <2>1. ASSUME NEW j \in Jobs, j[2] > made'[j[1]] PROVE step'[j] = "none"
    <3>1. j[1] \in Callers /\ j[2] \in Nat /\ made[j[1]] \in Nat /\ made'[j[1]] \in Nat
      BY JobFact DEF Typed, CallerTypes, MaxCalls
    <3>2. made'[j[1]] >= made[j[1]]
      BY <3>1
    <3>3. j[2] > made[j[1]]
      BY <2>1, <3>1, <3>2
    <3> QED BY <3>3 DEF Served
  <2>2. ASSUME Undisturbed', NEW j \in Jobs, step'[j] \in Busy
        PROVE  j = Job(j[1])' /\ pc'[j[1]] = "exchange"
    <3>1. j = Job(j[1]) /\ pc[j[1]] = "exchange" /\ j[1] \in Callers
      BY <2>2, JobFact DEF Served
    <3>2. j[1] # c
      BY <2>2, <3>1
    <3> QED BY <1>1, <3>1, <3>2
  <2> QED BY <2>1, <2>2 DEF Served
<1>3. Answers'
  BY DEF Answers, Sound, Work, Fits, CallOf
<1>4. Replied'
  <2> SUFFICES ASSUME Undisturbed', NEW d \in Callers, made'[d] > 0, reply'[d].kind # "none"
               PROVE  Fits(reply[d], Job(d))'
    BY DEF Replied
  <2>1. CASE d = c
    BY <2>1
  <2>2. CASE d # c
    <3>1. Fits(reply[d], Job(d))
      BY <2>2 DEF Replied
    <3>2. reply'[d] = reply[d] /\ Job(d)' = Job(d)
      BY <1>1, <2>2
    <3> QED BY <3>1, <3>2 DEF Fits, CallOf
  <2> QED BY <2>1, <2>2
<1>5. Returned'
  BY DEF Returned, Reported, Current
<1> QED BY <1>2, <1>3, <1>4, <1>5

\* The request arrives, and its job is the only one.
LEMMA RequestOwn ==
    ASSUME Typed, Calling, Serial, Jobwise, NEW c \in Callers, Request(c) PROVE Jobwise'
<1> USE DEF Jobwise
<1> DEFINE j == Job(c)
<1>1. /\ j \in Jobs /\ j[1] = c /\ j[2] = made[c] /\ CallOf(j) = Current(c)
      /\ pc[c] = "exchange" /\ step[j] = "none"
  BY JobOfCaller DEF Request
<1>2. UNCHANGED <<pc, plan, made, reply, outcome, answer, argIn, argOut, status, value,
                  varStatus, clears, gaveUp>>
  BY DEF Request, cvars, userVars, callerVars, actionVars, varVars
<1>3. CallOf(j)' = CallOf(j) /\ Job(c)' = Job(c)
  BY <1>2 DEF CallOf, Job
<1>4. \A k \in Jobs : k # j => step'[k] = step[k]
  BY <1>1 DEF Request, Typed, JobTypes
<1>5. /\ step'[j] \in {"arguments", "blank", "invalid"}
      /\ step'[j] = "arguments" => Current(c) = "action"
      /\ step'[j] = "blank" => Current(c) = "query"
      /\ step'[j] = "invalid" => Current(c) = "unknown"
  BY <1>1 DEF Request, Typed, JobTypes, ToDevice
<1>6. Served'
  <2>1. ASSUME NEW k \in Jobs, k # j
        PROVE  /\ k[2] > made'[k[1]] => step'[k] = "none"
               /\ (Undisturbed' /\ step'[k] \in Busy) => k = Job(k[1])' /\ pc'[k[1]] = "exchange"
    BY <1>2, <1>4, <2>1 DEF Served, Undisturbed, Job
  <2>2. /\ j[2] > made'[j[1]] => step'[j] = "none"
        /\ j = <<c, made'[c]>> /\ pc'[c] = "exchange"
    <3>1. made[c] \in Nat
      BY DEF Typed, CallerTypes, MaxCalls
    <3>2. made'[j[1]] = made[c] /\ j[2] = made[c] /\ pc'[j[1]] = pc[c]
      BY <1>1, <1>2
    <3>3. ~(j[2] > made'[j[1]])
      BY <3>1, <3>2
    <3>4. j = <<c, made'[c]>>
      BY <1>2 DEF Job
    <3> QED BY <1>1, <3>2, <3>3, <3>4
  <2>3. ASSUME NEW k \in Jobs
        PROVE  /\ k[2] > made'[k[1]] => step'[k] = "none"
               /\ (Undisturbed' /\ step'[k] \in Busy) => k = Job(k[1])' /\ pc'[k[1]] = "exchange"
    <3>1. CASE k = j
      <4>1. k[1] = c
        BY <1>1, <3>1
      <4> QED BY <2>2, <3>1, <4>1 DEF Job
    <3> QED BY <2>1, <3>1
  <2> QED BY <2>3 DEF Served
<1>7. Answers'
  <2> SUFFICES ASSUME Undisturbed', NEW k \in Jobs PROVE Sound(k)'
    BY DEF Answers
  <2>1. Sound(k)
    BY <1>2 DEF Answers, Undisturbed
  <2>2. CASE k = j
    BY <1>1, <1>3, <1>5, <2>2 DEF Sound, Work
  <2>3. CASE k # j
    BY <1>2, <1>4, <2>1, <2>3 DEF Sound, Work, Fits, CallOf
  <2> QED BY <2>2, <2>3
<1>8. Replied' /\ Returned'
  BY <1>2 DEF Replied, Returned, Reported, Current, Undisturbed, Fits, CallOf, Job
<1> QED BY <1>6, <1>7, <1>8

LEMMA CallerOwn ==
    ASSUME CacheTypeOK, Typed, Calling, Serial, Jobwise, NEW c \in Callers, CallerStep(c)
    PROVE  Jobwise'
<1>1. Callers \subseteq Users
  BY ControlAssumption
<1>2. \A d : Address(d) \in Hosts
  BY ControlAssumption DEF Address
<1>3. made[c] \in Nat /\ (pc[c] = "exchange" => made[c] > 0)
  BY DEF Typed, CallerTypes, MaxCalls, Calling
<1>4. CASE Call(c)
  <2>1. \A d \in Callers : d # c => pc'[d] = pc[d]
    BY <1>1, <1>2, <1>4, OthersStay DEF Call
  <2>2. pc[c] = "idle" /\ pc'[c] = "lock"
    BY <1>1, <1>4 DEF Call, Post, Goto, CacheTypeOK
  <2>3. /\ UNCHANGED <<plan, outcome, clears, gaveUp, step, answer, argIn, argOut, status,
                       value, varStatus>>
        /\ Undisturbed' => Undisturbed
    BY <1>4 DEF Call, deviceVars, jobVars, actionVars, varVars, Undisturbed
  <2>4. /\ made'[c] = made[c] + 1 /\ reply'[c].kind = "none"
        /\ \A d \in Callers : d # c => made'[d] = made[d] /\ reply'[d] = reply[d]
    BY <1>4 DEF Call, Typed, CallerTypes, Nothing
  <2>5. made'[c] >= made[c] /\ made'[c] \in Nat
    BY <1>3, <2>4
  <2> QED BY <2>1, <2>2, <2>3, <2>4, <2>5, CallerMoves
<1>5. CASE PostAgain(c)
  <2>1. \A d \in Callers : d # c => pc'[d] = pc[d]
    BY <1>1, <1>2, <1>5, OthersStay DEF PostAgain
  <2>2. pc[c] = "idle" /\ pc'[c] = "lock"
    BY <1>1, <1>5 DEF PostAgain, Post, Goto, CacheTypeOK
  <2>3. /\ UNCHANGED <<plan, made, outcome, clears, gaveUp, step, answer, argIn, argOut,
                       status, value, varStatus>>
        /\ Undisturbed' => Undisturbed
    BY <1>5 DEF PostAgain, deviceVars, jobVars, actionVars, varVars, Undisturbed
  <2>4. /\ reply'[c].kind = "none"
        /\ \A d \in Callers : d # c => reply'[d] = reply[d]
    BY <1>5 DEF PostAgain, Typed, CallerTypes, Nothing
  <2>5. made'[c] >= made[c] /\ made'[c] \in Nat
    BY <1>3, <2>3
  <2> QED BY <2>1, <2>2, <2>3, <2>4, <2>5, CallerMoves
<1>6. CASE Return(c) \/ TryAgain(c)
  <2>1. Unlock(c) /\ pc[c] = "unlock"
    BY <1>6 DEF Return, TryAgain, Unlock
  <2>2. \A d \in Callers : d # c => pc'[d] = pc[d]
    BY <1>1, <2>1, OthersStay DEF PostSteps
  <2>3. /\ UNCHANGED <<plan, made, reply, clears, gaveUp, step, answer, argIn, argOut, status,
                       value, varStatus>>
        /\ \A d \in Callers : d # c => outcome'[d] = outcome[d]
    BY <1>6 DEF Return, TryAgain, callerVars, deviceVars, jobVars, actionVars, varVars, Typed,
                CallerTypes
  <2>4. made[c] > 0 => (Undisturbed => reply[c].kind = "none" \/ Fits(reply[c], Job(c)))
    BY DEF Jobwise, Replied
  <2>5. reply[c].kind # "notAllowed" => Reported(c)'
    <3>1. CASE TryAgain(c)
      BY <3>1 DEF TryAgain
    <3>2. CASE Return(c)
      <4>1. outcome'[c] = Result(c)
        BY <3>2 DEF Return, Typed, CallerTypes
      <4>2. outcome[c] \in [ok : BOOLEAN, status : {"ok", "invalid", "refused"},
                            value : Nat, out : Jobs \cup {None}]
        BY DEF Typed, CallerTypes
      <4> QED BY <2>3, <4>1, <4>2 DEF Result, Reported, Current
    <3> QED BY <1>6, <3>1, <3>2
  <2>6. Fits(reply[c], Job(c)) => Fits(reply[c], Job(c))'
    BY <2>3 DEF Fits, CallOf, Job
  <2>7. (Undisturbed' => Undisturbed) /\ made'[c] >= made[c] /\ made'[c] \in Nat
    BY <1>3, <2>3 DEF Undisturbed
  <2> QED BY <2>1, <2>2, <2>3, <2>4, <2>5, <2>6, <2>7, CallerMoves
<1>7. CASE Answered(c) \/ GiveUp(c) \/ AnsweredElsewhere(c)
  <2>1. Exchange(c) /\ pc[c] = "exchange" /\ pc'[c] # "idle"
    BY <1>1, <1>7 DEF Answered, GiveUp, AnsweredElsewhere, Exchange, Goto, CacheTypeOK
  <2>2. \A d \in Callers : d # c => pc'[d] = pc[d]
    BY <1>1, <2>1, OthersStay
  <2>3. /\ UNCHANGED <<plan, made, outcome, clears, step, answer, argIn, argOut, status,
                       value, varStatus>>
        /\ \A d \in Callers : d # c => reply'[d] = reply[d]
    BY <1>7 DEF Answered, GiveUp, AnsweredElsewhere, callerVars, deviceVars, jobVars,
                actionVars, varVars, Typed, CallerTypes
  <2>4. Undisturbed' => Undisturbed
    BY <1>7, <2>3 DEF Answered, GiveUp, AnsweredElsewhere, Undisturbed
  <2>5. /\ Job(c) \in Jobs /\ CallOf(Job(c)) = Current(c)
        /\ made'[c] >= made[c] /\ made'[c] \in Nat
        /\ Job(c)' = Job(c) /\ CallOf(Job(c))' = CallOf(Job(c))
    BY <1>3, <2>1, <2>3, JobOfCaller DEF Job, CallOf
  <2>6. Undisturbed' /\ ~ToDevice(c) => step[Job(c)] \notin Busy
    BY <2>4, <2>5 DEF Jobwise, Answers, Sound, Work, Busy, ToDevice
  <2>7. step[Job(c)] \notin Busy \/ ~Undisturbed'
    <3>1. CASE Answered(c)
      BY <3>1 DEF Answered, Busy
    <3>2. CASE GiveUp(c)
      BY <2>6, <3>2 DEF GiveUp, Busy, Undisturbed
    <3>3. CASE AnsweredElsewhere(c)
      BY <2>6, <3>3 DEF AnsweredElsewhere
    <3> QED BY <1>7, <3>1, <3>2, <3>3
  <2>8. Undisturbed' => reply'[c].kind = "none" \/ Fits(reply[c], Job(c))'
    <3>1. CASE Answered(c)
      <4>1. reply'[c] = answer[Job(c)] /\ step[Job(c)] = "sent"
        BY <3>1 DEF Answered, Typed, CallerTypes
      <4>2. Undisturbed' => Fits(answer[Job(c)], Job(c))
        BY <2>4, <2>5, <4>1 DEF Jobwise, Answers, Sound
      <4> QED BY <2>5, <4>1, <4>2 DEF Fits
    <3>2. CASE GiveUp(c)
      <4>1. UNCHANGED reply
        BY <3>2 DEF GiveUp, callerVars
      <4>2. Undisturbed' => reply[c].kind = "none" \/ Fits(reply[c], Job(c))
        BY <1>3, <2>1, <2>4 DEF Jobwise, Replied
      <4> QED BY <2>5, <4>1, <4>2 DEF Fits
    <3>3. CASE AnsweredElsewhere(c)
      BY <2>5, <3>3 DEF AnsweredElsewhere, ToDevice, Fits
    <3> QED BY <1>7, <3>1, <3>2, <3>3
  <2> QED BY <2>1, <2>2, <2>3, <2>4, <2>5, <2>7, <2>8, CallerMoves
<1>8. CASE Request(c)
  BY <1>8, RequestOwn
<1> QED BY <1>4, <1>5, <1>6, <1>7, <1>8 DEF CallerStep

LEMMA OthersOwn ==
    ASSUME CacheTypeOK, Typed, Jobwise,
           \/ Set \/ ServiceStep \/ \E t \in Notifiers : LockService(t)
           \/ \E u \in Users : CacheStep(u) \/ NoHandle(u)
           \/ DeleteControlPoint \/ AppStep \/ TimePasses \/ UNCHANGED vars
    PROVE  Jobwise'
<1>1. Callers \subseteq Users /\ Service \in Users \ Callers
  BY ControlAssumption
<1>2. /\ UNCHANGED <<plan, made, reply, outcome, step, answer, argIn, argOut, status,
                     varStatus>>
      /\ value' = value \/ value' # 0
  <2>1. CASE Set
    BY <2>1 DEF Set, SetValue, QueryFrame, callerVars, jobVars, actionVars, Typed, VarTypes
  <2>2. CASE \/ ServiceStep \/ \E t \in Notifiers : LockService(t)
             \/ \E u \in Users : NoHandle(u)
    <3>1. NotifyFrame
      BY <2>2 DEF ServiceStep, TellAlone, PostNotify, Tell, UnlockService, LockService, NoHandle
    <3> QED BY <3>1 DEF NotifyFrame, callerVars, jobVars, actionVars, varVars
  <2>3. CASE \/ \E u \in Users : CacheStep(u)
             \/ DeleteControlPoint \/ AppStep \/ TimePasses
    <3>1. ControlFrame
      BY <2>3 DEF CacheStep, DeleteControlPoint, AppStep, TimePasses
    <3> QED BY <3>1 DEF ControlFrame, callerVars, deviceVars, jobVars, actionVars, varVars
  <2>4. CASE UNCHANGED vars
    BY <2>4 DEF vars, callerVars, jobVars, actionVars, varVars
  <2> QED BY <2>1, <2>2, <2>3, <2>4
<1>3. Undisturbed' => Undisturbed
  BY DEF Undisturbed, Set, ServiceStep, TellAlone, PostNotify, Tell, UnlockService, LockService,
         CacheStep, NoHandle, DeleteControlPoint, AppStep, TimePasses, vars, QueryFrame,
         NotifyFrame, ControlFrame, Typed, HistoryTypes
<1>4. ASSUME NEW c \in Callers
      PROVE  (pc[c] = "exchange" => pc'[c] = "exchange") /\ (pc'[c] = "idle" => pc[c] = "idle")
  <2>1. CASE PostNotify \/ Tell
    <3>1. UserStep(Service)
      BY <2>1, ControlAssumption DEF PostNotify, Tell, UserStep
    <3> QED BY <1>1, <3>1, OthersStay DEF UserStep
  <2>2. ASSUME NEW u \in Users, CacheStep(u) \/ NoHandle(u)
        PROVE  (pc[c] = "exchange" => pc'[c] = "exchange") /\ (pc'[c] = "idle" => pc[c] = "idle")
    <3>1. CASE u # c
      BY <1>1, <2>2, <3>1, OthersStay DEF CacheStep, NoHandle, FirstFree, PostSteps
    <3>2. CASE u = c
      BY <1>1, <2>2, <3>2
         DEF CacheStep, NoHandle, FirstFree, LockTest, Acquire, Unguarded, Expire, Take, Open,
             OpenFails, GetsNone, Put, PutFails, Goto, CacheTypeOK, userVars
    <3> QED BY <3>1, <3>2
  <2>3. CASE \/ Set \/ TellAlone \/ UnlockService \/ \E t \in Notifiers : LockService(t)
             \/ DeleteControlPoint \/ AppStep \/ TimePasses \/ UNCHANGED vars
    <3>1. UNCHANGED pc
      BY <2>3
         DEF Set, TellAlone, Alone, UnlockService, LockService, QueryFrame, DeleteControlPoint,
             AppStep, TimePasses, vars, cvars, userVars, ClearStart, InitMutex, AppSteps,
             ClearLock, Clear, ClearUnlock, DeleteMutex, Forget, InitLock, InitCache,
             InitUnlock, Tick, AppGoto
    <3> QED BY <3>1
  <2> QED BY <2>1, <2>2, <2>3 DEF ServiceStep
<1> QED BY <1>2, <1>3, <1>4, ElsewhereOwn

LEMMA OwnStep ==
    ASSUME CInv, Typed, Calling, OwnInv, [Next]_vars PROVE OwnInv'
<1>1. CacheTypeOK /\ Serial /\ Jobwise
  BY DEF CInv, OwnInv, Jobwise
<1>2. Jobwise'
  BY <1>1, CallerOwn, JobOwn, OthersOwn DEF Next
<1>3. Serial'
  BY <1>1, SerialStep
<1> QED BY <1>2, <1>3 DEF OwnInv, Jobwise

\* A call that has returned has the result of its own job, although the jobs share lists
\* and variables without a lock, as long as no request is given up while its job goes on
\* and no control point is deleted.
THEOREM CallsGetOwnResult == Spec => []OwnResult
<1>1. Init => Typed /\ Calling /\ OwnInv
  BY TypesInit, CallingInit, OwnInit
<1>2. CInv /\ Typed /\ Calling /\ OwnInv /\ [Next]_vars => (Typed /\ Calling /\ OwnInv)'
  <2>1. CInv => CacheTypeOK
    BY DEF CInv
  <2> QED BY <2>1, TypesStep, CallingStep, OwnStep
<1>3. OwnInv => OwnResult
  <2> SUFFICES ASSUME OwnInv, NEW c \in Callers,
                      made[c] > 0, pc[c] = "idle", ~gaveUp, clears = 0
               PROVE  /\ Current(c) = "action" =>
                            \/ outcome[c].ok /\ outcome[c].out = Job(c)
                            \/ ~outcome[c].ok /\ reply[c].kind \in {"none", "refused"}
                      /\ Current(c) = "query" =>
                            \/ outcome[c].ok /\ outcome[c].value # 0
                            \/ ~outcome[c].ok /\ reply[c].kind \in {"none", "refused"}
                      /\ Current(c) = "unknown" => ~outcome[c].ok
    BY DEF OwnResult
  <2>1. reply[c].kind = "none" \/ Fits(reply[c], Job(c))
    BY DEF OwnInv, Replied, Undisturbed
  <2>2. CallOf(Job(c)) = Current(c)
    BY DEF Job, CallOf, Current
  <2>3. reply[c].kind # "notAllowed" => Reported(c)
    BY DEF OwnInv, Returned
  <2> QED BY <2>1, <2>2, <2>3 DEF Fits, Reported
<1> QED BY <1>1, <1>2, <1>3, ControlUsesCache, CacheInvariant, PTL DEF Spec
====
