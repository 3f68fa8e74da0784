------------------------------ MODULE Control ------------------------------
(***************************************************************************)
(* Control: control points call an action of a device and query its state  *)
(* variable, each call one SOAP request posted through the process's cache *)
(* of connections (ConnectionCache).  At the device a client thread serves *)
(* each request.  It copies the arguments into the action's own list, lets *)
(* the application's listener work there and copies the result from there; *)
(* a query empties the variable, which tells the subscribers, before the   *)
(* listener sets it, which tells them again.  NOTIFY is posted with the    *)
(* service's mutex held, and through the same cache of connections when    *)
(* the device runs in the process of the control points.                   *)
(*                                                                         *)
(* The action has one argument in and one out; what the listener returns   *)
(* is what it was given, and each call gives its own name.  The n-th value *)
(* of the state variable is n, and 0 is the empty string.                  *)
(***************************************************************************)
EXTENDS ConnectionCache

CONSTANTS
    Callers,     \* threads of the control points that call
    Service,     \* the thread that posts NOTIFY for the service: one at a time
    Setter,      \* the device's application, which sets the variable
    DeviceHost,  \* where the device serves control requests
    EventHost,   \* where the subscriber takes events
    Scenarios    \* what is called, and in which surroundings

Nothing == [kind |-> "none", value |-> 0, out |-> None]
MaxCalls == 3
Jobs == Callers \X (1 .. MaxCalls)   \* a job serves one request
Notifiers == Jobs \cup {Setter}

ASSUME ControlAssumption ==
    /\ Users = Callers \cup {Service} /\ Service \notin Callers
    /\ {DeviceHost, EventHost} \subseteq Hosts
    /\ Setter \notin Jobs /\ None \notin Jobs \cup {Setter}
    /\ \A s \in Scenarios :
          /\ s.calls \in [Callers -> Seq({"action", "query", "unknown"} \cup Hosts)]
          /\ \A c \in Callers : Len(s.calls[c]) <= MaxCalls
          /\ {s.together, s.subscribed, s.scarce} \subseteq BOOLEAN
          /\ s.mpost \subseteq Hosts
          /\ {s.sets, s.clears, s.time} \subseteq Nat

VARIABLES
    plan,        \* the scenario of this run
    made,        \* how many calls each caller has made
    method,      \* POST, or M-POST for the second attempt
    reply,       \* what the caller's request was answered
    outcome,     \* what the call returned, and the status code left in the caller's action
    step,        \* where each job is
    answer,      \* what it answers
    argIn,       \* the action's argument list: the value in...
    argOut,      \* ... the value out
    status,      \* and the action's status code
    value,       \* the state variable
    varStatus,   \* its status code
    last,        \* the last value the application gave the variable
    wants,       \* threads that are about to notify the value they have set
    svcLock,     \* who holds the service's mutex
    posting,     \* the value in the NOTIFY being posted
    subscribed,  \* is there still a subscriber?
    told,        \* the last value it was told
    clears,      \* how often the cache has been cleared
    gaveUp,      \* history: a caller gave up a request whose job went on
    refused      \* history: the listener has refused a query

callerVars == <<made, method, reply, outcome>>
jobVars == <<step, answer>>
actionVars == <<argIn, argOut, status>>
varVars == <<value, varStatus, last>>
notifyVars == <<wants, svcLock, posting, subscribed, told>>
vars == <<cvars, plan, callerVars, jobVars, actionVars, varVars, notifyVars,
          clears, gaveUp, refused>>
deviceVars == <<jobVars, actionVars, varVars, notifyVars, refused>>

Init ==
    /\ CacheInit
    /\ plan \in Scenarios
    /\ made = [c \in Callers |-> 0] /\ method = [c \in Callers |-> "POST"]
    /\ reply = [c \in Callers |-> Nothing]
    /\ outcome = [c \in Callers |-> [ok |-> FALSE, status |-> "ok", value |-> 0, out |-> None]]
    /\ step = [j \in Jobs |-> "none"] /\ answer = [j \in Jobs |-> Nothing]
    /\ argIn = None /\ argOut = None /\ status = "ok"
    /\ value = 1 /\ varStatus = "ok" /\ last = 1
    /\ wants = {} /\ svcLock = None /\ posting = None
    /\ subscribed = plan.subscribed /\ told = 1
    /\ clears = 0 /\ gaveUp = FALSE /\ refused = FALSE

Current(c) == plan.calls[c][made[c]]
Job(c) == <<c, made[c]>>
ToDevice(c) == Current(c) \in {"action", "query", "unknown"}
Address(what) == IF what \in Hosts THEN what ELSE DeviceHost

-----------------------------------------------------------------------------
(* The caller: cg_upnp_action_post, cg_upnp_statevariable_post, and the    *)
(* other requests a control point posts.                                   *)

Call(c) ==
    /\ made[c] < Len(plan.calls[c])
    /\ Post(c, Address(plan.calls[c][made[c] + 1]))
    /\ made' = [made EXCEPT ![c] = @ + 1]
    /\ method' = [method EXCEPT ![c] = "POST"]
    /\ reply' = [reply EXCEPT ![c] = Nothing]
    /\ UNCHANGED <<plan, outcome, deviceVars, clears, gaveUp>>

\* The request arrives, and a client thread of the device takes it.
Request(c) ==
    /\ pc[c] = "exchange" /\ ToDevice(c) /\ step[Job(c)] = "none"
    /\ step' = [step EXCEPT ![Job(c)] =
                  CASE Current(c) = "action" -> "arguments"
                    [] Current(c) = "query" -> "blank"
                    [] OTHER -> "invalid"]
    /\ UNCHANGED <<cvars, plan, callerVars, answer, actionVars, varVars, notifyVars,
                   clears, gaveUp, refused>>

Answered(c) ==
    /\ Exchange(c)
    /\ ToDevice(c) /\ step[Job(c)] = "sent"
    /\ reply' = [reply EXCEPT ![c] = answer[Job(c)]]
    /\ UNCHANGED <<plan, made, method, outcome, deviceVars, clears, gaveUp>>

\* No connection, no answer within the time limit, or a broken connection.
GiveUp(c) ==
    /\ Exchange(c)
    /\ gaveUp' = (gaveUp \/ (ToDevice(c) /\ step[Job(c)] \notin {"none", "sent"}))
    /\ UNCHANGED <<plan, callerVars, deviceVars, clears>>

\* Another device answers; one may want M-POST.
AnsweredElsewhere(c) ==
    /\ Exchange(c) /\ ~ToDevice(c)
    /\ LET refuses == Current(c) \in plan.mpost /\ method[c] = "POST"
       IN  reply' = [reply EXCEPT ![c] =
                       [Nothing EXCEPT !.kind = IF refuses THEN "notAllowed" ELSE "ok"]]
    /\ UNCHANGED <<plan, made, method, outcome, deviceVars, clears, gaveUp>>

\* What the call returns and leaves in the action, or in the variable it has queried: the
\* value, after a failure the empty string, and no status.  An answer without a SOAP
\* fault leaves the status code of an earlier call in the action.
Result(c) ==
    LET good == reply[c].kind = "ok"
    IN  CASE Current(c) = "query" ->
                [outcome[c] EXCEPT !.ok = good, !.value = IF good THEN reply[c].value ELSE 0]
          [] Current(c) # "query" /\ good ->
                [outcome[c] EXCEPT !.ok = TRUE, !.status = "ok", !.out = reply[c].out]
          [] Current(c) # "query" /\ reply[c].kind \in {"invalid", "refused"} ->
                [outcome[c] EXCEPT !.ok = FALSE, !.status = reply[c].kind]
          [] OTHER -> [outcome[c] EXCEPT !.ok = FALSE]

Return(c) ==
    /\ Unlock(c) /\ reply[c].kind # "notAllowed"
    /\ outcome' = [outcome EXCEPT ![c] = Result(c)]
    /\ UNCHANGED <<plan, made, method, reply, deviceVars, clears, gaveUp>>

\* 405: the first post returns and the request is posted again.
TryAgain(c) ==
    /\ pc[c] = "unlock" /\ reply[c].kind = "notAllowed" /\ Unlock(c)
    /\ UNCHANGED <<plan, callerVars, deviceVars, clears, gaveUp>>

PostAgain(c) ==
    /\ reply[c].kind = "notAllowed" /\ Post(c, Address(Current(c)))
    /\ method' = [method EXCEPT ![c] = "M-POST"]
    /\ reply' = [reply EXCEPT ![c] = Nothing]
    /\ UNCHANGED <<plan, made, outcome, deviceVars, clears, gaveUp>>

-----------------------------------------------------------------------------
(* The device: the client thread of a request.                             *)

\* A job goes on when the value it has set has been notified.
At(j, s) == step[j] = s /\ j \notin wants /\ svcLock # j
StepTo(j, s) == step' = [step EXCEPT ![j] = s]
Send(j, kind, v, out) ==
    /\ StepTo(j, "sent")
    /\ answer' = [answer EXCEPT ![j] = [kind |-> kind, value |-> v, out |-> out]]

ActionFrame == UNCHANGED <<cvars, plan, callerVars, varVars, notifyVars, clears, gaveUp, refused>>

\* An unknown service, action or variable, or one without a listener.
AnswerInvalid(j) ==
    /\ At(j, "invalid") /\ Send(j, "invalid", 0, None)
    /\ ActionFrame /\ UNCHANGED actionVars

\* Mutant of SetArguments: an argument that has a value keeps it.
SetArgumentsOnce(j) ==
    /\ At(j, "arguments") /\ argIn' = IF argIn = None THEN j ELSE argIn
    /\ StepTo(j, "prepare")
    /\ ActionFrame /\ UNCHANGED <<answer, argOut, status>>

\* cg_upnp_argumentlist_set.
SetArguments(j) ==
    /\ At(j, "arguments") /\ argIn' = j
    /\ StepTo(j, "prepare")
    /\ ActionFrame /\ UNCHANGED <<answer, argOut, status>>

\* cg_upnp_action_performlistner, up to the listener.
Prepare(j) ==
    /\ At(j, "prepare") /\ status' = "invalid" /\ argOut' = None
    /\ StepTo(j, "listen")
    /\ ActionFrame /\ UNCHANGED <<answer, argIn>>

\* The application's listener answers the call, or refuses it with a status code.
Listen(j) ==
    /\ At(j, "listen")
    /\ \/ argOut' = argIn /\ StepTo(j, "response") /\ UNCHANGED status
       \/ status' = "refused" /\ StepTo(j, "fault") /\ UNCHANGED argOut
    /\ ActionFrame /\ UNCHANGED <<answer, argIn>>

Respond(j) ==
    /\ \/ At(j, "response") /\ Send(j, "ok", 0, argOut)
       \/ At(j, "fault") /\ Send(j, status, 0, None)
    /\ ActionFrame /\ UNCHANGED actionVars

QueryFrame == UNCHANGED <<cvars, plan, callerVars, actionVars, svcLock, posting, subscribed,
                          told, clears, gaveUp>>

\* cg_upnp_statevariable_setvalue by thread t: the value, then cg_upnp_service_notify.
SetValue(t, v) == value' = v /\ wants' = wants \cup {t}

\* cg_upnp_statevariable_performlistner, up to the listener.
Blank(j) ==
    /\ At(j, "blank") /\ SetValue(j, 0) /\ varStatus' = "invalid"
    /\ StepTo(j, "sense")
    /\ QueryFrame /\ UNCHANGED <<answer, last, refused>>

\* Mutant of Sense: the listener's value is not notified.
SenseQuietly(j) ==
    /\ At(j, "sense")
    /\ value' = last + 1 /\ last' = last + 1 /\ StepTo(j, "read")
    /\ QueryFrame /\ UNCHANGED <<answer, wants, varStatus, refused>>

\* The application's listener sets the variable, or refuses with a status code.
Sense(j) ==
    /\ At(j, "sense")
    /\ \/ /\ SetValue(j, last + 1) /\ last' = last + 1 /\ StepTo(j, "read")
          /\ UNCHANGED <<varStatus, refused>>
       \/ /\ varStatus' = "refused" /\ refused' = TRUE /\ StepTo(j, "refuse")
          /\ UNCHANGED <<value, wants, last>>
    /\ QueryFrame /\ UNCHANGED answer

RespondQuery(j) ==
    /\ \/ At(j, "read") /\ Send(j, "ok", value, None)
       \/ At(j, "refuse") /\ Send(j, varStatus, 0, None)
    /\ QueryFrame /\ UNCHANGED <<varVars, wants, refused>>

\* The application sets the variable on its own account.
Set ==
    /\ Setter \notin wants /\ svcLock # Setter
    /\ last < 1 + plan.sets
    /\ SetValue(Setter, last + 1) /\ last' = last + 1
    /\ QueryFrame /\ UNCHANGED <<jobVars, varStatus, refused>>

-----------------------------------------------------------------------------
(* cg_upnp_service_notify: one thread at a time, with the service's mutex. *)

NotifyFrame == UNCHANGED <<plan, callerVars, jobVars, actionVars, varVars, clears, gaveUp,
                           refused>>

LockService(t) ==
    /\ t \in wants /\ svcLock = None
    /\ svcLock' = t /\ wants' = wants \ {t}
    /\ posting' = IF subscribed THEN value ELSE None
    /\ NotifyFrame /\ UNCHANGED <<cvars, subscribed, told>>

\* A device in another process posts through another cache.
Alone == ~plan.together /\ UNCHANGED cvars
TellAlone ==
    /\ posting # None /\ Alone
    /\ posting' = None
    /\ \/ told' = posting /\ UNCHANGED subscribed
       \/ subscribed' = FALSE /\ UNCHANGED told
    /\ NotifyFrame /\ UNCHANGED <<wants, svcLock>>

PostNotify ==
    /\ posting # None /\ plan.together /\ Post(Service, EventHost)
    /\ NotifyFrame /\ UNCHANGED notifyVars

\* A subscriber that does not answer OK is removed.
Tell ==
    /\ Exchange(Service) /\ posting # None
    /\ posting' = None
    /\ \/ told' = posting /\ UNCHANGED subscribed
       \/ subscribed' = FALSE /\ UNCHANGED told
    /\ NotifyFrame /\ UNCHANGED <<wants, svcLock>>

UnlockService ==
    /\ svcLock # None /\ posting = None /\ pc[Service] = "idle"
    /\ svcLock' = None
    /\ NotifyFrame /\ UNCHANGED <<cvars, wants, posting, subscribed, told>>

-----------------------------------------------------------------------------
\* Handles are interchangeable: a new one is the first that is free.
FirstFree(u) == Open(u) /\ conn'[u] = CHOOSE k \in Conns : k \notin handles

ControlFrame == UNCHANGED <<plan, callerVars, deviceVars, gaveUp>>

CacheStep(u) ==
    /\ \/ LockTest(u) \/ Acquire(u) \/ Unguarded(u) \/ Expire(u) \/ Take(u)
       \/ FirstFree(u) \/ Put(u)
       \/ plan.scarce /\ Forgotten = {} /\ PutFails(u)   \* scarce: once at most
       \/ u = Service /\ Unlock(u)
    /\ ControlFrame /\ UNCHANGED clears

\* Without a handle nothing is posted.
NoHandle(u) ==
    /\ OpenFails(u)
    /\ IF u = Service
       THEN posting' = None /\ subscribed' = FALSE
       ELSE UNCHANGED <<posting, subscribed>>
    /\ NotifyFrame /\ UNCHANGED <<wants, svcLock, told>>

DeleteControlPoint ==
    /\ clears < plan.clears /\ clears' = clears + 1
    /\ ClearStart /\ ControlFrame

AppStep == (InitMutex \/ AppSteps) /\ ControlFrame /\ UNCHANGED clears

TimePasses == now < plan.time /\ Tick /\ ControlFrame /\ UNCHANGED clears

CallerStep(c) ==
    \/ Call(c) \/ PostAgain(c) \/ Return(c) \/ TryAgain(c)
    \/ Request(c) \/ Answered(c) \/ GiveUp(c) \/ AnsweredElsewhere(c)

JobStep(j) ==
    \/ AnswerInvalid(j) \/ SetArguments(j) \/ Prepare(j) \/ Listen(j) \/ Respond(j)
    \/ Blank(j) \/ Sense(j) \/ RespondQuery(j)

ServiceStep == TellAlone \/ PostNotify \/ Tell \/ UnlockService

Next ==
    /\ ~fault
    /\ \/ \E c \in Callers : CallerStep(c)
       \/ \E u \in Users : CacheStep(u) \/ NoHandle(u)
       \/ \E j \in Jobs : JobStep(j)
       \/ \E t \in Notifiers : LockService(t)
       \/ Set \/ ServiceStep
       \/ DeleteControlPoint \/ AppStep \/ TimePasses

Spec == Init /\ [][Next]_vars

\* Posting threads run, a mutex that is free again and again is got, an exchange ends
\* (with an answer or by curl's time limit).  Nobody has to begin a call, and no job of
\* the device has to go on.
FairSpec ==
    /\ Spec
    /\ \A u \in Users : SF_vars(~fault /\ (CacheStep(u) \/ NoHandle(u)))
    /\ \A c \in Callers :
          WF_vars(~fault /\ (\/ Return(c) \/ TryAgain(c) \/ PostAgain(c)
                            \/ Answered(c) \/ AnsweredElsewhere(c) \/ GiveUp(c)))
    /\ SF_vars(~fault /\ LockService(Setter))
    /\ WF_vars(~fault /\ ServiceStep)
    /\ WF_vars(~fault /\ AppSteps /\ ControlFrame /\ UNCHANGED clears)

-----------------------------------------------------------------------------
(* Properties.                                                             *)

Replies == [kind : {"none", "ok", "invalid", "refused", "notAllowed"},
            value : Nat, out : Jobs \cup {None}]

TypeOK ==
    /\ CacheTypeOK
    /\ plan \in Scenarios /\ made \in [Callers -> 0 .. MaxCalls]
    /\ method \in [Callers -> {"POST", "M-POST"}]
    /\ reply \in [Callers -> Replies] /\ answer \in [Jobs -> Replies]
    /\ outcome \in [Callers -> [ok : BOOLEAN, status : {"ok", "invalid", "refused"},
                                value : Nat, out : Jobs \cup {None}]]
    /\ step \in [Jobs -> {"none", "arguments", "prepare", "listen", "response", "fault",
                          "blank", "sense", "read", "refuse", "invalid", "sent"}]
    /\ argIn \in Jobs \cup {None} /\ argOut \in Jobs \cup {None}
    /\ status \in {"ok", "invalid", "refused"} /\ varStatus \in {"ok", "invalid", "refused"}
    /\ value \in 0 .. last /\ last \in Nat
    /\ wants \subseteq Notifiers /\ svcLock \in Notifiers \cup {None}
    /\ posting \in Nat \cup {None} /\ subscribed \in BOOLEAN /\ told \in 0 .. last
    /\ clears \in 0 .. plan.clears /\ gaveUp \in BOOLEAN /\ refused \in BOOLEAN

\* A call that has returned has the result of its own job: the action's is computed from
\* its own argument, a queried variable is not the empty string that stands in it for a
\* moment, a fault has the code of the listener that refused.  The jobs share argument
\* list and variable without a lock: the calls of one process are kept apart by the
\* mutex of the cache, held from the first to the last byte, until a request is given up
\* or the cache is cleared.
OwnResult ==
    \A c \in Callers :
       (made[c] > 0 /\ pc[c] = "idle" /\ ~gaveUp /\ clears = 0) =>
          CASE Current(c) = "action" ->
                  \/ outcome[c].ok /\ outcome[c].out = Job(c)
                  \/ ~outcome[c].ok /\ reply[c].kind \in {"none", "refused"}
            [] Current(c) = "query" ->
                  \/ outcome[c].ok /\ outcome[c].value # 0
                  \/ ~outcome[c].ok /\ reply[c].kind \in {"none", "refused"}
            [] Current(c) = "unknown" -> ~outcome[c].ok
            [] OTHER -> TRUE

\* When nobody is about to notify or notifying, the subscriber has been told the value
\* the variable has; it is told the empty string for good only if a listener refused.
ToldCurrent ==
    (wants = {} /\ svcLock = None) =>
       /\ subscribed => told = value
       /\ (value = 0 /\ ~refused) => \E j \in Jobs : step[j] = "sense"

\* A call returns, and so does a set, although jobs post events through the cache whose
\* mutex their caller holds until it gives up.
CallsReturn ==
    /\ \A c \in Callers : pc[c] # "idle" ~> (pc[c] = "idle" \/ fault)
    /\ (Setter \in wants \cup {svcLock}) ~> (Setter \notin wants \cup {svcLock} \/ fault)
=============================================================================
