-------------------------- MODULE Eventing_proofs --------------------------
(***************************************************************************)
(* Proofs about Eventing for any control points, threads and builds and    *)
(* any bounds: its types and locks, the agreement of the publisher's       *)
(* counter with the event key and where it ends, what an acknowledged      *)
(* UNSUBSCRIBE means, and the order in which listeners hear the values.    *)
(***************************************************************************)
EXTENDS Eventing, TLAPS

-----------------------------------------------------------------------------
(* The invariants.                                                         *)

Busy == {"subscribe", "renew", "unsubscribe"}

\* Where the threads of each kind may be, and what they have with them there.
Kinds ==
    /\ \A t \in Notifiers : pc[t] \in {"idle", "notify", "loop", "posted"}
    /\ \A w \in Workers : /\ pc[w] \in {"idle", "serve", "renewing", "respond"}
                          /\ pc[w] # "idle" => call[w] \in Calls
                          /\ pc[w] = "serve" => ~call[w].ok
                          /\ pc[w] = "renewing" => call[w].op = "renew"
    /\ \A c \in Cps : pc[c] \in {"idle"} \cup Busy
    /\ \A h \in Handlers :
          /\ pc[h] \in {"idle", "received", "tell", "reply", "subscribe", "unsubscribe"}
          /\ IF pc[h] = "idle" THEN msg[h] = NoMsg ELSE msg[h] \in Messages

\* A subscriber belongs to one control point, wherever its SID has got to.
Known ==
    /\ \A s \in subs : sub[s].cp \in Cps
    /\ \A c \in Cps : sid[c] # None => sub[sid[c]].cp = c
    /\ \A r \in Callers : pc[r] \in Busy /\ got[r] # None => sub[got[r]].cp = CpOf(r)
    /\ \A w \in Workers : pc[w] # "idle" /\ call[w].sid # None =>
          sub[call[w].sid].cp = call[w].cp
    /\ \A h \in Handlers : pc[h] # "idle" => sub[msg[h].sid].cp = msg[h].cp

\* A caller holds the lock of its control point and its request is served by one worker.
Calling ==
    /\ \A r \in Callers :
          IF pc[r] \in Busy THEN cpLock[CpOf(r)] = r ELSE conn[r] = None /\ got[r] = None
    /\ \A r \in Callers : pc[r] = "subscribe" => sid[CpOf(r)] = None
    /\ \A r \in Callers, w \in Workers : conn[r] = w =>
          /\ pc[w] # "idle" /\ call[w].from = r /\ call[w].op = pc[r]
          /\ call[w].cp = CpOf(r)
          /\ pc[r] # "subscribe" => call[w].sid = sid[CpOf(r)]
    /\ \A r \in Callers : conn[r] = "ok" =>
          got[r] # None /\ (pc[r] # "subscribe" => got[r] = sid[CpOf(r)])

\* Each subscriber has one initial event, sent by a thread that is not there before.
Starting ==
    /\ \A s \in Sids : sub[s].cp = None => pc[s] = "idle"
    /\ \A w \in Workers : pc[w] = "respond" =>
          /\ call[w].op = "subscribe" => call[w].sid # None /\ pc[call[w].sid] = "idle"
          /\ call[w].ok => call[w].sid # None
    /\ \A w, x \in Workers :
          /\ pc[w] = "respond" /\ call[w].op = "subscribe"
          /\ pc[x] = "respond" /\ call[x].op = "subscribe"
          /\ call[w].sid = call[x].sid
          => w = x

\* The service's lock, and what the notifying thread has under way.
Notifying ==
    /\ \A t \in Notifiers : pc[t] \in {"loop", "posted"} => svcLock = t
    /\ svcLock # None => svcLock \in Notifiers /\ pc[svcLock] \in {"loop", "posted"}
    /\ queue \subseteq subs /\ (svcLock = None => queue = {})
    /\ IF svcLock # None /\ pc[svcLock] = "posted"
       THEN target \in subs \ queue /\ answer # None
       ELSE target = None /\ answer = None
    /\ answer \in Handlers =>
          pc[answer] # "idle" /\ msg[answer].sid = target /\ msg[answer].seq = sub[target].count

\* A handler whose event is not waited for any more has one of a subscriber that is gone.
Stale == \A h \in Handlers : pc[h] # "idle" /\ h # answer => msg[h].sid \notin subs

\* Once the UNSUBSCRIBE of r has found its subscriber, nothing more is heard of that.
Cancelled(r) ==
    /\ pc[r] = "unsubscribe"
    /\ \/ conn[r] = "ok"
       \/ conn[r] \in Workers /\ pc[conn[r]] = "respond" /\ call[conn[r]].ok
Finished ==
    \A r \in Callers : Cancelled(r) =>
        /\ sid[CpOf(r)] # None /\ sid[CpOf(r)] \notin subs
        /\ \A h \in Handlers : pc[h] # "idle" => msg[h].sid # sid[CpOf(r)]

\* The subscription that r has asked for and is being told of.
Granted(r, s) ==
    /\ pc[r] = "subscribe"
    /\ \/ conn[r] = "ok" /\ got[r] = s
       \/ conn[r] \in Workers /\ pc[conn[r]] = "respond" /\ call[conn[r]].sid = s

\* The publisher's next SEQ is the one that the control point waits for, or the first of
\* all, or the control point has wrapped its key and the publisher counts on.
InStep(n, k) == n = k + 1 \/ (k = 0 /\ (n = 0 \/ n > build.maxSeq))

\* The event of s has passed the check of SEQ, or has been dropped before it.
Passed(s) == target = s /\ (answer \in Handlers => pc[answer] \in {"tell", "reply"})

Counting ==
    /\ \A s \in Sids : sub[s].count <= build.maxCount
    /\ \A r \in Callers : pc[r] = "subscribe" => key[CpOf(r)] = 0
    /\ \A r \in Callers, s \in Sids : Granted(r, s) => sub[s].count = 0 /\ ~Passed(s)
    /\ \A c \in Cps : sid[c] \in subs =>
          IF Passed(sid[c]) THEN key[c] = Wrapped(sub[sid[c]].count)
                            ELSE InStep(sub[sid[c]].count, key[c])

\* The events under way, waited for or not: there is one of a subscription, it is the first
\* while the subscription is being granted, and it is in step until it has been checked.
Arriving ==
    /\ \A c \in Cps : key[c] < build.maxSeq
    /\ \A g, h \in Handlers :
          pc[g] # "idle" /\ pc[h] # "idle" /\ msg[g].sid = msg[h].sid => g = h
    /\ \A r \in Callers, s \in Sids, h \in Handlers :
          Granted(r, s) /\ pc[h] # "idle" /\ msg[h].sid = s =>
             pc[h] = "received" /\ msg[h].seq = 0
    /\ \A h \in Handlers : pc[h] = "received" /\ sid[msg[h].cp] = msg[h].sid =>
          InStep(msg[h].seq, key[msg[h].cp])

\* What a listener has heard and what is on its way to it, which in the socket build is one
\* event at a time.
Hearing ==
    /\ \A c \in Cps : heard[c] <= Sent(value)
    /\ \A h \in Handlers : pc[h] # "idle" => msg[h].val <= Sent(value)
    /\ ~build.curl => \A h \in Handlers : pc[h] # "idle" =>
          answer = h /\ heard[msg[h].cp] <= msg[h].val

EInv == TypeOK /\ Kinds /\ Known /\ Calling /\ Starting /\ Notifying /\ Stale /\ Finished
SInv == Counting /\ Arriving

-----------------------------------------------------------------------------
(* What is left alone stays as it is.                                      *)

\* The kinds of threads, one by one.
LEMMA Apart ==
    /\ \A c \in Cps : c \notin Handlers /\ c \notin Notifiers /\ c \notin Workers
    /\ \A h \in Handlers : h \notin Cps /\ h \notin Notifiers /\ h \notin Workers
    /\ \A t \in Notifiers : t \notin Callers /\ t \notin Workers
    /\ \A w \in Workers : w \notin Callers /\ w \notin Notifiers
    /\ \A t \in Setters : t \notin Sids
    /\ None \notin Threads /\ None \notin {"queued", "ok", "failed"}
    /\ \A w \in Workers \cup Handlers : w \notin {"queued", "ok", "failed"}
BY ThreadAssumption DEF Callers, Threads

\* The builds.
LEMMA BuildFact ==
    ASSUME build \in Builds
    PROVE  /\ build.maxSeq \in Nat /\ build.maxCount \in Nat
           /\ 1 <= build.maxSeq /\ build.maxSeq <= build.maxCount /\ build.maxCount <= MaxCounter
           /\ build.tracked \in BOOLEAN
BY BuildAssumption, BoundsAssumption DEF Build

\* Types, of what a step changes and of what it leaves.
LEMMA TypeFrame ==
    ASSUME TypeOK,
           pc' = pc \/ pc' \in [Threads -> Labels],
           value' = value \/ value' \in Values,
           subs' = subs \/ subs' \subseteq Sids,
           \/ sub' = sub
           \/ sub' \in [Sids -> [cp : Cps \cup {None}, count : Seqs, lapsed : BOOLEAN]],
           svcLock' = svcLock \/ svcLock' \in Notifiers \cup {None},
           queue' = queue \/ queue' \subseteq Sids,
           target' = target \/ target' \in Sids \cup {None},
           answer' = answer \/ answer' \in Handlers \cup {"ok", None},
           posted' = posted \/ posted' \in 0 .. MaxSid,
           \/ conn' = conn
           \/ conn' \in [Callers -> Workers \cup {"queued", "ok", "failed", None}],
           got' = got \/ got' \in [Callers -> Sids \cup {None}],
           call' = call \/ call' \in [Workers -> Calls \cup {NoCall}],
           cpLock' = cpLock \/ cpLock' \in [Cps -> Callers \cup {None}],
           sid' = sid \/ sid' \in [Cps -> Sids \cup {None}],
           key' = key \/ key' \in [Cps -> Seqs],
           table' = table \/ table' \in [Cps -> Values],
           heard' = heard \/ heard' \in [Cps -> Values],
           msg' = msg \/ msg' \in [Handlers -> Messages \cup {NoMsg}],
           build' = build,
           fault' = fault \/ fault' \in BOOLEAN
    PROVE  TypeOK'
<1>1. (pc \in [Threads -> Labels] /\ value \in Values /\ subs \subseteq Sids)'
  BY DEF TypeOK
<1>2. (sub \in [Sids -> [cp : Cps \cup {None}, count : Seqs, lapsed : BOOLEAN]])'
  BY DEF TypeOK
<1>3. (/\ svcLock \in Notifiers \cup {None} /\ queue \subseteq Sids
       /\ target \in Sids \cup {None} /\ answer \in Handlers \cup {"ok", None})'
  BY DEF TypeOK
<1>4. (/\ posted \in 0 .. MaxSid
       /\ conn \in [Callers -> Workers \cup {"queued", "ok", "failed", None}]
       /\ got \in [Callers -> Sids \cup {None}])'
  BY DEF TypeOK
<1>5. (call \in [Workers -> Calls \cup {NoCall}])'
  BY DEF TypeOK
<1>6. (cpLock \in [Cps -> Callers \cup {None}] /\ sid \in [Cps -> Sids \cup {None}])'
  BY DEF TypeOK
<1>7. (key \in [Cps -> Seqs] /\ table \in [Cps -> Values] /\ heard \in [Cps -> Values])'
  BY DEF TypeOK
<1>8. (msg \in [Handlers -> Messages \cup {NoMsg}])'
  BY DEF TypeOK
<1>9. (build \in Builds)' /\ (fault \in BOOLEAN)'
  BY DEF TypeOK
<1> QED BY <1>1, <1>2, <1>3, <1>4, <1>5, <1>6, <1>7, <1>8, <1>9 DEF TypeOK

\* A thread goes somewhere.
LEMMA GotoFact ==
    ASSUME TypeOK, NEW t \in Threads, NEW l \in Labels, pc' = [pc EXCEPT ![t] = l]
    PROVE  pc' \in [Threads -> Labels] /\ pc'[t] = l /\ \A u \in Threads \ {t} : pc'[u] = pc[u]
BY DEF TypeOK

\* Steps of the notifying threads: what the others have stays.
LEMMA PublisherFrame ==
    ASSUME EInv, UNCHANGED <<reqVars, cpVars>>,
           \A u \in Threads \ Notifiers : pc'[u] = pc[u],
           \A t \in Notifiers : pc'[t] \in {"idle", "notify", "loop", "posted"},
           \A s \in Sids : pc[s] = "idle" => pc'[s] = "idle",
           subs' \subseteq subs,
           \A s \in Sids : sub'[s].cp = sub[s].cp
    PROVE  Kinds' /\ Known' /\ Calling' /\ Starting' /\ Finished'
<1>1. /\ \A u \in Callers : pc'[u] = pc[u]
      /\ \A u \in Workers : pc'[u] = pc[u]
      /\ \A u \in Cps : pc'[u] = pc[u]
      /\ \A u \in Handlers : pc'[u] = pc[u]
  BY Apart DEF Threads, Callers
<1>2. UNCHANGED <<posted, conn, got, call, cpLock, sid, key, table, heard, msg>>
  BY DEF reqVars, cpVars
<1>3. \A r \in Callers : CpOf(r)' = CpOf(r)
  BY <1>2 DEF CpOf
<1>4. /\ subs \subseteq Sids /\ \A c \in Cps : sid[c] \in Sids \cup {None}
      /\ \A r \in Callers : got[r] \in Sids \cup {None}
  BY DEF EInv, TypeOK
<1>5. /\ \A w \in Workers : pc[w] # "idle" => call[w].sid \in Sids \cup {None}
      /\ \A h \in Handlers : pc[h] # "idle" => msg[h].sid \in Sids
  BY DEF EInv, Kinds, Calls, Messages
<1>6. Kinds'
  BY <1>1, <1>2 DEF EInv, Kinds
<1>7. Known'
  BY <1>1, <1>2, <1>3, <1>4, <1>5 DEF EInv, Known
<1>8. Calling'
  BY <1>1, <1>2, <1>3 DEF EInv, Calling
<1>9. Starting'
  BY <1>1, <1>2, <1>5 DEF EInv, Starting
<1>10. Finished'
  BY <1>1, <1>2, <1>3 DEF EInv, Finished, Cancelled
<1> QED BY <1>6, <1>7, <1>8, <1>9, <1>10

\* Other steps: what the notifying thread has under way stays.
LEMMA NotifyingFrame ==
    ASSUME EInv, UNCHANGED <<svcLock, queue, target, answer>>,
           \/ subs \subseteq subs' \/ svcLock = None,
           \A t \in Notifiers :
              pc'[t] = pc[t] \/ {pc[t], pc'[t]} \cap {"loop", "posted"} = {},
           answer \in Handlers => pc'[answer] # "idle" /\ msg'[answer] = msg[answer],
           \A s \in subs : sub'[s].count = sub[s].count
    PROVE  Notifying'
<1>1. \A t \in Notifiers : \A l \in {"loop", "posted"} : pc'[t] = l <=> pc[t] = l
  OBVIOUS
<1>2. svcLock # None => svcLock \in Notifiers
  BY DEF EInv, Notifying
<1>3. answer \in Handlers => target \in subs
  BY Apart DEF EInv, Notifying, Threads, Callers
<1> QED BY <1>1, <1>2, <1>3 DEF EInv, Notifying

\* Handlers begin nothing, and no subscriber comes.
LEMMA StaleFrame ==
    ASSUME EInv, UNCHANGED <<answer, msg>>, subs' \subseteq subs,
           \A h \in Handlers : pc[h] = "idle" => pc'[h] = "idle"
    PROVE  Stale'
BY DEF EInv, Stale

-----------------------------------------------------------------------------
(* The notifying threads keep the invariant.                               *)

\* The first state.
LEMMA InitEInv ==
    ASSUME Init
    PROVE  EInv
<1>a. /\ MaxSid \in Nat /\ MaxValue \in Nat /\ MaxCounter \in Nat
  BY BoundsAssumption
<1>b. /\ \A t \in Threads : pc[t] = "idle"
      /\ \A r \in Callers : conn[r] = None /\ got[r] = None
      /\ \A h \in Handlers : msg[h] = NoMsg
      /\ \A c \in Cps : sid[c] = None /\ cpLock[c] = None
  BY DEF Init, Threads, Callers
<1>1. TypeOK
  <2>1. pc \in [Threads -> Labels]
    BY DEF Init, Labels
  <2>2. value \in Values /\ \A n \in {0} : n \in Seqs /\ n \in Values /\ n \in 0 .. MaxSid
    BY <1>a DEF Init, Values, Seqs
  <2>3. sub \in [Sids -> [cp : Cps \cup {None}, count : Seqs, lapsed : BOOLEAN]]
    BY <2>2 DEF Init
  <2>4. call \in [Workers -> Calls \cup {NoCall}] /\ msg \in [Handlers -> Messages \cup {NoMsg}]
    BY DEF Init
  <2>5. key \in [Cps -> Seqs] /\ table \in [Cps -> Values] /\ heard \in [Cps -> Values]
    BY <2>2 DEF Init
  <2> QED BY <2>1, <2>2, <2>3, <2>4, <2>5 DEF Init, TypeOK
<1>2. Kinds
  BY <1>b DEF Kinds, Threads, Callers
<1>3. Known
  BY <1>b DEF Init, Known, Busy, Threads, Callers
<1>4. Calling
  <2>1. \A r \in Callers : pc[r] = "idle"
    BY <1>b DEF Threads
  <2>2. \A r \in Callers, w \in Workers : conn[r] # w
    BY <1>b, Apart DEF Threads
  <2>3. \A r \in Callers : conn[r] # "ok"
    BY <1>b, Apart
  <2> QED BY <1>b, <2>1, <2>2, <2>3 DEF Calling, Busy
<1>5. Starting
  BY <1>b DEF Starting, Threads, Notifiers
<1>6. Notifying
  BY <1>b, Apart DEF Init, Notifying, Threads, Callers
<1>7. Stale
  BY <1>b DEF Stale, Threads, Callers
<1>8. Finished
  BY <1>b DEF Finished, Cancelled, Threads
<1> QED BY <1>1, <1>2, <1>3, <1>4, <1>5, <1>6, <1>7, <1>8 DEF EInv

\* A new value is set.
LEMMA SetValueStep ==
    ASSUME EInv, build' = build, NEW t \in Setters, SetValue(t)
    PROVE  EInv'
<1>a. TypeOK /\ MaxValue \in Nat
  BY BoundsAssumption DEF EInv
<1>b. t \in Notifiers /\ t \in Threads /\ t \notin Sids /\ "notify" \in Labels
  BY Apart DEF Notifiers, Threads, Labels
<1>c. pc' = [pc EXCEPT ![t] = "notify"] /\ pc[t] = "idle"
  BY DEF SetValue, Goto
<1>d. pc' \in [Threads -> Labels] /\ pc'[t] = "notify" /\ \A u \in Threads \ {t} : pc'[u] = pc[u]
  BY <1>a, <1>b, <1>c, GotoFact
<1>e. \A u \in Notifiers : u \in Threads
  BY DEF Threads
<1>f. \A u \in Threads \ Notifiers : pc'[u] = pc[u]
  BY <1>b, <1>d
<1>g. \A u \in Notifiers : pc[u] \in {"idle", "notify", "loop", "posted"}
  BY DEF EInv, Kinds
<1>h. \A s \in Sids : pc[s] = "idle" => pc'[s] = "idle"
  BY <1>b, <1>d, <1>e DEF Notifiers
<1>1. TypeOK'
  <2>1. value' \in Values
    BY <1>a DEF SetValue, TypeOK, Values
  <2> QED BY <1>a, <1>d, <2>1, TypeFrame DEF SetValue, reqVars, cpVars
<1>2. Kinds' /\ Known' /\ Calling' /\ Starting' /\ Finished'
  BY <1>b, <1>d, <1>e, <1>f, <1>g, <1>h, PublisherFrame DEF SetValue
<1>i. \A h \in Handlers : pc'[h] = pc[h]
  BY <1>f, Apart DEF Threads, Callers
<1>3. Notifying'
  <2>1. answer \in Handlers => pc'[answer] # "idle" /\ msg'[answer] = msg[answer]
    BY <1>i DEF SetValue, cpVars, EInv, Notifying
  <2> QED BY <1>c, <1>d, <1>e, <2>1, NotifyingFrame DEF SetValue
<1>4. Stale'
  BY <1>i, StaleFrame DEF SetValue, cpVars
<1> QED BY <1>1, <1>2, <1>3, <1>4 DEF EInv

\* What the steps of a notifying thread have in common.
LEMMA NotifierFact ==
    ASSUME EInv, NEW t \in Notifiers, NEW l \in {"idle", "loop", "posted"},
           pc[t] # "idle", pc' = [pc EXCEPT ![t] = l]
    PROVE  /\ pc' \in [Threads -> Labels] /\ pc'[t] = l
           /\ \A u \in Threads \ {t} : pc'[u] = pc[u]
           /\ \A u \in Threads \ Notifiers : pc'[u] = pc[u]
           /\ \A u \in Notifiers : pc'[u] \in {"idle", "notify", "loop", "posted"}
           /\ \A s \in Sids : pc[s] = "idle" => pc'[s] = "idle"
           /\ \A h \in Handlers : pc'[h] = pc[h]
<1>1. t \in Threads /\ l \in Labels /\ TypeOK
  BY DEF Threads, Labels, EInv
<1>2. pc' \in [Threads -> Labels] /\ pc'[t] = l /\ \A u \in Threads \ {t} : pc'[u] = pc[u]
  BY <1>1, GotoFact
<1>3. \A u \in Notifiers : pc[u] \in {"idle", "notify", "loop", "posted"}
  BY DEF EInv, Kinds
<1>4. \A u \in Notifiers : u \in Threads
  BY DEF Threads
<1>5. \A u \in Notifiers : pc'[u] \in {"idle", "notify", "loop", "posted"}
  BY <1>2, <1>3, <1>4
<1>6. \A s \in Sids : pc[s] = "idle" => pc'[s] = "idle"
  BY <1>2, <1>4 DEF Notifiers
<1>7. \A h \in Handlers : pc'[h] = pc[h]
  BY <1>2, Apart DEF Threads, Callers
<1> QED BY <1>2, <1>5, <1>6, <1>7

\* The service is locked, and the expired subscribers are dropped.
LEMMA NotifyLockStep ==
    ASSUME EInv, build' = build, NEW t \in Notifiers, NotifyLock(t)
    PROVE  EInv'
<1>a. pc[t] = "notify" /\ pc' = [pc EXCEPT ![t] = "loop"] /\ svcLock = None
  BY DEF NotifyLock, Goto
<1>b. /\ pc' \in [Threads -> Labels] /\ pc'[t] = "loop"
      /\ \A u \in Threads \ {t} : pc'[u] = pc[u]
      /\ \A u \in Threads \ Notifiers : pc'[u] = pc[u]
      /\ \A u \in Notifiers : pc'[u] \in {"idle", "notify", "loop", "posted"}
      /\ \A s \in Sids : pc[s] = "idle" => pc'[s] = "idle"
      /\ \A h \in Handlers : pc'[h] = pc[h]
  BY <1>a, NotifierFact
<1>c. TypeOK /\ Notifying /\ Stale
  BY DEF EInv
<1>d. subs' \subseteq subs /\ queue' = subs' /\ svcLock' = t
  BY DEF NotifyLock
<1>1. TypeOK'
  <2>1. subs' \subseteq Sids /\ queue' \subseteq Sids /\ svcLock' \in Notifiers \cup {None}
    BY <1>c, <1>d DEF TypeOK
  <2> QED BY <1>b, <1>c, <2>1, TypeFrame DEF NotifyLock, reqVars, cpVars
<1>2. Kinds' /\ Known' /\ Calling' /\ Starting' /\ Finished'
  BY <1>b, <1>d, PublisherFrame DEF NotifyLock
<1>3. Notifying'
  <2>1. \A u \in Notifiers : u \in Threads /\ u # None
    BY Apart DEF Threads
  <2>2. \A u \in Notifiers : pc[u] \notin {"loop", "posted"}
    BY <1>a, <1>c, <2>1 DEF Notifying
  <2>3. \A u \in Notifiers : pc'[u] \in {"loop", "posted"} => u = t
    BY <1>b, <2>1, <2>2
  <2>4. target = None /\ answer = None /\ None \notin Handlers
    BY <1>a, <1>c, Apart DEF Notifying, Threads, Callers
  <2>5. target' = None /\ answer' = None
    BY <2>4 DEF NotifyLock
  <2> QED BY <1>b, <1>d, <2>1, <2>3, <2>4, <2>5 DEF Notifying
<1>4. Stale'
  BY <1>b, <1>d, StaleFrame DEF NotifyLock, cpVars
<1> QED BY <1>1, <1>2, <1>3, <1>4 DEF EInv

\* An event is posted: a handler of its control point begins to work on it.
LEMMA NotifyPostStep ==
    ASSUME EInv, build' = build, NEW t \in Notifiers, NotifyPost(t)
    PROVE  EInv'
<1>1. PICK s \in queue, h \in Handlers :
         /\ pc[h] = "idle"
         /\ msg' = [msg EXCEPT ![h] = [cp |-> sub[s].cp, sid |-> s,
                                       seq |-> sub[s].count, val |-> Sent(value)]]
         /\ pc' = [pc EXCEPT ![t] = "posted", ![h] = "received"]
         /\ queue' = queue \ {s} /\ target' = s /\ answer' = h
  BY DEF NotifyPost
<1>a. /\ TypeOK /\ Kinds /\ Known /\ Calling /\ Starting /\ Notifying /\ Stale /\ Finished
      /\ pc[t] = "loop"
  BY DEF EInv, NotifyPost
<1>b. UNCHANGED <<value, subs, sub, svcLock, posted, conn, got, call, cpLock, sid, key,
                  table, heard, fault, build>>
  BY DEF NotifyPost, reqVars
<1>c. /\ \A u \in Notifiers : u \in Threads /\ u \notin Handlers /\ u # None
      /\ \A u \in Callers : u \in Threads /\ u # t
      /\ \A u \in Workers : u \in Threads /\ u # t /\ u # h
      /\ \A u \in Handlers : u \in Callers /\ u # None /\ u # "ok"
      /\ \A u \in Cps : u \in Callers /\ u # h
  BY Apart DEF Threads, Callers
<1>d. \A u \in Threads :
         pc'[u] = IF u = h THEN "received" ELSE IF u = t THEN "posted" ELSE pc[u]
  BY <1>1, <1>a, <1>c DEF TypeOK
<1>e. /\ \A u \in Notifiers : pc'[u] = IF u = t THEN "posted" ELSE pc[u]
      /\ \A u \in Workers : pc'[u] = pc[u]
      /\ \A u \in Cps : pc'[u] = pc[u]
      /\ \A u \in Handlers : pc'[u] = IF u = h THEN "received" ELSE pc[u]
      /\ \A u \in Callers : pc'[u] = IF u = h THEN "received" ELSE pc[u]
  BY <1>c, <1>d
<1>f. /\ s \in subs /\ s \in Sids /\ sub[s].cp \in Cps /\ sub[s].count \in Seqs
      /\ Sent(value) \in Values /\ value \in Values
  <2>1. s \in subs /\ s \in Sids /\ sub[s].cp \in Cps /\ sub[s].count \in Seqs /\ value \in Values
    BY <1>1, <1>a DEF Notifying, TypeOK, Known
  <2>2. 0 \in Values
    BY BoundsAssumption DEF Values
  <2> QED BY <2>1, <2>2 DEF Sent
<1>g. /\ \A u \in Handlers : u # h => msg'[u] = msg[u]
      /\ msg'[h].cp = sub[s].cp /\ msg'[h].sid = s /\ msg'[h].seq = sub[s].count
      /\ msg'[h] \in Messages /\ msg' \in [Handlers -> Messages \cup {NoMsg}]
  <2>1. [cp |-> sub[s].cp, sid |-> s, seq |-> sub[s].count, val |-> Sent(value)] \in Messages
    BY <1>f DEF Messages
  <2> QED BY <1>1, <1>a, <2>1 DEF TypeOK
<1>h. \A r \in Callers : r # h => CpOf(r)' = CpOf(r)
  BY <1>g DEF CpOf, Callers
<1>i. conn[h] = None /\ got[h] = None
  BY <1>1, <1>a, <1>c DEF Calling, Busy
<1>2. TypeOK'
  <2>1. pc' \in [Threads -> Labels]
    BY <1>1, <1>a DEF TypeOK, Labels
  <2>2. /\ queue' \subseteq Sids /\ target' \in Sids \cup {None}
        /\ answer' \in Handlers \cup {"ok", None}
    BY <1>1, <1>a, <1>f DEF TypeOK
  <2> QED BY <1>a, <1>b, <1>g, <2>1, <2>2, TypeFrame
<1>3. Kinds'
  BY <1>a, <1>b, <1>c, <1>e, <1>g DEF Kinds
<1>4. Known'
  <2>1. \A r \in Callers : (pc[r] \in Busy /\ got[r] # None => sub[got[r]].cp = CpOf(r))'
    BY <1>a, <1>b, <1>e, <1>h DEF Known, Busy
  <2>2. \A x \in Handlers : (pc[x] # "idle" => sub[msg[x].sid].cp = msg[x].cp)'
    BY <1>a, <1>b, <1>e, <1>g DEF Known
  <2> QED BY <1>a, <1>b, <1>e, <2>1, <2>2 DEF Known
<1>5. Calling'
  <2>1. \A r \in Callers :
           (IF pc[r] \in Busy THEN cpLock[CpOf(r)] = r ELSE conn[r] = None /\ got[r] = None)'
    BY <1>a, <1>b, <1>e, <1>h, <1>i DEF Calling, Busy
  <2>2. \A r \in Callers : (pc[r] = "subscribe" => sid[CpOf(r)] = None)'
    BY <1>a, <1>b, <1>e, <1>h DEF Calling
  <2>3. \A r \in Callers, w \in Workers : conn'[r] = w => r # h
    BY <1>b, <1>i, <1>c, Apart DEF Threads
  <2>4. \A r \in Callers : conn'[r] = "ok" => r # h
    BY <1>b, <1>i, Apart
  <2>5. \A r \in Callers, w \in Workers : (conn[r] = w =>
          /\ pc[w] # "idle" /\ call[w].from = r /\ call[w].op = pc[r]
          /\ call[w].cp = CpOf(r)
          /\ pc[r] # "subscribe" => call[w].sid = sid[CpOf(r)])'
    BY <1>a, <1>b, <1>e, <1>h, <2>3 DEF Calling
  <2>6. \A r \in Callers : (conn[r] = "ok" =>
          got[r] # None /\ (pc[r] # "subscribe" => got[r] = sid[CpOf(r)]))'
    BY <1>a, <1>b, <1>e, <1>h, <2>4 DEF Calling
  <2> QED BY <2>1, <2>2, <2>5, <2>6 DEF Calling
<1>6. Starting'
  <2>1. \A x \in Sids : x \in Notifiers
    BY DEF Notifiers
  <2>2. \A x \in Sids : pc[x] = "idle" <=> pc'[x] = "idle"
    BY <1>a, <1>e, <2>1
  <2>3. \A w \in Workers : pc[w] # "idle" => call[w].sid \in Sids \cup {None}
    BY <1>a DEF Kinds, Calls
  <2> QED BY <1>a, <1>b, <1>e, <2>2, <2>3 DEF Starting
<1>7. Notifying'
  <2>1. svcLock = t /\ pc'[t] = "posted" /\ t # None
    BY <1>a, <1>c, <1>e DEF Notifying
  <2>2. \A u \in Notifiers : pc'[u] \in {"loop", "posted"} => u = t
    BY <1>a, <1>e, <2>1 DEF Notifying
  <2>3. answer' = h /\ target' = s /\ s \in subs /\ queue' = queue \ {s}
    BY <1>1, <1>f
  <2>4. pc'[h] = "received"
    BY <1>e
  <2> QED BY <1>a, <1>b, <1>c, <1>g, <2>1, <2>2, <2>3, <2>4 DEF Notifying
<1>8. Stale'
  <2>1. answer = None
    BY <1>a DEF Notifying
  <2> QED BY <1>1, <1>a, <1>b, <1>c, <1>e, <1>g, <2>1 DEF Stale
<1>9. Finished'
  <2> SUFFICES ASSUME NEW r \in Callers, Cancelled(r)'
               PROVE  (/\ sid[CpOf(r)] # None /\ sid[CpOf(r)] \notin subs
                       /\ \A x \in Handlers : pc[x] # "idle" => msg[x].sid # sid[CpOf(r)])'
    BY DEF Finished
  <2>1. r # h /\ Cancelled(r)
    BY <1>b, <1>e DEF Cancelled
  <2>2. /\ sid[CpOf(r)] # None /\ sid[CpOf(r)] \notin subs
        /\ \A x \in Handlers : pc[x] # "idle" => msg[x].sid # sid[CpOf(r)]
    BY <1>a, <2>1 DEF Finished
  <2>3. CpOf(r)' = CpOf(r) /\ sid' = sid /\ subs' = subs
    BY <1>b, <1>h, <2>1
  <2>4. \A x \in Handlers : pc'[x] # "idle" => msg'[x].sid # sid[CpOf(r)]
    BY <1>e, <1>f, <1>g, <2>2
  <2> QED BY <2>2, <2>3, <2>4
<1> QED BY <1>2, <1>3, <1>4, <1>5, <1>6, <1>7, <1>8, <1>9 DEF EInv

\* A subscriber that cannot be reached is removed.
LEMMA NotifyRefusedStep ==
    ASSUME EInv, build' = build, NEW t \in Notifiers, NotifyRefused(t)
    PROVE  EInv'
<1>1. PICK s \in queue : subs' = subs \ {s} /\ queue' = queue \ {s}
  BY DEF NotifyRefused
<1>a. TypeOK /\ Kinds /\ Notifying /\ Stale /\ pc[t] = "loop"
  BY DEF EInv, NotifyRefused
<1>b. /\ \A u \in Threads \ Notifiers : pc'[u] = pc[u]
      /\ \A u \in Notifiers : pc'[u] \in {"idle", "notify", "loop", "posted"}
      /\ \A x \in Sids : pc[x] = "idle" => pc'[x] = "idle"
      /\ \A h \in Handlers : pc'[h] = pc[h]
      /\ subs' \subseteq subs
  BY <1>1, <1>a DEF NotifyRefused, Kinds
<1>2. TypeOK'
  <2>1. subs' \subseteq Sids /\ queue' \subseteq Sids
    BY <1>1, <1>a DEF TypeOK
  <2> QED BY <1>a, <2>1, TypeFrame DEF NotifyRefused, reqVars, cpVars
<1>3. Kinds' /\ Known' /\ Calling' /\ Starting' /\ Finished'
  BY <1>b, PublisherFrame DEF NotifyRefused
<1>4. Notifying'
  <2>1. svcLock = t /\ t # None
    BY <1>a, Apart DEF Notifying, Threads
  <2>2. target = None /\ answer = None /\ None \notin Handlers
    BY <1>a, <2>1, Apart DEF Notifying, Threads, Callers
  <2>3. UNCHANGED <<pc, svcLock, target, answer>>
    BY DEF NotifyRefused
  <2> QED BY <1>1, <1>a, <2>1, <2>2, <2>3 DEF Notifying
<1>5. Stale'
  BY <1>b, StaleFrame DEF NotifyRefused, cpVars
<1> QED BY <1>2, <1>3, <1>4, <1>5 DEF EInv

\* The answer has come: the subscriber's count goes up.
LEMMA NotifyDoneStep ==
    ASSUME EInv, build' = build, NEW t \in Notifiers, NotifyDone(t)
    PROVE  EInv'
<1>a. TypeOK /\ Notifying /\ Stale /\ pc[t] = "posted" /\ answer = "ok" /\ None \notin Handlers
  BY Apart DEF EInv, NotifyDone, Threads, Callers
<1>b. /\ pc' \in [Threads -> Labels] /\ pc'[t] = "loop"
      /\ \A u \in Threads \ {t} : pc'[u] = pc[u]
      /\ \A u \in Threads \ Notifiers : pc'[u] = pc[u]
      /\ \A u \in Notifiers : pc'[u] \in {"idle", "notify", "loop", "posted"}
      /\ \A s \in Sids : pc[s] = "idle" => pc'[s] = "idle"
      /\ \A h \in Handlers : pc'[h] = pc[h]
  BY <1>a, NotifierFact DEF NotifyDone, Goto
<1>c. svcLock = t /\ t # None /\ target \in subs /\ target \in Sids
  BY <1>a, Apart DEF Notifying, TypeOK, Threads
<1>d. /\ target' = None /\ answer' = None
      /\ sub' = [sub EXCEPT ![target].count = Incremented(@)]
      /\ UNCHANGED <<value, subs, svcLock, queue>>
  BY DEF NotifyDone
<1>e. /\ sub' \in [Sids -> [cp : Cps \cup {None}, count : Seqs, lapsed : BOOLEAN]]
      /\ \A s \in Sids : sub'[s].cp = sub[s].cp
  <2>1. sub[target].count \in Seqs /\ build \in Builds
    BY <1>a, <1>c DEF TypeOK
  <2>2. Incremented(sub[target].count) \in Seqs
    BY <2>1, BuildFact, BoundsAssumption DEF Incremented, Seqs
  <2> QED BY <1>a, <1>c, <1>d, <2>2 DEF TypeOK
<1>1. TypeOK'
  BY <1>a, <1>b, <1>d, <1>e, TypeFrame DEF NotifyDone, reqVars, cpVars
<1>2. Kinds' /\ Known' /\ Calling' /\ Starting' /\ Finished'
  BY <1>b, <1>d, <1>e, PublisherFrame DEF NotifyDone
<1>3. Notifying'
  <2>1. \A u \in Notifiers : pc'[u] \in {"loop", "posted"} => u = t
    BY <1>a, <1>b, <1>c DEF Notifying, Threads
  <2> QED BY <1>a, <1>b, <1>c, <1>d, <2>1 DEF Notifying
<1>4. Stale'
  <2>1. \A h \in Handlers : h # "ok"
    BY Apart
  <2>2. msg' = msg
    BY DEF NotifyDone, cpVars
  <2> QED BY <1>a, <1>b, <1>d, <2>1, <2>2 DEF Stale
<1> QED BY <1>1, <1>2, <1>3, <1>4 DEF EInv

\* The publisher gives up, and removes the subscriber.
LEMMA NotifyTimeoutStep ==
    ASSUME EInv, build' = build, NEW t \in Notifiers, NotifyTimeout(t)
    PROVE  EInv'
<1>a. TypeOK /\ Notifying /\ Stale /\ pc[t] = "posted" /\ None \notin Handlers
  BY Apart DEF EInv, NotifyTimeout, Threads, Callers
<1>b. /\ pc' \in [Threads -> Labels] /\ pc'[t] = "loop"
      /\ \A u \in Threads \ {t} : pc'[u] = pc[u]
      /\ \A u \in Threads \ Notifiers : pc'[u] = pc[u]
      /\ \A u \in Notifiers : pc'[u] \in {"idle", "notify", "loop", "posted"}
      /\ \A s \in Sids : pc[s] = "idle" => pc'[s] = "idle"
      /\ \A h \in Handlers : pc'[h] = pc[h]
  BY <1>a, NotifierFact DEF NotifyTimeout, Goto
<1>c. svcLock = t /\ t # None /\ target \in subs \ queue /\ queue \subseteq subs
  BY <1>a, Apart DEF Notifying, Threads
<1>d. /\ target' = None /\ answer' = None /\ subs' = subs \ {target}
      /\ UNCHANGED <<value, sub, svcLock, queue, msg>>
  BY DEF NotifyTimeout, cpVars
<1>1. TypeOK'
  <2>1. subs' \subseteq Sids
    BY <1>a, <1>d DEF TypeOK
  <2> QED BY <1>a, <1>b, <1>d, <2>1, TypeFrame DEF NotifyTimeout, reqVars, cpVars
<1>2. Kinds' /\ Known' /\ Calling' /\ Starting' /\ Finished'
  BY <1>b, <1>d, PublisherFrame DEF NotifyTimeout
<1>3. Notifying'
  <2>1. \A u \in Notifiers : pc'[u] \in {"loop", "posted"} => u = t
    BY <1>a, <1>b, <1>c DEF Notifying, Threads
  <2> QED BY <1>a, <1>b, <1>c, <1>d, <2>1 DEF Notifying
<1>4. Stale'
  <2>1. \A h \in Handlers : pc[h] # "idle" /\ h = answer => msg[h].sid = target
    BY <1>a DEF Notifying
  <2> QED BY <1>a, <1>b, <1>d, <2>1 DEF Stale
<1> QED BY <1>1, <1>2, <1>3, <1>4 DEF EInv

\* The list is done, and the service is unlocked.
LEMMA NotifyEndStep ==
    ASSUME EInv, build' = build, NEW t \in Notifiers, NotifyEnd(t)
    PROVE  EInv'
<1>a. TypeOK /\ Notifying /\ pc[t] = "loop" /\ queue = {} /\ None \notin Handlers
  BY Apart DEF EInv, NotifyEnd, Threads, Callers
<1>b. /\ pc' \in [Threads -> Labels] /\ pc'[t] = "idle"
      /\ \A u \in Threads \ {t} : pc'[u] = pc[u]
      /\ \A u \in Threads \ Notifiers : pc'[u] = pc[u]
      /\ \A u \in Notifiers : pc'[u] \in {"idle", "notify", "loop", "posted"}
      /\ \A s \in Sids : pc[s] = "idle" => pc'[s] = "idle"
      /\ \A h \in Handlers : pc'[h] = pc[h]
  BY <1>a, NotifierFact DEF NotifyEnd, Goto
<1>c. svcLock = t /\ t # None
  BY <1>a, Apart DEF Notifying, Threads
<1>d. svcLock' = None /\ UNCHANGED <<value, subs, sub, queue, target, answer>>
  BY DEF NotifyEnd
<1>1. TypeOK'
  BY <1>a, <1>b, <1>d, TypeFrame DEF NotifyEnd, reqVars, cpVars
<1>2. Kinds' /\ Known' /\ Calling' /\ Starting' /\ Finished'
  BY <1>b, <1>d, PublisherFrame DEF NotifyEnd
<1>3. Notifying'
  <2>1. \A u \in Notifiers : pc'[u] \notin {"loop", "posted"}
    BY <1>a, <1>b, <1>c DEF Notifying, Threads
  <2>2. target = None /\ answer = None
    BY <1>a, <1>c DEF Notifying
  <2> QED BY <1>a, <1>d, <2>1, <2>2 DEF Notifying
<1>4. Stale'
  BY <1>b, <1>d, StaleFrame DEF NotifyEnd, cpVars
<1> QED BY <1>1, <1>2, <1>3, <1>4 DEF EInv

\* A lease runs out.
LEMMA LapseStep ==
    ASSUME EInv, build' = build, NEW s \in Sids, Lapse(s)
    PROVE  EInv'
<1>a. TypeOK /\ Kinds /\ Notifying
  BY DEF EInv
<1>b. /\ sub' \in [Sids -> [cp : Cps \cup {None}, count : Seqs, lapsed : BOOLEAN]]
      /\ \A x \in Sids : sub'[x].cp = sub[x].cp /\ sub'[x].count = sub[x].count
  <2>1. /\ sub \in [Sids -> [cp : Cps \cup {None}, count : Seqs, lapsed : BOOLEAN]]
        /\ sub' = [sub EXCEPT ![s].lapsed = TRUE]
    BY <1>a DEF TypeOK, Lapse
  <2>2. [sub[s] EXCEPT !.lapsed = TRUE]
           \in [cp : Cps \cup {None}, count : Seqs, lapsed : BOOLEAN]
    BY <2>1
  <2>3. sub' \in [Sids -> [cp : Cps \cup {None}, count : Seqs, lapsed : BOOLEAN]]
    BY <2>1, <2>2
  <2>4. \A x \in Sids : sub'[x].cp = sub[x].cp /\ sub'[x].count = sub[x].count
    BY <2>1
  <2> QED BY <2>3, <2>4
<1>c. UNCHANGED <<pc, subs, svcLock, queue, target, answer, msg>>
  BY DEF Lapse, cpVars
<1>1. TypeOK'
  BY <1>a, <1>b, TypeFrame DEF Lapse, reqVars, cpVars
<1>2. Kinds' /\ Known' /\ Calling' /\ Starting' /\ Finished'
  BY <1>a, <1>b, <1>c, PublisherFrame DEF Lapse, Kinds
<1>3. Notifying'
  <2>1. subs \subseteq Sids
    BY <1>a DEF TypeOK
  <2>2. answer \in Handlers => pc'[answer] # "idle" /\ msg'[answer] = msg[answer]
    BY <1>a, <1>c DEF Notifying
  <2> QED BY <1>b, <1>c, <2>1, <2>2, NotifyingFrame
<1>4. Stale'
  BY <1>c, StaleFrame
<1> QED BY <1>1, <1>2, <1>3, <1>4 DEF EInv

-----------------------------------------------------------------------------
(* The threads of the device's HTTP server keep the invariant.             *)

\* What the steps of a server's thread have in common.
LEMMA WorkerFact ==
    ASSUME EInv, NEW w \in Workers, NEW l \in Labels, pc' = [pc EXCEPT ![w] = l]
    PROVE  /\ pc' \in [Threads -> Labels] /\ pc'[w] = l
           /\ \A u \in Workers : u # w => pc'[u] = pc[u]
           /\ \A u \in Notifiers : pc'[u] = pc[u]
           /\ \A u \in Sids : pc'[u] = pc[u]
           /\ \A u \in Callers : pc'[u] = pc[u]
           /\ \A u \in Cps : pc'[u] = pc[u]
           /\ \A u \in Handlers : pc'[u] = pc[u]
<1>1. TypeOK /\ w \in Threads
  BY DEF EInv, Threads
<1>2. pc' \in [Threads -> Labels] /\ pc'[w] = l /\ \A u \in Threads \ {w} : pc'[u] = pc[u]
  BY <1>1, GotoFact
<1>3. /\ \A u \in Notifiers : u \in Threads \ {w}
      /\ \A u \in Callers : u \in Threads \ {w}
      /\ \A u \in Workers : u # w => u \in Threads \ {w}
  BY Apart DEF Threads
<1> QED BY <1>2, <1>3 DEF Callers, Notifiers

\* Only calls change hands: the publisher's part stays.
LEMMA WorkerFrame ==
    ASSUME EInv, UNCHANGED <<subs, sub, svcLock, queue, target, answer, msg>>,
           \A u \in Notifiers : pc'[u] = pc[u],
           \A u \in Handlers : pc'[u] = pc[u]
    PROVE  Notifying' /\ Stale'
<1>1. answer \in Handlers => pc'[answer] # "idle" /\ msg'[answer] = msg[answer]
  BY DEF EInv, Notifying
<1>2. Notifying'
  BY <1>1, NotifyingFrame
<1>3. Stale'
  BY StaleFrame
<1> QED BY <1>2, <1>3

\* The control point of a request under way.
LEMMA CpOfFact ==
    ASSUME EInv, NEW r \in Callers, r \in Handlers => pc[r] # "idle"
    PROVE  CpOf(r) \in Cps
BY Apart DEF EInv, Kinds, CpOf, Callers, Messages

\* A request is accepted.
LEMMA AcceptStep ==
    ASSUME EInv, build' = build, NEW w \in Workers, Accept(w)
    PROVE  EInv'
<1>1. PICK r \in Callers :
         /\ conn[r] = "queued"
         /\ conn' = [conn EXCEPT ![r] = w]
         /\ call' = [call EXCEPT ![w] = [from |-> r, cp |-> CpOf(r), op |-> pc[r],
                                        sid |-> sid[CpOf(r)], ok |-> FALSE]]
  BY DEF Accept
<1>a. /\ TypeOK /\ Kinds /\ Known /\ Calling /\ Starting /\ Finished
      /\ pc[w] = "idle"
  BY DEF EInv, Accept
<1>b. UNCHANGED <<value, subs, sub, svcLock, queue, target, answer, posted, got, cpLock, sid,
                  key, table, heard, msg, fault, build>>
  BY DEF Accept, pubVars, cpVars
<1>c. /\ pc' \in [Threads -> Labels] /\ pc'[w] = "serve"
      /\ \A u \in Workers : u # w => pc'[u] = pc[u]
      /\ \A u \in Notifiers : pc'[u] = pc[u]
      /\ \A u \in Sids : pc'[u] = pc[u]
      /\ \A u \in Callers : pc'[u] = pc[u]
      /\ \A u \in Cps : pc'[u] = pc[u]
      /\ \A u \in Handlers : pc'[u] = pc[u]
  BY WorkerFact DEF Accept, Goto, Labels
<1>d. pc[r] \in Busy /\ CpOf(r) \in Cps
  <2>1. conn[r] # None
    BY <1>1, Apart
  <2>2. pc[r] \in Busy
    BY <2>1, <1>a DEF Calling
  <2> QED BY <2>2, CpOfFact DEF Busy
<1>e. /\ call'[w] = [from |-> r, cp |-> CpOf(r), op |-> pc[r], sid |-> sid[CpOf(r)], ok |-> FALSE]
      /\ \A u \in Workers : u # w => call'[u] = call[u]
      /\ conn'[r] = w /\ \A x \in Callers : x # r => conn'[x] = conn[x]
  BY <1>1, <1>a DEF TypeOK
<1>f. call'[w] \in Calls
  <2>1. sid[CpOf(r)] \in Sids \cup {None}
    BY <1>a, <1>d DEF TypeOK
  <2> QED BY <1>d, <1>e, <2>1 DEF Calls, Busy
<1>g. \A x \in Callers : CpOf(x)' = CpOf(x)
  BY <1>b DEF CpOf
<1>h. \A x \in Callers : conn[x] # w
  BY <1>a DEF Calling
<1>2. TypeOK'
  <2>1. conn' \in [Callers -> Workers \cup {"queued", "ok", "failed", None}]
    BY <1>1, <1>a DEF TypeOK
  <2>2. call' \in [Workers -> Calls \cup {NoCall}]
    BY <1>1, <1>a, <1>e, <1>f DEF TypeOK
  <2> QED BY <1>a, <1>b, <1>c, <2>1, <2>2, TypeFrame
<1>3. Kinds'
  <2>1. \A u \in Workers : /\ pc'[u] \in {"idle", "serve", "renewing", "respond"}
                           /\ pc'[u] # "idle" => call'[u] \in Calls
                           /\ pc'[u] = "serve" => ~call'[u].ok
                           /\ pc'[u] = "renewing" => call'[u].op = "renew"
    BY <1>a, <1>c, <1>e, <1>f DEF Kinds
  <2> QED BY <1>a, <1>b, <1>c, <2>1 DEF Kinds
<1>4. Known'
  <2>1. sid[CpOf(r)] # None => sub[sid[CpOf(r)]].cp = CpOf(r)
    BY <1>a, <1>d DEF Known
  <2>2. \A u \in Workers : (pc[u] # "idle" /\ call[u].sid # None =>
          sub[call[u].sid].cp = call[u].cp)'
    BY <1>a, <1>b, <1>c, <1>e, <2>1 DEF Known
  <2> QED BY <1>a, <1>b, <1>c, <1>g, <2>2 DEF Known
<1>5. Calling'
  <2>1. \A x \in Callers, u \in Workers : (conn[x] = u =>
          /\ pc[u] # "idle" /\ call[u].from = x /\ call[u].op = pc[x]
          /\ call[u].cp = CpOf(x)
          /\ pc[x] # "subscribe" => call[u].sid = sid[CpOf(x)])'
    <3> SUFFICES ASSUME NEW x \in Callers, NEW u \in Workers, conn'[x] = u
                 PROVE  (/\ pc[u] # "idle" /\ call[u].from = x /\ call[u].op = pc[x]
                         /\ call[u].cp = CpOf(x)
                         /\ pc[x] # "subscribe" => call[u].sid = sid[CpOf(x)])'
      OBVIOUS
    <3>1. CASE x = r
      BY <3>1, <1>b, <1>c, <1>e, <1>g
    <3>2. CASE x # r
      <4>1. conn[x] = u /\ u # w
        BY <3>2, <1>e, <1>h
      <4> QED BY <4>1, <1>a, <1>b, <1>c, <1>e, <1>g DEF Calling
    <3> QED BY <3>1, <3>2
  <2>2. \A x \in Callers :
          (IF pc[x] \in Busy THEN cpLock[CpOf(x)] = x ELSE conn[x] = None /\ got[x] = None)'
    BY <1>a, <1>b, <1>c, <1>d, <1>e, <1>g DEF Calling, Busy
  <2>3. \A x \in Callers : (conn[x] = "ok" =>
          got[x] # None /\ (pc[x] # "subscribe" => got[x] = sid[CpOf(x)]))'
    <3>1. w # "ok"
      BY Apart
    <3> QED BY <1>a, <1>b, <1>c, <1>e, <1>g, <3>1 DEF Calling
  <2> QED BY <1>a, <1>b, <1>c, <1>g, <2>1, <2>2, <2>3 DEF Calling
<1>6. Starting'
  <2>1. \A u \in Workers : pc'[u] = "respond" => u # w /\ pc[u] = "respond" /\ call'[u] = call[u]
    BY <1>c, <1>e
  <2>2. \A u \in Workers : pc[u] = "respond" => call[u].sid \in Sids \cup {None}
    BY <1>a DEF Kinds, Calls
  <2> QED BY <1>a, <1>b, <1>c, <2>1, <2>2 DEF Starting
<1>7. Notifying' /\ Stale'
  BY <1>b, <1>c, WorkerFrame
<1>8. Finished'
  <2>1. \A x \in Callers : Cancelled(x)' => Cancelled(x)
    <3> SUFFICES ASSUME NEW x \in Callers, Cancelled(x)'
                 PROVE  Cancelled(x)
      OBVIOUS
    <3>1. x # r
      BY <1>c, <1>e, Apart DEF Cancelled
    <3>2. conn'[x] = conn[x] /\ conn[x] # w /\ pc'[x] = pc[x]
      BY <3>1, <1>c, <1>e, <1>h
    <3> QED BY <3>2, <1>c, <1>e DEF Cancelled
  <2> QED BY <1>a, <1>b, <1>c, <1>g, <2>1 DEF Finished
<1> QED BY <1>2, <1>3, <1>4, <1>5, <1>6, <1>7, <1>8 DEF EInv

\* A request is worked on: callers see nothing of that.
LEMMA ServeFrame ==
    ASSUME EInv, NEW w \in Workers, NEW l \in {"renewing", "respond"},
           pc[w] \in {"serve", "renewing"}, pc' = [pc EXCEPT ![w] = l],
           UNCHANGED <<conn, got, cpLock, sid, msg>>,
           l = "renewing" => call[w].op = "renew",
           call'[w] \in Calls,
           call'[w].from = call[w].from /\ call'[w].cp = call[w].cp /\ call'[w].op = call[w].op,
           call[w].op # "subscribe" => call'[w].sid = call[w].sid,
           \A u \in Workers : u # w => call'[u] = call[u]
    PROVE  /\ Kinds' /\ Calling'
           /\ pc' \in [Threads -> Labels] /\ pc'[w] = l
           /\ \A u \in Workers : u # w => pc'[u] = pc[u]
           /\ \A u \in Notifiers : pc'[u] = pc[u]
           /\ \A u \in Sids : pc'[u] = pc[u]
           /\ \A u \in Callers : pc'[u] = pc[u] /\ CpOf(u)' = CpOf(u)
           /\ \A u \in Handlers : pc'[u] = pc[u]
           /\ \A x \in Callers : conn[x] = w =>
                 call[w].from = x /\ call[w].op = pc[x] /\ call[w].cp = CpOf(x)
<1>a. Kinds /\ Calling /\ l \in Labels
  BY DEF EInv, Labels
<1>c. /\ pc' \in [Threads -> Labels] /\ pc'[w] = l
      /\ \A u \in Workers : u # w => pc'[u] = pc[u]
      /\ \A u \in Notifiers : pc'[u] = pc[u]
      /\ \A u \in Sids : pc'[u] = pc[u]
      /\ \A u \in Callers : pc'[u] = pc[u]
      /\ \A u \in Cps : pc'[u] = pc[u]
      /\ \A u \in Handlers : pc'[u] = pc[u]
  BY <1>a, WorkerFact
<1>d. \A u \in Callers : CpOf(u)' = CpOf(u)
  BY DEF CpOf
<1>e. \A x \in Callers : conn[x] = w =>
         call[w].from = x /\ call[w].op = pc[x] /\ call[w].cp = CpOf(x)
  BY <1>a DEF Calling
<1>1. Kinds'
  <2>1. \A u \in Workers : /\ pc'[u] \in {"idle", "serve", "renewing", "respond"}
                           /\ pc'[u] # "idle" => call'[u] \in Calls
                           /\ pc'[u] = "serve" => ~call'[u].ok
                           /\ pc'[u] = "renewing" => call'[u].op = "renew"
    BY <1>a, <1>c DEF Kinds
  <2> QED BY <1>a, <1>c, <2>1 DEF Kinds
<1>2. Calling'
  <2>1. \A x \in Callers, u \in Workers : (conn[x] = u =>
          /\ pc[u] # "idle" /\ call[u].from = x /\ call[u].op = pc[x]
          /\ call[u].cp = CpOf(x)
          /\ pc[x] # "subscribe" => call[u].sid = sid[CpOf(x)])'
    <3> SUFFICES ASSUME NEW x \in Callers, NEW u \in Workers, conn'[x] = u
                 PROVE  (/\ pc[u] # "idle" /\ call[u].from = x /\ call[u].op = pc[x]
                         /\ call[u].cp = CpOf(x)
                         /\ pc[x] # "subscribe" => call[u].sid = sid[CpOf(x)])'
      OBVIOUS
    <3>1. conn[x] = u
      OBVIOUS
    <3>2. CASE u = w
      BY <3>1, <3>2, <1>a, <1>c, <1>d DEF Calling
    <3>3. CASE u # w
      BY <3>1, <3>3, <1>a, <1>c, <1>d DEF Calling
    <3> QED BY <3>2, <3>3
  <2> QED BY <1>a, <1>c, <1>d, <2>1 DEF Calling
<1> QED BY <1>1, <1>2, <1>c, <1>d, <1>e

\* A new subscriber is entered.
LEMMA SubscribeStep ==
    ASSUME EInv, build' = build, NEW w \in Workers, Subscribe(w)
    PROVE  EInv'
<1>1. PICK s \in Unused :
         /\ subs' = subs \cup {s}
         /\ sub' = [sub EXCEPT ![s] = [cp |-> call[w].cp, count |-> 0, lapsed |-> FALSE]]
         /\ call' = [call EXCEPT ![w].sid = s, ![w].ok = TRUE]
  BY DEF Subscribe
<1>a. /\ TypeOK /\ Kinds /\ Known /\ Calling /\ Starting /\ Notifying /\ Stale /\ Finished
      /\ pc[w] = "serve" /\ call[w].op = "subscribe" /\ call[w] \in Calls
      /\ pc' = [pc EXCEPT ![w] = "respond"]
  BY DEF EInv, Subscribe, Serving, Goto, Kinds
<1>b. UNCHANGED <<value, svcLock, queue, target, answer, posted, conn, got, cpLock, sid,
                  key, table, heard, msg, fault, build>>
  BY DEF Subscribe, cpVars
<1>c. s \in Sids /\ sub[s].cp = None /\ pc[s] = "idle"
  BY <1>a DEF Unused, Starting
<1>d. \A c \in Cps : c # None
  BY Apart DEF Threads, Callers
<1>e. /\ call'[w] = [call[w] EXCEPT !.sid = s, !.ok = TRUE]
      /\ \A u \in Workers : u # w => call'[u] = call[u]
      /\ call' \in [Workers -> Calls \cup {NoCall}]
  <2>1. [call[w] EXCEPT !.sid = s, !.ok = TRUE] \in Calls
    BY <1>a, <1>c DEF Calls
  <2> QED BY <1>1, <1>a, <2>1 DEF TypeOK
<1>f. /\ call'[w].sid = s /\ call'[w].ok = TRUE /\ call'[w] \in Calls
      /\ call'[w].from = call[w].from /\ call'[w].cp = call[w].cp /\ call'[w].op = call[w].op
      /\ call[w].cp \in Cps
  BY <1>a, <1>c, <1>e DEF Calls
<1>g. /\ Kinds' /\ Calling'
      /\ pc' \in [Threads -> Labels] /\ pc'[w] = "respond"
      /\ \A u \in Workers : u # w => pc'[u] = pc[u]
      /\ \A u \in Notifiers : pc'[u] = pc[u]
      /\ \A u \in Sids : pc'[u] = pc[u]
      /\ \A u \in Callers : pc'[u] = pc[u] /\ CpOf(u)' = CpOf(u)
      /\ \A u \in Handlers : pc'[u] = pc[u]
      /\ \A x \in Callers : conn[x] = w =>
            call[w].from = x /\ call[w].op = pc[x] /\ call[w].cp = CpOf(x)
  BY <1>a, <1>b, <1>e, <1>f, ServeFrame
<1>h. /\ sub'[s] = [cp |-> call[w].cp, count |-> 0, lapsed |-> FALSE]
      /\ \A x \in Sids : x # s => sub'[x] = sub[x]
      /\ sub' \in [Sids -> [cp : Cps \cup {None}, count : Seqs, lapsed : BOOLEAN]]
  <2>1. 0 \in Seqs
    BY BoundsAssumption DEF Seqs
  <2>2. [cp |-> call[w].cp, count |-> 0, lapsed |-> FALSE]
           \in [cp : Cps \cup {None}, count : Seqs, lapsed : BOOLEAN]
    BY <1>f, <2>1
  <2> QED BY <1>1, <1>a, <1>c, <2>2 DEF TypeOK
\* The subscription's identifier is new.
<1>i. /\ s \notin subs
      /\ \A c \in Cps : sid[c] # s
      /\ \A r \in Callers : pc[r] \in Busy => got[r] # s
      /\ \A u \in Workers : pc[u] # "idle" => call[u].sid # s
      /\ \A h \in Handlers : pc[h] # "idle" => msg[h].sid # s
  <2>0. s # None
    BY <1>c, Apart DEF Threads, Notifiers
  <2>1. s \notin subs /\ \A c \in Cps : sid[c] # s
    BY <1>a, <1>c, <1>d, <2>0 DEF Known
  <2>2. \A r \in Callers : pc[r] \in Busy => got[r] # s
    BY <1>a, <1>c, <1>d, <2>0, CpOfFact DEF Known, Busy
  <2>3. \A u \in Workers : pc[u] # "idle" => call[u].sid # s
    BY <1>a, <1>c, <1>d, <2>0 DEF Known, Kinds, Calls
  <2>4. \A h \in Handlers : pc[h] # "idle" => msg[h].sid # s
    BY <1>a, <1>c, <1>d DEF Known, Kinds, Messages
  <2> QED BY <2>1, <2>2, <2>3, <2>4
<1>j. /\ subs \subseteq Sids /\ \A c \in Cps : sid[c] \in Sids \cup {None}
      /\ \A r \in Callers : got[r] \in Sids \cup {None}
      /\ \A u \in Workers : pc[u] # "idle" => call[u].sid \in Sids \cup {None}
      /\ \A h \in Handlers : pc[h] # "idle" => msg[h].sid \in Sids
  BY <1>a DEF TypeOK, Kinds, Calls, Messages
<1>2. TypeOK'
  <2>1. subs' \subseteq Sids
    BY <1>1, <1>c, <1>j
  <2> QED BY <1>a, <1>b, <1>e, <1>g, <1>h, <2>1, TypeFrame
<1>3. Known'
  <2>1. \A x \in subs' : sub'[x].cp \in Cps
    BY <1>1, <1>a, <1>f, <1>h, <1>i, <1>j DEF Known
  <2>2. \A c \in Cps : sid[c] # None => sub'[sid[c]].cp = c
    BY <1>a, <1>h, <1>i, <1>j DEF Known
  <2>3. \A r \in Callers : pc[r] \in Busy /\ got[r] # None => sub'[got[r]].cp = CpOf(r)
    BY <1>a, <1>h, <1>i, <1>j DEF Known
  <2>4. \A u \in Workers : (pc[u] # "idle" /\ call[u].sid # None =>
          sub[call[u].sid].cp = call[u].cp)'
    <3> SUFFICES ASSUME NEW u \in Workers, pc'[u] # "idle", call'[u].sid # None
                 PROVE  sub'[call'[u].sid].cp = call'[u].cp
      OBVIOUS
    <3>1. CASE u = w
      BY <3>1, <1>f, <1>h
    <3>2. CASE u # w
      <4>1. /\ pc[u] # "idle" /\ call'[u] = call[u] /\ call[u].sid # s
            /\ call[u].sid \in Sids
        BY <3>2, <1>e, <1>g, <1>i, <1>j
      <4>2. sub[call[u].sid].cp = call[u].cp
        BY <4>1, <1>a DEF Known
      <4> QED BY <4>1, <4>2, <1>h
    <3> QED BY <3>1, <3>2
  <2>5. \A h \in Handlers : pc[h] # "idle" => sub'[msg[h].sid].cp = msg[h].cp
    BY <1>a, <1>h, <1>i, <1>j DEF Known
  <2> QED BY <1>b, <1>g, <2>1, <2>2, <2>3, <2>4, <2>5 DEF Known
<1>4. Starting'
  <2>1. \A x \in Sids : (sub[x].cp = None => pc[x] = "idle")'
    BY <1>a, <1>c, <1>g, <1>h DEF Starting
  <2>2. \A u \in Workers : (pc[u] = "respond" =>
          /\ call[u].op = "subscribe" => call[u].sid # None /\ pc[call[u].sid] = "idle"
          /\ call[u].ok => call[u].sid # None)'
    <3>0. s # None
      BY <1>c, Apart DEF Threads, Notifiers
    <3> SUFFICES ASSUME NEW u \in Workers, pc'[u] = "respond"
                 PROVE  (/\ call[u].op = "subscribe" =>
                               call[u].sid # None /\ pc[call[u].sid] = "idle"
                         /\ call[u].ok => call[u].sid # None)'
      OBVIOUS
    <3>1. CASE u = w
      BY <3>0, <3>1, <1>c, <1>f, <1>g
    <3>2. CASE u # w
      <4>1. pc[u] = "respond" /\ call'[u] = call[u] /\ call[u].sid \in Sids \cup {None}
        BY <3>2, <1>e, <1>g, <1>j
      <4> QED BY <4>1, <1>a, <1>g DEF Starting
    <3> QED BY <3>1, <3>2
  <2>3. \A u, x \in Workers :
          (/\ pc[u] = "respond" /\ call[u].op = "subscribe"
           /\ pc[x] = "respond" /\ call[x].op = "subscribe"
           /\ call[u].sid = call[x].sid)'
          => u = x
    <3>1. \A u \in Workers : u # w /\ pc'[u] = "respond" =>
             pc[u] = "respond" /\ call'[u] = call[u] /\ call[u].sid # s
      BY <1>e, <1>g, <1>i
    <3> QED BY <3>1, <1>a, <1>f DEF Starting
  <2> QED BY <2>1, <2>2, <2>3 DEF Starting
<1>5. Notifying'
  <2>1. answer \in Handlers => pc'[answer] # "idle" /\ msg'[answer] = msg[answer]
    BY <1>a, <1>b, <1>g DEF Notifying
  <2>2. subs \subseteq subs' /\ \A x \in subs : sub'[x].count = sub[x].count
    BY <1>1, <1>h, <1>i, <1>j
  <2> QED BY <1>b, <1>g, <2>1, <2>2, NotifyingFrame
<1>6. Stale'
  BY <1>1, <1>a, <1>b, <1>g, <1>i DEF Stale
<1>7. Finished'
  <2>1. \A x \in Callers : Cancelled(x)' => Cancelled(x)
    <3> SUFFICES ASSUME NEW x \in Callers, Cancelled(x)'
                 PROVE  Cancelled(x)
      OBVIOUS
    <3>1. pc[x] = "unsubscribe" /\ conn[x] # w
      BY <1>a, <1>b, <1>g DEF Cancelled
    <3> QED BY <3>1, <1>b, <1>e, <1>g DEF Cancelled
  <2>2. \A x \in Callers : Cancelled(x) => CpOf(x) \in Cps
    BY CpOfFact DEF Cancelled
  <2> QED BY <1>1, <1>a, <1>b, <1>g, <1>i, <2>1, <2>2 DEF Finished
<1> QED BY <1>2, <1>3, <1>4, <1>5, <1>6, <1>7, <1>g DEF EInv

\* What is left to show of the steps that answer renewals and UNSUBSCRIBE.
LEMMA RenewFrame ==
    ASSUME EInv, NEW w \in Workers, NEW l \in {"renewing", "respond"},
           pc[w] \in {"serve", "renewing"}, pc' = [pc EXCEPT ![w] = l],
           call[w].op # "subscribe",
           l = "renewing" => call[w].op = "renew",
           UNCHANGED <<conn, got, cpLock, sid, msg>>,
           call'[w] \in Calls,
           call'[w].from = call[w].from /\ call'[w].cp = call[w].cp /\ call'[w].op = call[w].op,
           call'[w].sid = call[w].sid,
           call'[w].ok => call[w].sid # None,
           \A u \in Workers : u # w => call'[u] = call[u],
           subs' \subseteq subs,
           \A s \in Sids : sub'[s].cp = sub[s].cp
    PROVE  Known' /\ Starting'
<1>a. TypeOK /\ Kinds /\ Known /\ Starting /\ call[w] \in Calls
  BY DEF EInv, Kinds
<1>g. /\ pc'[w] = l
      /\ \A u \in Workers : u # w => pc'[u] = pc[u]
      /\ \A u \in Sids : pc'[u] = pc[u]
      /\ \A u \in Callers : pc'[u] = pc[u] /\ CpOf(u)' = CpOf(u)
      /\ \A u \in Handlers : pc'[u] = pc[u]
  BY ServeFrame
<1>j. /\ subs \subseteq Sids /\ \A c \in Cps : sid[c] \in Sids \cup {None}
      /\ \A r \in Callers : got[r] \in Sids \cup {None}
      /\ \A u \in Workers : pc[u] # "idle" => call[u].sid \in Sids \cup {None}
      /\ \A h \in Handlers : pc[h] # "idle" => msg[h].sid \in Sids
  BY <1>a DEF TypeOK, Kinds, Calls, Messages
<1>1. Known'
  <2>1. \A x \in subs' : sub'[x].cp \in Cps
    BY <1>a, <1>j DEF Known
  <2>2. \A c \in Cps : sid[c] # None => sub'[sid[c]].cp = c
    BY <1>a, <1>j DEF Known
  <2>3. \A r \in Callers : pc[r] \in Busy /\ got[r] # None => sub'[got[r]].cp = CpOf(r)
    BY <1>a, <1>j DEF Known
  <2>4. \A u \in Workers : pc'[u] # "idle" =>
           /\ pc[u] # "idle" /\ call'[u].sid = call[u].sid /\ call'[u].cp = call[u].cp
           /\ call[u].sid \in Sids \cup {None}
    BY <1>g, <1>j
  <2>5. \A u \in Workers : (pc[u] # "idle" /\ call[u].sid # None =>
          sub[call[u].sid].cp = call[u].cp)'
    BY <1>a, <2>4 DEF Known
  <2>6. \A h \in Handlers : pc[h] # "idle" => sub'[msg[h].sid].cp = msg[h].cp
    BY <1>a, <1>j DEF Known
  <2> QED BY <1>g, <2>1, <2>2, <2>3, <2>5, <2>6 DEF Known
<1>2. Starting'
  <2>1. \A x \in Sids : (sub[x].cp = None => pc[x] = "idle")'
    BY <1>a, <1>g DEF Starting
  <2>2. \A u \in Workers : pc'[u] = "respond" /\ call'[u].op = "subscribe" =>
           /\ u # w /\ pc[u] = "respond" /\ call'[u] = call[u]
           /\ call[u].sid \in Sids \cup {None}
    BY <1>g, <1>j
  <2>3. \A u \in Workers : (pc[u] = "respond" =>
          /\ call[u].op = "subscribe" => call[u].sid # None /\ pc[call[u].sid] = "idle"
          /\ call[u].ok => call[u].sid # None)'
    BY <1>a, <1>g, <2>2 DEF Starting
  <2>4. \A u, x \in Workers :
          (/\ pc[u] = "respond" /\ call[u].op = "subscribe"
           /\ pc[x] = "respond" /\ call[x].op = "subscribe"
           /\ call[u].sid = call[x].sid)'
          => u = x
    BY <1>a, <2>2 DEF Starting
  <2> QED BY <2>1, <2>3, <2>4 DEF Starting
<1> QED BY <1>1, <1>2

\* A renewal looks its subscriber up.
LEMMA RenewLookupStep ==
    ASSUME EInv, build' = build, NEW w \in Workers, RenewLookup(w)
    PROVE  EInv'
<1>1. PICK l \in {"renewing", "respond"} : pc' = [pc EXCEPT ![w] = l]
  BY DEF RenewLookup, Goto
<1>a. /\ TypeOK /\ Kinds /\ Finished
      /\ pc[w] = "serve" /\ call[w].op = "renew" /\ call[w] \in Calls /\ ~call[w].ok
  BY DEF EInv, RenewLookup, Serving, Kinds
<1>b. UNCHANGED <<value, subs, sub, svcLock, queue, target, answer, posted, conn, got, call,
                  cpLock, sid, key, table, heard, msg, fault, build>>
  BY DEF RenewLookup, pubVars, reqVars, cpVars
<1>g. /\ Kinds' /\ Calling'
      /\ pc' \in [Threads -> Labels] /\ pc'[w] = l
      /\ \A u \in Workers : u # w => pc'[u] = pc[u]
      /\ \A u \in Notifiers : pc'[u] = pc[u]
      /\ \A u \in Callers : pc'[u] = pc[u] /\ CpOf(u)' = CpOf(u)
      /\ \A u \in Handlers : pc'[u] = pc[u]
  BY <1>1, <1>a, <1>b, ServeFrame
<1>2. TypeOK'
  BY <1>a, <1>b, <1>g, TypeFrame
<1>3. Known' /\ Starting'
  BY <1>1, <1>a, <1>b, RenewFrame
<1>4. Notifying' /\ Stale'
  BY <1>b, <1>g, WorkerFrame
<1>5. Finished'
  <2>1. \A x \in Callers : Cancelled(x)' => Cancelled(x)
    <3> SUFFICES ASSUME NEW x \in Callers, Cancelled(x)'
                 PROVE  Cancelled(x)
      OBVIOUS
    <3>1. conn[x] # w \/ ~call[w].ok
      BY <1>a
    <3> QED BY <3>1, <1>a, <1>b, <1>g DEF Cancelled
  <2> QED BY <1>a, <1>b, <1>g, <2>1 DEF Finished
<1> QED BY <1>2, <1>3, <1>4, <1>5, <1>g DEF EInv

\* A subscriber is renewed.
LEMMA RenewApplyStep ==
    ASSUME EInv, build' = build, NEW w \in Workers, RenewApply(w)
    PROVE  EInv'
<1>a. /\ TypeOK /\ Kinds /\ Calling /\ Notifying /\ Finished
      /\ pc[w] = "renewing" /\ call[w].op = "renew" /\ call[w] \in Calls
      /\ pc' = [pc EXCEPT ![w] = "respond"]
  BY DEF EInv, RenewApply, Goto, Kinds
<1>b. UNCHANGED <<value, subs, svcLock, queue, target, answer, posted, conn, got,
                  cpLock, sid, key, table, heard, msg, fault, build>>
  BY DEF RenewApply, cpVars
<1>c. call[w].sid \in Sids /\ call[w].sid # None /\ subs \subseteq Sids
  BY <1>a, Apart DEF RenewApply, TypeOK, Threads, Notifiers
<1>d. /\ sub' \in [Sids -> [cp : Cps \cup {None}, count : Seqs, lapsed : BOOLEAN]]
      /\ \A x \in Sids : sub'[x].cp = sub[x].cp /\ sub'[x].count = sub[x].count
  <2>1. /\ sub \in [Sids -> [cp : Cps \cup {None}, count : Seqs, lapsed : BOOLEAN]]
        /\ sub' = [sub EXCEPT ![call[w].sid].lapsed = FALSE]
    BY <1>a DEF TypeOK, RenewApply
  <2>2. [sub[call[w].sid] EXCEPT !.lapsed = FALSE]
           \in [cp : Cps \cup {None}, count : Seqs, lapsed : BOOLEAN]
    BY <1>c, <2>1
  <2>3. sub' \in [Sids -> [cp : Cps \cup {None}, count : Seqs, lapsed : BOOLEAN]]
    BY <2>1, <2>2
  <2>4. \A x \in Sids : sub'[x].cp = sub[x].cp /\ sub'[x].count = sub[x].count
    BY <1>c, <2>1
  <2> QED BY <2>3, <2>4
<1>e. /\ call'[w] = [call[w] EXCEPT !.ok = TRUE]
      /\ \A u \in Workers : u # w => call'[u] = call[u]
      /\ call' \in [Workers -> Calls \cup {NoCall}]
  <2>1. [call[w] EXCEPT !.ok = TRUE] \in Calls
    BY <1>a DEF Calls
  <2> QED BY <1>a, <2>1 DEF TypeOK, RenewApply
<1>f. /\ call'[w].sid = call[w].sid /\ call'[w] \in Calls
      /\ call'[w].from = call[w].from /\ call'[w].cp = call[w].cp /\ call'[w].op = call[w].op
  BY <1>a, <1>e DEF Calls
<1>g. /\ Kinds' /\ Calling'
      /\ pc' \in [Threads -> Labels] /\ pc'[w] = "respond"
      /\ \A u \in Workers : u # w => pc'[u] = pc[u]
      /\ \A u \in Notifiers : pc'[u] = pc[u]
      /\ \A u \in Callers : pc'[u] = pc[u] /\ CpOf(u)' = CpOf(u)
      /\ \A u \in Handlers : pc'[u] = pc[u]
      /\ \A x \in Callers : conn[x] = w =>
            call[w].from = x /\ call[w].op = pc[x] /\ call[w].cp = CpOf(x)
  BY <1>a, <1>b, <1>e, <1>f, ServeFrame
<1>2. TypeOK'
  BY <1>a, <1>b, <1>d, <1>e, <1>g, TypeFrame
<1>3. Known' /\ Starting'
  BY <1>a, <1>b, <1>c, <1>d, <1>e, <1>f, RenewFrame
<1>4. Notifying'
  <2>1. answer \in Handlers => pc'[answer] # "idle" /\ msg'[answer] = msg[answer]
    BY <1>a, <1>b, <1>g DEF Notifying
  <2> QED BY <1>b, <1>c, <1>d, <1>g, <2>1, NotifyingFrame
<1>5. Stale'
  BY <1>b, <1>g, StaleFrame
<1>6. Finished'
  <2>1. \A x \in Callers : Cancelled(x)' => Cancelled(x)
    <3> SUFFICES ASSUME NEW x \in Callers, Cancelled(x)'
                 PROVE  Cancelled(x)
      OBVIOUS
    <3>1. conn[x] # w
      BY <1>a, <1>b, <1>g DEF Cancelled
    <3> QED BY <3>1, <1>b, <1>e, <1>g DEF Cancelled
  <2> QED BY <1>a, <1>b, <1>g, <2>1 DEF Finished
<1> QED BY <1>2, <1>3, <1>4, <1>5, <1>6, <1>g DEF EInv

\* A renewal of a subscriber that is gone ends the run.
LEMMA UseAfterFreeStep ==
    ASSUME EInv, build' = build, NEW w \in Workers, UseAfterFree(w)
    PROVE  EInv'
<1>b. /\ UNCHANGED <<pc, value, subs, sub, svcLock, queue, target, answer, posted, conn, got,
                     call, cpLock, sid, key, table, heard, msg, build>>
      /\ fault' \in BOOLEAN
  BY DEF UseAfterFree, pubVars, reqVars, cpVars
<1>c. \A x : CpOf(x)' = CpOf(x)
  BY <1>b DEF CpOf
<1>1. TypeOK'
  BY <1>b, TypeFrame DEF EInv
<1>2. Kinds' /\ Known' /\ Starting'
  BY <1>b, <1>c DEF EInv, Kinds, Known, Starting
<1>3. Calling'
  BY <1>b, <1>c DEF EInv, Calling
<1>4. Notifying' /\ Stale'
  BY <1>b DEF EInv, Notifying, Stale
<1>5. Finished'
  BY <1>b, <1>c DEF EInv, Finished, Cancelled
<1> QED BY <1>1, <1>2, <1>3, <1>4, <1>5 DEF EInv

\* A subscriber is removed on request.
LEMMA UnsubscribeStep ==
    ASSUME EInv, build' = build, NEW w \in Workers, Unsubscribe(w)
    PROVE  EInv'
<1>a. /\ TypeOK /\ Kinds /\ Calling /\ Notifying /\ Stale /\ Finished
      /\ pc[w] = "serve" /\ call[w].op = "unsubscribe" /\ call[w] \in Calls
      /\ pc' = [pc EXCEPT ![w] = "respond"]
      /\ svcLock = None /\ subs' = subs \ {call[w].sid}
  BY DEF EInv, Unsubscribe, Goto, Kinds, Serving
<1>b. UNCHANGED <<value, sub, svcLock, queue, target, answer, posted, conn, got,
                  cpLock, sid, key, table, heard, msg, fault, build>>
  BY DEF Unsubscribe, cpVars
<1>c. None \notin subs /\ subs \subseteq Sids
  BY <1>a, Apart DEF TypeOK, Threads, Notifiers
<1>d. PICK b \in BOOLEAN : b = (call[w].sid \in subs)
  <2>1. (call[w].sid \in subs) = TRUE \/ (call[w].sid \in subs) = FALSE
    OBVIOUS
  <2> QED BY <2>1, Zenon
<1>e. /\ call'[w] = [call[w] EXCEPT !.ok = b]
      /\ \A u \in Workers : u # w => call'[u] = call[u]
      /\ call' \in [Workers -> Calls \cup {NoCall}]
  <2>1. [call[w] EXCEPT !.ok = b] \in Calls
    BY <1>a DEF Calls
  <2>2. call' = [call EXCEPT ![w].ok = b]
    BY <1>d DEF Unsubscribe
  <2> QED BY <1>a, <2>1, <2>2 DEF TypeOK
<1>f. /\ call'[w].sid = call[w].sid /\ call'[w] \in Calls
      /\ call'[w].ok => call[w].sid \in subs
      /\ call'[w].from = call[w].from /\ call'[w].cp = call[w].cp /\ call'[w].op = call[w].op
  <2>1. call'[w].ok = b
    BY <1>a, <1>e DEF Calls
  <2>2. /\ call'[w].sid = call[w].sid /\ call'[w] \in Calls
        /\ call'[w].from = call[w].from /\ call'[w].cp = call[w].cp
        /\ call'[w].op = call[w].op
    BY <1>a, <1>e DEF Calls
  <2> QED BY <1>d, <2>1, <2>2
<1>g. /\ Kinds' /\ Calling'
      /\ pc' \in [Threads -> Labels] /\ pc'[w] = "respond"
      /\ \A u \in Workers : u # w => pc'[u] = pc[u]
      /\ \A u \in Notifiers : pc'[u] = pc[u]
      /\ \A u \in Callers : pc'[u] = pc[u] /\ CpOf(u)' = CpOf(u)
      /\ \A u \in Handlers : pc'[u] = pc[u]
      /\ \A x \in Callers : conn[x] = w =>
            call[w].from = x /\ call[w].op = pc[x] /\ call[w].cp = CpOf(x)
  BY <1>a, <1>b, <1>e, <1>f, ServeFrame
<1>h. answer = None /\ \A h \in Handlers : h # None
  BY <1>a, Apart DEF Notifying, Threads, Callers
<1>2. TypeOK'
  <2>1. subs' \subseteq Sids
    BY <1>a, <1>c
  <2> QED BY <1>a, <1>b, <1>e, <1>g, <2>1, TypeFrame
<1>3. Known' /\ Starting'
  BY <1>a, <1>b, <1>c, <1>e, <1>f, RenewFrame
<1>4. Notifying'
  BY <1>a, <1>b, <1>g, <1>h, NotifyingFrame
<1>5. Stale'
  BY <1>a, <1>b, <1>g, StaleFrame
<1>6. Finished'
  <2> SUFFICES ASSUME NEW x \in Callers, Cancelled(x)'
               PROVE  (/\ sid[CpOf(x)] # None /\ sid[CpOf(x)] \notin subs
                       /\ \A h \in Handlers : pc[h] # "idle" => msg[h].sid # sid[CpOf(x)])'
    BY DEF Finished
  <2>1. CASE conn[x] = w /\ call'[w].ok
    <3>1. call[w].sid = sid[CpOf(x)] /\ call[w].sid \in subs
      BY <2>1, <1>a, <1>f, <1>g DEF Calling
    <3>2. \A h \in Handlers : pc[h] # "idle" => msg[h].sid \notin subs
      BY <1>a, <1>h DEF Stale
    <3> QED BY <3>1, <3>2, <1>a, <1>b, <1>c, <1>g
  <2>2. CASE conn[x] # w \/ ~call'[w].ok
    <3>1. Cancelled(x)
      BY <2>2, <1>b, <1>e, <1>g DEF Cancelled
    <3> QED BY <3>1, <1>a, <1>b, <1>g DEF Finished
  <2> QED BY <2>1, <2>2
<1> QED BY <1>2, <1>3, <1>4, <1>5, <1>6, <1>g DEF EInv

\* The answer goes out; a new subscription gets its thread for the initial event.
LEMMA RespondStep ==
    ASSUME EInv, build' = build, NEW w \in Workers, Respond(w)
    PROVE  EInv'
<1>a. /\ TypeOK /\ Kinds /\ Known /\ Calling /\ Starting /\ Notifying /\ Stale /\ Finished
      /\ pc[w] = "respond" /\ call[w] \in Calls /\ call[w].from \in Callers
      /\ call[w].sid \in Sids \cup {None}
  BY DEF EInv, Respond, Kinds, Calls
<1>b. UNCHANGED <<value, subs, sub, svcLock, queue, target, answer, posted, cpLock, sid,
                  key, table, heard, msg, fault, build>>
  BY DEF Respond, pubVars, cpVars
<1>c. \A x \in Callers : CpOf(x)' = CpOf(x)
  BY <1>b DEF CpOf
\* The thread of the initial event starts, if there is one.
<1>d. /\ \A u \in Callers : u \in Threads /\ u # w
      /\ \A u \in Notifiers : u \in Threads /\ u # w
      /\ \A u \in Workers : u \in Threads
      /\ \A u \in Handlers : u \in Callers
      /\ \A u \in Cps : u \in Callers
      /\ \A u \in Sids : u \in Notifiers /\ u \notin Callers /\ u \notin Workers /\ u # None
  BY Apart DEF Threads, Notifiers, Callers
<1>e. /\ pc' \in [Threads -> Labels] /\ pc'[w] = "idle"
      /\ \A u \in Workers : u # w => pc'[u] = pc[u]
      /\ \A u \in Callers : pc'[u] = pc[u]
      /\ \A u \in Cps : pc'[u] = pc[u]
      /\ \A u \in Handlers : pc'[u] = pc[u]
      /\ \A u \in Notifiers :
            \/ pc'[u] = pc[u]
            \/ /\ call[w].op = "subscribe" /\ u = call[w].sid
               /\ pc[u] = "idle" /\ pc'[u] = "notify"
  <2>0. "idle" \in Labels /\ "notify" \in Labels /\ w \in Threads
    BY <1>d DEF Labels
  <2>1. CASE call[w].op = "subscribe"
    <3>1. call[w].sid \in Sids /\ call[w].sid \in Threads /\ pc[call[w].sid] = "idle"
      BY <2>1, <1>a, <1>d DEF Starting
    <3>2. pc' = [pc EXCEPT ![w] = "idle", ![call[w].sid] = "notify"]
      BY <2>1 DEF Respond
    <3>3. \A u \in Threads : pc'[u] = IF u = call[w].sid THEN "notify"
                                      ELSE IF u = w THEN "idle" ELSE pc[u]
      BY <1>a, <3>2 DEF TypeOK
    <3>4. pc' \in [Threads -> Labels]
      BY <2>0, <3>2, <1>a DEF TypeOK
    <3> QED BY <2>1, <3>1, <3>3, <3>4, <1>d
  <2>2. CASE call[w].op # "subscribe"
    <3>1. pc' = [pc EXCEPT ![w] = "idle"]
      BY <2>2 DEF Respond
    <3>2. \A u \in Threads : pc'[u] = IF u = w THEN "idle" ELSE pc[u]
      BY <1>a, <3>1 DEF TypeOK
    <3>3. pc' \in [Threads -> Labels]
      BY <2>0, <3>1, <1>a DEF TypeOK
    <3> QED BY <3>2, <3>3, <1>d
  <2> QED BY <2>1, <2>2
<1>f. /\ call'[w] = NoCall
      /\ \A u \in Workers : u # w => call'[u] = call[u]
      /\ call' \in [Workers -> Calls \cup {NoCall}]
  BY <1>a DEF Respond, TypeOK
\* Only the caller that waits for this thread is answered.
<1>g. \A x \in Callers :
         /\ conn[x] # w => conn'[x] = conn[x] /\ got'[x] = got[x]
         /\ conn[x] = w =>
               /\ x = call[w].from /\ call[w].op = pc[x] /\ call[w].cp = CpOf(x)
               /\ pc[x] # "subscribe" => call[w].sid = sid[CpOf(x)]
               /\ pc[x] \in Busy
               /\ conn'[x] = IF call[w].ok THEN "ok" ELSE "failed"
               /\ got'[x] = call[w].sid
  <2> SUFFICES ASSUME NEW x \in Callers
               PROVE  /\ conn[x] # w => conn'[x] = conn[x] /\ got'[x] = got[x]
                      /\ conn[x] = w =>
                            /\ x = call[w].from /\ call[w].op = pc[x] /\ call[w].cp = CpOf(x)
                            /\ pc[x] # "subscribe" => call[w].sid = sid[CpOf(x)]
                            /\ pc[x] \in Busy
                            /\ conn'[x] = IF call[w].ok THEN "ok" ELSE "failed"
                            /\ got'[x] = call[w].sid
    OBVIOUS
  <2>1. CASE conn[x] = w
    <3>1. /\ x = call[w].from /\ call[w].op = pc[x] /\ call[w].cp = CpOf(x)
          /\ pc[x] # "subscribe" => call[w].sid = sid[CpOf(x)]
      BY <2>1, <1>a DEF Calling
    <3>2. pc[x] \in Busy
      BY <2>1, <1>a, Apart DEF Calling, Threads
    <3>3. /\ conn' = [conn EXCEPT ![x] = IF call[w].ok THEN "ok" ELSE "failed"]
          /\ got' = [got EXCEPT ![x] = call[w].sid]
      BY <2>1, <3>1 DEF Respond
    <3> QED BY <2>1, <3>1, <3>2, <3>3, <1>a DEF TypeOK
  <2>2. CASE conn[x] # w
    BY <2>2, <1>a DEF TypeOK, Respond
  <2> QED BY <2>1, <2>2
<1>h. \A u \in Workers : u # "ok" /\ u # "failed" /\ u # "queued" /\ u # None
  BY Apart DEF Threads
<1>2. TypeOK'
  <2>1. conn' \in [Callers -> Workers \cup {"queued", "ok", "failed", None}]
    BY <1>a DEF TypeOK, Respond
  <2>2. got' \in [Callers -> Sids \cup {None}]
    BY <1>a DEF TypeOK, Respond
  <2> QED BY <1>a, <1>b, <1>e, <1>f, <2>1, <2>2, TypeFrame
<1>3. Kinds'
  <2>1. \A u \in Workers : /\ pc'[u] \in {"idle", "serve", "renewing", "respond"}
                           /\ pc'[u] # "idle" => call'[u] \in Calls
                           /\ pc'[u] = "serve" => ~call'[u].ok
                           /\ pc'[u] = "renewing" => call'[u].op = "renew"
    BY <1>a, <1>e, <1>f DEF Kinds
  <2>2. \A t \in Notifiers : pc'[t] \in {"idle", "notify", "loop", "posted"}
    BY <1>a, <1>e DEF Kinds
  <2> QED BY <1>a, <1>b, <1>e, <2>1, <2>2 DEF Kinds
<1>4. Known'
  <2>1. \A x \in Callers : pc'[x] \in Busy /\ got'[x] # None => sub[got'[x]].cp = CpOf(x)
    <3> SUFFICES ASSUME NEW x \in Callers, pc'[x] \in Busy, got'[x] # None
                 PROVE  sub[got'[x]].cp = CpOf(x)
      OBVIOUS
    <3>1. CASE conn[x] = w
      BY <3>1, <1>a, <1>g DEF Known
    <3>2. CASE conn[x] # w
      BY <3>2, <1>a, <1>e, <1>g DEF Known
    <3> QED BY <3>1, <3>2
  <2>2. \A u \in Workers : pc'[u] # "idle" => u # w /\ pc[u] # "idle" /\ call'[u] = call[u]
    BY <1>e, <1>f
  <2> QED BY <1>a, <1>b, <1>c, <1>e, <2>1, <2>2 DEF Known
<1>5. Calling'
  <2>1. \A x \in Callers, u \in Workers : (conn[x] = u =>
          /\ pc[u] # "idle" /\ call[u].from = x /\ call[u].op = pc[x]
          /\ call[u].cp = CpOf(x)
          /\ pc[x] # "subscribe" => call[u].sid = sid[CpOf(x)])'
    <3> SUFFICES ASSUME NEW x \in Callers, NEW u \in Workers, conn'[x] = u
                 PROVE  (/\ pc[u] # "idle" /\ call[u].from = x /\ call[u].op = pc[x]
                         /\ call[u].cp = CpOf(x)
                         /\ pc[x] # "subscribe" => call[u].sid = sid[CpOf(x)])'
      OBVIOUS
    <3>1. conn[x] # w
      BY <1>g, <1>h
    <3>2. conn[x] = u /\ u # w
      BY <3>1, <1>g
    <3> QED BY <3>2, <1>a, <1>b, <1>c, <1>e, <1>f DEF Calling
  <2>2. \A x \in Callers :
          (IF pc[x] \in Busy THEN cpLock[CpOf(x)] = x ELSE conn[x] = None /\ got[x] = None)'
    BY <1>a, <1>b, <1>c, <1>e, <1>g DEF Calling
  <2>3. \A x \in Callers : (conn[x] = "ok" =>
          got[x] # None /\ (pc[x] # "subscribe" => got[x] = sid[CpOf(x)]))'
    <3> SUFFICES ASSUME NEW x \in Callers, conn'[x] = "ok"
                 PROVE  (got[x] # None /\ (pc[x] # "subscribe" => got[x] = sid[CpOf(x)]))'
      OBVIOUS
    <3>1. CASE conn[x] = w
      <4>1. call[w].ok
        BY <3>1, <1>g
      <4>2. call[w].sid # None
        BY <4>1, <1>a DEF Starting
      <4> QED BY <3>1, <4>2, <1>b, <1>c, <1>e, <1>g
    <3>2. CASE conn[x] # w
      BY <3>2, <1>a, <1>b, <1>c, <1>e, <1>g DEF Calling
    <3> QED BY <3>1, <3>2
  <2> QED BY <1>a, <1>b, <1>c, <1>e, <2>1, <2>2, <2>3 DEF Calling
<1>6. Starting'
  <2>1. \A x \in Sids : (sub[x].cp = None => pc[x] = "idle")'
    <3> SUFFICES ASSUME NEW x \in Sids, sub[x].cp = None
                 PROVE  pc'[x] = "idle"
      BY <1>b
    <3>1. call[w].op = "subscribe" => x # call[w].sid
      <4>1. \A c \in Cps : c # None
        BY Apart DEF Threads, Callers
      <4> QED BY <4>1, <1>a, <1>d DEF Known, Calls
    <3> QED BY <3>1, <1>a, <1>d, <1>e DEF Starting
  <2>2. \A u \in Workers : pc'[u] = "respond" =>
           /\ u # w /\ pc[u] = "respond" /\ call'[u] = call[u]
           /\ call[u].sid \in Sids \cup {None}
    <3>1. \A u \in Workers : pc[u] = "respond" => call[u].sid \in Sids \cup {None}
      BY <1>a DEF Kinds, Calls
    <3> QED BY <3>1, <1>e, <1>f
  <2>3. \A u \in Workers : pc'[u] = "respond" /\ call[u].op = "subscribe" =>
           /\ call[u].sid \in Notifiers /\ pc[call[u].sid] = "idle" /\ call[u].sid # None
           /\ call[w].op = "subscribe" => call[u].sid # call[w].sid
    BY <1>a, <1>d, <2>2 DEF Starting
  <2>4. \A u \in Workers : (pc[u] = "respond" =>
          /\ call[u].op = "subscribe" => call[u].sid # None /\ pc[call[u].sid] = "idle"
          /\ call[u].ok => call[u].sid # None)'
    <3> SUFFICES ASSUME NEW u \in Workers, pc'[u] = "respond"
                 PROVE  /\ call'[u].op = "subscribe" =>
                              call'[u].sid # None /\ pc'[call'[u].sid] = "idle"
                        /\ call'[u].ok => call'[u].sid # None
      OBVIOUS
    <3>1. call'[u] = call[u] /\ pc[u] = "respond"
      BY <2>2
    <3>2. call[u].op = "subscribe" => call[u].sid # None /\ pc'[call[u].sid] = "idle"
      BY <2>3, <1>e
    <3> QED BY <3>1, <3>2, <1>a DEF Starting
  <2>5. \A u, x \in Workers :
          (/\ pc[u] = "respond" /\ call[u].op = "subscribe"
           /\ pc[x] = "respond" /\ call[x].op = "subscribe"
           /\ call[u].sid = call[x].sid)'
          => u = x
    BY <1>a, <2>2 DEF Starting
  <2> QED BY <2>1, <2>4, <2>5 DEF Starting
<1>7. Notifying'
  <2>1. answer \in Handlers => pc'[answer] # "idle" /\ msg'[answer] = msg[answer]
    BY <1>a, <1>b, <1>e DEF Notifying
  <2>2. \A t \in Notifiers :
           pc'[t] = pc[t] \/ {pc[t], pc'[t]} \cap {"loop", "posted"} = {}
    BY <1>e
  <2> QED BY <1>b, <2>1, <2>2, NotifyingFrame
<1>8. Stale'
  BY <1>b, <1>e, StaleFrame
<1>9. Finished'
  <2>1. \A x \in Callers : Cancelled(x)' => Cancelled(x)
    <3> SUFFICES ASSUME NEW x \in Callers, Cancelled(x)'
                 PROVE  Cancelled(x)
      OBVIOUS
    <3>1. CASE conn[x] = w
      BY <3>1, <1>a, <1>e, <1>g, <1>h DEF Cancelled
    <3>2. CASE conn[x] # w
      BY <3>2, <1>e, <1>f, <1>g DEF Cancelled
    <3> QED BY <3>1, <3>2
  <2> QED BY <1>a, <1>b, <1>c, <1>e, <2>1 DEF Finished
<1> QED BY <1>2, <1>3, <1>4, <1>5, <1>6, <1>7, <1>8, <1>9 DEF EInv

-----------------------------------------------------------------------------
(* The callers keep the invariant.                                         *)

\* What the steps of a caller have in common.
LEMMA CallerFrame ==
    ASSUME EInv, NEW r \in Callers, NEW l \in Labels, pc' = [pc EXCEPT ![r] = l],
           UNCHANGED <<subs, sub, svcLock, queue, target, answer, call, msg>>,
           r \in Handlers => pc[r] # "idle" /\ l # "idle"
    PROVE  /\ pc' \in [Threads -> Labels] /\ pc'[r] = l
           /\ \A u \in Callers : u # r => pc'[u] = pc[u]
           /\ \A u \in Workers : pc'[u] = pc[u]
           /\ \A u \in Notifiers : pc'[u] = pc[u]
           /\ \A u \in Handlers : pc'[u] = "idle" <=> pc[u] = "idle"
           /\ \A u \in Callers : CpOf(u)' = CpOf(u)
           /\ Starting' /\ Notifying' /\ Stale'
<1>1. r \in Threads /\ TypeOK
  BY DEF EInv, Threads
<1>2. pc' \in [Threads -> Labels] /\ pc'[r] = l /\ \A u \in Threads \ {r} : pc'[u] = pc[u]
  BY <1>1, GotoFact
<1>3. /\ \A u \in Callers : u # r => pc'[u] = pc[u]
      /\ \A u \in Workers : pc'[u] = pc[u]
      /\ \A u \in Notifiers : pc'[u] = pc[u]
  BY <1>2, Apart DEF Threads
<1>4. \A u \in Handlers : pc'[u] = "idle" <=> pc[u] = "idle"
  BY <1>2, <1>3 DEF Callers
<1>5. \A u \in Callers : CpOf(u)' = CpOf(u)
  BY DEF CpOf
<1>6. \A u \in Sids : pc'[u] = pc[u]
  BY <1>3 DEF Notifiers
<1>7. Starting'
  <2>1. \A u \in Workers : pc[u] = "respond" => call[u].sid \in Sids \cup {None}
    BY DEF EInv, Kinds, Calls
  <2> QED BY <1>3, <1>6, <2>1 DEF EInv, Starting
<1>8. Notifying'
  <2>1. answer \in Handlers => pc'[answer] # "idle" /\ msg'[answer] = msg[answer]
    BY <1>4 DEF EInv, Notifying
  <2> QED BY <1>3, <2>1, NotifyingFrame
<1>9. Stale'
  BY <1>4, StaleFrame
<1> QED BY <1>2, <1>3, <1>4, <1>5, <1>7, <1>8, <1>9

\* The lock of a control point has one holder among those who call with it.
LEMMA OneCaller ==
    ASSUME EInv, NEW r \in Callers, cpLock[CpOf(r)] = None \/ pc[r] \in Busy
    PROVE  \A x \in Callers : x # r /\ pc[x] \in Busy => CpOf(x) # CpOf(r)
<1>1. \A x \in Callers : x # None
  BY Apart DEF Threads
<1> QED BY <1>1 DEF EInv, Calling

\* A request is posted with the control point's lock.
LEMMA PostStep ==
    ASSUME EInv, build' = build, NEW r \in Callers, NEW op \in Busy,
           pc[r] \notin Busy, cpLock[CpOf(r)] = None,
           r \in Handlers => pc[r] # "idle" /\ op # "renew",
           op = "subscribe" => sid[CpOf(r)] = None,
           Post(r, op),
           UNCHANGED <<pubVars, got, call, sid, table, heard, msg, fault>>
    PROVE  EInv'
<1>a. TypeOK /\ Kinds /\ Known /\ Calling /\ Finished /\ CpOf(r) \in Cps /\ op \in Labels
  BY CpOfFact DEF EInv, Busy, Labels
<1>b. UNCHANGED <<value, subs, sub, svcLock, queue, target, answer, got, call, sid, table,
                  heard, msg, fault, build>>
  BY DEF pubVars
<1>c. /\ pc' \in [Threads -> Labels] /\ pc'[r] = op
      /\ \A u \in Callers : u # r => pc'[u] = pc[u]
      /\ \A u \in Workers : pc'[u] = pc[u]
      /\ \A u \in Notifiers : pc'[u] = pc[u]
      /\ \A u \in Handlers : pc'[u] = "idle" <=> pc[u] = "idle"
      /\ \A u \in Callers : CpOf(u)' = CpOf(u)
      /\ Starting' /\ Notifying' /\ Stale'
  BY <1>a, <1>b, CallerFrame DEF Post, Goto, Busy
<1>d. /\ conn'[r] \in {"failed", "queued"}
      /\ \A u \in Callers : u # r => conn'[u] = conn[u]
      /\ conn' \in [Callers -> Workers \cup {"queued", "ok", "failed", None}]
      /\ cpLock'[CpOf(r)] = r
      /\ \A c \in Cps : c # CpOf(r) => cpLock'[c] = cpLock[c]
      /\ cpLock' \in [Cps -> Callers \cup {None}]
  BY <1>a DEF TypeOK, Post
<1>e. got[r] = None
  BY <1>a DEF Calling
<1>f. \A x \in Callers : x # r /\ pc[x] \in Busy => CpOf(x) # CpOf(r) /\ CpOf(x) \in Cps
  BY OneCaller, CpOfFact DEF Busy
<1>g. \A u \in Workers : u # "failed" /\ u # "queued"
  BY Apart
<1>2. TypeOK'
  <2>1. posted' \in 0 .. MaxSid
    BY <1>a, BoundsAssumption DEF TypeOK, Post
  <2>2. key' \in [Cps -> Seqs]
    <3>1. 0 \in Seqs
      BY BoundsAssumption DEF Seqs
    <3> QED BY <1>a, <3>1 DEF TypeOK, Post
  <2> QED BY <1>a, <1>b, <1>c, <1>d, <2>1, <2>2, TypeFrame
<1>3. Kinds'
  <2>1. \A c \in Cps : c \in Callers /\ (c = r => c \notin Handlers)
    BY Apart DEF Callers
  <2>2. \A c \in Cps : pc'[c] \in {"idle"} \cup Busy
    BY <1>a, <1>c, <2>1 DEF Kinds
  <2>3. \A h \in Handlers :
           pc'[h] \in {"idle", "received", "tell", "reply", "subscribe", "unsubscribe"}
    BY <1>a, <1>c DEF Kinds, Callers, Busy
  <2>4. \A h \in Handlers : IF pc'[h] = "idle" THEN msg[h] = NoMsg ELSE msg[h] \in Messages
    BY <1>a, <1>c DEF Kinds
  <2> QED BY <1>a, <1>b, <1>c, <2>2, <2>3, <2>4 DEF Kinds
<1>4. Known'
  <2>1. \A x \in Callers : pc'[x] \in Busy /\ got[x] # None => sub[got[x]].cp = CpOf(x)
    BY <1>a, <1>c, <1>e DEF Known
  <2> QED BY <1>a, <1>b, <1>c, <2>1 DEF Known
<1>5. Calling'
  <2>1. \A x \in Callers :
          (IF pc[x] \in Busy THEN cpLock[CpOf(x)] = x ELSE conn[x] = None /\ got[x] = None)'
    BY <1>a, <1>b, <1>c, <1>d, <1>f DEF Calling
  <2>2. \A x \in Callers : (pc[x] = "subscribe" => sid[CpOf(x)] = None)'
    BY <1>a, <1>b, <1>c DEF Calling
  <2>3. \A x \in Callers, u \in Workers : (conn[x] = u =>
          /\ pc[u] # "idle" /\ call[u].from = x /\ call[u].op = pc[x]
          /\ call[u].cp = CpOf(x)
          /\ pc[x] # "subscribe" => call[u].sid = sid[CpOf(x)])'
    BY <1>a, <1>b, <1>c, <1>d, <1>g DEF Calling
  <2>4. \A x \in Callers : (conn[x] = "ok" =>
          got[x] # None /\ (pc[x] # "subscribe" => got[x] = sid[CpOf(x)]))'
    BY <1>a, <1>b, <1>c, <1>d DEF Calling
  <2> QED BY <2>1, <2>2, <2>3, <2>4 DEF Calling
<1>6. Finished'
  <2>1. \A x \in Callers : Cancelled(x)' => Cancelled(x)
    <3> SUFFICES ASSUME NEW x \in Callers, Cancelled(x)'
                 PROVE  Cancelled(x)
      OBVIOUS
    <3>1. x # r
      BY <1>d, <1>g DEF Cancelled
    <3> QED BY <3>1, <1>b, <1>c, <1>d DEF Cancelled
  <2> QED BY <1>a, <1>b, <1>c, <2>1 DEF Finished
<1> QED BY <1>2, <1>3, <1>4, <1>5, <1>6, <1>c DEF EInv

\* The answer is taken, and the lock is given back.
LEMMA DoneStep ==
    ASSUME EInv, build' = build, NEW r \in Callers, NEW l \in {"idle", "reply"},
           pc[r] \in Busy, l = "reply" <=> r \in Handlers,
           pc' = [pc EXCEPT ![r] = l],
           sid' = [sid EXCEPT ![CpOf(r)] = SidAfter(r)],
           conn' = [conn EXCEPT ![r] = None], got' = [got EXCEPT ![r] = None],
           cpLock' = [cpLock EXCEPT ![CpOf(r)] = None],
           UNCHANGED <<pubVars, posted, call, key, table, heard, msg, fault>>
    PROVE  EInv'
<1>a. TypeOK /\ Kinds /\ Known /\ Calling /\ Finished /\ CpOf(r) \in Cps /\ l \in Labels
  BY CpOfFact DEF EInv, Busy, Labels
<1>b. UNCHANGED <<value, subs, sub, svcLock, queue, target, answer, posted, call, key, table,
                  heard, msg, fault, build>>
  BY DEF pubVars
<1>c. /\ pc' \in [Threads -> Labels] /\ pc'[r] = l
      /\ \A u \in Callers : u # r => pc'[u] = pc[u]
      /\ \A u \in Workers : pc'[u] = pc[u]
      /\ \A u \in Notifiers : pc'[u] = pc[u]
      /\ \A u \in Handlers : pc'[u] = "idle" <=> pc[u] = "idle"
      /\ \A u \in Callers : CpOf(u)' = CpOf(u)
      /\ Starting' /\ Notifying' /\ Stale'
  BY <1>a, <1>b, CallerFrame DEF Busy
<1>d. /\ conn'[r] = None /\ \A u \in Callers : u # r => conn'[u] = conn[u]
      /\ conn' \in [Callers -> Workers \cup {"queued", "ok", "failed", None}]
      /\ got'[r] = None /\ \A u \in Callers : u # r => got'[u] = got[u]
      /\ got' \in [Callers -> Sids \cup {None}]
      /\ \A c \in Cps : c # CpOf(r) => cpLock'[c] = cpLock[c] /\ sid'[c] = sid[c]
      /\ cpLock' \in [Cps -> Callers \cup {None}]
      /\ sid'[CpOf(r)] = SidAfter(r)
  BY <1>a DEF TypeOK
<1>e. \A x \in Callers : x # r /\ pc[x] \in Busy => CpOf(x) # CpOf(r) /\ CpOf(x) \in Cps
  BY OneCaller, CpOfFact DEF Busy
<1>f. \A u \in Workers : u # None
  BY Apart DEF Threads
<1>g. pc'[r] \notin Busy
  BY <1>c DEF Busy
<1>h. SidAfter(r) \in Sids \cup {None} /\ (SidAfter(r) # None => sub[SidAfter(r)].cp = CpOf(r))
  BY <1>a DEF SidAfter, Known, TypeOK
<1>2. TypeOK'
  <2>1. sid' \in [Cps -> Sids \cup {None}]
    BY <1>a, <1>h DEF TypeOK
  <2> QED BY <1>a, <1>b, <1>c, <1>d, <2>1, TypeFrame
<1>3. Kinds'
  <2>1. \A c \in Cps : c \in Callers /\ (c = r => c \notin Handlers)
    BY Apart DEF Callers
  <2>2. \A c \in Cps : pc'[c] \in {"idle"} \cup Busy
    BY <1>a, <1>c, <2>1 DEF Kinds
  <2>3. \A h \in Handlers :
           pc'[h] \in {"idle", "received", "tell", "reply", "subscribe", "unsubscribe"}
    BY <1>a, <1>c DEF Kinds, Callers
  <2>4. \A h \in Handlers : IF pc'[h] = "idle" THEN msg[h] = NoMsg ELSE msg[h] \in Messages
    BY <1>a, <1>c DEF Kinds
  <2> QED BY <1>a, <1>b, <1>c, <2>2, <2>3, <2>4 DEF Kinds
<1>4. Known'
  <2>1. \A c \in Cps : sid'[c] # None => sub[sid'[c]].cp = c
    BY <1>a, <1>d, <1>h DEF Known
  <2>2. \A x \in Callers : pc'[x] \in Busy /\ got'[x] # None => sub[got'[x]].cp = CpOf(x)
    BY <1>a, <1>c, <1>d DEF Known
  <2> QED BY <1>a, <1>b, <1>c, <2>1, <2>2 DEF Known
<1>5. Calling'
  <2>1. \A x \in Callers :
          (IF pc[x] \in Busy THEN cpLock[CpOf(x)] = x ELSE conn[x] = None /\ got[x] = None)'
    <3> SUFFICES ASSUME NEW x \in Callers
                 PROVE  (IF pc[x] \in Busy THEN cpLock[CpOf(x)] = x
                                           ELSE conn[x] = None /\ got[x] = None)'
      OBVIOUS
    <3>1. CASE x = r
      BY <3>1, <1>d, <1>g
    <3>2. CASE x # r
      BY <3>2, <1>a, <1>c, <1>d, <1>e DEF Calling
    <3> QED BY <3>1, <3>2
  <2>2. \A x \in Callers : (pc[x] = "subscribe" => sid[CpOf(x)] = None)'
    BY <1>a, <1>c, <1>d, <1>e, <1>g DEF Calling, Busy
  <2>3. \A x \in Callers, u \in Workers : (conn[x] = u =>
          /\ pc[u] # "idle" /\ call[u].from = x /\ call[u].op = pc[x]
          /\ call[u].cp = CpOf(x)
          /\ pc[x] # "subscribe" => call[u].sid = sid[CpOf(x)])'
    <3> SUFFICES ASSUME NEW x \in Callers, NEW u \in Workers, conn'[x] = u
                 PROVE  (/\ pc[u] # "idle" /\ call[u].from = x /\ call[u].op = pc[x]
                         /\ call[u].cp = CpOf(x)
                         /\ pc[x] # "subscribe" => call[u].sid = sid[CpOf(x)])'
      OBVIOUS
    <3>1. x # r /\ conn[x] = u
      BY <1>d, <1>f
    <3>2. pc[x] \in Busy
      BY <3>1, <1>a, <1>f DEF Calling
    <3> QED BY <3>1, <3>2, <1>a, <1>b, <1>c, <1>d, <1>e DEF Calling
  <2>4. \A x \in Callers : (conn[x] = "ok" =>
          got[x] # None /\ (pc[x] # "subscribe" => got[x] = sid[CpOf(x)]))'
    <3> SUFFICES ASSUME NEW x \in Callers, conn'[x] = "ok"
                 PROVE  (got[x] # None /\ (pc[x] # "subscribe" => got[x] = sid[CpOf(x)]))'
      OBVIOUS
    <3>1. x # r /\ conn[x] = "ok"
      BY <1>d, Apart
    <3>2. pc[x] \in Busy
      BY <3>1, <1>a, Apart DEF Calling
    <3> QED BY <3>1, <3>2, <1>a, <1>c, <1>d, <1>e DEF Calling
  <2> QED BY <2>1, <2>2, <2>3, <2>4 DEF Calling
<1>6. Finished'
  <2>1. \A x \in Callers : Cancelled(x)' =>
           Cancelled(x) /\ CpOf(x) # CpOf(r) /\ CpOf(x) \in Cps
    <3> SUFFICES ASSUME NEW x \in Callers, Cancelled(x)'
                 PROVE  Cancelled(x) /\ CpOf(x) # CpOf(r) /\ CpOf(x) \in Cps
      OBVIOUS
    <3>1. x # r
      BY <1>g DEF Cancelled, Busy
    <3>2. Cancelled(x) /\ pc[x] \in Busy
      BY <3>1, <1>b, <1>c, <1>d DEF Cancelled, Busy
    <3> QED BY <3>1, <3>2, <1>e
  <2> QED BY <1>a, <1>b, <1>c, <1>d, <2>1 DEF Finished
<1> QED BY <1>2, <1>3, <1>4, <1>5, <1>6, <1>c DEF EInv

\* The application calls.
LEMMA AppCallStep ==
    ASSUME EInv, build' = build, NEW c \in Cps, NEW op \in Busy, AppCall(c, op)
    PROVE  EInv'
<1>1. c \in Callers /\ CpOf(c) = c /\ c \notin Handlers
  BY Apart DEF Callers, CpOf
<1>2. /\ pc[c] \notin Busy /\ cpLock[CpOf(c)] = None
      /\ op = "subscribe" => sid[CpOf(c)] = None
      /\ Post(c, op)
      /\ UNCHANGED <<pubVars, got, call, sid, table, heard, msg, fault>>
  BY <1>1 DEF AppCall, Busy
<1> QED BY <1>1, <1>2, PostStep

\* The application's call returns.
LEMMA AppDoneStep ==
    ASSUME EInv, build' = build, NEW c \in Cps, AppDone(c)
    PROVE  EInv'
<1>1. c \in Callers /\ CpOf(c) = c /\ c \notin Handlers
  BY Apart DEF Callers, CpOf
<1> QED BY <1>1, DoneStep DEF AppDone, Goto, Busy

\* A gap: the handler begins with UNSUBSCRIBE ...
LEMMA HandleGapStep ==
    ASSUME EInv, build' = build, NEW h \in Handlers, HandleGap(h)
    PROVE  EInv'
<1>1. h \in Callers /\ CpOf(h) = msg[h].cp
  BY Apart DEF Callers, CpOf
<1>2. /\ pc[h] \notin Busy /\ pc[h] # "idle" /\ cpLock[CpOf(h)] = None
      /\ Post(h, "unsubscribe")
      /\ UNCHANGED <<pubVars, got, call, sid, table, heard, msg, fault>>
  BY <1>1 DEF HandleGap, HandlerLocks, Busy
<1> QED BY <1>1, <1>2, PostStep DEF Busy

\* ... and ends with the answer to SUBSCRIBE.
LEMMA GapSubscribedStep ==
    ASSUME EInv, build' = build, NEW h \in Handlers, GapSubscribed(h)
    PROVE  EInv'
<1>1. h \in Callers
  BY DEF Callers
<1> QED BY <1>1, DoneStep DEF GapSubscribed, Goto, Busy

\* A request is refused or given up: it has failed.
LEMMA FailStep ==
    ASSUME EInv, build' = build, NEW r \in Callers,
           conn[r] = "queued" \/ conn[r] \in Workers,
           conn' = [conn EXCEPT ![r] = "failed"],
           UNCHANGED <<pc, pubVars, posted, got, call, cpVars, fault>>
    PROVE  EInv'
<1>a. TypeOK /\ Calling /\ Finished
  BY DEF EInv
<1>b. UNCHANGED <<pc, value, subs, sub, svcLock, queue, target, answer, posted, got, call,
                  cpLock, sid, key, table, heard, msg, fault, build>>
  BY DEF pubVars, cpVars
<1>c. /\ conn'[r] = "failed" /\ \A u \in Callers : u # r => conn'[u] = conn[u]
      /\ conn' \in [Callers -> Workers \cup {"queued", "ok", "failed", None}]
  BY <1>a DEF TypeOK
<1>d. \A x \in Callers : CpOf(x)' = CpOf(x)
  BY <1>b DEF CpOf
<1>e. (\A u \in Workers : u # "failed" /\ u # None) /\ None # "queued"
  BY Apart DEF Threads
<1>f. pc[r] \in Busy
  BY <1>a, <1>e DEF Calling
<1>1. TypeOK'
  BY <1>a, <1>b, <1>c, TypeFrame
<1>2. Kinds' /\ Known' /\ Starting'
  BY <1>b, <1>d DEF EInv, Kinds, Known, Starting
<1>3. Calling'
  <2>1. \A x \in Callers :
          (IF pc[x] \in Busy THEN cpLock[CpOf(x)] = x ELSE conn[x] = None /\ got[x] = None)'
    BY <1>a, <1>b, <1>c, <1>d, <1>f DEF Calling
  <2>2. \A x \in Callers, u \in Workers : (conn[x] = u =>
          /\ pc[u] # "idle" /\ call[u].from = x /\ call[u].op = pc[x]
          /\ call[u].cp = CpOf(x)
          /\ pc[x] # "subscribe" => call[u].sid = sid[CpOf(x)])'
    BY <1>a, <1>b, <1>c, <1>d, <1>e DEF Calling
  <2>3. \A x \in Callers : (conn[x] = "ok" =>
          got[x] # None /\ (pc[x] # "subscribe" => got[x] = sid[CpOf(x)]))'
    BY <1>a, <1>b, <1>c, <1>d DEF Calling
  <2> QED BY <1>a, <1>b, <1>d, <2>1, <2>2, <2>3 DEF Calling
<1>4. Notifying' /\ Stale'
  BY <1>b DEF EInv, Notifying, Stale
<1>5. Finished'
  <2>1. \A x \in Callers : Cancelled(x)' => Cancelled(x)
    BY <1>b, <1>c, <1>e DEF Cancelled
  <2> QED BY <1>a, <1>b, <1>d, <2>1 DEF Finished
<1> QED BY <1>1, <1>2, <1>3, <1>4, <1>5 DEF EInv

\* The answer to the handler's UNSUBSCRIBE: it goes on with SUBSCRIBE.
LEMMA GapUnsubscribedStep ==
    ASSUME EInv, build' = build, NEW h \in Handlers, GapUnsubscribed(h)
    PROVE  EInv'
<1>a. /\ TypeOK /\ Kinds /\ Known /\ Calling /\ Finished
      /\ h \in Callers /\ pc[h] = "unsubscribe" /\ CpOf(h) \in Cps
  BY CpOfFact DEF EInv, Callers, GapUnsubscribed
<1>b. UNCHANGED <<value, subs, sub, svcLock, queue, target, answer, call, table,
                  heard, msg, fault, build>>
  BY DEF pubVars, GapUnsubscribed
<1>c. /\ pc' \in [Threads -> Labels] /\ pc'[h] = "subscribe"
      /\ \A u \in Callers : u # h => pc'[u] = pc[u]
      /\ \A u \in Workers : pc'[u] = pc[u]
      /\ \A u \in Notifiers : pc'[u] = pc[u]
      /\ \A u \in Handlers : pc'[u] = "idle" <=> pc[u] = "idle"
      /\ \A u \in Callers : CpOf(u)' = CpOf(u)
      /\ Starting' /\ Notifying' /\ Stale'
  BY <1>a, <1>b, CallerFrame DEF GapUnsubscribed, Post, Goto, Labels
<1>d. /\ conn'[h] \in {"failed", "queued"}
      /\ \A u \in Callers : u # h => conn'[u] = conn[u]
      /\ conn' \in [Callers -> Workers \cup {"queued", "ok", "failed", None}]
      /\ cpLock'[CpOf(h)] = h
      /\ \A c \in Cps : c # CpOf(h) => cpLock'[c] = cpLock[c]
      /\ cpLock' \in [Cps -> Callers \cup {None}]
  BY <1>a DEF TypeOK, GapUnsubscribed, Post
<1>e. /\ got'[h] = None /\ \A u \in Callers : u # h => got'[u] = got[u]
      /\ got' \in [Callers -> Sids \cup {None}]
      /\ sid'[CpOf(h)] = None
      /\ \A c \in Cps : c # CpOf(h) => sid'[c] = sid[c]
      /\ sid' \in [Cps -> Sids \cup {None}]
  <2>1. SidAfter(h) = None
    BY <1>a DEF SidAfter
  <2> QED BY <1>a, <2>1 DEF TypeOK, GapUnsubscribed
<1>f. \A x \in Callers : x # h /\ pc[x] \in Busy => CpOf(x) # CpOf(h) /\ CpOf(x) \in Cps
  BY <1>a, OneCaller, CpOfFact DEF Busy
<1>g. \A u \in Workers : u # "failed" /\ u # "queued" /\ u # None
  BY Apart DEF Threads
<1>2. TypeOK'
  <2>1. posted' \in 0 .. MaxSid
    BY <1>a, BoundsAssumption DEF TypeOK, Post, GapUnsubscribed
  <2>2. key' \in [Cps -> Seqs]
    <3>1. 0 \in Seqs
      BY BoundsAssumption DEF Seqs
    <3> QED BY <1>a, <3>1 DEF TypeOK, Post, GapUnsubscribed
  <2> QED BY <1>a, <1>b, <1>c, <1>d, <1>e, <2>1, <2>2, TypeFrame
<1>3. Kinds'
  <2>1. \A c \in Cps : c \in Callers /\ c # h
    BY Apart DEF Callers
  <2>2. \A c \in Cps : pc'[c] \in {"idle"} \cup Busy
    BY <1>a, <1>c, <2>1 DEF Kinds
  <2>3. \A u \in Handlers :
           pc'[u] \in {"idle", "received", "tell", "reply", "subscribe", "unsubscribe"}
    BY <1>a, <1>c DEF Kinds, Callers
  <2>4. \A u \in Handlers : IF pc'[u] = "idle" THEN msg[u] = NoMsg ELSE msg[u] \in Messages
    BY <1>a, <1>c DEF Kinds
  <2> QED BY <1>a, <1>b, <1>c, <2>2, <2>3, <2>4 DEF Kinds
<1>4. Known'
  <2>1. \A x \in Callers : pc'[x] \in Busy /\ got'[x] # None => sub[got'[x]].cp = CpOf(x)
    BY <1>a, <1>c, <1>e DEF Known
  <2>2. \A c \in Cps : sid'[c] # None => sub[sid'[c]].cp = c
    BY <1>a, <1>e DEF Known
  <2> QED BY <1>a, <1>b, <1>c, <2>1, <2>2 DEF Known
<1>5. Calling'
  <2>1. \A x \in Callers :
          (IF pc[x] \in Busy THEN cpLock[CpOf(x)] = x ELSE conn[x] = None /\ got[x] = None)'
    BY <1>a, <1>c, <1>d, <1>e, <1>f DEF Calling, Busy
  <2>2. \A x \in Callers : (pc[x] = "subscribe" => sid[CpOf(x)] = None)'
    BY <1>a, <1>c, <1>e, <1>f DEF Calling, Busy
  <2>3. \A x \in Callers, u \in Workers : (conn[x] = u =>
          /\ pc[u] # "idle" /\ call[u].from = x /\ call[u].op = pc[x]
          /\ call[u].cp = CpOf(x)
          /\ pc[x] # "subscribe" => call[u].sid = sid[CpOf(x)])'
    <3> SUFFICES ASSUME NEW x \in Callers, NEW u \in Workers, conn'[x] = u
                 PROVE  (/\ pc[u] # "idle" /\ call[u].from = x /\ call[u].op = pc[x]
                         /\ call[u].cp = CpOf(x)
                         /\ pc[x] # "subscribe" => call[u].sid = sid[CpOf(x)])'
      OBVIOUS
    <3>1. x # h /\ conn[x] = u
      BY <1>d, <1>g
    <3>2. pc[x] \in Busy
      BY <3>1, <1>a, <1>g DEF Calling
    <3> QED BY <3>1, <3>2, <1>a, <1>b, <1>c, <1>e, <1>f DEF Calling
  <2>4. \A x \in Callers : (conn[x] = "ok" =>
          got[x] # None /\ (pc[x] # "subscribe" => got[x] = sid[CpOf(x)]))'
    <3> SUFFICES ASSUME NEW x \in Callers, conn'[x] = "ok"
                 PROVE  (got[x] # None /\ (pc[x] # "subscribe" => got[x] = sid[CpOf(x)]))'
      OBVIOUS
    <3>1. x # h /\ conn[x] = "ok"
      BY <1>d
    <3>2. pc[x] \in Busy
      BY <3>1, <1>a, Apart DEF Calling
    <3> QED BY <3>1, <3>2, <1>a, <1>c, <1>e, <1>f DEF Calling
  <2> QED BY <2>1, <2>2, <2>3, <2>4 DEF Calling
<1>6. Finished'
  <2>1. \A x \in Callers : Cancelled(x)' =>
           Cancelled(x) /\ CpOf(x) # CpOf(h) /\ CpOf(x) \in Cps
    <3> SUFFICES ASSUME NEW x \in Callers, Cancelled(x)'
                 PROVE  Cancelled(x) /\ CpOf(x) # CpOf(h) /\ CpOf(x) \in Cps
      OBVIOUS
    <3>1. x # h
      BY <1>c DEF Cancelled
    <3>2. Cancelled(x) /\ pc[x] \in Busy
      BY <3>1, <1>b, <1>c, <1>d DEF Cancelled, Busy
    <3> QED BY <3>1, <3>2, <1>f
  <2> QED BY <1>a, <1>b, <1>c, <1>e, <2>1 DEF Finished
<1> QED BY <1>2, <1>3, <1>4, <1>5, <1>6, <1>c DEF EInv

-----------------------------------------------------------------------------
(* The NOTIFY handlers keep the invariant.                                 *)

\* A handler that works on its event, and keeps it.
LEMMA HandlerFrame ==
    ASSUME EInv, build' = build, NEW h \in Handlers, NEW l \in {"tell", "reply"},
           pc[h] \in {"received", "tell"}, pc' = [pc EXCEPT ![h] = l],
           UNCHANGED <<pubVars, reqVars, cpLock, sid, msg, fault>>,
           key' \in [Cps -> Seqs], table' \in [Cps -> Values], heard' \in [Cps -> Values]
    PROVE  EInv'
<1>a. /\ TypeOK /\ Kinds /\ Known /\ Calling /\ Finished
      /\ h \in Callers /\ l \in Labels /\ l # "idle" /\ l \notin Busy /\ pc[h] \notin Busy
  BY DEF EInv, Callers, Labels, Busy
<1>b. UNCHANGED <<value, subs, sub, svcLock, queue, target, answer, posted, conn, got, call,
                  cpLock, sid, msg, fault, build>>
  BY DEF pubVars, reqVars
<1>c. /\ pc' \in [Threads -> Labels] /\ pc'[h] = l
      /\ \A u \in Callers : u # h => pc'[u] = pc[u]
      /\ \A u \in Workers : pc'[u] = pc[u]
      /\ \A u \in Notifiers : pc'[u] = pc[u]
      /\ \A u \in Handlers : pc'[u] = "idle" <=> pc[u] = "idle"
      /\ \A u \in Callers : CpOf(u)' = CpOf(u)
      /\ Starting' /\ Notifying' /\ Stale'
  BY <1>a, <1>b, CallerFrame
<1>d. conn[h] = None
  BY <1>a DEF Calling
<1>1. TypeOK'
  BY <1>a, <1>b, <1>c, TypeFrame
<1>2. Kinds'
  <2>1. \A c \in Cps : c \in Callers /\ c # h
    BY Apart DEF Callers
  <2>2. \A u \in Handlers :
           pc'[u] \in {"idle", "received", "tell", "reply", "subscribe", "unsubscribe"}
    BY <1>a, <1>c DEF Kinds, Callers
  <2>3. \A u \in Handlers : IF pc'[u] = "idle" THEN msg[u] = NoMsg ELSE msg[u] \in Messages
    BY <1>a, <1>c DEF Kinds
  <2> QED BY <1>a, <1>b, <1>c, <2>1, <2>2, <2>3 DEF Kinds
<1>3. Known'
  <2>1. \A x \in Callers : pc'[x] \in Busy /\ got[x] # None => sub[got[x]].cp = CpOf(x)
    BY <1>a, <1>c DEF Known
  <2> QED BY <1>a, <1>b, <1>c, <2>1 DEF Known
<1>4. Calling'
  <2>1. \A x \in Callers :
          (IF pc[x] \in Busy THEN cpLock[CpOf(x)] = x ELSE conn[x] = None /\ got[x] = None)'
    BY <1>a, <1>b, <1>c DEF Calling
  <2>2. \A x \in Callers : (pc[x] = "subscribe" => sid[CpOf(x)] = None)'
    BY <1>a, <1>b, <1>c DEF Calling, Busy
  <2>3. \A x \in Callers, u \in Workers : conn[x] = u => x # h
    BY <1>d, Apart DEF Threads
  <2>4. \A x \in Callers, u \in Workers : (conn[x] = u =>
          /\ pc[u] # "idle" /\ call[u].from = x /\ call[u].op = pc[x]
          /\ call[u].cp = CpOf(x)
          /\ pc[x] # "subscribe" => call[u].sid = sid[CpOf(x)])'
    BY <1>a, <1>b, <1>c, <2>3 DEF Calling
  <2>5. \A x \in Callers : conn[x] = "ok" => x # h
    BY <1>d, Apart
  <2>6. \A x \in Callers : (conn[x] = "ok" =>
          got[x] # None /\ (pc[x] # "subscribe" => got[x] = sid[CpOf(x)]))'
    BY <1>a, <1>b, <1>c, <2>5 DEF Calling
  <2> QED BY <2>1, <2>2, <2>4, <2>6 DEF Calling
<1>5. Finished'
  <2>1. \A x \in Callers : Cancelled(x)' => Cancelled(x)
    BY <1>a, <1>b, <1>c DEF Cancelled, Busy
  <2> QED BY <1>a, <1>b, <1>c, <2>1 DEF Finished
<1> QED BY <1>1, <1>2, <1>3, <1>4, <1>5, <1>c DEF EInv

\* The event of another subscription is dropped.
LEMMA HandleUnknownStep ==
    ASSUME EInv, build' = build, NEW h \in Handlers, HandleUnknown(h)
    PROVE  EInv'
<1>1. UNCHANGED <<cpLock, sid, key, table, heard, msg>> /\ TypeOK
  BY DEF HandleUnknown, cpVars, EInv
<1> QED BY <1>1, HandlerFrame DEF HandleUnknown, HandlerLocks, Goto, TypeOK

\* An event in sequence is entered.
LEMMA HandleEventStep ==
    ASSUME EInv, build' = build, NEW h \in Handlers, HandleEvent(h)
    PROVE  EInv'
<1>a. TypeOK /\ pc[h] = "received" /\ msg[h] \in Messages /\ build \in Builds
  BY DEF EInv, HandleEvent, HandlerLocks, Kinds, TypeOK
<1>1. msg[h].seq \in Seqs /\ msg[h].val \in Values
  BY <1>a DEF Messages
<1>2. Wrapped(msg[h].seq) \in Seqs
  BY <1>1, BoundsAssumption DEF Wrapped, Seqs
<1>3. key' \in [Cps -> Seqs] /\ table' \in [Cps -> Values] /\ heard' \in [Cps -> Values]
  BY <1>a, <1>1, <1>2 DEF TypeOK, HandleEvent
<1> QED BY <1>a, <1>3, HandlerFrame DEF HandleEvent, Goto

\* The listeners are told.
LEMMA HandlerTellStep ==
    ASSUME EInv, build' = build, NEW h \in Handlers, HandlerTell(h)
    PROVE  EInv'
<1>a. TypeOK /\ pc[h] = "tell" /\ msg[h] \in Messages
  BY DEF EInv, HandlerTell, Kinds
<1>1. key' \in [Cps -> Seqs] /\ table' \in [Cps -> Values] /\ heard' \in [Cps -> Values]
  BY <1>a DEF TypeOK, HandlerTell, Messages
<1> QED BY <1>a, <1>1, HandlerFrame DEF HandlerTell, Goto

\* The event is acknowledged.
LEMMA HandlerReplyStep ==
    ASSUME EInv, build' = build, NEW h \in Handlers, HandlerReply(h)
    PROVE  EInv'
<1>a. /\ TypeOK /\ Kinds /\ Known /\ Calling /\ Starting /\ Notifying /\ Stale /\ Finished
      /\ h \in Callers /\ h \in Threads /\ pc[h] = "reply" /\ "idle" \in Labels
  BY DEF EInv, Callers, Threads, Labels, HandlerReply
<1>b. UNCHANGED <<value, subs, sub, svcLock, queue, target, posted, conn, got, call, cpLock,
                  sid, key, table, heard, fault, build>>
  BY DEF HandlerReply, reqVars
<1>c. pc' \in [Threads -> Labels] /\ pc'[h] = "idle" /\ \A u \in Threads \ {h} : pc'[u] = pc[u]
  BY <1>a, GotoFact DEF HandlerReply, Goto
<1>d. /\ \A u \in Callers : u # h => pc'[u] = pc[u]
      /\ \A u \in Workers : pc'[u] = pc[u]
      /\ \A u \in Notifiers : pc'[u] = pc[u]
      /\ \A u \in Sids : pc'[u] = pc[u]
      /\ \A u \in Cps : pc'[u] = pc[u]
      /\ \A u \in Handlers : u # h => pc'[u] = pc[u]
  BY <1>c, Apart DEF Threads, Callers, Notifiers
<1>e. /\ msg'[h] = NoMsg /\ \A u \in Handlers : u # h => msg'[u] = msg[u]
      /\ msg' \in [Handlers -> Messages \cup {NoMsg}]
      /\ answer' = IF answer = h THEN "ok" ELSE answer
  BY <1>a DEF TypeOK, HandlerReply
<1>f. \A x \in Callers : x # h => CpOf(x)' = CpOf(x)
  BY <1>e DEF CpOf, Callers
<1>g. conn[h] = None /\ got[h] = None
  BY <1>a DEF Calling, Busy
<1>1. TypeOK'
  <2>1. answer' \in Handlers \cup {"ok", None}
    BY <1>a, <1>e DEF TypeOK
  <2> QED BY <1>a, <1>b, <1>c, <1>e, <2>1, TypeFrame
<1>2. Kinds'
  BY <1>a, <1>b, <1>c, <1>d, <1>e DEF Kinds
<1>3. Known'
  <2>1. \A x \in Callers : pc'[x] \in Busy => x # h /\ pc[x] \in Busy
    BY <1>c, <1>d DEF Busy
  <2>2. \A x \in Handlers : pc'[x] # "idle" => x # h /\ pc[x] # "idle" /\ msg'[x] = msg[x]
    BY <1>c, <1>d, <1>e
  <2> QED BY <1>a, <1>b, <1>d, <1>f, <2>1, <2>2 DEF Known
<1>4. Calling'
  <2>1. \A x \in Callers :
          (IF pc[x] \in Busy THEN cpLock[CpOf(x)] = x ELSE conn[x] = None /\ got[x] = None)'
    BY <1>a, <1>b, <1>c, <1>d, <1>f, <1>g DEF Calling, Busy
  <2>2. \A x \in Callers : (pc[x] = "subscribe" => sid[CpOf(x)] = None)'
    BY <1>a, <1>b, <1>c, <1>d, <1>f DEF Calling
  <2>3. \A x \in Callers, u \in Workers : conn[x] = u => x # h
    BY <1>g, Apart DEF Threads
  <2>4. \A x \in Callers, u \in Workers : (conn[x] = u =>
          /\ pc[u] # "idle" /\ call[u].from = x /\ call[u].op = pc[x]
          /\ call[u].cp = CpOf(x)
          /\ pc[x] # "subscribe" => call[u].sid = sid[CpOf(x)])'
    BY <1>a, <1>b, <1>d, <1>f, <2>3 DEF Calling
  <2>5. \A x \in Callers : conn[x] = "ok" => x # h
    BY <1>g, Apart
  <2>6. \A x \in Callers : (conn[x] = "ok" =>
          got[x] # None /\ (pc[x] # "subscribe" => got[x] = sid[CpOf(x)]))'
    BY <1>a, <1>b, <1>d, <1>f, <2>5 DEF Calling
  <2> QED BY <2>1, <2>2, <2>4, <2>6 DEF Calling
<1>5. Starting'
  <2>1. \A u \in Workers : pc[u] = "respond" => call[u].sid \in Sids \cup {None}
    BY <1>a DEF Kinds, Calls
  <2> QED BY <1>a, <1>b, <1>d, <2>1 DEF Starting
<1>6. Notifying'
  <2>1. answer' \in Handlers => answer' = answer /\ answer # h
    BY <1>e, Apart
  <2>2. answer' = None <=> answer = None
    BY <1>a, <1>e, Apart DEF Threads
  <2>3. answer' \in Handlers =>
           /\ pc'[answer'] # "idle" /\ msg'[answer'].sid = target
           /\ msg'[answer'].seq = sub[target].count
    BY <1>a, <1>d, <1>e, <2>1 DEF Notifying
  <2>4. IF svcLock # None /\ pc'[svcLock] = "posted"
        THEN target \in subs \ queue /\ answer' # None
        ELSE target = None /\ answer' = None
    BY <1>a, <1>d, <2>2 DEF Notifying
  <2> QED BY <1>a, <1>b, <1>d, <2>3, <2>4 DEF Notifying
<1>7. Stale'
  BY <1>a, <1>b, <1>c, <1>d, <1>e DEF Stale
<1>8. Finished'
  <2>1. \A x \in Callers : Cancelled(x)' => x # h /\ Cancelled(x)
    BY <1>b, <1>c, <1>d DEF Cancelled
  <2>2. \A x \in Handlers : pc'[x] # "idle" => pc[x] # "idle" /\ msg'[x] = msg[x]
    BY <1>c, <1>d, <1>e
  <2> QED BY <1>a, <1>b, <1>f, <2>1, <2>2 DEF Finished
<1> QED BY <1>1, <1>2, <1>3, <1>4, <1>5, <1>6, <1>7, <1>8 DEF EInv

\* Every step keeps the invariant.
LEMMA EStep ==
    ASSUME EInv, [Next]_vars
    PROVE  EInv'
<1>1. CASE UNCHANGED vars
  <2>1. UNCHANGED <<pc, value, subs, sub, svcLock, queue, target, answer, posted, conn, got,
                    call, cpLock, sid, key, table, heard, msg, build, fault>>
    BY <1>1 DEF vars, pubVars, reqVars, cpVars
  <2>2. \A x : CpOf(x)' = CpOf(x)
    BY <2>1 DEF CpOf
  <2>3. TypeOK' /\ Kinds' /\ Known'
    BY <2>1, <2>2 DEF EInv, TypeOK, Kinds, Known
  <2>4. Calling' /\ Starting' /\ Notifying' /\ Stale'
    BY <2>1, <2>2 DEF EInv, Calling, Starting, Notifying, Stale
  <2>5. Finished'
    BY <2>1, <2>2 DEF EInv, Finished, Cancelled
  <2> QED BY <2>3, <2>4, <2>5 DEF EInv
<1>2. CASE External
  <2>1. build' = build
    BY <1>2 DEF External
  <2>2. ASSUME NEW t \in Setters, SetValue(t) PROVE EInv'
    BY <2>1, <2>2, SetValueStep
  <2>3. ASSUME NEW c \in Cps, NEW op \in {"subscribe", "renew", "unsubscribe"}, AppCall(c, op)
        PROVE  EInv'
    BY <2>1, <2>3, AppCallStep DEF Busy
  <2>4. ASSUME NEW t \in Notifiers, NotifyRefused(t) PROVE EInv'
    BY <2>1, <2>4, NotifyRefusedStep
  <2>5. ASSUME NEW r \in Callers, Refused(r) PROVE EInv'
    BY <2>1, <2>5, FailStep DEF Refused
  <2>6. ASSUME NEW s \in Sids, Lapse(s) PROVE EInv'
    BY <2>1, <2>6, LapseStep
  <2> QED BY <1>2, <2>2, <2>3, <2>4, <2>5, <2>6 DEF External
<1>3. ASSUME NEW t \in Threads, ThreadStep(t) PROVE EInv'
  <2>1. build' = build
    BY <1>3 DEF ThreadStep
  <2>2. CASE t \in Notifiers /\ NotifierStep(t)
    BY <2>1, <2>2, NotifyLockStep, NotifyPostStep, NotifyDoneStep, NotifyTimeoutStep,
       NotifyEndStep DEF NotifierStep
  <2>3. CASE t \in Workers /\ WorkerStep(t)
    BY <2>1, <2>3, AcceptStep, SubscribeStep, RenewLookupStep, RenewApplyStep,
       UnsubscribeStep, RespondStep, UseAfterFreeStep DEF WorkerStep
  <2>4. CASE t \in Handlers /\ HandlerStep(t)
    BY <2>1, <2>4, HandleUnknownStep, HandleEventStep, HandleGapStep, GapUnsubscribedStep,
       GapSubscribedStep, HandlerTellStep, HandlerReplyStep DEF HandlerStep
  <2>5. CASE t \in Cps /\ AppDone(t)
    BY <2>1, <2>5, AppDoneStep
  <2>6. CASE t \in Callers /\ CallTimeout(t)
    BY <2>1, <2>6, FailStep DEF CallTimeout
  <2> QED BY <1>3, <2>2, <2>3, <2>4, <2>5, <2>6 DEF ThreadStep
<1> QED BY <1>1, <1>2, <1>3 DEF Next

-----------------------------------------------------------------------------
(* The counters stay together, but for the wrap.                           *)

\* Steps that leave the counters alone and grant no subscription.
LEMMA CountFrame ==
    ASSUME EInv, Counting, build' = build, subs' \subseteq subs, UNCHANGED <<sid, key>>,
           \A s \in Sids : sub'[s].count = sub[s].count,
           \A s \in Sids : Passed(s)' => Passed(s),
           \A s \in subs' : Passed(s) => Passed(s)',
           \A r \in Callers : pc'[r] = "subscribe" =>
              pc[r] = "subscribe" /\ CpOf(r)' = CpOf(r),
           \A r \in Callers, s \in Sids : Granted(r, s)' => Granted(r, s)
    PROVE  Counting'
<1>0. subs \subseteq Sids
  BY DEF EInv, TypeOK
<1>1. \A s \in Sids : (sub[s].count <= build.maxCount)'
  BY DEF Counting
<1>2. \A r \in Callers : (pc[r] = "subscribe" => key[CpOf(r)] = 0)'
  BY DEF Counting
<1>3. \A r \in Callers, s \in Sids : (Granted(r, s) => sub[s].count = 0 /\ ~Passed(s))'
  BY DEF Counting
<1>4. \A n : Wrapped(n)' = Wrapped(n)
  BY DEF Wrapped
<1>5. \A c \in Cps : (sid[c] \in subs =>
          IF Passed(sid[c]) THEN key[c] = Wrapped(sub[sid[c]].count)
                            ELSE InStep(sub[sid[c]].count, key[c]))'
  <2> SUFFICES ASSUME NEW c \in Cps, sid[c] \in subs'
               PROVE  (IF Passed(sid[c]) THEN key[c] = Wrapped(sub[sid[c]].count)
                                         ELSE InStep(sub[sid[c]].count, key[c]))'
    OBVIOUS
  <2>1. /\ sid[c] \in Sids /\ sid[c] \in subs /\ sid'[c] = sid[c] /\ key'[c] = key[c]
        /\ sub'[sid[c]].count = sub[sid[c]].count
    BY <1>0
  <2>2. Passed(sid[c])' <=> Passed(sid[c])
    BY <2>1
  <2>3. IF Passed(sid[c]) THEN key[c] = Wrapped(sub[sid[c]].count)
                          ELSE InStep(sub[sid[c]].count, key[c])
    BY <2>1 DEF Counting
  <2>4. /\ Wrapped(sub[sid[c]].count)' = Wrapped(sub[sid[c]].count)
        /\ InStep(sub[sid[c]].count, key[c])' <=> InStep(sub[sid[c]].count, key[c])
    BY <2>1 DEF Wrapped, InStep
  <2> QED BY <2>1, <2>2, <2>3, <2>4
<1> QED BY <1>1, <1>2, <1>3, <1>5 DEF Counting

\* Steps that send no event and grant no subscription.
LEMMA ArrivingFrame ==
    ASSUME EInv, Arriving, build' = build,
           \A g \in Handlers : pc'[g] # "idle" =>
              pc[g] # "idle" /\ msg'[g] = msg[g] /\ (pc'[g] = "received" => pc[g] = "received"),
           \A r \in Callers, s \in Sids : Granted(r, s)' => Granted(r, s),
           \A r \in Callers, s \in Sids, g \in Handlers :
              Granted(r, s)' /\ pc'[g] # "idle" /\ msg[g].sid = s => pc'[g] = pc[g],
           \A c \in Cps : key'[c] < build.maxSeq,
           \A g \in Handlers : pc'[g] = "received" /\ sid'[msg[g].cp] = msg[g].sid =>
              InStep(msg[g].seq, key'[msg[g].cp])
    PROVE  Arriving'
<1>1. \A c \in Cps : (key[c] < build.maxSeq)'
  OBVIOUS
<1>2. \A g, h \in Handlers :
         (pc[g] # "idle" /\ pc[h] # "idle" /\ msg[g].sid = msg[h].sid => g = h)'
  BY DEF Arriving
<1>3. \A r \in Callers, s \in Sids, g \in Handlers :
         (Granted(r, s) /\ pc[g] # "idle" /\ msg[g].sid = s =>
             pc[g] = "received" /\ msg[g].seq = 0)'
  <2> SUFFICES ASSUME NEW r \in Callers, NEW s \in Sids, NEW g \in Handlers,
                      Granted(r, s)', pc'[g] # "idle", msg'[g].sid = s
               PROVE  pc'[g] = "received" /\ msg'[g].seq = 0
    OBVIOUS
  <2>1. Granted(r, s) /\ msg'[g] = msg[g] /\ pc[g] # "idle" /\ pc'[g] = pc[g]
    OBVIOUS
  <2> QED BY <2>1 DEF Arriving
<1>4. \A g \in Handlers : (pc[g] = "received" /\ sid[msg[g].cp] = msg[g].sid =>
                              InStep(msg[g].seq, key[msg[g].cp]))'
  <2> SUFFICES ASSUME NEW g \in Handlers, pc'[g] = "received", sid'[msg'[g].cp] = msg'[g].sid
               PROVE  InStep(msg[g].seq, key[msg[g].cp])'
    OBVIOUS
  <2>1. msg'[g] = msg[g]
    OBVIOUS
  <2>2. InStep(msg[g].seq, key'[msg[g].cp])
    BY <2>1
  <2> QED BY <2>1, <2>2 DEF InStep
<1> QED BY <1>1, <1>2, <1>3, <1>4 DEF Arriving

\* Steps that leave the handlers and the subscriptions of the control points alone.
LEMMA ArrivingSame ==
    ASSUME EInv, Arriving, build' = build, UNCHANGED <<sid, key, msg>>,
           \A g \in Handlers : pc'[g] = pc[g],
           \A r \in Callers, s \in Sids : Granted(r, s)' => Granted(r, s)
    PROVE  Arriving'
<1>1. \A g \in Handlers : pc[g] = "received" /\ sid[msg[g].cp] = msg[g].sid =>
         InStep(msg[g].seq, key[msg[g].cp])
  BY DEF Arriving
<1>2. \A c \in Cps : key'[c] < build.maxSeq
  BY DEF Arriving
<1>3. \A g \in Handlers : pc'[g] = "received" /\ sid'[msg[g].cp] = msg[g].sid =>
         InStep(msg[g].seq, key'[msg[g].cp])
  BY <1>1
<1> QED BY <1>2, <1>3, ArrivingFrame

\* The notifying threads, but for the post, and the passing of a lease.
LEMMA PublisherArriving ==
    ASSUME EInv, Arriving, build' = build, UNCHANGED <<reqVars, cpVars>>,
           \A u \in Threads \ Notifiers : pc'[u] = pc[u]
    PROVE  Arriving'
<1>1. UNCHANGED <<conn, got, call, sid, key, msg>>
  BY DEF reqVars, cpVars
<1>2. /\ \A u \in Callers : pc'[u] = pc[u]
      /\ \A u \in Workers : pc'[u] = pc[u]
      /\ \A u \in Handlers : pc'[u] = pc[u]
  BY Apart DEF Threads, Callers
<1>3. \A r \in Callers, s \in Sids : Granted(r, s)' => Granted(r, s)
  BY <1>1, <1>2 DEF Granted
<1> QED BY <1>1, <1>2, <1>3, ArrivingSame

\* A subscription that is granted is not that of a handler that has its lock.
LEMMA GrantedWaits ==
    ASSUME EInv, NEW h \in Handlers, HandlerLocks(h),
           NEW r \in Callers, NEW s \in Sids, Granted(r, s)
    PROVE  s # msg[h].sid /\ CpOf(r) # msg[h].cp
<1>1. cpLock[CpOf(r)] = r /\ r # None
  BY Apart DEF EInv, Calling, Granted, Busy, Threads
<1>2. CpOf(r) # msg[h].cp
  BY <1>1 DEF HandlerLocks
<1>3. sub[msg[h].sid].cp = msg[h].cp
  BY DEF EInv, Known, HandlerLocks
<1>4. sub[s].cp = CpOf(r)
  <2>0. s # None /\ pc[r] = "subscribe"
    BY Apart DEF Threads, Notifiers, Granted
  <2>1. CASE conn[r] = "ok" /\ got[r] = s
    BY <2>0, <2>1 DEF EInv, Known, Busy
  <2>2. CASE conn[r] \in Workers /\ pc[conn[r]] = "respond" /\ call[conn[r]].sid = s
    <3>1. call[conn[r]].cp = CpOf(r)
      BY <2>2 DEF EInv, Calling
    <3> QED BY <2>0, <2>2, <3>1 DEF EInv, Known
  <2> QED BY <2>1, <2>2 DEF Granted
<1> QED BY <1>2, <1>3, <1>4

\* Steps of a handler that has its event.
LEMMA HandlerArriving ==
    ASSUME EInv, Arriving, build' = build, sid' = sid, NEW h \in Handlers,
           pc[h] # "idle", pc[h] = "received" => HandlerLocks(h),
           pc'[h] # "received", pc'[h] = "idle" \/ msg'[h] = msg[h],
           \A g \in Handlers : g # h => pc'[g] = pc[g] /\ msg'[g] = msg[g],
           \A r \in Callers, s \in Sids : Granted(r, s)' => Granted(r, s),
           \A c \in Cps : \/ key'[c] = key[c]
                          \/ sid[c] = msg[h].sid /\ key'[c] < build.maxSeq
    PROVE  Arriving'
<1>1. \A g \in Handlers : pc'[g] # "idle" =>
         pc[g] # "idle" /\ msg'[g] = msg[g] /\ (pc'[g] = "received" => pc[g] = "received")
  OBVIOUS
<1>2. \A r \in Callers, s \in Sids : Granted(r, s) => msg[h].sid # s
  BY GrantedWaits DEF Arriving
<1>3. \A r \in Callers, s \in Sids, g \in Handlers :
         Granted(r, s)' /\ pc'[g] # "idle" /\ msg[g].sid = s => pc'[g] = pc[g]
  BY <1>2
<1>4. \A c \in Cps : key'[c] < build.maxSeq
  BY DEF Arriving
<1>5. \A g \in Handlers : pc'[g] = "received" /\ sid'[msg[g].cp] = msg[g].sid =>
         InStep(msg[g].seq, key'[msg[g].cp])
  <2> SUFFICES ASSUME NEW g \in Handlers, pc'[g] = "received", sid[msg[g].cp] = msg[g].sid
               PROVE  InStep(msg[g].seq, key'[msg[g].cp])
    OBVIOUS
  <2>1. g # h /\ pc[g] = "received" /\ msg[g].sid # msg[h].sid
    BY DEF Arriving
  <2>2. msg[g].cp \in Cps
    BY <2>1 DEF EInv, Kinds, Messages
  <2>3. key'[msg[g].cp] = key[msg[g].cp]
    BY <2>1, <2>2
  <2> QED BY <2>1, <2>3 DEF Arriving
<1> QED BY <1>1, <1>3, <1>4, <1>5, ArrivingFrame

\* Steps of the notifying threads that leave the counts alone.
LEMMA PublisherCount ==
    ASSUME EInv, Counting, Arriving, build' = build, UNCHANGED <<reqVars, cpVars>>,
           \A u \in Threads \ Notifiers : pc'[u] = pc[u],
           subs' \subseteq subs,
           \A s \in Sids : sub'[s].count = sub[s].count,
           \/ UNCHANGED <<target, answer>>
           \/ target' = None /\ answer' = None /\ target \notin subs'
    PROVE  Counting' /\ Arriving'
<1>a. UNCHANGED <<conn, got, call, sid, key, msg>>
  BY DEF reqVars, cpVars
<1>b. /\ \A u \in Callers : pc'[u] = pc[u] /\ CpOf(u)' = CpOf(u)
      /\ \A u \in Workers : pc'[u] = pc[u]
      /\ \A u \in Handlers : pc'[u] = pc[u]
  BY <1>a, Apart DEF Threads, Callers, CpOf
<1>c. None \notin Sids /\ None \notin Handlers /\ subs \subseteq Sids
  BY Apart DEF Threads, Notifiers, Callers, EInv, TypeOK
<1>1. \A r \in Callers, s \in Sids : Granted(r, s)' => Granted(r, s)
  BY <1>a, <1>b DEF Granted
<1>2. (\A s \in Sids : Passed(s)' => Passed(s)) /\ (\A s \in subs' : Passed(s) => Passed(s)')
  BY <1>b, <1>c DEF Passed
<1>3. \A r \in Callers : pc'[r] = "subscribe" => pc[r] = "subscribe" /\ CpOf(r)' = CpOf(r)
  BY <1>b
<1> QED BY <1>a, <1>1, <1>2, <1>3, CountFrame, PublisherArriving

\* Steps that change nothing of the publisher: neither Passed.
LEMMA PassedFrame ==
    ASSUME EInv, UNCHANGED <<target, answer>>,
           answer \in Handlers =>
              (pc'[answer] \in {"tell", "reply"} <=> pc[answer] \in {"tell", "reply"})
    PROVE  \A s : Passed(s)' <=> Passed(s)
BY DEF Passed

\* Notifying, step by step.
LEMMA SetValueCount ==
    ASSUME EInv, Counting, Arriving, build' = build, NEW t \in Setters, SetValue(t)
    PROVE  Counting' /\ Arriving'
<1>1. \A u \in Threads \ Notifiers : pc'[u] = pc[u]
  BY DEF SetValue, Goto, EInv, TypeOK, Notifiers
<1> QED BY <1>1, PublisherCount DEF SetValue

\* The service is locked, and the expired subscribers are dropped.
LEMMA NotifyLockCount ==
    ASSUME EInv, Counting, Arriving, build' = build, NEW t \in Notifiers, NotifyLock(t)
    PROVE  Counting' /\ Arriving'
<1>1. \A u \in Threads \ Notifiers : pc'[u] = pc[u]
  BY DEF NotifyLock, Goto, EInv, TypeOK
<1> QED BY <1>1, PublisherCount DEF NotifyLock

\* A subscriber is removed before its event.
LEMMA NotifyRefusedCount ==
    ASSUME EInv, Counting, Arriving, build' = build, NEW t \in Notifiers, NotifyRefused(t)
    PROVE  Counting' /\ Arriving'
BY PublisherCount DEF NotifyRefused

\* A subscriber is removed while its event is under way.
LEMMA NotifyTimeoutCount ==
    ASSUME EInv, Counting, Arriving, build' = build, NEW t \in Notifiers, NotifyTimeout(t)
    PROVE  Counting' /\ Arriving'
<1>1. \A u \in Threads \ Notifiers : pc'[u] = pc[u]
  BY DEF NotifyTimeout, Goto, EInv, TypeOK
<1> QED BY <1>1, PublisherCount DEF NotifyTimeout

\* The service is unlocked.
LEMMA NotifyEndCount ==
    ASSUME EInv, Counting, Arriving, build' = build, NEW t \in Notifiers, NotifyEnd(t)
    PROVE  Counting' /\ Arriving'
<1>1. \A u \in Threads \ Notifiers : pc'[u] = pc[u]
  BY DEF NotifyEnd, Goto, EInv, TypeOK
<1> QED BY <1>1, PublisherCount DEF NotifyEnd

\* A lease runs out.
LEMMA LapseCount ==
    ASSUME EInv, Counting, Arriving, build' = build, NEW s \in Sids, Lapse(s)
    PROVE  Counting' /\ Arriving'
<1>1. \A x \in Sids : sub'[x].count = sub[x].count
  BY DEF Lapse, EInv, TypeOK
<1> QED BY <1>1, PublisherCount DEF Lapse

\* The event posted has not passed the check yet.
LEMMA NotifyPostCount ==
    ASSUME EInv, Counting, build' = build, NEW t \in Notifiers, NotifyPost(t)
    PROVE  Counting'
<1>1. PICK s \in queue, h \in Handlers :
         /\ pc[h] = "idle"
         /\ msg' = [msg EXCEPT ![h] = [cp |-> sub[s].cp, sid |-> s,
                                       seq |-> sub[s].count, val |-> Sent(value)]]
         /\ pc' = [pc EXCEPT ![t] = "posted", ![h] = "received"]
         /\ queue' = queue \ {s} /\ target' = s /\ answer' = h
  BY DEF NotifyPost
<1>a. TypeOK /\ Notifying /\ pc[t] = "loop"
  BY DEF EInv, NotifyPost
<1>b. UNCHANGED <<subs, sub, conn, got, call, sid, key, build>>
  BY DEF NotifyPost, reqVars
<1>c. /\ \A u \in Callers : u \in Threads /\ u # t
      /\ \A u \in Workers : u \in Threads /\ u # t /\ u # h
      /\ h \in Threads /\ t \in Threads /\ h # t /\ None \notin Sids /\ t # None
      /\ h # "ok" /\ h # None
  BY Apart DEF Threads, Callers, Notifiers
<1>d. /\ pc'[h] = "received" /\ \A u \in Workers : pc'[u] = pc[u]
      /\ \A u \in Callers : u # h => pc'[u] = pc[u]
  BY <1>1, <1>a, <1>c DEF TypeOK
<1>e. \A r \in Callers : r # h => CpOf(r)' = CpOf(r)
  BY <1>1, <1>a DEF CpOf, Callers, TypeOK
<1>f. target = None
  BY <1>a, <1>c DEF Notifying
<1>g. (\A x \in Sids : ~Passed(x)) /\ (\A x \in Sids : ~Passed(x)')
  BY <1>1, <1>c, <1>d, <1>f DEF Passed
<1>2. \A r \in Callers, x \in Sids : Granted(r, x)' => Granted(r, x)
  BY <1>b, <1>d DEF Granted
<1>3. \A r \in Callers : pc'[r] = "subscribe" => pc[r] = "subscribe" /\ CpOf(r)' = CpOf(r)
  BY <1>d, <1>e
<1> QED BY <1>a, <1>b, <1>g, <1>2, <1>3, CountFrame DEF TypeOK

\* An event is posted: it is the only one of its subscription, and in step.
LEMMA NotifyPostArriving ==
    ASSUME EInv, Counting, Arriving, build' = build, NEW t \in Notifiers, NotifyPost(t)
    PROVE  Arriving'
<1>1. PICK s \in queue, h \in Handlers :
         /\ pc[h] = "idle"
         /\ msg' = [msg EXCEPT ![h] = [cp |-> sub[s].cp, sid |-> s,
                                       seq |-> sub[s].count, val |-> Sent(value)]]
         /\ pc' = [pc EXCEPT ![t] = "posted", ![h] = "received"]
  BY DEF NotifyPost
<1>a. TypeOK /\ Kinds /\ Notifying /\ Stale /\ Known /\ pc[t] = "loop"
  BY DEF EInv, NotifyPost
<1>b. UNCHANGED <<subs, sub, conn, got, call, sid, key>>
  BY DEF NotifyPost, reqVars
<1>c. /\ \A u \in Callers : u \in Threads /\ u # t
      /\ \A u \in Workers : u \in Threads /\ u # t /\ u # h
      /\ \A u \in Handlers : u \in Callers
      /\ h \in Threads /\ t \in Threads /\ h # t /\ t # None /\ None \notin Sids
      /\ None \notin Handlers
  BY Apart DEF Threads, Callers, Notifiers
<1>d. /\ pc'[h] = "received" /\ \A u \in Workers : pc'[u] = pc[u]
      /\ \A u \in Callers : u # h => pc'[u] = pc[u]
      /\ \A u \in Handlers : u # h => pc'[u] = pc[u] /\ msg'[u] = msg[u]
      /\ msg'[h].cp = sub[s].cp /\ msg'[h].sid = s /\ msg'[h].seq = sub[s].count
  BY <1>1, <1>a, <1>c DEF TypeOK
<1>e. s \in subs /\ s \in Sids /\ answer = None /\ target = None
  BY <1>1, <1>a, <1>c DEF Notifying, TypeOK
<1>f. \A g \in Handlers : pc[g] # "idle" => msg[g].sid # s
  BY <1>a, <1>c, <1>e DEF Stale
<1>g. \A r \in Callers, x \in Sids : Granted(r, x)' => Granted(r, x)
  BY <1>b, <1>d DEF Granted
<1>2. \A c \in Cps : (key[c] < build.maxSeq)'
  BY <1>b DEF Arriving
<1>3. \A g, k \in Handlers :
         (pc[g] # "idle" /\ pc[k] # "idle" /\ msg[g].sid = msg[k].sid => g = k)'
  BY <1>d, <1>f DEF Arriving
<1>4. \A r \in Callers, x \in Sids, g \in Handlers :
         (Granted(r, x) /\ pc[g] # "idle" /\ msg[g].sid = x =>
             pc[g] = "received" /\ msg[g].seq = 0)'
  <2> SUFFICES ASSUME NEW r \in Callers, NEW x \in Sids, NEW g \in Handlers,
                      Granted(r, x), pc'[g] # "idle", msg'[g].sid = x
               PROVE  pc'[g] = "received" /\ msg'[g].seq = 0
    BY <1>g
  <2>1. CASE g = h
    <3>1. sub[x].count = 0
      BY DEF Counting
    <3> QED BY <2>1, <3>1, <1>d
  <2>2. CASE g # h
    BY <2>2, <1>d DEF Arriving
  <2> QED BY <2>1, <2>2
<1>5. \A g \in Handlers : (pc[g] = "received" /\ sid[msg[g].cp] = msg[g].sid =>
                              InStep(msg[g].seq, key[msg[g].cp]))'
  <2> SUFFICES ASSUME NEW g \in Handlers, pc'[g] = "received", sid[msg'[g].cp] = msg'[g].sid
               PROVE  InStep(msg'[g].seq, key[msg'[g].cp])
    BY <1>b DEF InStep
  <2>1. CASE g = h
    <3>1. sub[s].cp \in Cps /\ ~Passed(s)
      BY <1>a, <1>c, <1>e DEF Known, Passed
    <3> QED BY <2>1, <3>1, <1>d, <1>e DEF Counting
  <2>2. CASE g # h
    BY <2>2, <1>d DEF Arriving
  <2> QED BY <2>1, <2>2
<1> QED BY <1>2, <1>3, <1>4, <1>5 DEF Arriving

\* The answer to an event: the publisher's count catches up with the event key.
LEMMA NotifyDoneCount ==
    ASSUME EInv, Counting, Arriving, build' = build, NEW t \in Notifiers, NotifyDone(t)
    PROVE  Counting' /\ Arriving'
<1>a. TypeOK /\ Notifying /\ pc[t] = "posted" /\ answer = "ok" /\ t \in Threads
  BY DEF EInv, NotifyDone, Threads
<1>b. UNCHANGED <<subs, conn, got, call, sid, key, msg, build>>
  BY DEF NotifyDone, reqVars, cpVars
<1>c. /\ \A u \in Callers : u \in Threads /\ u # t
      /\ \A u \in Workers : u \in Threads /\ u # t
      /\ None \notin Sids /\ None \notin Handlers /\ t # None /\ "ok" \notin Handlers
  BY Apart DEF Threads, Callers, Notifiers
<1>d. /\ \A u \in Callers : pc'[u] = pc[u] /\ CpOf(u)' = CpOf(u)
      /\ \A u \in Workers : pc'[u] = pc[u]
  BY <1>a, <1>b, <1>c DEF TypeOK, NotifyDone, Goto, CpOf
<1>e. svcLock = t /\ target \in subs /\ target \in Sids /\ subs \subseteq Sids
  BY <1>a, <1>c DEF Notifying, TypeOK
<1>f. /\ sub'[target].count = Incremented(sub[target].count)
      /\ \A s \in Sids : s # target => sub'[s].count = sub[s].count
      /\ target' = None /\ answer' = None
  BY <1>a, <1>e DEF NotifyDone, TypeOK
<1>g. /\ \A s \in Sids : ~Passed(s)'
      /\ \A s \in Sids : Passed(s) <=> s = target
  BY <1>a, <1>c, <1>f DEF Passed
<1>h. /\ build.maxCount \in Nat /\ build.maxSeq \in Nat /\ build.maxSeq <= build.maxCount
      /\ 1 <= build.maxSeq
      /\ \A s \in Sids : sub[s].count \in Nat
      /\ \A c \in Cps : key[c] \in Nat
  <2>1. /\ build.maxCount \in Nat /\ build.maxSeq \in Nat /\ build.maxSeq <= build.maxCount
        /\ 1 <= build.maxSeq
    BY <1>a, BuildFact DEF TypeOK
  <2> QED BY <2>1, <1>a, BoundsAssumption DEF TypeOK, Seqs
<1>1. \A s \in Sids : (sub[s].count <= build.maxCount)'
  <2>1. Incremented(sub[target].count) <= build.maxCount
    BY <1>e, <1>h DEF Incremented
  <2> QED BY <1>b, <1>f, <2>1 DEF Counting
<1>2. \A r \in Callers : (pc[r] = "subscribe" => key[CpOf(r)] = 0)'
  BY <1>b, <1>d DEF Counting
<1>3. \A r \in Callers, s \in Sids : (Granted(r, s) => sub[s].count = 0 /\ ~Passed(s))'
  <2>1. \A r \in Callers, s \in Sids : Granted(r, s)' => Granted(r, s)
    BY <1>b, <1>d DEF Granted
  <2> QED BY <1>f, <1>g, <2>1 DEF Counting
<1>4. \A c \in Cps : (sid[c] \in subs =>
          IF Passed(sid[c]) THEN key[c] = Wrapped(sub[sid[c]].count)
                            ELSE InStep(sub[sid[c]].count, key[c]))'
  <2> SUFFICES ASSUME NEW c \in Cps, sid[c] \in subs
               PROVE  InStep(sub'[sid[c]].count, key[c])
    BY <1>b, <1>e, <1>g DEF InStep
  <2>1. CASE sid[c] = target
    <3>1. key[c] = Wrapped(sub[target].count)
      BY <2>1, <1>e, <1>g DEF Counting
    <3>2. key[c] < build.maxSeq
      BY DEF Arriving
    <3>3. CASE sub[target].count = build.maxSeq
      BY <2>1, <3>1, <3>3, <1>e, <1>f, <1>h DEF Incremented, Wrapped, InStep
    <3>4. CASE sub[target].count # build.maxSeq
      <4>1. sub[target].count < build.maxSeq
        BY <3>1, <3>2, <3>4 DEF Wrapped
      <4>2. ~(build.maxCount <= sub[target].count)
        BY <4>1, <1>e, <1>h
      <4> QED BY <2>1, <3>1, <3>4, <4>2, <1>f DEF Incremented, Wrapped, InStep
    <3> QED BY <3>3, <3>4
  <2>2. CASE sid[c] # target
    BY <2>2, <1>e, <1>f, <1>g DEF Counting
  <2> QED BY <2>1, <2>2
<1>5. Arriving'
  <2>1. \A u \in Threads \ Notifiers : pc'[u] = pc[u]
    BY <1>a DEF NotifyDone, Goto, TypeOK
  <2> QED BY <2>1, PublisherArriving DEF NotifyDone
<1> QED BY <1>1, <1>2, <1>3, <1>4, <1>5 DEF Counting

\* Steps of the server's threads that grant no subscription.
LEMMA WorkerCount ==
    ASSUME EInv, Counting, Arriving, build' = build, NEW w \in Workers, NEW l \in Labels,
           pc' = [pc EXCEPT ![w] = l],
           UNCHANGED <<target, answer, sid, key, msg>>,
           subs' \subseteq subs, \A s \in Sids : sub'[s].count = sub[s].count,
           \A r \in Callers, s \in Sids : Granted(r, s)' => Granted(r, s)
    PROVE  Counting' /\ Arriving'
<1>1. /\ \A u \in Callers : pc'[u] = pc[u] /\ CpOf(u)' = CpOf(u)
      /\ \A u \in Handlers : pc'[u] = pc[u]
  BY WorkerFact DEF CpOf
<1>2. \A s : Passed(s)' <=> Passed(s)
  BY <1>1, PassedFrame
<1> QED BY <1>1, <1>2, CountFrame, ArrivingSame

\* What is granted when only the thread w has moved.
LEMMA GrantedFrame ==
    ASSUME EInv, NEW w \in Workers, NEW l \in Labels, pc' = [pc EXCEPT ![w] = l],
           \A u \in Workers : u # w => call'[u] = call[u],
           NEW r \in Callers, NEW s \in Sids, Granted(r, s)',
           conn'[r] # w, conn'[r] = conn[r], got'[r] = got[r]
    PROVE  Granted(r, s)
<1>1. pc'[r] = pc[r] /\ \A u \in Workers : u # w => pc'[u] = pc[u]
  BY WorkerFact
<1> QED BY <1>1 DEF Granted

\* A request that is accepted has got nothing yet.
LEMMA AcceptCount ==
    ASSUME EInv, Counting, Arriving, build' = build, NEW w \in Workers, Accept(w)
    PROVE  Counting' /\ Arriving'
<1>1. PICK r \in Callers : conn' = [conn EXCEPT ![r] = w]
         /\ \A u \in Workers : u # w => call'[u] = call[u]
  BY DEF Accept, EInv, TypeOK
<1>a. /\ "serve" \in Labels /\ pc' = [pc EXCEPT ![w] = "serve"] /\ pc[w] = "idle"
      /\ UNCHANGED <<target, answer, sid, key, msg, subs, sub, got>>
  BY DEF Accept, Goto, Labels, pubVars, cpVars
<1>b. /\ pc'[w] = "serve" /\ conn'[r] = w
      /\ \A x \in Callers : x # r => conn'[x] = conn[x]
      /\ \A x \in Callers : conn[x] # w
  <2>1. pc'[w] = "serve"
    BY <1>a, WorkerFact
  <2>2. conn'[r] = w /\ \A x \in Callers : x # r => conn'[x] = conn[x]
    BY <1>1 DEF EInv, TypeOK
  <2>3. \A x \in Callers : conn[x] # w
    BY <1>a DEF EInv, Calling
  <2> QED BY <2>1, <2>2, <2>3
<1>2. \A x \in Callers, s \in Sids : Granted(x, s)' => Granted(x, s)
  <2> SUFFICES ASSUME NEW x \in Callers, NEW s \in Sids, Granted(x, s)'
               PROVE  Granted(x, s)
    OBVIOUS
  <2>1. x # r
    BY <1>b, Apart DEF Granted
  <2> QED BY <2>1, <1>1, <1>a, <1>b, GrantedFrame
<1> QED BY <1>a, <1>2, WorkerCount

\* A new subscriber has had no event, nor has its control point.
LEMMA SubscribeCount ==
    ASSUME EInv, Counting, build' = build, NEW w \in Workers, Subscribe(w)
    PROVE  Counting'
<1>1. PICK s \in Unused :
         /\ subs' = subs \cup {s}
         /\ sub' = [sub EXCEPT ![s] = [cp |-> call[w].cp, count |-> 0, lapsed |-> FALSE]]
         /\ call' = [call EXCEPT ![w].sid = s, ![w].ok = TRUE]
  BY DEF Subscribe
<1>a. /\ TypeOK /\ Known /\ Calling /\ Notifying /\ call[w] \in Calls
      /\ pc[w] = "serve" /\ call[w].op = "subscribe"
      /\ "respond" \in Labels /\ pc' = [pc EXCEPT ![w] = "respond"]
      /\ UNCHANGED <<target, answer, conn, got, sid, key, msg>>
  BY DEF EInv, Subscribe, Serving, Goto, Kinds, Labels, cpVars
<1>b. /\ pc'[w] = "respond"
      /\ \A u \in Workers : u # w => pc'[u] = pc[u] /\ call'[u] = call[u]
      /\ \A u \in Callers : pc'[u] = pc[u] /\ CpOf(u)' = CpOf(u)
      /\ \A u \in Handlers : pc'[u] = pc[u]
      /\ call'[w].sid = s
  <2>1. /\ pc'[w] = "respond" /\ \A u \in Workers : u # w => pc'[u] = pc[u]
        /\ \A u \in Callers : pc'[u] = pc[u]
        /\ \A u \in Handlers : pc'[u] = pc[u]
    BY <1>a, WorkerFact
  <2>2. \A u \in Callers : CpOf(u)' = CpOf(u)
    BY <1>a DEF CpOf
  <2>3. /\ call'[w] = [call[w] EXCEPT !.sid = s, !.ok = TRUE]
        /\ \A u \in Workers : u # w => call'[u] = call[u]
    BY <1>1, <1>a DEF TypeOK
  <2>4. call'[w].sid = s
    BY <2>3, <1>a DEF Calls
  <2> QED BY <2>1, <2>2, <2>3, <2>4
<1>c. s \in Sids /\ sub[s].cp = None /\ None \notin Sids /\ \A c \in Cps : c # None
  BY Apart DEF Unused, Threads, Notifiers, Callers
<1>d. /\ sub'[s].count = 0 /\ \A x \in Sids : x # s => sub'[x].count = sub[x].count
      /\ subs \subseteq Sids
  BY <1>1, <1>a, <1>c DEF TypeOK
<1>e. s \notin subs /\ target # s /\ \A c \in Cps : sid[c] # s
  BY <1>a, <1>c DEF Known, Notifying
<1>f. \A x : Passed(x)' <=> Passed(x)
  BY <1>a, <1>b, PassedFrame
<1>g. build.maxCount \in Nat /\ 1 <= build.maxCount
  BY <1>a, BuildFact DEF TypeOK
<1>2. \A x \in Sids : (sub[x].count <= build.maxCount)'
  BY <1>d, <1>g DEF Counting
<1>3. \A r \in Callers : (pc[r] = "subscribe" => key[CpOf(r)] = 0)'
  BY <1>a, <1>b DEF Counting
<1>4. \A r \in Callers, x \in Sids : (Granted(r, x) => sub[x].count = 0 /\ ~Passed(x))'
  <2> SUFFICES ASSUME NEW r \in Callers, NEW x \in Sids, Granted(r, x)'
               PROVE  sub'[x].count = 0 /\ ~Passed(x)'
    OBVIOUS
  <2>1. CASE x = s
    <3>1. ~Passed(s)
      BY <1>e DEF Passed
    <3> QED BY <2>1, <3>1, <1>d, <1>f
  <2>2. CASE x # s
    <3>1. conn'[r] # w
      <4>1. conn'[r] = w => conn'[r] # "ok"
        BY Apart
      <4> QED BY <2>2, <4>1, <1>b DEF Granted
    <3>2. Granted(r, x)
      BY <3>1, <1>a, <1>b DEF Granted
    <3> QED BY <2>2, <3>2, <1>d, <1>f DEF Counting
  <2> QED BY <2>1, <2>2
<1>5. \A c \in Cps : (sid[c] \in subs =>
          IF Passed(sid[c]) THEN key[c] = Wrapped(sub[sid[c]].count)
                            ELSE InStep(sub[sid[c]].count, key[c]))'
  <2> SUFFICES ASSUME NEW c \in Cps, sid'[c] \in subs'
               PROVE  (IF Passed(sid[c]) THEN key[c] = Wrapped(sub[sid[c]].count)
                                         ELSE InStep(sub[sid[c]].count, key[c]))'
    OBVIOUS
  <2>1. /\ sid'[c] = sid[c] /\ key'[c] = key[c] /\ sid[c] \in subs
        /\ sub'[sid[c]].count = sub[sid[c]].count
    BY <1>1, <1>a, <1>d, <1>e
  <2>2. IF Passed(sid[c]) THEN key[c] = Wrapped(sub[sid[c]].count)
                          ELSE InStep(sub[sid[c]].count, key[c])
    BY <2>1 DEF Counting
  <2>3. Passed(sid[c])' <=> Passed(sid[c])
    BY <2>1, <1>a, <1>b DEF Passed
  <2>4. /\ Wrapped(sub[sid[c]].count)' = Wrapped(sub[sid[c]].count)
        /\ InStep(sub[sid[c]].count, key[c])' <=> InStep(sub[sid[c]].count, key[c])
    BY <2>1 DEF Wrapped, InStep
  <2> QED BY <2>1, <2>2, <2>3, <2>4
<1> QED BY <1>2, <1>3, <1>4, <1>5 DEF Counting

\* Nobody has an event of a subscription that is made.
LEMMA SubscribeArriving ==
    ASSUME EInv, Arriving, build' = build, NEW w \in Workers, Subscribe(w)
    PROVE  Arriving'
<1>1. PICK s \in Unused : call' = [call EXCEPT ![w].sid = s, ![w].ok = TRUE]
  BY DEF Subscribe
<1>a. /\ TypeOK /\ Kinds /\ Known /\ call[w] \in Calls /\ pc[w] = "serve"
      /\ "respond" \in Labels /\ pc' = [pc EXCEPT ![w] = "respond"]
      /\ UNCHANGED <<conn, got, sid, key, msg>>
  BY DEF EInv, Subscribe, Serving, Goto, Kinds, Labels, cpVars
<1>b. /\ pc'[w] = "respond" /\ \A u \in Workers : u # w => pc'[u] = pc[u]
      /\ \A u \in Callers : pc'[u] = pc[u]
      /\ \A u \in Handlers : pc'[u] = pc[u]
  BY <1>a, WorkerFact
<1>c. /\ \A u \in Workers : u # w => call'[u] = call[u]
      /\ call'[w].sid = s
  <2>1. /\ call'[w] = [call[w] EXCEPT !.sid = s, !.ok = TRUE]
        /\ \A u \in Workers : u # w => call'[u] = call[u]
    BY <1>1, <1>a DEF TypeOK
  <2> QED BY <2>1, <1>a DEF Calls
<1>d. s \in Sids /\ sub[s].cp = None /\ \A c \in Cps : c # None
  BY Apart DEF Unused, Threads, Callers
<1>e. \A g \in Handlers : pc[g] # "idle" => msg[g].sid # s
  BY <1>a, <1>d DEF Known, Kinds, Messages
<1>f. \A r \in Callers, x \in Sids : Granted(r, x)' => x = s \/ Granted(r, x)
  <2> SUFFICES ASSUME NEW r \in Callers, NEW x \in Sids, Granted(r, x)', x # s
               PROVE  Granted(r, x)
    OBVIOUS
  <2>1. conn'[r] # w
    <3>1. conn'[r] = w => conn'[r] # "ok"
      BY Apart
    <3> QED BY <3>1, <1>b, <1>c DEF Granted
  <2> QED BY <2>1, <1>a, <1>b, <1>c DEF Granted
<1>2. \A c \in Cps : (key[c] < build.maxSeq)'
  BY <1>a DEF Arriving
<1>3. \A g, h \in Handlers :
         (pc[g] # "idle" /\ pc[h] # "idle" /\ msg[g].sid = msg[h].sid => g = h)'
  BY <1>a, <1>b DEF Arriving
<1>4. \A r \in Callers, x \in Sids, g \in Handlers :
         (Granted(r, x) /\ pc[g] # "idle" /\ msg[g].sid = x =>
             pc[g] = "received" /\ msg[g].seq = 0)'
  BY <1>a, <1>b, <1>e, <1>f DEF Arriving
<1>5. \A g \in Handlers : (pc[g] = "received" /\ sid[msg[g].cp] = msg[g].sid =>
                              InStep(msg[g].seq, key[msg[g].cp]))'
  BY <1>a, <1>b DEF Arriving, InStep
<1> QED BY <1>2, <1>3, <1>4, <1>5 DEF Arriving

\* Renewals and cancellations grant nothing.
LEMMA RenewCount ==
    ASSUME EInv, Counting, Arriving, build' = build,
           NEW w \in Workers, NEW l \in {"renewing", "respond"},
           pc[w] \in {"serve", "renewing"}, call[w].op # "subscribe",
           pc' = [pc EXCEPT ![w] = l],
           \A u \in Workers : u # w => call'[u] = call[u],
           UNCHANGED <<target, answer, conn, got, sid, key, msg>>,
           subs' \subseteq subs, \A s \in Sids : sub'[s].count = sub[s].count
    PROVE  Counting' /\ Arriving'
<1>1. l \in Labels
  BY DEF Labels
<1>2. \A r \in Callers, s \in Sids : Granted(r, s)' => Granted(r, s)
  <2> SUFFICES ASSUME NEW r \in Callers, NEW s \in Sids, Granted(r, s)'
               PROVE  Granted(r, s)
    OBVIOUS
  <2>1. pc'[r] = pc[r]
    BY <1>1, WorkerFact
  <2>2. conn'[r] # w
    BY <2>1 DEF Granted, EInv, Calling
  <2> QED BY <1>1, <2>2, GrantedFrame
<1> QED BY <1>1, <1>2, WorkerCount

\* A renewal leaves the count as it is.
LEMMA RenewLookupCount ==
    ASSUME EInv, Counting, Arriving, build' = build, NEW w \in Workers, RenewLookup(w)
    PROVE  Counting' /\ Arriving'
<1>1. PICK l \in {"renewing", "respond"} : pc' = [pc EXCEPT ![w] = l]
  BY DEF RenewLookup, Goto
<1>2. pc[w] = "serve" /\ call[w].op = "renew"
  BY DEF RenewLookup, Serving
<1>3. UNCHANGED <<subs, sub, target, answer, conn, got, call, sid, key, msg>>
  BY DEF RenewLookup, pubVars, reqVars, cpVars
<1> QED BY <1>1, <1>2, <1>3, RenewCount

\* So does the end of it.
LEMMA RenewApplyCount ==
    ASSUME EInv, Counting, Arriving, build' = build, NEW w \in Workers, RenewApply(w)
    PROVE  Counting' /\ Arriving'
<1>1. pc[w] = "renewing" /\ call[w].op = "renew" /\ pc' = [pc EXCEPT ![w] = "respond"]
  BY DEF RenewApply, Goto, EInv, Kinds
<1>2. /\ \A s \in Sids : sub'[s].count = sub[s].count
      /\ \A u \in Workers : u # w => call'[u] = call[u]
  BY DEF RenewApply, EInv, TypeOK
<1>3. UNCHANGED <<subs, target, answer, conn, got, sid, key, msg>>
  BY DEF RenewApply, cpVars
<1> QED BY <1>1, <1>2, <1>3, RenewCount

\* A cancellation removes a subscriber.
LEMMA UnsubscribeCount ==
    ASSUME EInv, Counting, Arriving, build' = build, NEW w \in Workers, Unsubscribe(w)
    PROVE  Counting' /\ Arriving'
<1>1. pc[w] = "serve" /\ call[w].op = "unsubscribe" /\ pc' = [pc EXCEPT ![w] = "respond"]
  BY DEF Unsubscribe, Serving, Goto
<1>2. \A u \in Workers : u # w => call'[u] = call[u]
  BY DEF Unsubscribe, EInv, TypeOK
<1>3. subs' \subseteq subs /\ UNCHANGED <<sub, target, answer, conn, got, sid, key, msg>>
  BY DEF Unsubscribe, cpVars
<1> QED BY <1>1, <1>2, <1>3, RenewCount

\* The caller gets the identifier that was granted.
LEMMA RespondCount ==
    ASSUME EInv, Counting, Arriving, build' = build, NEW w \in Workers, Respond(w)
    PROVE  Counting' /\ Arriving'
<1>a. /\ TypeOK /\ Calling /\ pc[w] = "respond" /\ call[w].sid \in Sids \cup {None}
      /\ UNCHANGED <<subs, sub, target, answer, sid, key, msg>>
  BY DEF EInv, Respond, Kinds, Calls, pubVars, cpVars
<1>b. /\ \A u \in Callers : u \in Threads /\ u # w
      /\ \A u \in Workers : u \in Threads
      /\ \A u \in Handlers : u \in Callers
      /\ \A u \in Sids : u \notin Callers /\ u \notin Workers
      /\ None \notin Callers /\ None \notin Workers
  BY Apart DEF Threads, Notifiers, Callers
<1>c. /\ \A u \in Callers : pc'[u] = pc[u]
      /\ \A u \in Handlers : pc'[u] = pc[u]
      /\ \A u \in Workers : u # w => pc'[u] = pc[u]
      /\ pc'[w] = "idle"
  BY <1>a, <1>b DEF Respond, TypeOK
<1>d. \A u \in Workers : u # w => call'[u] = call[u]
  BY <1>a DEF Respond, TypeOK
<1>1. \A r \in Callers, s \in Sids : Granted(r, s)' => Granted(r, s)
  <2> SUFFICES ASSUME NEW r \in Callers, NEW s \in Sids, Granted(r, s)'
               PROVE  Granted(r, s)
    OBVIOUS
  <2>0. pc[r] = "subscribe" /\ pc'[r] = pc[r]
    BY <1>c DEF Granted
  <2>1. CASE conn[r] = w
    <3>1. r = call[w].from
      BY <2>1, <1>a DEF Calling
    <3>2. conn'[r] \in {"ok", "failed"} /\ got'[r] = call[w].sid
      BY <2>1, <3>1, <1>a DEF Respond, TypeOK
    <3>3. s = call[w].sid
      BY <3>2, Apart DEF Granted
    <3> QED BY <2>0, <2>1, <3>3, <1>a DEF Granted
  <2>2. CASE conn[r] # w
    <3>1. conn'[r] = conn[r] /\ got'[r] = got[r]
      BY <2>2, <1>a DEF Respond, TypeOK
    <3> QED BY <2>0, <2>2, <3>1, <1>c, <1>d DEF Granted
  <2> QED BY <2>1, <2>2
<1>2. \A s : Passed(s)' <=> Passed(s)
  BY <1>a, <1>c, PassedFrame
<1>3. \A r \in Callers : pc'[r] = "subscribe" => pc[r] = "subscribe" /\ CpOf(r)' = CpOf(r)
  BY <1>a, <1>c DEF CpOf
<1> QED BY <1>a, <1>c, <1>1, <1>2, <1>3, CountFrame, ArrivingSame

\* A thread that uses freed memory changes nothing here.
LEMMA UseAfterFreeCount ==
    ASSUME EInv, Counting, Arriving, build' = build, NEW w \in Workers, UseAfterFree(w)
    PROVE  Counting' /\ Arriving'
<1>1. UNCHANGED <<pc, subs, sub, target, answer, conn, got, call, sid, key, msg>>
  BY DEF UseAfterFree, pubVars, reqVars, cpVars
<1>2. \A x : CpOf(x)' = CpOf(x)
  BY <1>1 DEF CpOf
<1>3. \A r \in Callers, s \in Sids : Granted(r, s)' => Granted(r, s)
  BY <1>1 DEF Granted
<1>4. \A s : Passed(s)' <=> Passed(s)
  BY <1>1 DEF Passed
<1> QED BY <1>1, <1>2, <1>3, <1>4, CountFrame, ArrivingSame

\* A request is posted: a new subscription starts with event key 0.
LEMMA PostCount ==
    ASSUME EInv, Counting, Arriving, build' = build, NEW r \in Callers, NEW op \in Busy,
           CpOf(r) \in Cps,
           IF r \in Cps THEN pc[r] = "idle" ELSE HandlerLocks(r) \/ pc[r] = "unsubscribe",
           pc' = [pc EXCEPT ![r] = op],
           conn'[r] \in {"queued", "failed"},
           \A x \in Callers : x # r => conn'[x] = conn[x] /\ got'[x] = got[x],
           key' = IF op = "subscribe" THEN [key EXCEPT ![CpOf(r)] = 0] ELSE key,
           sid'[CpOf(r)] = None \/ (op # "subscribe" /\ sid'[CpOf(r)] = sid[CpOf(r)]),
           \A c \in Cps : c # CpOf(r) => sid'[c] = sid[c],
           UNCHANGED <<subs, sub, target, answer, call, msg>>
    PROVE  Counting' /\ Arriving'
<1>a. TypeOK /\ subs \subseteq Sids /\ None \notin Sids /\ r \in Threads /\ op \in Labels
  BY Apart DEF EInv, TypeOK, Threads, Notifiers, Busy, Labels
<1>b. pc' \in [Threads -> Labels] /\ pc'[r] = op /\ \A u \in Threads \ {r} : pc'[u] = pc[u]
  BY <1>a, GotoFact
<1>c. /\ \A u \in Callers : u # r => pc'[u] = pc[u]
      /\ \A u \in Workers : pc'[u] = pc[u]
      /\ \A u \in Handlers : u # r => pc'[u] = pc[u]
      /\ \A u \in Workers : u \notin {"queued", "failed", "ok"}
  BY <1>b, Apart DEF Threads, Callers
<1>d. \A x : CpOf(x)' = CpOf(x)
  BY DEF CpOf
<1>e. /\ key'[CpOf(r)] = IF op = "subscribe" THEN 0 ELSE key[CpOf(r)]
      /\ \A c \in Cps : c # CpOf(r) => key'[c] = key[c]
  BY <1>a DEF TypeOK
<1>f. /\ r \in Handlers => pc[r] \notin {"idle", "tell", "reply"}
      /\ r \in Cps <=> r \notin Handlers
  BY Apart DEF HandlerLocks, Callers
<1>g. \A s : Passed(s)' <=> Passed(s)
  BY <1>b, <1>c, <1>f, PassedFrame DEF Busy
<1>h. \A x \in Callers, s \in Sids : Granted(x, s)' => Granted(x, s)
  <2> SUFFICES ASSUME NEW x \in Callers, NEW s \in Sids, Granted(x, s)'
               PROVE  Granted(x, s)
    OBVIOUS
  <2>1. x # r
    BY <1>c DEF Granted
  <2> QED BY <2>1, <1>c DEF Granted
<1>1. \A s \in Sids : (sub[s].count <= build.maxCount)'
  BY DEF Counting
<1>2. \A x \in Callers : (pc[x] = "subscribe" => key[CpOf(x)] = 0)'
  <2> SUFFICES ASSUME NEW x \in Callers, pc'[x] = "subscribe"
               PROVE  key'[CpOf(x)] = 0
    BY <1>d
  <2>1. CASE CpOf(x) = CpOf(r)
    <3>1. CASE op = "subscribe"
      BY <2>1, <3>1, <1>e
    <3>2. CASE op # "subscribe"
      <4>1. x # r
        BY <3>2, <1>b
      <4> QED BY <2>1, <3>2, <4>1, <1>c DEF Counting
    <3> QED BY <3>1, <3>2
  <2>2. CASE CpOf(x) # CpOf(r)
    <3>1. x # r /\ pc[x] = "subscribe"
      BY <2>2, <1>c
    <3>2. CpOf(x) \in Cps
      BY <3>1, CpOfFact
    <3> QED BY <2>2, <3>1, <3>2, <1>e DEF Counting
  <2> QED BY <2>1, <2>2
<1>3. \A x \in Callers, s \in Sids : (Granted(x, s) => sub[s].count = 0 /\ ~Passed(s))'
  <2> QED BY <1>g, <1>h DEF Counting
<1>4. \A c \in Cps : (sid[c] \in subs =>
          IF Passed(sid[c]) THEN key[c] = Wrapped(sub[sid[c]].count)
                            ELSE InStep(sub[sid[c]].count, key[c]))'
  <2> SUFFICES ASSUME NEW c \in Cps, sid'[c] \in subs'
               PROVE  (IF Passed(sid[c]) THEN key[c] = Wrapped(sub[sid[c]].count)
                                         ELSE InStep(sub[sid[c]].count, key[c]))'
    OBVIOUS
  <2>1. sid'[c] = sid[c] /\ key'[c] = key[c] /\ sid[c] \in subs
    BY <1>a, <1>e
  <2>2. IF Passed(sid[c]) THEN key[c] = Wrapped(sub[sid[c]].count)
                          ELSE InStep(sub[sid[c]].count, key[c])
    BY <2>1 DEF Counting
  <2>3. Passed(sid[c])' <=> Passed(sid[c])
    BY <2>1, <1>g
  <2>4. /\ Wrapped(sub[sid[c]].count)' = Wrapped(sub[sid[c]].count)
        /\ InStep(sub[sid[c]].count, key[c])' <=> InStep(sub[sid[c]].count, key[c])
    BY <2>1 DEF Wrapped, InStep
  <2> QED BY <2>1, <2>2, <2>3, <2>4
<1>5. Arriving'
  <2>1. \A g \in Handlers : g # r \/ pc'[g] # "received"
    BY <1>b DEF Busy
  <2>2. \A g \in Handlers : pc'[g] # "idle" =>
           pc[g] # "idle" /\ msg'[g] = msg[g] /\ (pc'[g] = "received" => pc[g] = "received")
    BY <2>1, <1>c, <1>f
  <2>3. \A x \in Callers, s \in Sids, g \in Handlers :
           Granted(x, s)' /\ pc'[g] # "idle" /\ msg[g].sid = s => pc'[g] = pc[g]
    <3>1. \A x \in Callers, s \in Sids : Granted(x, s) /\ r \in Handlers => msg[r].sid # s
      BY <1>f, GrantedWaits DEF Arriving
    <3> QED BY <3>1, <1>c, <1>h
  <2>4. \A c \in Cps : key'[c] < build.maxSeq
    <3>1. 0 < build.maxSeq
      BY <1>a, BuildFact DEF TypeOK
    <3> QED BY <3>1, <1>e DEF Arriving
  <2>5. \A g \in Handlers : pc'[g] = "received" /\ sid'[msg[g].cp] = msg[g].sid =>
           InStep(msg[g].seq, key'[msg[g].cp])
    <3> SUFFICES ASSUME NEW g \in Handlers, pc'[g] = "received",
                        sid'[msg[g].cp] = msg[g].sid
                 PROVE  InStep(msg[g].seq, key'[msg[g].cp])
      OBVIOUS
    <3>1. pc[g] = "received" /\ msg[g].cp \in Cps /\ msg[g].sid \in Sids
      BY <2>2 DEF EInv, Kinds, Messages
    <3>2. sid[msg[g].cp] = msg[g].sid /\ key'[msg[g].cp] = key[msg[g].cp]
      BY <3>1, <1>a, <1>e
    <3> QED BY <3>1, <3>2 DEF Arriving
  <2> QED BY <2>2, <2>3, <2>4, <2>5, <1>h, ArrivingFrame
<1> QED BY <1>1, <1>2, <1>3, <1>4, <1>5 DEF Counting

\* An answer is taken: a subscription granted starts in step.
LEMMA DoneCount ==
    ASSUME EInv, Counting, Arriving, build' = build, NEW r \in Callers, NEW l \in {"idle", "reply"},
           pc[r] \in Busy,
           pc' = [pc EXCEPT ![r] = l],
           sid' = [sid EXCEPT ![CpOf(r)] = SidAfter(r)],
           conn' = [conn EXCEPT ![r] = None], got' = [got EXCEPT ![r] = None],
           UNCHANGED <<subs, sub, target, answer, call, key, msg>>
    PROVE  Counting' /\ Arriving'
<1>a. /\ TypeOK /\ Calling /\ subs \subseteq Sids /\ None \notin Sids /\ r \in Threads
      /\ l \in Labels /\ l \notin Busy /\ CpOf(r) \in Cps
  BY Apart, CpOfFact DEF EInv, TypeOK, Threads, Notifiers, Busy, Labels
<1>b. pc' \in [Threads -> Labels] /\ pc'[r] = l /\ \A u \in Threads \ {r} : pc'[u] = pc[u]
  BY <1>a, GotoFact
<1>c. /\ \A u \in Callers : u # r => pc'[u] = pc[u] /\ conn'[u] = conn[u] /\ got'[u] = got[u]
      /\ \A u \in Workers : pc'[u] = pc[u]
      /\ \A u \in Handlers : u # r => pc'[u] = pc[u]
  BY <1>a, <1>b, Apart DEF Threads, Callers, TypeOK
<1>d. \A x : CpOf(x)' = CpOf(x)
  BY DEF CpOf
<1>e. r \in Handlers =>
         /\ pc[r] \in {"subscribe", "unsubscribe"} /\ CpOf(r) = msg[r].cp
         /\ msg[r].sid \in Sids /\ sub[msg[r].sid].cp = CpOf(r)
         /\ answer = r => msg[r].sid = target
  BY Apart DEF EInv, Kinds, Busy, Messages, CpOf, Known, Notifying
<1>f. /\ \A s : Passed(s) => Passed(s)'
      /\ \A s : Passed(s)' => Passed(s) \/ (r \in Handlers /\ msg[r].sid = s)
  BY <1>b, <1>c, <1>e DEF Passed, Busy
<1>g. \A x \in Callers, s \in Sids : Granted(x, s) /\ r \in Handlers => msg[r].sid # s
  BY <1>e DEF Arriving
<1>h. \A c \in Cps : sid'[c] \in subs => (Passed(sid[c])' <=> Passed(sid'[c]))
  <2> SUFFICES ASSUME NEW c \in Cps, sid'[c] \in subs, r \in Handlers
               PROVE  msg[r].sid # sid'[c]
    BY <1>f DEF Passed
  <2>1. CASE c = CpOf(r)
    <3>1. conn[r] = "ok" /\ pc[r] # "unsubscribe" /\ sid'[c] = got[r]
      BY <2>1, <1>a DEF SidAfter, TypeOK
    <3>2. Granted(r, sid'[c])
      BY <3>1, <1>e DEF Granted
    <3> QED BY <3>2, <1>a, <1>g
  <2>2. CASE c # CpOf(r)
    <3>1. sid'[c] = sid[c] /\ sid[c] # None
      BY <2>2, <1>a DEF TypeOK
    <3>2. sub[sid[c]].cp = c
      BY <3>1 DEF EInv, Known
    <3> QED BY <2>2, <3>1, <3>2, <1>e
  <2> QED BY <2>1, <2>2
<1>i. \A x \in Callers, s \in Sids : Granted(x, s)' => Granted(x, s)
  <2> SUFFICES ASSUME NEW x \in Callers, NEW s \in Sids, Granted(x, s)'
               PROVE  Granted(x, s)
    OBVIOUS
  <2>1. x # r
    BY <1>a, <1>b DEF Granted, Busy
  <2> QED BY <2>1, <1>c DEF Granted
<1>j. \A c \in Cps : sid'[c] \in Sids /\ sid'[c] # sid[c] => c = CpOf(r) /\ Granted(r, sid'[c])
  <2> SUFFICES ASSUME NEW c \in Cps, sid'[c] \in Sids, sid'[c] # sid[c]
               PROVE  c = CpOf(r) /\ Granted(r, sid'[c])
    OBVIOUS
  <2>1. c = CpOf(r) /\ sid'[c] = SidAfter(r)
    BY <1>a DEF TypeOK
  <2>2. conn[r] = "ok" /\ got[r] = sid'[c] /\ pc[r] # "unsubscribe"
    BY <2>1, <1>a DEF SidAfter
  <2>3. pc[r] = "subscribe"
    BY <2>1, <2>2, <1>a DEF Calling
  <2> QED BY <2>1, <2>2, <2>3 DEF Granted
<1>1. \A s \in Sids : (sub[s].count <= build.maxCount)'
  BY DEF Counting
<1>2. \A x \in Callers : (pc[x] = "subscribe" => key[CpOf(x)] = 0)'
  BY <1>a, <1>b, <1>c, <1>d DEF Counting, Busy
<1>3. \A x \in Callers, s \in Sids : (Granted(x, s) => sub[s].count = 0 /\ ~Passed(s))'
  BY <1>f, <1>g, <1>i DEF Counting
<1>4. \A c \in Cps : (sid[c] \in subs =>
          IF Passed(sid[c]) THEN key[c] = Wrapped(sub[sid[c]].count)
                            ELSE InStep(sub[sid[c]].count, key[c]))'
  <2>1. ASSUME NEW c \in Cps, NEW s \in subs, sid'[c] = s
        PROVE  IF Passed(s) THEN key[c] = Wrapped(sub[s].count)
                            ELSE InStep(sub[s].count, key[c])
    <3>1. CASE sid[c] = s
      BY <3>1 DEF Counting
    <3>2. CASE sid[c] # s
      <4>1. c = CpOf(r) /\ Granted(r, s) /\ s \in Sids
        BY <2>1, <3>2, <1>a, <1>j
      <4>2. sub[s].count = 0 /\ ~Passed(s) /\ key[c] = 0
        BY <4>1 DEF Counting, Granted
      <4> QED BY <4>2 DEF InStep
    <3> QED BY <3>1, <3>2
  <2>2. ASSUME NEW c \in Cps, NEW s \in subs, sid'[c] = s
        PROVE  (IF Passed(sid[c]) THEN key[c] = Wrapped(sub[sid[c]].count)
                                  ELSE InStep(sub[sid[c]].count, key[c]))'
    <3>1. Passed(sid[c])' <=> Passed(s)
      BY <2>2, <1>h
    <3>2. /\ Wrapped(sub[sid[c]].count)' = Wrapped(sub[s].count)
          /\ InStep(sub[sid[c]].count, key[c])' <=> InStep(sub[s].count, key[c])
      BY <2>2 DEF Wrapped, InStep
    <3> QED BY <2>1, <2>2, <3>1, <3>2
  <2> QED BY <2>2
<1>5. Arriving'
  <2>1. \A g \in Handlers : pc'[g] # "idle" =>
           pc[g] # "idle" /\ msg'[g] = msg[g] /\ (pc'[g] = "received" => pc[g] = "received")
    BY <1>b, <1>c DEF Busy
  <2>2. \A x \in Callers, s \in Sids, g \in Handlers :
           Granted(x, s)' /\ pc'[g] # "idle" /\ msg[g].sid = s => pc'[g] = pc[g]
    BY <1>c, <1>g, <1>i
  <2>3. \A c \in Cps : key'[c] < build.maxSeq
    BY DEF Arriving
  <2>4. \A g \in Handlers : pc'[g] = "received" /\ sid'[msg[g].cp] = msg[g].sid =>
           InStep(msg[g].seq, key'[msg[g].cp])
    <3> SUFFICES ASSUME NEW g \in Handlers, pc'[g] = "received",
                        sid'[msg[g].cp] = msg[g].sid
                 PROVE  InStep(msg[g].seq, key[msg[g].cp])
      OBVIOUS
    <3>1. pc[g] = "received" /\ msg[g].cp \in Cps /\ msg[g].sid \in Sids
      BY <2>1 DEF EInv, Kinds, Messages
    <3>2. CASE sid[msg[g].cp] = msg[g].sid
      BY <3>1, <3>2 DEF Arriving
    <3>3. CASE sid[msg[g].cp] # msg[g].sid
      <4>1. msg[g].cp = CpOf(r) /\ Granted(r, msg[g].sid)
        BY <3>1, <3>3, <1>j
      <4>2. msg[g].seq = 0 /\ key[CpOf(r)] = 0
        BY <3>1, <4>1 DEF Arriving, Counting, Granted
      <4> QED BY <4>1, <4>2 DEF InStep
    <3> QED BY <3>2, <3>3
  <2> QED BY <2>1, <2>2, <2>3, <2>4, <1>i, ArrivingFrame
<1> QED BY <1>1, <1>2, <1>3, <1>4, <1>5 DEF Counting

\* A request that fails grants nothing.
LEMMA FailCount ==
    ASSUME EInv, Counting, Arriving, build' = build, NEW r \in Callers,
           conn' = [conn EXCEPT ![r] = "failed"],
           UNCHANGED <<pc, pubVars, posted, got, call, cpVars, fault>>
    PROVE  Counting' /\ Arriving'
<1>1. UNCHANGED <<pc, subs, sub, target, answer, got, call, sid, key, msg>>
  BY DEF pubVars, cpVars
<1>2. \A x : CpOf(x)' = CpOf(x)
  BY <1>1 DEF CpOf
<1>3. conn'[r] = "failed" /\ \A x \in Callers : x # r => conn'[x] = conn[x]
  BY DEF EInv, TypeOK
<1>4. \A x \in Callers, s \in Sids : Granted(x, s)' => Granted(x, s)
  <2>1. \A w \in Workers : w # "failed"
    BY Apart
  <2> QED BY <1>1, <1>3, <2>1 DEF Granted
<1>5. \A s : Passed(s)' <=> Passed(s)
  BY <1>1 DEF Passed
<1> QED BY <1>1, <1>2, <1>4, <1>5, CountFrame, ArrivingSame

\* The application's calls.
LEMMA AppCallCount ==
    ASSUME EInv, Counting, Arriving, build' = build, NEW c \in Cps, NEW op \in Busy, AppCall(c, op)
    PROVE  Counting' /\ Arriving'
<1>a. c \in Callers /\ CpOf(c) = c /\ c \notin Handlers /\ TypeOK
  BY Apart DEF Callers, CpOf, EInv
<1>c. /\ pc[c] = "idle" /\ pc' = [pc EXCEPT ![c] = op]
      /\ conn'[c] \in {"queued", "failed"}
      /\ \A x \in Callers : x # c => conn'[x] = conn[x] /\ got'[x] = got[x]
      /\ key' = IF op = "subscribe" THEN [key EXCEPT ![c] = 0] ELSE key
  BY <1>a DEF AppCall, Post, Goto, TypeOK
<1>d. /\ UNCHANGED <<subs, sub, target, answer, call, msg, sid>>
      /\ sid'[c] = None \/ (op # "subscribe" /\ sid'[c] = sid[c])
  BY DEF AppCall, pubVars
<1> QED BY <1>a, <1>c, <1>d, PostCount

\* The application's calls return.
LEMMA AppDoneCount ==
    ASSUME EInv, Counting, Arriving, build' = build, NEW c \in Cps, AppDone(c)
    PROVE  Counting' /\ Arriving'
<1>a. c \in Callers /\ CpOf(c) = c /\ c \notin Handlers
  BY Apart DEF Callers, CpOf
<1> QED BY <1>a, DoneCount DEF AppDone, Goto, Busy, pubVars

\* A gap is found: nothing is counted yet.
LEMMA HandleGapCount ==
    ASSUME EInv, Counting, Arriving, build' = build, NEW h \in Handlers, HandleGap(h)
    PROVE  Counting' /\ Arriving'
<1>a. /\ h \in Callers /\ h \notin Cps /\ HandlerLocks(h) /\ pc[h] = "received"
      /\ CpOf(h) = msg[h].cp /\ CpOf(h) \in Cps /\ TypeOK
  BY Apart, CpOfFact DEF Callers, CpOf, EInv, HandleGap, HandlerLocks
<1>b. /\ pc' = [pc EXCEPT ![h] = "unsubscribe"]
      /\ conn'[h] \in {"queued", "failed"}
      /\ \A x \in Callers : x # h => conn'[x] = conn[x] /\ got'[x] = got[x]
      /\ key' = key
  BY <1>a DEF HandleGap, Post, Goto, TypeOK
<1>c. UNCHANGED <<subs, sub, target, answer, call, msg, sid>>
  BY DEF HandleGap, pubVars
<1> QED BY <1>a, <1>b, <1>c, PostCount DEF Busy

\* The handler subscribes again, with event key 0, and its old subscription is over.
LEMMA GapUnsubscribedCount ==
    ASSUME EInv, Counting, Arriving, build' = build, NEW h \in Handlers, GapUnsubscribed(h)
    PROVE  Counting' /\ Arriving'
<1>a. h \in Callers /\ h \notin Cps /\ CpOf(h) \in Cps /\ pc[h] = "unsubscribe" /\ TypeOK
  BY Apart, CpOfFact DEF Callers, EInv, GapUnsubscribed
<1>b. /\ pc' = [pc EXCEPT ![h] = "subscribe"]
      /\ conn'[h] \in {"queued", "failed"}
      /\ \A x \in Callers : x # h => conn'[x] = conn[x] /\ got'[x] = got[x]
      /\ key' = [key EXCEPT ![CpOf(h)] = 0]
  BY <1>a DEF GapUnsubscribed, Post, Goto, TypeOK
<1>c. UNCHANGED <<subs, sub, target, answer, call, msg>>
  BY DEF GapUnsubscribed, pubVars
<1>d. sid'[CpOf(h)] = None /\ \A c \in Cps : c # CpOf(h) => sid'[c] = sid[c]
  BY <1>a DEF GapUnsubscribed, SidAfter, TypeOK
<1> QED BY <1>a, <1>b, <1>c, <1>d, PostCount DEF Busy

\* Its answer is of the old subscription's event, so that the new one starts in step.
LEMMA GapSubscribedCount ==
    ASSUME EInv, Counting, Arriving, build' = build, NEW h \in Handlers, GapSubscribed(h)
    PROVE  Counting' /\ Arriving'
<1>a. h \in Callers /\ pc[h] = "subscribe"
  BY DEF Callers, GapSubscribed
<1> QED BY <1>a, DoneCount DEF GapSubscribed, Goto, Busy, pubVars

\* What the steps of a handler that has its event have in common.
LEMMA HandlerFact ==
    ASSUME EInv, NEW h \in Handlers, NEW l \in {"tell", "reply", "idle"},
           pc[h] \notin Busy, pc' = [pc EXCEPT ![h] = l],
           UNCHANGED <<conn, got, call>>,
           \A u \in Handlers : u # h => msg'[u] = msg[u]
    PROVE  /\ pc'[h] = l
           /\ \A u \in Handlers : u # h => pc'[u] = pc[u]
           /\ \A r \in Callers : pc'[r] = "subscribe" =>
                 r # h /\ pc[r] = "subscribe" /\ CpOf(r)' = CpOf(r)
           /\ \A r \in Callers, s \in Sids : Granted(r, s)' => Granted(r, s)
<1>1. h \in Threads /\ l \in Labels /\ TypeOK
  BY DEF Threads, Callers, Labels, EInv
<1>2. pc'[h] = l /\ \A u \in Threads \ {h} : pc'[u] = pc[u]
  BY <1>1, GotoFact
<1>3. /\ \A u \in Callers : u # h => pc'[u] = pc[u]
      /\ \A u \in Handlers : u # h => pc'[u] = pc[u]
      /\ \A u \in Workers : pc'[u] = pc[u]
  BY <1>2, Apart DEF Threads, Callers
<1>4. \A r \in Callers : r # h => CpOf(r)' = CpOf(r)
  BY DEF CpOf, Callers
<1>5. \A r \in Callers : pc'[r] = "subscribe" =>
         r # h /\ pc[r] = "subscribe" /\ CpOf(r)' = CpOf(r)
  BY <1>2, <1>3, <1>4
<1>6. \A r \in Callers, s \in Sids : Granted(r, s)' => Granted(r, s)
  BY <1>3, <1>5 DEF Granted
<1> QED BY <1>2, <1>3, <1>5, <1>6

\* An event that is dropped is no event of the control point's subscription.
LEMMA HandleUnknownCount ==
    ASSUME EInv, Counting, Arriving, build' = build, NEW h \in Handlers, HandleUnknown(h)
    PROVE  Counting' /\ Arriving'
<1>a. /\ pc[h] = "received" /\ sid[msg[h].cp] # msg[h].sid /\ pc[h] \notin Busy
      /\ pc' = [pc EXCEPT ![h] = "reply"] /\ HandlerLocks(h)
      /\ UNCHANGED <<subs, sub, target, answer, conn, got, call, sid, key, msg>>
      /\ subs \subseteq Sids
  BY DEF HandleUnknown, HandlerLocks, Goto, pubVars, reqVars, cpVars, Busy, EInv, TypeOK
<1>b. /\ pc'[h] = "reply"
      /\ \A u \in Handlers : u # h => pc'[u] = pc[u]
      /\ \A r \in Callers : pc'[r] = "subscribe" =>
            r # h /\ pc[r] = "subscribe" /\ CpOf(r)' = CpOf(r)
      /\ \A r \in Callers, s \in Sids : Granted(r, s)' => Granted(r, s)
  BY <1>a, HandlerFact
<1>1. Arriving'
  BY <1>a, <1>b, HandlerArriving
<1>2. CASE answer # h
  <2>1. \A s : Passed(s)' <=> Passed(s)
    BY <1>2, <1>a, <1>b DEF Passed
  <2> QED BY <1>a, <1>b, <1>1, <2>1, CountFrame
<1>3. CASE answer = h
  <2>a. msg[h].sid = target /\ target \in subs /\ sub[target].cp = msg[h].cp
    BY <1>3, <1>a, Apart DEF EInv, Notifying, Known, Threads, Callers
  <2>b. \A s : ~Passed(s)
    BY <1>3, <1>a DEF Passed
  <2>c. \A s : Passed(s)' => s = target
    BY <1>a DEF Passed
  <2>d. \A c \in Cps : sid[c] # target
    BY <1>a, <2>a, Apart DEF EInv, Known, Threads, Notifiers
  <2>1. \A s \in Sids : (sub[s].count <= build.maxCount)'
    BY <1>a DEF Counting
  <2>2. \A r \in Callers : (pc[r] = "subscribe" => key[CpOf(r)] = 0)'
    BY <1>a, <1>b DEF Counting
  <2>3. \A r \in Callers, s \in Sids : (Granted(r, s) => sub[s].count = 0 /\ ~Passed(s))'
    BY <1>3, <1>a, <1>b, <2>a, <2>c, GrantedWaits DEF Counting
  <2>4. \A c \in Cps : (sid[c] \in subs =>
            IF Passed(sid[c]) THEN key[c] = Wrapped(sub[sid[c]].count)
                              ELSE InStep(sub[sid[c]].count, key[c]))'
    <3> SUFFICES ASSUME NEW c \in Cps, sid[c] \in subs
                 PROVE  (IF Passed(sid[c]) THEN key[c] = Wrapped(sub[sid[c]].count)
                                           ELSE InStep(sub[sid[c]].count, key[c]))'
      BY <1>a
    <3>1. ~Passed(sid[c])'
      BY <1>a, <2>d DEF Passed
    <3>2. InStep(sub[sid[c]].count, key[c])
      BY <2>b DEF Counting
    <3>3. InStep(sub[sid[c]].count, key[c])'
      BY <1>a, <3>2 DEF InStep
    <3> QED BY <3>1, <3>3
  <2> QED BY <1>1, <2>1, <2>2, <2>3, <2>4 DEF Counting
<1> QED BY <1>2, <1>3

\* An event that passes the check takes the event key to the count, wrapped.
LEMMA HandleEventCount ==
    ASSUME EInv, Counting, Arriving, build' = build, NEW h \in Handlers, HandleEvent(h)
    PROVE  Counting' /\ Arriving'
<1>a. /\ pc[h] = "received" /\ sid[msg[h].cp] = msg[h].sid /\ pc[h] \notin Busy
      /\ pc' = [pc EXCEPT ![h] = "tell"] /\ HandlerLocks(h)
      /\ UNCHANGED <<subs, sub, target, answer, conn, got, call, sid, msg>>
      /\ subs \subseteq Sids /\ msg[h].cp \in Cps /\ msg[h].sid \in Sids
  BY DEF HandleEvent, HandlerLocks, Goto, pubVars, reqVars, Busy, EInv, TypeOK, Kinds, Messages
<1>b. /\ pc'[h] = "tell"
      /\ \A u \in Handlers : u # h => pc'[u] = pc[u]
      /\ \A r \in Callers : pc'[r] = "subscribe" =>
            r # h /\ pc[r] = "subscribe" /\ CpOf(r)' = CpOf(r)
      /\ \A r \in Callers, s \in Sids : Granted(r, s)' => Granted(r, s)
  BY <1>a, HandlerFact
<1>c. /\ key'[msg[h].cp] = Wrapped(msg[h].seq)
      /\ \A c \in Cps : c # msg[h].cp => key'[c] = key[c]
  BY <1>a DEF HandleEvent, EInv, TypeOK
<1>d. sub[msg[h].sid].cp = msg[h].cp
  BY <1>a DEF EInv, Known
<1>1. \A s \in Sids : (sub[s].count <= build.maxCount)'
  BY <1>a DEF Counting
<1>2. \A r \in Callers : (pc[r] = "subscribe" => key[CpOf(r)] = 0)'
  <2> SUFFICES ASSUME NEW r \in Callers, pc'[r] = "subscribe"
               PROVE  key'[CpOf(r)] = 0
    BY <1>b
  <2>1. pc[r] = "subscribe" /\ CpOf(r) \in Cps
    BY <1>b, CpOfFact
  <2>2. cpLock[CpOf(r)] = r /\ r # None
    BY <2>1, Apart DEF EInv, Calling, Busy, Threads
  <2>3. CpOf(r) # msg[h].cp
    BY <2>2, <1>a DEF HandlerLocks
  <2> QED BY <2>1, <2>3, <1>c DEF Counting
<1>3. \A r \in Callers, s \in Sids : (Granted(r, s) => sub[s].count = 0 /\ ~Passed(s))'
  <2> SUFFICES ASSUME NEW r \in Callers, NEW s \in Sids, Granted(r, s)
               PROVE  sub[s].count = 0 /\ ~Passed(s)'
    BY <1>a, <1>b
  <2>1. sub[s].count = 0 /\ ~Passed(s)
    BY DEF Counting
  <2>2. CASE answer = h
    <3>1. target = msg[h].sid
      BY <2>2 DEF EInv, Notifying
    <3> QED BY <2>1, <3>1, <1>a, GrantedWaits DEF Passed
  <2>3. CASE answer # h
    BY <2>1, <2>3, <1>a, <1>b DEF Passed
  <2> QED BY <2>1, <2>2, <2>3
<1>4. \A c \in Cps : (sid[c] \in subs =>
          IF Passed(sid[c]) THEN key[c] = Wrapped(sub[sid[c]].count)
                            ELSE InStep(sub[sid[c]].count, key[c]))'
  <2> SUFFICES ASSUME NEW c \in Cps, sid[c] \in subs
               PROVE  (IF Passed(sid[c]) THEN key[c] = Wrapped(sub[sid[c]].count)
                                         ELSE InStep(sub[sid[c]].count, key[c]))'
    BY <1>a
  <2>1. Wrapped(sub[sid[c]].count)' = Wrapped(sub[sid[c]].count)
    BY <1>a DEF Wrapped
  <2>2. CASE c = msg[h].cp
    <3>1. answer = h
      BY <2>2, <1>a DEF EInv, Stale
    <3>2. sid[c] = target /\ msg[h].seq = sub[target].count
      BY <2>2, <3>1, <1>a DEF EInv, Notifying
    <3>3. Passed(sid[c])'
      BY <3>1, <3>2, <1>a, <1>b DEF Passed
    <3> QED BY <2>1, <2>2, <3>2, <3>3, <1>c
  <2>3. CASE c # msg[h].cp
    <3>1. sid[c] # msg[h].sid
      BY <2>3, <1>a, <1>d, Apart DEF EInv, Known, Threads, Notifiers
    <3>2. answer = h => target # sid[c]
      BY <3>1 DEF EInv, Notifying
    <3>3. Passed(sid[c])' <=> Passed(sid[c])
      BY <3>2, <1>a, <1>b DEF Passed
    <3>4. IF Passed(sid[c]) THEN key[c] = Wrapped(sub[sid[c]].count)
                            ELSE InStep(sub[sid[c]].count, key[c])
      BY DEF Counting
    <3>5. InStep(sub[sid[c]].count, key[c])' <=> InStep(sub[sid[c]].count, key[c])
      BY <2>3, <1>a, <1>c DEF InStep
    <3> QED BY <2>1, <2>3, <3>3, <3>4, <3>5, <1>a, <1>c
  <2> QED BY <2>2, <2>3
<1>5. Arriving'
  <2>1. /\ msg[h].seq \in Nat /\ key[msg[h].cp] \in Nat /\ build.maxSeq \in Nat
        /\ 1 <= build.maxSeq /\ key[msg[h].cp] < build.maxSeq
    <3>1. build \in Builds /\ msg[h] \in Messages /\ key[msg[h].cp] \in Seqs
      BY <1>a DEF EInv, TypeOK, Kinds
    <3> QED BY <3>1, <1>a, BuildFact, BoundsAssumption DEF Messages, Seqs, Arriving
  <2>2. msg[h].seq = 0 \/ msg[h].seq = key[msg[h].cp] + 1
    BY DEF HandleEvent, InSequence
  <2>3. Wrapped(msg[h].seq) < build.maxSeq
    BY <2>1, <2>2 DEF Wrapped
  <2> QED BY <1>a, <1>b, <1>c, <2>3, HandlerArriving
<1> QED BY <1>1, <1>2, <1>3, <1>4, <1>5 DEF Counting

\* Past the check nothing more changes.
LEMMA HandlerTellCount ==
    ASSUME EInv, Counting, Arriving, build' = build, NEW h \in Handlers, HandlerTell(h)
    PROVE  Counting' /\ Arriving'
<1>a. /\ pc[h] = "tell" /\ pc[h] \notin Busy /\ pc' = [pc EXCEPT ![h] = "reply"]
      /\ UNCHANGED <<subs, sub, target, answer, conn, got, call, sid, key, msg>>
  BY DEF HandlerTell, Goto, pubVars, reqVars, Busy
<1>b. /\ pc'[h] = "reply"
      /\ \A u \in Handlers : u # h => pc'[u] = pc[u]
      /\ \A r \in Callers : pc'[r] = "subscribe" =>
            r # h /\ pc[r] = "subscribe" /\ CpOf(r)' = CpOf(r)
      /\ \A r \in Callers, s \in Sids : Granted(r, s)' => Granted(r, s)
  BY <1>a, HandlerFact
<1>1. \A s : Passed(s)' <=> Passed(s)
  BY <1>a, <1>b DEF Passed
<1> QED BY <1>a, <1>b, <1>1, CountFrame, HandlerArriving

\* The answer goes out, or nobody waits for it.
LEMMA HandlerReplyCount ==
    ASSUME EInv, Counting, Arriving, build' = build, NEW h \in Handlers, HandlerReply(h)
    PROVE  Counting' /\ Arriving'
<1>a. /\ pc[h] = "reply" /\ pc[h] \notin Busy /\ pc' = [pc EXCEPT ![h] = "idle"]
      /\ UNCHANGED <<subs, sub, target, conn, got, call, sid, key>>
      /\ answer' = IF answer = h THEN "ok" ELSE answer
      /\ \A u \in Handlers : u # h => msg'[u] = msg[u]
      /\ "ok" \notin Handlers
  BY Apart DEF HandlerReply, Goto, reqVars, Busy, EInv, TypeOK
<1>b. /\ pc'[h] = "idle"
      /\ \A u \in Handlers : u # h => pc'[u] = pc[u]
      /\ \A r \in Callers : pc'[r] = "subscribe" =>
            r # h /\ pc[r] = "subscribe" /\ CpOf(r)' = CpOf(r)
      /\ \A r \in Callers, s \in Sids : Granted(r, s)' => Granted(r, s)
  BY <1>a, HandlerFact
<1>1. \A s : Passed(s)' <=> Passed(s)
  BY <1>a, <1>b DEF Passed
<1> QED BY <1>a, <1>b, <1>1, CountFrame, HandlerArriving

\* Every step keeps the counters together.
LEMMA CountStep ==
    ASSUME EInv, SInv, [Next]_vars
    PROVE  SInv'
<1> USE DEF SInv
<1>1. CASE UNCHANGED vars
  <2>1. UNCHANGED <<pc, subs, sub, target, answer, conn, got, call, sid, key, msg, build>>
    BY <1>1 DEF vars, pubVars, reqVars, cpVars
  <2>2. \A x : CpOf(x)' = CpOf(x)
    BY <2>1 DEF CpOf
  <2>3. \A r \in Callers, s \in Sids : Granted(r, s)' => Granted(r, s)
    BY <2>1 DEF Granted
  <2>4. \A s : Passed(s)' <=> Passed(s)
    BY <2>1 DEF Passed
  <2> QED BY <2>1, <2>2, <2>3, <2>4, CountFrame, ArrivingSame
<1>2. CASE External
  <2>1. build' = build /\ SInv
    BY <1>2 DEF External
  <2>2. ASSUME NEW t \in Setters, SetValue(t) PROVE SInv'
    BY <2>1, <2>2, SetValueCount
  <2>3. ASSUME NEW c \in Cps, NEW op \in {"subscribe", "renew", "unsubscribe"}, AppCall(c, op)
        PROVE  SInv'
    BY <2>1, <2>3, AppCallCount DEF Busy
  <2>4. ASSUME NEW t \in Notifiers, NotifyRefused(t) PROVE SInv'
    BY <2>1, <2>4, NotifyRefusedCount
  <2>5. ASSUME NEW r \in Callers, Refused(r) PROVE SInv'
    BY <2>1, <2>5, FailCount DEF Refused
  <2>6. ASSUME NEW s \in Sids, Lapse(s) PROVE SInv'
    BY <2>1, <2>6, LapseCount
  <2> QED BY <1>2, <2>2, <2>3, <2>4, <2>5, <2>6 DEF External
<1>3. ASSUME NEW t \in Threads, ThreadStep(t) PROVE SInv'
  <2>1. build' = build /\ SInv
    BY <1>3 DEF ThreadStep
  <2>2. CASE t \in Notifiers /\ NotifierStep(t)
    BY <2>1, <2>2, NotifyLockCount, NotifyPostCount, NotifyPostArriving, NotifyDoneCount,
       NotifyTimeoutCount, NotifyEndCount DEF NotifierStep
  <2>3. CASE t \in Workers /\ WorkerStep(t)
    BY <2>1, <2>3, AcceptCount, SubscribeCount, SubscribeArriving, RenewLookupCount,
       RenewApplyCount, UnsubscribeCount, RespondCount, UseAfterFreeCount DEF WorkerStep
  <2>4. CASE t \in Handlers /\ HandlerStep(t)
    BY <2>1, <2>4, HandleUnknownCount, HandleEventCount, HandleGapCount,
       GapUnsubscribedCount, GapSubscribedCount, HandlerTellCount, HandlerReplyCount
       DEF HandlerStep
  <2>5. CASE t \in Cps /\ AppDone(t)
    BY <2>1, <2>5, AppDoneCount
  <2>6. CASE t \in Callers /\ CallTimeout(t)
    BY <2>1, <2>6, FailCount DEF CallTimeout
  <2> QED BY <1>3, <2>2, <2>3, <2>4, <2>5, <2>6 DEF ThreadStep
<1> QED BY <1>1, <1>2, <1>3 DEF Next

\* The first state.
LEMMA InitCount ==
    ASSUME Init
    PROVE  SInv
<1>1. /\ \A t \in Threads : pc[t] = "idle"
      /\ \A s \in Sids : sub[s].count = 0
      /\ answer = None /\ subs = {} /\ build \in Builds
  BY DEF Init
<1>2. build.maxCount \in Nat /\ 0 < build.maxSeq /\ \A c \in Cps : key[c] = 0
  BY <1>1, BuildFact DEF Init
<1>3. /\ \A r \in Callers : pc[r] = "idle"
      /\ \A h \in Handlers : pc[h] = "idle"
  BY <1>1 DEF Threads, Callers
<1>4. None \notin Handlers
  BY Apart DEF Threads, Callers
<1>5. \A r \in Callers, s \in Sids : ~Granted(r, s)
  BY <1>3 DEF Granted
<1> QED BY <1>1, <1>2, <1>3, <1>4, <1>5 DEF SInv, Counting, Arriving

-----------------------------------------------------------------------------
(* What a step can do to a handler, and to what a listener hears.          *)

\* A handler moves by itself, but for the event it gets.
LEMMA HandlerMoves ==
    ASSUME EInv, [Next]_vars, NEW h \in Handlers, pc'[h] # pc[h]
    PROVE  HandlerStep(h) \/ \E t \in Notifiers : NotifyPost(t)
<1>a. /\ TypeOK /\ Kinds /\ h \in Threads
      /\ \A t \in Threads \ {h} : \A l : pc' = [pc EXCEPT ![t] = l] => pc'[h] = pc[h]
      /\ h \notin Sids
      /\ \A t \in Notifiers \cup Workers \cup Cps : t \in Threads /\ t # h
      /\ \A t \in Setters : t \in Notifiers
  BY Apart DEF EInv, TypeOK, Threads, Callers, Notifiers
<1>1. pc' # pc
  OBVIOUS
<1>2. ~External
  <2>1. ASSUME NEW t \in Setters, SetValue(t) PROVE FALSE
    BY <2>1, <1>a DEF SetValue, Goto
  <2>2. ASSUME NEW c \in Cps, NEW op \in {"subscribe", "renew", "unsubscribe"}, AppCall(c, op)
        PROVE  FALSE
    BY <2>2, <1>a DEF AppCall, Post, Goto
  <2>3. ASSUME NEW t \in Notifiers, NotifyRefused(t) PROVE FALSE
    BY <2>3, <1>1 DEF NotifyRefused
  <2>4. ASSUME NEW r \in Callers, Refused(r) PROVE FALSE
    BY <2>4, <1>1 DEF Refused
  <2>5. ASSUME NEW s \in Sids, Lapse(s) PROVE FALSE
    BY <2>5, <1>1 DEF Lapse
  <2> QED BY <2>1, <2>2, <2>3, <2>4, <2>5 DEF External
<1>3. ASSUME NEW t \in Threads, ThreadStep(t)
      PROVE  HandlerStep(h) \/ \E u \in Notifiers : NotifyPost(u)
  <2>1. CASE t \in Notifiers /\ NotifierStep(t)
    BY <2>1, <1>a DEF NotifierStep, NotifyLock, NotifyDone, NotifyTimeout, NotifyEnd, Goto
  <2>2. CASE t \in Workers /\ WorkerStep(t)
    <3>1. ~Respond(t) => pc'[h] = pc[h]
      BY <2>2, <1>a DEF WorkerStep, Accept, Subscribe, RenewLookup, RenewApply, Unsubscribe,
         UseAfterFree, Goto
    <3>2. ASSUME Respond(t) PROVE FALSE
      <4>1. call[t].op = "subscribe" => call[t].sid \in Sids
        BY <3>2, <2>2 DEF EInv, Starting, Kinds, Calls, Respond
      <4> QED BY <2>2, <3>2, <4>1, <1>a DEF Respond, TypeOK
    <3> QED BY <3>1, <3>2
  <2>3. CASE t \in Handlers /\ HandlerStep(t)
    <3>1. CASE t # h
      BY <2>3, <3>1, <1>a DEF HandlerStep, HandleUnknown, HandleEvent, HandleGap, GapUnsubscribed,
         GapSubscribed, HandlerTell, HandlerReply, Post, Goto
    <3> QED BY <2>3, <3>1
  <2>4. CASE t \in Cps /\ AppDone(t)
    BY <2>4, <1>a DEF AppDone, Goto
  <2>5. CASE t \in Callers /\ CallTimeout(t)
    BY <2>5, <1>1 DEF CallTimeout
  <2> QED BY <1>3, <2>1, <2>2, <2>3, <2>4, <2>5 DEF ThreadStep
<1> QED BY <1>1, <1>2, <1>3 DEF Next, vars

\* A handler that goes from its event to a request has found a gap.
LEMMA GapStep ==
    ASSUME EInv, [Next]_vars, NEW h \in Handlers,
           pc[h] = "received", pc'[h] = "unsubscribe"
    PROVE  HandleGap(h)
<1>1. h \in Threads /\ \A l : pc' = [pc EXCEPT ![h] = l] => pc'[h] = l
  BY DEF EInv, TypeOK, Threads, Callers
<1>2. ASSUME NEW t \in Notifiers, NotifyPost(t) PROVE FALSE
  <2>1. pc'[h] \in {pc[h], "received", "posted"}
    BY <1>1, <1>2 DEF NotifyPost, EInv, TypeOK
  <2> QED BY <2>1
<1>3. HandlerStep(h)
  BY <1>2, HandlerMoves
<1> QED BY <1>1, <1>3 DEF HandlerStep, HandleUnknown, HandleEvent, GapUnsubscribed, GapSubscribed,
       HandlerTell, HandlerReply, Goto

\* No handler begins unless the publisher gets one to wait for.
LEMMA HandlerBegins ==
    ASSUME EInv, [Next]_vars, answer' = answer
    PROVE  \A h \in Handlers : pc'[h] # "idle" => pc[h] # "idle"
<1> SUFFICES ASSUME NEW h \in Handlers, pc[h] = "idle", pc'[h] # "idle"
             PROVE  FALSE
  OBVIOUS
<1>1. ASSUME NEW t \in Notifiers, NotifyPost(t) PROVE FALSE
  <2>1. answer = None /\ answer' \in Handlers
    BY <1>1, Apart DEF NotifyPost, EInv, Notifying, Threads
  <2> QED BY <2>1, Apart DEF Threads, Callers
<1>2. HandlerStep(h)
  BY <1>1, HandlerMoves
<1> QED BY <1>2 DEF HandlerStep, HandleUnknown, HandleEvent, HandleGap, HandlerLocks,
       GapUnsubscribed, GapSubscribed, HandlerTell, HandlerReply

\* The steps that have to do with what a listener hears.
LEMMA HearingSteps ==
    ASSUME EInv, [Next]_vars
    PROVE  \/ UNCHANGED <<value, heard, msg, answer>>
           \/ \E t \in Setters : SetValue(t)
           \/ \E t \in Notifiers : NotifyPost(t) \/ NotifyDone(t) \/ NotifyTimeout(t)
           \/ \E h \in Handlers : HandlerTell(h) \/ HandlerReply(h)
<1> DEFINE Same == UNCHANGED <<value, heard, msg, answer>>
<1>1. CASE UNCHANGED vars
  BY <1>1 DEF vars, pubVars, cpVars
<1>2. CASE External
  <2>1. ASSUME NEW c \in Cps, NEW op \in {"subscribe", "renew", "unsubscribe"}, AppCall(c, op)
        PROVE  Same
    BY <2>1 DEF AppCall, pubVars
  <2>2. ASSUME NEW t \in Notifiers, NotifyRefused(t) PROVE Same
    BY <2>2 DEF NotifyRefused, cpVars
  <2>3. ASSUME NEW r \in Callers, Refused(r) PROVE Same
    BY <2>3 DEF Refused, pubVars, cpVars
  <2>4. ASSUME NEW s \in Sids, Lapse(s) PROVE Same
    BY <2>4 DEF Lapse, cpVars
  <2> QED BY <1>2, <2>1, <2>2, <2>3, <2>4 DEF External
<1>3. ASSUME NEW t \in Threads, ThreadStep(t)
      PROVE  \/ Same
             \/ \E u \in Notifiers : NotifyPost(u) \/ NotifyDone(u) \/ NotifyTimeout(u)
             \/ \E h \in Handlers : HandlerTell(h) \/ HandlerReply(h)
  <2>1. CASE t \in Notifiers /\ NotifierStep(t)
    BY <2>1 DEF NotifierStep, NotifyLock, NotifyEnd, cpVars
  <2>2. CASE t \in Workers /\ WorkerStep(t)
    BY <2>2 DEF WorkerStep, Accept, Subscribe, RenewLookup, RenewApply, Unsubscribe,
       Respond, UseAfterFree, pubVars, cpVars
  <2>3. CASE t \in Handlers /\ HandlerStep(t)
    BY <2>3 DEF HandlerStep, HandleUnknown, HandleEvent, HandleGap, GapUnsubscribed,
       GapSubscribed, pubVars, cpVars
  <2>4. CASE t \in Cps /\ AppDone(t)
    BY <2>4 DEF AppDone, pubVars
  <2>5. CASE t \in Callers /\ CallTimeout(t)
    BY <2>5 DEF CallTimeout, pubVars, cpVars
  <2> QED BY <1>3, <2>1, <2>2, <2>3, <2>4, <2>5 DEF ThreadStep
<1> QED BY <1>1, <1>2, <1>3 DEF Next

-----------------------------------------------------------------------------
(* The values that a listener hears.                                       *)

\* Every step keeps what is heard, and what is on its way, in order.
LEMMA HearingStep ==
    ASSUME EInv, Hearing, [Next]_vars
    PROVE  Hearing'
<1>a. /\ TypeOK /\ Kinds /\ Notifying /\ MaxValue \in Nat
      /\ build' = build
  BY BoundsAssumption DEF EInv, Next, External, ThreadStep, vars
<1>b. /\ value \in Nat /\ Sent(value) \in Nat
      /\ \A c \in Cps : heard[c] \in Nat
      /\ \A h \in Handlers : pc[h] # "idle" => msg[h].val \in Nat /\ msg[h].cp \in Cps
  BY <1>a, BuildFact DEF TypeOK, Kinds, Values, Sent, Messages
<1>c. \A n : Sent(n)' = Sent(n)
  BY <1>a DEF Sent
<1>d. /\ \A h \in Handlers : h \in Threads /\ h # "ok" /\ h # None
      /\ \A t \in Notifiers : t \in Threads /\ t \notin Handlers
      /\ \A t \in Setters : t \in Notifiers
  BY Apart DEF Threads, Callers, Notifiers
<1>1. CASE UNCHANGED <<value, heard, msg, answer>>
  <2>1. \A h \in Handlers : pc'[h] # "idle" => pc[h] # "idle"
    BY <1>1, HandlerBegins
  <2>2. Sent(value)' = Sent(value)
    BY <1>1, <1>a DEF Sent
  <2> QED BY <2>1, <2>2, <1>1, <1>a DEF Hearing
<1>2. ASSUME NEW t \in Setters, SetValue(t) PROVE Hearing'
  <2>1. /\ UNCHANGED <<heard, msg, answer>> /\ value' = value + 1
        /\ \A h \in Handlers : pc'[h] = pc[h]
    BY <1>2, <1>a, <1>d DEF SetValue, Goto, cpVars, TypeOK
  <2>2. Sent(value)' \in Nat /\ Sent(value) <= Sent(value)'
    BY <2>1, <1>a, <1>b DEF Sent
  <2> QED BY <2>1, <2>2, <1>a, <1>b DEF Hearing
<1>3. ASSUME NEW t \in Notifiers, NotifyPost(t) PROVE Hearing'
  <2>1. PICK s \in queue, h \in Handlers :
           /\ msg' = [msg EXCEPT ![h] = [cp |-> sub[s].cp, sid |-> s,
                                         seq |-> sub[s].count, val |-> Sent(value)]]
           /\ pc' = [pc EXCEPT ![t] = "posted", ![h] = "received"]
           /\ answer' = h
    BY <1>3 DEF NotifyPost
  <2>2. UNCHANGED <<value, heard>> /\ Sent(value)' = Sent(value)
    BY <1>3, <1>a DEF NotifyPost, Sent
  <2>3. answer = None /\ s \in subs /\ sub[s].cp \in Cps
    BY <1>3, <1>d, <1>a, Apart DEF NotifyPost, Notifying, EInv, Known, Threads
  <2>4. /\ msg'[h].cp = sub[s].cp /\ msg'[h].val = Sent(value)
        /\ \A g \in Handlers : g # h => pc'[g] = pc[g] /\ msg'[g] = msg[g]
    BY <2>1, <1>a, <1>d DEF TypeOK
  <2>5. \A g \in Handlers : pc'[g] # "idle" => msg'[g].val <= Sent(value)
    BY <2>4, <1>b DEF Hearing
  <2>6. ~build.curl => \A g \in Handlers : pc'[g] # "idle" =>
           answer' = g /\ heard[msg'[g].cp] <= msg'[g].val
    <3> SUFFICES ASSUME ~build.curl, NEW g \in Handlers, pc'[g] # "idle"
                 PROVE  answer' = g /\ heard[msg'[g].cp] <= msg'[g].val
      OBVIOUS
    <3>1. g = h
      BY <2>3, <2>4, <1>d DEF Hearing
    <3> QED BY <3>1, <2>1, <2>3, <2>4 DEF Hearing
  <2> QED BY <2>2, <2>5, <2>6, <1>a DEF Hearing
<1>4. ASSUME NEW t \in Notifiers, NotifyDone(t) PROVE Hearing'
  <2>1. /\ UNCHANGED <<value, heard, msg>> /\ answer = "ok"
        /\ \A h \in Handlers : pc'[h] = pc[h]
    BY <1>4, <1>a, <1>d DEF NotifyDone, Goto, cpVars, TypeOK
  <2>2. Sent(value)' = Sent(value)
    BY <2>1, <1>a DEF Sent
  <2> QED BY <2>1, <2>2, <1>a, <1>d DEF Hearing
<1>5. ASSUME NEW t \in Notifiers, NotifyTimeout(t) PROVE Hearing'
  <2>1. /\ UNCHANGED <<value, heard, msg>> /\ build.curl
        /\ \A h \in Handlers : pc'[h] = pc[h]
    BY <1>5, <1>a, <1>d DEF NotifyTimeout, Goto, cpVars, TypeOK
  <2>2. Sent(value)' = Sent(value)
    BY <2>1, <1>a DEF Sent
  <2> QED BY <2>1, <2>2, <1>a DEF Hearing
<1>6. ASSUME NEW h \in Handlers, HandlerTell(h) PROVE Hearing'
  <2>1. /\ UNCHANGED <<value, msg, answer>> /\ pc[h] = "tell"
        /\ \A g \in Handlers : pc'[g] # "idle" => pc[g] # "idle"
        /\ heard'[msg[h].cp] = msg[h].val
        /\ \A c \in Cps : c # msg[h].cp => heard'[c] = heard[c]
    BY <1>6, <1>a, <1>b, <1>d DEF HandlerTell, Goto, pubVars, TypeOK
  <2>2. Sent(value)' = Sent(value)
    BY <2>1, <1>a DEF Sent
  <2> QED BY <2>1, <2>2, <1>a, <1>b DEF Hearing
<1>7. ASSUME NEW h \in Handlers, HandlerReply(h) PROVE Hearing'
  <2>1. /\ UNCHANGED <<value, heard>> /\ pc[h] = "reply" /\ pc'[h] = "idle"
        /\ answer' = (IF answer = h THEN "ok" ELSE answer)
        /\ \A g \in Handlers : g # h => pc'[g] = pc[g] /\ msg'[g] = msg[g]
    BY <1>7, <1>a, <1>d DEF HandlerReply, Goto, TypeOK
  <2>2. Sent(value)' = Sent(value)
    BY <2>1, <1>a DEF Sent
  <2> QED BY <2>1, <2>2, <1>a DEF Hearing
<1> QED BY <1>1, <1>2, <1>3, <1>4, <1>5, <1>6, <1>7, HearingSteps

\* The first state.
LEMMA InitHearing ==
    ASSUME Init
    PROVE  Hearing
<1>1. /\ \A h \in Handlers : pc[h] = "idle"
      /\ \A c \in Cps : heard[c] = 0
      /\ Sent(value) = 0
  BY DEF Init, Threads, Callers, Sent
<1> QED BY <1>1 DEF Hearing

-----------------------------------------------------------------------------
(* The theorems.                                                           *)

\* Both invariants hold in every state.
LEMMA Invariants == Spec => [](EInv /\ SInv)
<1>1. Init => EInv /\ SInv
  BY InitEInv, InitCount
<1>2. EInv /\ SInv /\ [Next]_vars => (EInv /\ SInv)'
  BY EStep, CountStep
<1> QED BY <1>1, <1>2, PTL DEF Spec

\* The variables have their types, and a thread is only where its kind can be.
THEOREM EventTypes == Spec => []TypeOK
<1>1. EInv => TypeOK
  BY DEF EInv
<1> QED BY <1>1, Invariants, PTL

\* Until the publisher counts beyond the number at which the control point wraps its key,
\* count and key agree whenever no NOTIFY is under way.
THEOREM CountsAgree == Spec => []SeqAgreement
<1>1. ASSUME EInv, SInv, NEW c \in Cps, sid[c] \in subs, target # sid[c],
             sub[sid[c]].count <= build.maxSeq
      PROVE  \/ sub[sid[c]].count = key[c] + 1
             \/ sub[sid[c]].count = 0 /\ key[c] = 0
  <2>1. InStep(sub[sid[c]].count, key[c])
    BY <1>1 DEF SInv, Counting, Passed
  <2>2. sid[c] \in Sids /\ sub[sid[c]].count \in Nat /\ build.maxSeq \in Nat
    BY <1>1, BuildFact, BoundsAssumption DEF EInv, TypeOK, Seqs
  <2> QED BY <1>1, <2>1, <2>2 DEF InStep
<1>2. EInv /\ SInv => SeqAgreement
  BY <1>1 DEF SeqAgreement
<1> QED BY <1>2, Invariants, PTL

\* A control point takes events for lost only when it has wrapped its key at a number at
\* which the publisher counts on; no refusal, timeout, renewal or lapsed lease, and no event
\* that is still worked on when the publisher has given it up, makes it subscribe again.
THEOREM GapsOnlyAtWrap == Spec => GapOnlyAtWrap
<1>1. ASSUME EInv, SInv, [Next]_vars, NEW h \in Handlers,
             pc[h] = "received", pc'[h] = "unsubscribe"
      PROVE  key[CpOf(h)] = 0 /\ msg[h].seq > build.maxSeq
  <2>1. HandleGap(h)
    BY <1>1, GapStep
  <2>2. sid[msg[h].cp] = msg[h].sid /\ ~InSequence(msg[h]) /\ CpOf(h) = msg[h].cp
    BY <2>1, Apart DEF HandleGap, CpOf
  <2>3. InStep(msg[h].seq, key[msg[h].cp])
    BY <1>1, <2>2 DEF SInv, Arriving
  <2> QED BY <2>2, <2>3 DEF InStep, InSequence
<1>2. EInv /\ SInv /\ [Next]_vars =>
         \A h \in Handlers : pc[h] = "received" /\ pc'[h] = "unsubscribe" =>
            key[CpOf(h)] = 0 /\ msg[h].seq > build.maxSeq
  BY <1>1
<1> QED BY <1>2, Invariants, PTL DEF Spec, GapOnlyAtWrap

\* An acknowledged UNSUBSCRIBE is the end of the subscription: nothing is sent to it, and
\* no handler works on an event of it.
THEOREM UnsubscribeFinal == Spec => []UnsubscribedIsQuiet
<1>1. ASSUME EInv, NEW r \in Callers, pc[r] = "unsubscribe", conn[r] = "ok"
      PROVE  LET s == sid[CpOf(r)] IN
             /\ s \notin subs \cup queue /\ target # s
             /\ \A h \in Handlers : msg[h] # NoMsg => msg[h].sid # s
  <2>1. Cancelled(r)
    BY <1>1 DEF Cancelled
  <2>2. /\ sid[CpOf(r)] # None /\ sid[CpOf(r)] \notin subs
        /\ \A h \in Handlers : pc[h] # "idle" => msg[h].sid # sid[CpOf(r)]
    BY <1>1, <2>1 DEF EInv, Finished
  <2>3. queue \subseteq subs /\ (target = None \/ target \in subs)
    BY <1>1 DEF EInv, Notifying
  <2>4. \A h \in Handlers : msg[h] # NoMsg => pc[h] # "idle"
    BY <1>1 DEF EInv, Kinds
  <2> QED BY <2>2, <2>3, <2>4
<1>2. EInv => UnsubscribedIsQuiet
  BY <1>1 DEF UnsubscribedIsQuiet
<1> QED BY <1>2, Invariants, PTL

\* In the socket build a listener never hears an older value after a newer one, though the
\* handlers call it without the lock: the publisher waits for one before it posts the next.
THEOREM HeardInOrder == Spec => ListenerInOrder
<1>1. Init => EInv /\ Hearing
  BY InitEInv, InitHearing
<1>2. EInv /\ Hearing /\ [Next]_vars => (EInv /\ Hearing)'
  BY EStep, HearingStep
<1>3. ASSUME EInv, Hearing, [Next]_vars, ~build.curl, NEW c \in Cps
      PROVE  heard'[c] >= heard[c]
  <2>1. heard[c] \in Nat
    BY <1>3, BoundsAssumption DEF EInv, TypeOK, Values
  <2>2. CASE heard' = heard
    BY <2>1, <2>2
  <2>3. ASSUME NEW h \in Handlers, HandlerTell(h) PROVE heard'[c] >= heard[c]
    <3>1. /\ pc[h] # "idle" /\ heard[msg[h].cp] <= msg[h].val /\ msg[h].val \in Nat
      BY <1>3, <2>3, BoundsAssumption DEF HandlerTell, Hearing, EInv, Kinds, Messages, Values
    <3>2. heard'[c] = IF c = msg[h].cp THEN msg[h].val ELSE heard[c]
      BY <1>3, <2>3 DEF HandlerTell, EInv, TypeOK
    <3> QED BY <2>1, <3>1, <3>2
  <2>4. heard' = heard \/ \E h \in Handlers : HandlerTell(h)
    BY <1>3, HearingSteps DEF SetValue, NotifyPost, NotifyDone, NotifyTimeout, HandlerReply,
       cpVars
  <2> QED BY <2>2, <2>3, <2>4
<1>4. EInv /\ Hearing /\ [Next]_vars =>
         build.curl \/ \A c \in Cps : heard'[c] >= heard[c]
  BY <1>3
<1> QED BY <1>1, <1>2, <1>4, PTL DEF Spec, ListenerInOrder

=============================================================================
