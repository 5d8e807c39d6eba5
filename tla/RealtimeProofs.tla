--------------------------- MODULE RealtimeProofs ---------------------------
(***************************************************************************)
(* Realtime sessions: a client that reconnects, the provider's session     *)
(* behind it, and the one process that holds both, for any frames,         *)
(* connections, commands, provider answers, tasks and resumes, and for     *)
(* every lease longer than a renewal interval.                             *)
(***************************************************************************)
EXTENDS RealtimeSession, RealtimeUpstream, SessionOwners, TLAPS

-----------------------------------------------------------------------------
(* One process holds a session: the inductive invariant *)

ProcessType ==
    [gen : Nat, session : {"none", "running", "ending"}, releasing : BOOLEAN, due : {0, RenewInterval}, orphan : Nat,
     draining : BOOLEAN, claimed : BOOLEAN]

OwnersTypeOK ==
    /\ directory \in Entries \cup {Nobody}
    /\ tasks \in [Tasks -> ProcessType]
    /\ hop \in Hops \cup {Nobody}

(* A process that has run the session for a renewal without an entry of    *)
(* its own either has its renewal due, or has the whole of a new lease     *)
(* before it: it makes no release, which could take that lease away.       *)
Orphaned(t) ==
    tasks[t].session = "running" =>
        /\ tasks[t].orphan <= RenewInterval
        /\ tasks[t].orphan > 0 => ~tasks[t].releasing /\ (tasks[t].due > 0 => Holds(t) /\ directory.left > 1)

(* The owner an entry or a hop names: a process that claimed the session,  *)
(* or one that has been replaced since.                                    *)
Claimed(owner) ==
    /\ owner.gen <= tasks[owner.task].gen
    /\ owner.gen = tasks[owner.task].gen => tasks[owner.task].claimed

OwnersInv ==
    /\ OwnersTypeOK
    /\ \A t \in Tasks : Orphaned(t)
    /\ directory # Nobody => Claimed(directory)
    /\ hop # Nobody => Claimed(hop.owner)
    /\ CredentialsStayWithOwner

-----------------------------------------------------------------------------
(* The parts of a step *)

(* What an entry that a task writes says. *)
LEMMA EntryFacts ==
    ASSUME OwnersTypeOK, NEW t \in Tasks
    PROVE  /\ ownerEntry(t) \in Entries /\ ownerEntry(t) # Nobody
           /\ ownerEntry(t).task = t /\ ownerEntry(t).gen = tasks[t].gen
           /\ ownerEntry(t).left = LeaseDuration /\ LeaseDuration > 1
<1>1. tasks[t].gen \in Nat
    BY DEF OwnersTypeOK, ProcessType
<1>2. ownerEntry(t) \in Entries
    BY <1>1, LeaseAssumption DEF ownerEntry, Entries
<1>3. QED
    BY <1>2, LeaseAssumption, NobodyAssumption DEF ownerEntry

(* An owner stays claimed while processes only claim more, and are only    *)
(* replaced by later ones.                                                 *)
LEMMA ClaimedStays ==
    ASSUME OwnersTypeOK, OwnersTypeOK', NEW task \in Tasks, NEW gen \in Nat,
           gen <= tasks[task].gen, gen = tasks[task].gen => tasks[task].claimed,
           \A t \in Tasks : \/ tasks'[t].gen = tasks[t].gen /\ (tasks[t].claimed => tasks'[t].claimed)
                            \/ tasks'[t].gen > tasks[t].gen
    PROVE  gen <= tasks'[task].gen /\ (gen = tasks'[task].gen => tasks'[task].claimed)
<1>1. tasks[task].gen \in Nat /\ tasks'[task].gen \in Nat
    BY DEF OwnersTypeOK, ProcessType
<1>2. QED
    BY <1>1

-----------------------------------------------------------------------------
(* The steps *)

(* Claims: the entry, if it is written, names a process that claimed the   *)
(* session.                                                                *)
Forward == \A t \in Tasks : \/ tasks'[t].gen = tasks[t].gen /\ (tasks[t].claimed => tasks'[t].claimed)
                            \/ tasks'[t].gen > tasks[t].gen
Written == \/ directory' = Nobody
           \/ directory # Nobody /\ directory' # Nobody /\ directory'.task = directory.task /\ directory'.gen = directory.gen
           \/ \E t \in Tasks : directory'.task = t /\ directory'.gen = tasks'[t].gen /\ tasks'[t].claimed

LEMMA OwnersNamed ==
    ASSUME OwnersInv, OwnersTypeOK', Forward, Written,
           \/ hop' = Nobody
           \/ hop # Nobody /\ hop' # Nobody /\ hop'.owner = hop.owner
           \/ directory # Nobody /\ hop' # Nobody /\ hop'.owner = [task |-> directory.task, gen |-> directory.gen]
    PROVE  (directory # Nobody => Claimed(directory))' /\ (hop # Nobody => Claimed(hop.owner))'
<1>1. OwnersTypeOK /\ (directory # Nobody => Claimed(directory)) /\ (hop # Nobody => Claimed(hop.owner))
    BY DEF OwnersInv
<1>2. directory # Nobody => /\ directory.task \in Tasks /\ directory.gen \in Nat
                            /\ directory.gen <= tasks'[directory.task].gen
                            /\ directory.gen = tasks'[directory.task].gen => tasks'[directory.task].claimed
    <2>1. SUFFICES ASSUME directory # Nobody
                   PROVE  /\ directory.task \in Tasks /\ directory.gen \in Nat
                          /\ directory.gen <= tasks'[directory.task].gen
                          /\ directory.gen = tasks'[directory.task].gen => tasks'[directory.task].claimed
        OBVIOUS
    <2>2. directory.task \in Tasks /\ directory.gen \in Nat
        BY <2>1, <1>1 DEF OwnersTypeOK, Entries
    <2>3. QED
        BY <1>1, <2>1, <2>2, ClaimedStays DEF Claimed, Forward
<1>3. hop # Nobody => /\ hop.owner.task \in Tasks /\ hop.owner.gen \in Nat
                      /\ hop.owner.gen <= tasks'[hop.owner.task].gen
                      /\ hop.owner.gen = tasks'[hop.owner.task].gen => tasks'[hop.owner.task].claimed
    <2>1. SUFFICES ASSUME hop # Nobody
                   PROVE  /\ hop.owner.task \in Tasks /\ hop.owner.gen \in Nat
                          /\ hop.owner.gen <= tasks'[hop.owner.task].gen
                          /\ hop.owner.gen = tasks'[hop.owner.task].gen => tasks'[hop.owner.task].claimed
        OBVIOUS
    <2>2. hop.owner.task \in Tasks /\ hop.owner.gen \in Nat
        BY <2>1, <1>1 DEF OwnersTypeOK, Hops
    <2>3. QED
        BY <1>1, <2>1, <2>2, ClaimedStays DEF Claimed, Forward
<1>4. ASSUME directory' # Nobody
      PROVE  Claimed(directory)'
    <2>1. CASE directory # Nobody /\ directory'.task = directory.task /\ directory'.gen = directory.gen
        BY <1>2, <2>1 DEF Claimed
    <2>2. CASE \E t \in Tasks : directory'.task = t /\ directory'.gen = tasks'[t].gen /\ tasks'[t].claimed
        <3>1. \A t \in Tasks : tasks'[t].gen \in Nat
            BY DEF OwnersTypeOK, ProcessType
        <3>2. QED
            BY <2>2, <3>1 DEF Claimed
    <2>3. QED
        BY <1>4, <2>1, <2>2 DEF Written
<1>5. ASSUME hop' # Nobody
      PROVE  Claimed(hop.owner)'
    BY <1>2, <1>3, <1>5 DEF Claimed
<1>6. QED
    BY <1>4, <1>5

LEMMA OwnersBegin ==
    ASSUME OwnersInit
    PROVE  OwnersInv
<1>1. Process(1) \in ProcessType
    BY DEF Process, ProcessType, RenewInterval
<1>2. QED
    BY <1>1 DEF OwnersInit, OwnersInv, OwnersTypeOK, Orphaned, CredentialsStayWithOwner, Process

(* A step of one process: what it becomes, and that the others stay.       *)
LEMMA OneProcess ==
    ASSUME OwnersTypeOK, NEW t \in Tasks, NEW p \in ProcessType, tasks' = [tasks EXCEPT ![t] = p]
    PROVE  tasks' \in [Tasks -> ProcessType] /\ tasks'[t] = p /\ \A v \in Tasks \ {t} : tasks'[v] = tasks[v]
BY DEF OwnersTypeOK

(* A running process that has no entry has no lease before it: whoever     *)
(* writes to the directory then, its renewal is due.                       *)
LEMMA OrphansAreDue ==
    ASSUME OwnersInv, ~Live, NEW v \in Tasks, tasks[v].session = "running", tasks[v].orphan > 0
    PROVE  ~(tasks[v].due > 0) /\ ~tasks[v].releasing /\ tasks[v].orphan <= RenewInterval
BY DEF OwnersInv, Orphaned, Holds

LEMMA OpenKeeps ==
    ASSUME OwnersInv, NEW t \in Tasks, NEW lost \in BOOLEAN, OpenAt(t, lost)
    PROVE  OwnersInv'
<1>1. OwnersTypeOK /\ tasks[t] \in ProcessType
    BY DEF OwnersInv, OwnersTypeOK
<1>2. hop' = hop /\ handed' = handed
    BY DEF OpenAt
<1>3. CredentialsStayWithOwner'
    BY <1>2 DEF OwnersInv, CredentialsStayWithOwner
<1>4. CASE Live \/ (~lost /\ (tasks[t].session # "none" \/ tasks[t].draining))
    <2>1. tasks' = tasks /\ (directory' = directory \/ (~Live /\ directory' = Nobody))
        BY <1>4 DEF OpenAt
    <2>2. OwnersTypeOK' /\ Forward /\ Written
        BY <1>1, <1>2, <2>1 DEF OwnersTypeOK, Forward, Written
    <2>3. \A v \in Tasks : Orphaned(v)'
        <3>1. CASE directory' = directory
            BY <2>1, <3>1 DEF OwnersInv, Orphaned, Holds, Live
        <3>2. CASE ~Live
            BY <2>1, <3>2, OrphansAreDue DEF OwnersInv, Orphaned
        <3>3. QED
            BY <2>1, <3>1, <3>2
    <2>4. QED
        BY <1>2, <1>3, <2>2, <2>3, OwnersNamed DEF OwnersInv
<1>5. CASE ~Live /\ (lost \/ ~(tasks[t].session # "none" \/ tasks[t].draining))
    <2> DEFINE p == IF lost THEN [tasks[t] EXCEPT !.claimed = TRUE]
                    ELSE [tasks[t] EXCEPT !.session = "running", !.due = RenewInterval, !.orphan = 0, !.claimed = TRUE]
    <2>1. directory' = ownerEntry(t) /\ tasks' = [tasks EXCEPT ![t] = p]
        BY <1>5 DEF OpenAt
    <2>2. /\ p \in ProcessType /\ p.claimed /\ p.gen = tasks[t].gen /\ p.releasing = tasks[t].releasing
          /\ \/ p.session = tasks[t].session /\ p.due = tasks[t].due /\ p.orphan = tasks[t].orphan
             \/ p.orphan = 0
        BY <1>1 DEF ProcessType, RenewInterval
    <2> HIDE DEF p
    <2>3. tasks' \in [Tasks -> ProcessType] /\ tasks'[t] = p /\ \A v \in Tasks \ {t} : tasks'[v] = tasks[v]
        BY <1>1, <2>1, <2>2, OneProcess
    <2>4. directory' \in Entries /\ directory'.task = t /\ directory'.gen = tasks'[t].gen
        BY <1>1, <2>1, <2>2, <2>3, EntryFacts
    <2>5. OwnersTypeOK' /\ Forward /\ Written
        BY <1>1, <1>2, <2>2, <2>3, <2>4 DEF OwnersTypeOK, Forward, Written
    <2>6. ASSUME NEW v \in Tasks
          PROVE  Orphaned(v)'
        <3>1. v # t => (~Live /\ tasks'[v] = tasks[v])
            BY <1>5, <2>3
        <3>2. CASE v # t
            BY <3>1, <3>2, OrphansAreDue DEF OwnersInv, Orphaned
        <3>3. CASE v = t /\ p.orphan = 0
            BY <2>3, <3>3 DEF Orphaned, RenewInterval
        <3>4. CASE v = t /\ p.session = tasks[t].session /\ p.due = tasks[t].due /\ p.orphan = tasks[t].orphan
            BY <1>5, <2>2, <2>3, <3>4, OrphansAreDue DEF OwnersInv, Orphaned
        <3>5. QED
            BY <2>2, <3>2, <3>3, <3>4
    <2>7. QED
        BY <1>2, <1>3, <2>5, <2>6, OwnersNamed DEF OwnersInv
<1>6. QED
    BY <1>4, <1>5

LEMMA RenewKeeps ==
    ASSUME OwnersInv, NEW t \in Tasks, NEW answered \in BOOLEAN, Renew(t, answered)
    PROVE  OwnersInv'
<1> DEFINE p == IF renewed(t, answered) THEN [tasks[t] EXCEPT !.due = RenewInterval]
                ELSE [tasks[t] EXCEPT !.session = "ending", !.due = 0, !.orphan = 0]
<1>1. OwnersTypeOK /\ tasks[t] \in ProcessType /\ hop' = hop /\ handed' = handed
    BY DEF OwnersInv, OwnersTypeOK, Renew
<1>2. tasks' = [tasks EXCEPT ![t] = p]
    BY DEF Renew
<1>3. /\ p \in ProcessType /\ p.claimed = tasks[t].claimed /\ p.gen = tasks[t].gen
      /\ p.releasing = tasks[t].releasing
      /\ \/ Holds(t) /\ p.session = tasks[t].session /\ p.orphan = tasks[t].orphan
         \/ p.session = "ending"
    BY <1>1 DEF ProcessType, RenewInterval, renewed
<1> HIDE DEF p
<1>4. tasks' \in [Tasks -> ProcessType] /\ tasks'[t] = p /\ \A v \in Tasks \ {t} : tasks'[v] = tasks[v]
    BY <1>1, <1>2, <1>3, OneProcess
<1>5. \/ ~Holds(t) /\ directory' = directory
      \/ /\ Holds(t) /\ directory # Nobody /\ directory' \in Entries /\ directory' # Nobody
         /\ directory'.task = directory.task /\ directory'.gen = directory.gen
         /\ directory.task = t /\ directory'.gen = tasks[t].gen /\ directory'.left > 1
    BY <1>1, EntryFacts DEF Renew, Holds, Live
<1>6. OwnersTypeOK' /\ Forward /\ Written /\ CredentialsStayWithOwner'
    BY <1>1, <1>3, <1>4, <1>5 DEF OwnersInv, OwnersTypeOK, Forward, Written, CredentialsStayWithOwner
<1>7. ASSUME NEW v \in Tasks
      PROVE  Orphaned(v)'
    <2>1. Orphaned(v) /\ Orphaned(t)
        BY DEF OwnersInv
    <2>2. CASE v # t /\ ~Holds(t)
        BY <1>4, <1>5, <2>1, <2>2 DEF Orphaned, Holds, Live
    <2>3. CASE v # t /\ Holds(t)
        <3>1. ~Holds(v)
            BY <2>3 DEF Holds
        <3>2. QED
            BY <1>4, <2>1, <2>3, <3>1 DEF Orphaned
    <2>4. CASE v = t /\ p.session = "ending"
        BY <1>4, <2>4 DEF Orphaned
    <2>5. CASE v = t /\ Holds(t) /\ p.session = tasks[t].session /\ p.orphan = tasks[t].orphan
        <3>1. Holds(t)' /\ directory'.left > 1
            BY <1>3, <1>4, <1>5, <2>5 DEF Holds, Live, Entries
        <3>2. QED
            BY <1>3, <1>4, <2>1, <2>5, <3>1 DEF Orphaned, Renew
    <2>6. QED
        BY <1>3, <2>2, <2>3, <2>4, <2>5
<1>8. QED
    BY <1>1, <1>6, <1>7, OwnersNamed DEF OwnersInv

(* A process whose session ends, is taken off it or drains keeps its       *)
(* claim and touches nobody's entry.                                       *)
LEMMA ProcessKeeps ==
    ASSUME OwnersInv, NEW t \in Tasks, NEW p \in ProcessType, tasks' = [tasks EXCEPT ![t] = p],
           UNCHANGED <<directory, hop, handed>>,
           \/ p.gen = tasks[t].gen /\ p.claimed = tasks[t].claimed
           \/ p.gen > tasks[t].gen,
           \/ p.session # "running"
           \/ /\ p.session = tasks[t].session /\ p.due = tasks[t].due /\ p.orphan = tasks[t].orphan
              /\ p.releasing = tasks[t].releasing /\ p.gen = tasks[t].gen
    PROVE  OwnersInv'
<1>1. tasks' \in [Tasks -> ProcessType] /\ tasks'[t] = p /\ \A v \in Tasks \ {t} : tasks'[v] = tasks[v]
    BY OneProcess DEF OwnersInv
<1>2. OwnersTypeOK' /\ CredentialsStayWithOwner' /\ Forward
    BY <1>1 DEF OwnersInv, OwnersTypeOK, CredentialsStayWithOwner, Forward
<1>3. \A v \in Tasks : Orphaned(v)'
    BY <1>1 DEF OwnersInv, Orphaned, Holds, Live
<1>4. QED
    BY <1>2, <1>3, OwnersNamed DEF OwnersInv, Written

LEMMA OwnStepsKeep ==
    ASSUME OwnersInv, NEW t \in Tasks, Ending(t) \/ Removed(t) \/ Drain(t) \/ Crash(t)
    PROVE  OwnersInv'
<1>1. tasks[t] \in ProcessType /\ tasks[t].gen \in Nat
    BY DEF OwnersInv, OwnersTypeOK, ProcessType
<1>2. CASE Ending(t)
    <2> DEFINE p == [tasks[t] EXCEPT !.session = "ending", !.due = 0, !.orphan = 0]
    <2>1. tasks' = [tasks EXCEPT ![t] = p] /\ UNCHANGED <<directory, hop, handed>>
        BY <1>2 DEF Ending
    <2>2. p \in ProcessType /\ p.gen = tasks[t].gen /\ p.claimed = tasks[t].claimed /\ p.session # "running"
        BY <1>1 DEF ProcessType, RenewInterval
    <2> HIDE DEF p
    <2>3. QED
        BY <2>1, <2>2, ProcessKeeps
<1>3. CASE Removed(t)
    <2> DEFINE p == [tasks[t] EXCEPT !.session = "none", !.releasing = TRUE]
    <2>1. tasks' = [tasks EXCEPT ![t] = p] /\ UNCHANGED <<directory, hop, handed>>
        BY <1>3 DEF Removed
    <2>2. p \in ProcessType /\ p.gen = tasks[t].gen /\ p.claimed = tasks[t].claimed /\ p.session # "running"
        BY <1>1 DEF ProcessType
    <2> HIDE DEF p
    <2>3. QED
        BY <2>1, <2>2, ProcessKeeps
<1>4. CASE Drain(t)
    <2> DEFINE p == [tasks[t] EXCEPT !.draining = TRUE]
    <2>1. tasks' = [tasks EXCEPT ![t] = p] /\ UNCHANGED <<directory, hop, handed>>
        BY <1>4 DEF Drain
    <2>2. /\ p \in ProcessType /\ p.gen = tasks[t].gen /\ p.claimed = tasks[t].claimed
          /\ p.session = tasks[t].session /\ p.due = tasks[t].due /\ p.orphan = tasks[t].orphan
          /\ p.releasing = tasks[t].releasing
        BY <1>1 DEF ProcessType
    <2> HIDE DEF p
    <2>3. QED
        BY <2>1, <2>2, ProcessKeeps
<1>5. CASE Crash(t)
    <2> DEFINE p == Process(tasks[t].gen + 1)
    <2>1. tasks' = [tasks EXCEPT ![t] = p] /\ UNCHANGED <<directory, hop, handed>>
        BY <1>5 DEF Crash
    <2>2. p \in ProcessType /\ p.gen > tasks[t].gen /\ p.session # "running"
        BY <1>1 DEF ProcessType, Process, RenewInterval
    <2> HIDE DEF p
    <2>3. QED
        BY <2>1, <2>2, ProcessKeeps
<1>6. QED
    BY <1>2, <1>3, <1>4, <1>5

LEMMA ReleaseKeeps ==
    ASSUME OwnersInv, NEW t \in Tasks, NEW answered \in BOOLEAN, releaseOwner(t, answered)
    PROVE  OwnersInv'
<1> DEFINE p == [tasks[t] EXCEPT !.releasing = FALSE]
<1>1. OwnersTypeOK /\ tasks[t] \in ProcessType /\ hop' = hop /\ handed' = handed /\ tasks[t].releasing
    BY DEF OwnersInv, OwnersTypeOK, releaseOwner
<1>2. tasks' = [tasks EXCEPT ![t] = p] /\ (directory' = directory \/ (Mine(t) /\ directory' = Nobody))
    BY DEF releaseOwner
<1>3. /\ p \in ProcessType /\ p.claimed = tasks[t].claimed /\ p.gen = tasks[t].gen
      /\ p.session = tasks[t].session /\ p.due = tasks[t].due /\ p.orphan = tasks[t].orphan
    BY <1>1 DEF ProcessType
<1> HIDE DEF p
<1>4. tasks' \in [Tasks -> ProcessType] /\ tasks'[t] = p /\ \A v \in Tasks \ {t} : tasks'[v] = tasks[v]
    BY <1>1, <1>2, <1>3, OneProcess
<1>5. OwnersTypeOK' /\ Forward /\ Written /\ CredentialsStayWithOwner'
    BY <1>1, <1>2, <1>3, <1>4 DEF OwnersInv, OwnersTypeOK, Forward, Written, CredentialsStayWithOwner
<1>6. ASSUME NEW v \in Tasks
      PROVE  Orphaned(v)'
    <2>1. Orphaned(v)
        BY DEF OwnersInv
    <2>2. CASE v = t
        BY <1>1, <1>3, <1>4, <2>1, <2>2 DEF Orphaned
    <2>3. CASE v # t /\ directory' = directory
        BY <1>4, <2>1, <2>3 DEF Orphaned, Holds, Live
    <2>4. CASE v # t /\ Mine(t)
        <3>1. ~Holds(v)
            BY <2>4 DEF Mine, Holds
        <3>2. QED
            BY <1>4, <2>1, <2>4, <3>1 DEF Orphaned
    <2>5. QED
        BY <1>2, <2>2, <2>3, <2>4
<1>7. QED
    BY <1>1, <1>5, <1>6, OwnersNamed DEF OwnersInv

(* The steps of a forwarded resume: the credential goes to the process the *)
(* directory named, which claimed the session.                             *)
LEMMA HopsKeep ==
    ASSUME OwnersInv, (\E t \in Tasks : Lookup(t)) \/ (\E direct \in BOOLEAN : Hello(direct)) \/ Resumes \/ relay
    PROVE  OwnersInv'
<1>1. directory' = directory /\ tasks' = tasks
    BY DEF Lookup, Hello, Resumes, relay
<1>2. OwnersTypeOK
    BY DEF OwnersInv
<1>3. \A t \in Tasks : Orphaned(t)'
    BY <1>1 DEF OwnersInv, Orphaned, Holds, Live
<1>4. /\ hop' \in Hops \cup {Nobody}
      /\ \/ hop' = Nobody
         \/ hop # Nobody /\ hop' # Nobody /\ hop'.owner = hop.owner
         \/ directory # Nobody /\ hop' # Nobody /\ hop'.owner = [task |-> directory.task, gen |-> directory.gen]
    <2>1. CASE \E t \in Tasks : Lookup(t)
        <3> DEFINE h == [owner |-> [task |-> directory.task, gen |-> directory.gen], stage |-> "dialling"]
        <3>1. directory # Nobody /\ hop' = h
            BY <2>1 DEF Lookup, Live
        <3>2. h \in Hops
            BY <1>2, <3>1 DEF OwnersTypeOK, Entries, Hops
        <3>3. QED
            BY <3>1, <3>2, NobodyAssumption
    <2>2. CASE hop' = Nobody
        BY <2>2
    <2>3. ASSUME NEW stage \in {"handed", "relaying"}, hop # Nobody, hop' = [hop EXCEPT !.stage = stage]
          PROVE  hop' \in Hops /\ hop' # Nobody /\ hop'.owner = hop.owner
        BY <1>2, <2>3, NobodyAssumption DEF OwnersTypeOK, Hops
    <2>4. QED
        BY <2>1, <2>2, <2>3 DEF Hello, Resumes, relay
<1>5. CredentialsStayWithOwner'
    <2>1. CASE handed' = handed
        BY <2>1 DEF OwnersInv, CredentialsStayWithOwner
    <2>2. CASE handed' # handed
        <3>1. /\ hop # Nobody /\ provesGeneration(tasks[hop.owner.task], hop.owner)
              /\ handed' = handed \union {[task |-> hop.owner.task, gen |-> tasks[hop.owner.task].gen,
                                           claimed |-> tasks[hop.owner.task].claimed]}
            BY <2>2 DEF Lookup, Hello, Resumes, relay
        <3>2. tasks[hop.owner.task].claimed
            BY <3>1 DEF OwnersInv, Claimed, provesGeneration
        <3>3. QED
            BY <3>1, <3>2 DEF OwnersInv, CredentialsStayWithOwner
    <2>3. QED
        BY <2>1, <2>2
<1>6. OwnersTypeOK' /\ Forward /\ Written
    BY <1>1, <1>2, <1>4 DEF OwnersTypeOK, Forward, Written
<1>7. QED
    BY <1>3, <1>4, <1>5, <1>6, OwnersNamed DEF OwnersInv

(* A renewal interval passes: whoever runs the session had its renewal     *)
(* ahead, and whoever was without an entry has had one since.              *)
LEMMA TickKeeps ==
    ASSUME OwnersInv, Tick
    PROVE  OwnersInv'
<1>1. OwnersTypeOK /\ hop' = hop /\ handed' = handed
    BY DEF OwnersInv, Tick
<1>2. \/ directory' = directory
      \/ /\ directory # Nobody /\ directory' \in Entries /\ directory' # Nobody
         /\ directory'.task = directory.task /\ directory'.gen = directory.gen
    <2>1. CASE Live
        <3>1. directory \in Entries /\ directory.left > 0 /\ directory' = [directory EXCEPT !.left = directory.left - 1]
            BY <1>1, <2>1 DEF OwnersTypeOK, Live, Tick
        <3>2. QED
            BY <3>1, <2>1, NobodyAssumption DEF Entries, Live
    <2>2. CASE ~Live
        BY <2>2 DEF Tick
    <2>3. QED
        BY <2>1, <2>2
<1>3. ASSUME NEW t \in Tasks
      PROVE  /\ tasks'[t] \in ProcessType /\ tasks'[t].gen = tasks[t].gen /\ tasks'[t].claimed = tasks[t].claimed
             /\ tasks'[t].session = "running" => tasks'[t].due = 0 /\ ~tasks'[t].releasing /\ tasks'[t].orphan <= RenewInterval
    <2> DEFINE p == tasks[t]
               o == IF Holds(t) /\ directory.left > 1 THEN 0 ELSE p.orphan + 1
    <2>1. p \in ProcessType /\ Orphaned(t) /\ ~p.releasing
        BY DEF OwnersInv, OwnersTypeOK, Tick
    <2>2. CASE p.session # "running"
        <3>1. tasks'[t] = p
            BY <2>2 DEF Tick
        <3>2. QED
            BY <2>1, <2>2, <3>1
    <2>3. CASE p.session = "running"
        <3>1. tasks'[t] = [p EXCEPT !.due = p.due - 1, !.orphan = o] /\ p.due > 0
            BY <2>3 DEF Tick
        <3>2. p.due = 1 /\ p.orphan \in Nat
            BY <2>1, <3>1 DEF ProcessType, RenewInterval
        <3>3. p.orphan > 0 => Holds(t) /\ directory.left > 1
            BY <2>1, <2>3, <3>1 DEF Orphaned
        <3>4. o \in Nat /\ o <= RenewInterval
            BY <3>2, <3>3 DEF RenewInterval
        <3> HIDE DEF p, o
        <3>5. /\ tasks'[t] \in ProcessType /\ tasks'[t].gen = p.gen /\ tasks'[t].claimed = p.claimed
              /\ tasks'[t].due = 0 /\ tasks'[t].orphan = o /\ tasks'[t].releasing = p.releasing
            <4>1. tasks'[t] = [p EXCEPT !.due = 0, !.orphan = o]
                BY <3>1, <3>2
            <4>2. QED
                BY <2>1, <3>4, <4>1 DEF ProcessType
        <3>6. QED
            BY <2>1, <3>4, <3>5 DEF p
    <2>4. QED
        BY <2>2, <2>3
<1>4. tasks' \in [Tasks -> ProcessType]
    BY <1>3 DEF Tick
<1>5. OwnersTypeOK' /\ Forward /\ Written /\ CredentialsStayWithOwner'
    BY <1>1, <1>2, <1>3, <1>4 DEF OwnersInv, OwnersTypeOK, Forward, Written, CredentialsStayWithOwner
<1>6. \A t \in Tasks : Orphaned(t)'
    BY <1>3 DEF Orphaned
<1>7. QED
    BY <1>1, <1>5, <1>6, OwnersNamed DEF OwnersInv

LEMMA OwnersStep ==
    ASSUME OwnersInv, [OwnersNext]_ownerVars
    PROVE  OwnersInv'
<1>1. CASE UNCHANGED ownerVars
    BY <1>1 DEF ownerVars, OwnersInv, OwnersTypeOK, Orphaned, Holds, Live, Claimed, CredentialsStayWithOwner
<1>2. CASE OwnersNext
    BY <1>2, OpenKeeps, RenewKeeps, ReleaseKeeps, OwnStepsKeep, HopsKeep, TickKeeps DEF OwnersNext
<1>3. QED
    BY <1>1, <1>2

-----------------------------------------------------------------------------
(* A session and the credentials it runs with stay with one process        *)
(* (claimOwner, renewOwner, releaseOwner, forwardResume).                  *)
THEOREM SessionsStayPut == OwnersSpec => []StaysWithOwner
<1>1. OwnersInit => OwnersInv
    BY OwnersBegin
<1>2. OwnersInv /\ [OwnersNext]_ownerVars => OwnersInv'
    BY OwnersStep
<1>3. OwnersInv => StaysWithOwner
    BY DEF OwnersInv, Orphaned, StaysWithOwner, OneOwner
<1>4. QED
    BY <1>1, <1>2, <1>3, PTL DEF OwnersSpec

-----------------------------------------------------------------------------
(* A connection is written without a gap, a command applied once *)

\* The fields of a session that its connection and its commands read.
SessionFields == {"stage", "attached", "connections", "sequence", "seen", "told", "gap", "repeated", "applied"}

\* What an attached connection was last told is the newest event, and what was
\* applied is remembered.
Told(x) ==
  /\ SessionFields \subseteq DOMAIN x
  /\ x.sequence \in Nat /\ x.connections \in Nat /\ x.attached \in Nat /\ x.told \in Int
  /\ x.attached # 0 => x.told = x.sequence - 1
  /\ x.applied \subseteq x.seen
  /\ x.gap = FALSE /\ x.repeated = FALSE

\* A session that is over has no connection.
Over(x) == x.stage = "done" => x.attached = 0

SessionInv == Told(s) /\ Over(s)

\* A handler leaves the numbering and the commands as they were when it sets
\* no field they read.
LEMMA ToldKept ==
  ASSUME NEW x, Told(x), NEW y, DOMAIN y = DOMAIN x,
         y.attached = x.attached, y.connections = x.connections, y.sequence = x.sequence, y.seen = x.seen,
         y.told = x.told, y.gap = x.gap, y.repeated = x.repeated, y.applied = x.applied
  PROVE  Told(y)
BY DEF Told

LEMMA DetachTold ==
  ASSUME NEW x, Told(x)
  PROVE  Told(detach(x)) /\ detach(x).attached = 0 /\ detach(x).stage = x.stage /\ detach(x).sequence = x.sequence
<1>1. PICK y : y = detach(x)
  OBVIOUS
<1>2. /\ DOMAIN y = DOMAIN x /\ y.attached = 0 /\ y.told = -1 /\ y.connections = x.connections /\ y.sequence = x.sequence
      /\ y.seen = x.seen /\ y.gap = x.gap /\ y.repeated = x.repeated /\ y.applied = x.applied /\ y.stage = x.stage
  BY <1>1 DEF detach, Told, SessionFields
<1>3. Told(y)
  BY <1>2 DEF Told
<1> QED BY <1>1, <1>2, <1>3

LEMMA EmitTold ==
  ASSUME NEW x, Told(x), NEW size, NEW fails
  PROVE  LET y == emit(x, size, fails)
         IN  Told(y) /\ y.stage = x.stage /\ y.seen = x.seen /\ y.applied = x.applied /\ (x.attached = 0 => y.attached = 0)
<1>1. PICK z : z = [x EXCEPT !.held = push(@, size), !.sequence = @ + 1]
  OBVIOUS
<1>2. /\ DOMAIN z = DOMAIN x /\ z.attached = x.attached /\ z.told = x.told /\ z.connections = x.connections
      /\ z.sequence = x.sequence + 1
      /\ z.seen = x.seen /\ z.gap = x.gap /\ z.repeated = x.repeated /\ z.applied = x.applied /\ z.stage = x.stage
  BY <1>1 DEF Told, SessionFields
<1>3. PICK y : y = write(z, x.sequence, fails)
  OBVIOUS
<1>4. y = emit(x, size, fails)
  BY <1>1, <1>3 DEF emit
<1>5. ASSUME x.attached = 0
      PROVE  Told(y) /\ y.stage = x.stage /\ y.seen = x.seen /\ y.applied = x.applied /\ y.attached = 0
  <2>1. y = z
    BY <1>2, <1>3, <1>5 DEF write
  <2> QED BY <1>2, <1>5, <2>1 DEF Told
<1>6. ASSUME x.attached # 0, fails
      PROVE  Told(y) /\ y.stage = x.stage /\ y.seen = x.seen /\ y.applied = x.applied
  <2>1. y = detach(z)
    BY <1>2, <1>3, <1>6 DEF write
  <2>2. /\ DOMAIN y = DOMAIN x /\ y.attached = 0 /\ y.told = -1 /\ y.connections = x.connections
        /\ y.sequence = x.sequence + 1
        /\ y.seen = x.seen /\ y.gap = x.gap /\ y.repeated = x.repeated /\ y.applied = x.applied /\ y.stage = x.stage
    BY <1>2, <2>1 DEF detach, Told, SessionFields
  <2> QED BY <2>2 DEF Told
<1>7. ASSUME x.attached # 0, ~fails
      PROVE  Told(y) /\ y.stage = x.stage /\ y.seen = x.seen /\ y.applied = x.applied
  <2>1. y = [z EXCEPT !.told = x.sequence, !.gap = @ \/ x.sequence # z.told + 1]
    BY <1>2, <1>3, <1>7 DEF write
  <2>2. /\ DOMAIN y = DOMAIN x /\ y.attached = x.attached /\ y.told = x.sequence /\ y.connections = x.connections
        /\ y.sequence = x.sequence + 1
        /\ y.seen = x.seen /\ y.repeated = x.repeated /\ y.applied = x.applied /\ y.stage = x.stage
        /\ y.gap = (x.gap \/ x.sequence # x.told + 1)
    BY <1>2, <2>1 DEF Told, SessionFields
  <2>3. x.sequence = x.told + 1 /\ x.gap = FALSE
    BY <1>7 DEF Told
  <2>4. y.gap = FALSE
    BY <2>2, <2>3
  <2> QED BY <2>2, <2>4 DEF Told
<1> QED BY <1>4, <1>5, <1>6, <1>7

\* The events after the one a client names, one by one, up to the newest.
LEMMA AfterNumbers ==
  ASSUME NEW x, Told(x), NEW named \in Int, after(x, named) # None
  PROVE  \/ after(x, named) = <<>> /\ named + 1 = x.sequence
         \/ /\ x.sequence - named - 1 \in Nat \ {0}
            /\ after(x, named) = [i \in 1..(x.sequence - named - 1) |-> named + i]
BY DEF Told, after

LEMMA ReplayTold ==
  ASSUME NEW x, Told(x), NEW named \in -1..x.sequence, after(x, named) # None, NEW fails
  PROVE  Told(resume(x, named, fails)) /\ resume(x, named, fails).stage = x.stage
<1>1. PICK z : z = [connect(detach(x)) EXCEPT !.told = named]
  OBVIOUS
<1>2. PICK d : d = detach(x)
  OBVIOUS
<1>3. Told(d) /\ d.attached = 0 /\ d.stage = x.stage /\ d.sequence = x.sequence
  BY <1>2, DetachTold
<1>4. /\ DOMAIN z = DOMAIN d /\ z.attached = d.connections + 1 /\ z.connections = d.connections + 1 /\ z.told = named
      /\ z.sequence = d.sequence /\ z.seen = d.seen /\ z.gap = d.gap /\ z.repeated = d.repeated /\ z.applied = d.applied
      /\ z.stage = d.stage
  BY <1>1, <1>2, <1>3 DEF connect, Told, SessionFields
<1>5. PICK numbers : numbers = after(x, named)
  OBVIOUS
<1>6. PICK y : y = replay(z, numbers, fails)
  OBVIOUS
<1>7. resume(x, named, fails) = emit(y, 1, fails)
  BY <1>1, <1>5, <1>6 DEF resume
<1>8. Told(y) /\ y.stage = x.stage
  <2>0. named \in Int /\ x.sequence \in Nat
    BY DEF Told
  <2>1. CASE numbers = <<>> /\ named + 1 = x.sequence
    <3>1. y = z
      BY <1>6, <2>1 DEF replay
    <3> QED BY <1>3, <1>4, <2>0, <2>1, <3>1 DEF Told
  <2>2. CASE /\ x.sequence - named - 1 \in Nat \ {0}
             /\ numbers = [i \in 1..(x.sequence - named - 1) |-> named + i]
    <3>1. PICK n \in Nat \ {0} : n = x.sequence - named - 1
      BY <2>2
    <3>2. numbers = [i \in 1..n |-> named + i]
      BY <2>2, <3>1
    <3>3. Len(numbers) = n /\ numbers # <<>> /\ numbers[1] = named + 1
      BY <2>0, <3>1, <3>2
    <3>4. numbers[n] = x.sequence - 1
      BY <2>0, <3>1, <3>2
    <3>5. \A i \in 1..n : numbers[i] = named + i /\ (i # 1 => numbers[i - 1] = named + i - 1)
      BY <2>0, <3>1, <3>2
    <3>6. ASSUME fails
          PROVE  Told(y) /\ y.stage = x.stage
      <4>1. y = detach(z)
        BY <1>6, <3>3, <3>6 DEF replay
      <4>2. /\ DOMAIN y = DOMAIN z /\ y.attached = 0 /\ y.told = -1 /\ y.connections = z.connections
            /\ y.sequence = z.sequence
            /\ y.seen = z.seen /\ y.gap = z.gap /\ y.repeated = z.repeated /\ y.applied = z.applied /\ y.stage = z.stage
        BY <1>3, <1>4, <4>1 DEF detach, Told, SessionFields
      <4> QED BY <1>3, <1>4, <4>2 DEF Told
    <3>7. ASSUME ~fails
          PROVE  Told(y) /\ y.stage = x.stage
      <4>1. PICK gap : gap = (z.gap \/ \E i \in 1..Len(numbers) : numbers[i] # 1 + (IF i = 1 THEN z.told ELSE numbers[i - 1]))
        OBVIOUS
      <4>2. y = [z EXCEPT !.told = numbers[Len(numbers)], !.gap = gap]
        BY <1>6, <3>3, <3>7, <4>1 DEF replay
      <4>3. /\ DOMAIN y = DOMAIN z /\ y.attached = z.attached /\ y.told = x.sequence - 1 /\ y.connections = z.connections
            /\ y.sequence = z.sequence
            /\ y.seen = z.seen /\ y.gap = gap /\ y.repeated = z.repeated /\ y.applied = z.applied /\ y.stage = z.stage
        BY <1>3, <1>4, <3>3, <3>4, <4>2 DEF Told, SessionFields
      <4>4. \A i \in 1..n : numbers[i] = 1 + (IF i = 1 THEN z.told ELSE numbers[i - 1])
        BY <1>4, <2>0, <3>3, <3>5
      <4>5. gap = FALSE
        BY <1>3, <1>4, <3>3, <4>1, <4>4 DEF Told
      <4> QED BY <1>3, <1>4, <2>0, <4>3, <4>5 DEF Told
    <3> QED BY <3>6, <3>7
  <2> QED BY <1>5, <2>0, <2>1, <2>2, AfterNumbers
<1> QED BY <1>7, <1>8, EmitTold
LEMMA FinishTold ==
  ASSUME NEW x, Told(x), Over(x), NEW reason, NEW fatal, NEW fails
  PROVE  Told(finish(x, reason, fatal, fails)) /\ Over(finish(x, reason, fatal, fails))
<1>1. CASE x.stage = "done"
  BY <1>1 DEF finish
<1>2. CASE x.stage # "done"
  <2>1. PICK ended : ended = [x EXCEPT !.stage = "done", !.expiry = FALSE, !.window = FALSE, !.reason = reason]
    OBVIOUS
  <2>2. Told(ended)
    BY <2>1, ToldKept DEF Told, SessionFields
  <2>3. PICK last : last = IF fatal THEN emit(ended, 1, fails) ELSE ended
    OBVIOUS
  <2>4. Told(last)
    BY <2>2, <2>3, EmitTold
  <2>5. PICK closed : closed = emit(last, 1, fails)
    OBVIOUS
  <2>6. Told(closed)
    BY <2>4, <2>5, EmitTold
  <2>7. PICK report : report = [x |-> SettleSession(x.opening,
                                        [outcome |-> reportOutcome(reason, x.measured, x.opening.opened), measured |-> x.measured])]
    OBVIOUS
  <2>8. PICK y : y = [closed EXCEPT !.report = report, !.attached = 0, !.told = -1]
    OBVIOUS
  <2>9. y = finish(x, reason, fatal, fails)
    BY <1>2, <2>1, <2>3, <2>5, <2>7, <2>8, Zenon DEF finish
  <2>10. /\ DOMAIN y = DOMAIN closed /\ y.attached = 0 /\ y.told = -1 /\ y.connections = closed.connections
         /\ y.sequence = closed.sequence
         /\ y.seen = closed.seen /\ y.gap = closed.gap /\ y.repeated = closed.repeated /\ y.applied = closed.applied
    BY <2>6, <2>8 DEF Told, SessionFields
  <2>11. Told(y) /\ y.attached = 0
    BY <2>6, <2>10 DEF Told
  <2> QED BY <2>9, <2>11 DEF Over
<1> QED BY <1>1, <1>2

\* A command that is applied was not in the window, and is now.
LEMMA ReceiveTold ==
  ASSUME NEW x, Told(x), x.stage = "live", NEW frame, NEW sent, NEW fails
  PROVE  Told(receive(x, frame, sent, fails)) /\ Over(receive(x, frame, sent, fails))
<1>1. PICK c : c = frame.command
  OBVIOUS
<1>2. PICK r : r = remember(x, c.id)
  OBVIOUS
<1>3. Told(r) /\ r.stage = "live" /\ r.seen = x.seen \cup {c.id} /\ r.applied = x.applied
  <2>1. /\ DOMAIN r = DOMAIN x /\ r.attached = x.attached /\ r.told = x.told /\ r.connections = x.connections /\ r.sequence = x.sequence
        /\ r.gap = x.gap /\ r.repeated = x.repeated /\ r.applied = x.applied /\ r.stage = x.stage /\ r.seen = x.seen \cup {c.id}
    BY <1>2 DEF remember, Told, SessionFields
  <2> QED BY <2>1 DEF Told
<1>4. PICK acked : acked = emit(r, 1, fails)
  OBVIOUS
<1>5. Told(acked) /\ acked.stage = "live" /\ acked.seen = r.seen /\ acked.applied = r.applied
  BY <1>3, <1>4, EmitTold
<1>6. PICK applied : applied = [acked EXCEPT !.repeated = @ \/ c.id \in acked.applied, !.applied = @ \cup {c.id}]
  OBVIOUS
<1>7. PICK y : y = [applied EXCEPT !.input = @ + commandInputAudio(c)]
  OBVIOUS
<1>8. ASSUME c.id \notin x.seen
      PROVE  Told(y) /\ Over(y)
  <2>1. /\ DOMAIN y = DOMAIN acked /\ y.attached = acked.attached /\ y.told = acked.told /\ y.connections = acked.connections
        /\ y.sequence = acked.sequence /\ y.gap = acked.gap /\ y.stage = acked.stage /\ y.seen = acked.seen
        /\ y.applied = acked.applied \cup {c.id}
        /\ y.repeated = (acked.repeated \/ c.id \in acked.applied)
    BY <1>5, <1>6, <1>7 DEF Told, SessionFields
  <2>2. c.id \notin acked.applied /\ acked.repeated = FALSE /\ c.id \in acked.seen
    BY <1>3, <1>5, <1>8 DEF Told
  <2>3. y.repeated = FALSE /\ y.applied \subseteq y.seen
    BY <1>5, <2>1, <2>2 DEF Told
  <2> QED BY <1>5, <2>1, <2>3 DEF Told, Over
<1>9. PICK result : result = receive(x, frame, sent, fails)
  OBVIOUS
<1>10. \/ result = detach(x)
       \/ result = emit(x, 1, fails) \/ result = emit(acked, 1, fails)
       \/ \E reason, fatal : result = finish(x, reason, fatal, fails)
       \/ \E reason, fatal : result = finish(acked, reason, fatal, fails)
       \/ c.id \notin x.seen /\ result = y
  BY <1>1, <1>2, <1>4, <1>6, <1>7, <1>9, Zenon DEF receive
<1>11. Over(x) /\ Over(acked)
  BY <1>5 DEF Over
<1>12. CASE result = detach(x)
  BY <1>9, <1>12, DetachTold DEF Over
<1>13. CASE result = emit(x, 1, fails) \/ result = emit(acked, 1, fails)
  BY <1>5, <1>9, <1>13, EmitTold DEF Over
<1>14. CASE \E reason, fatal : result = finish(x, reason, fatal, fails)
  BY <1>9, <1>11, <1>14, FinishTold
<1>15. CASE \E reason, fatal : result = finish(acked, reason, fatal, fails)
  BY <1>5, <1>9, <1>11, <1>15, FinishTold
<1> QED BY <1>8, <1>9, <1>10, <1>12, <1>13, <1>14, <1>15

LEMMA UpstreamTold ==
  ASSUME NEW x, Told(x), x.stage = "live", NEW event \in UpstreamEvents, NEW fails
  PROVE  Told(upstream(x, event, fails)) /\ Over(upstream(x, event, fails))
<1>1. PICK y : y = [x EXCEPT !.measured = @ \/ event \in {"usage", "done"}]
  OBVIOUS
<1>2. Told(y) /\ y.stage = "live"
  BY <1>1, ToldKept DEF Told, SessionFields
<1>3. PICK z : z = [y EXCEPT !.responses = @ + 1]
  OBVIOUS
<1>4. Told(z) /\ z.stage = "live"
  BY <1>2, <1>3, ToldKept DEF Told, SessionFields
<1>5. PICK w : w = [y EXCEPT !.output = @ + 1]
  OBVIOUS
<1>6. Told(w) /\ w.stage = "live"
  BY <1>2, <1>5, ToldKept DEF Told, SessionFields
<1>7. PICK result : result = upstream(x, event, fails)
  OBVIOUS
<1>8. \/ \E reason, fatal : result = finish(x, reason, fatal, fails)
      \/ \E reason, fatal : result = finish(y, reason, fatal, fails)
      \/ result = y
      \/ \E size : result = emit(y, size, fails) \/ result = emit(z, size, fails) \/ result = emit(w, size, fails)
  <2>1. CASE event = "closed"
    BY <1>7, <2>1 DEF upstream
  <2>2. CASE event = "failed"
    BY <1>7, <2>2 DEF upstream
  <2>3. CASE event = "usage"
    BY <1>1, <1>7, <2>3 DEF upstream
  <2>4. CASE event = "created"
    <3>1. CASE y.responses >= y.limits.responses /\ y.responses < y.limits.responses
      BY <1>1, <1>3, <1>7, <2>4, <3>1 DEF upstream
    <3>2. CASE y.responses >= y.limits.responses /\ ~(y.responses < y.limits.responses)
      BY <1>1, <1>3, <1>7, <2>4, <3>2 DEF upstream
    <3>3. CASE ~(y.responses >= y.limits.responses) /\ y.responses < y.limits.responses
      BY <1>1, <1>3, <1>7, <2>4, <3>3 DEF upstream
    <3>4. CASE ~(y.responses >= y.limits.responses) /\ ~(y.responses < y.limits.responses)
      BY <1>1, <1>3, <1>7, <2>4, <3>4 DEF upstream
    <3> QED BY <3>1, <3>2, <3>3, <3>4
  <2>5. CASE event = "audio"
    <3>1. CASE y.output + 1 > y.limits.output /\ y.output + 1 <= y.limits.output
      BY <1>1, <1>5, <1>7, <2>5, <3>1 DEF upstream
    <3>2. CASE y.output + 1 > y.limits.output /\ ~(y.output + 1 <= y.limits.output)
      BY <1>1, <1>5, <1>7, <2>5, <3>2 DEF upstream
    <3>3. CASE ~(y.output + 1 > y.limits.output) /\ y.output + 1 <= y.limits.output
      BY <1>1, <1>5, <1>7, <2>5, <3>3 DEF upstream
    <3>4. CASE ~(y.output + 1 > y.limits.output) /\ ~(y.output + 1 <= y.limits.output)
      BY <1>1, <1>5, <1>7, <2>5, <3>4 DEF upstream
    <3> QED BY <3>1, <3>2, <3>3, <3>4
  <2>6. CASE event \in {"text", "done"}
    BY <1>1, <1>7, <2>6 DEF upstream
  <2> QED BY <2>1, <2>2, <2>3, <2>4, <2>5, <2>6 DEF UpstreamEvents
<1>9. Over(x) /\ Over(y)
  BY <1>2 DEF Over
<1>10. CASE \E reason, fatal : result = finish(x, reason, fatal, fails)
  BY <1>7, <1>9, <1>10, FinishTold
<1>11. CASE \E reason, fatal : result = finish(y, reason, fatal, fails)
  BY <1>2, <1>7, <1>9, <1>11, FinishTold
<1>12. CASE \E size : result = emit(y, size, fails) \/ result = emit(z, size, fails) \/ result = emit(w, size, fails)
  BY <1>2, <1>4, <1>6, <1>7, <1>12, EmitTold DEF Over
<1> QED BY <1>2, <1>7, <1>8, <1>9, <1>10, <1>11, <1>12

LEMMA BecameTold ==
  ASSUME NEW x, Told(x), Over(x), Became(x)
  PROVE  SessionInv'
<1>1. CASE x.stage = "done"
  <2>1. PICK y : y = [x EXCEPT !.held = <<>>, !.seen = {}, !.applied = {}, !.responses = 0, !.input = 0, !.output = 0, !.sequence = 0,
                               !.limits = None, !.opening = None, !.connections = 0, !.routes = <<>>]
    OBVIOUS
  <2>2. s' = y
    BY <1>1, <2>1, Zenon DEF Became
  <2>3. /\ DOMAIN y = DOMAIN x /\ y.attached = x.attached /\ y.told = x.told /\ y.connections = 0 /\ y.sequence = 0
        /\ y.gap = x.gap /\ y.repeated = x.repeated /\ y.applied = {} /\ y.stage = x.stage /\ y.seen = {}
    BY <2>1 DEF Told, SessionFields
  <2>4. Told(y) /\ Over(y)
    BY <1>1, <2>3 DEF Told, Over
  <2> QED BY <2>2, <2>4 DEF SessionInv
<1>2. CASE x.stage # "done"
  <2>1. s' = x
    BY <1>2 DEF Became
  <2> QED BY <2>1 DEF SessionInv
<1> QED BY <1>1, <1>2

LEMMA ArriveTold ==
  ASSUME NEW a, Arrive(a)
  PROVE  SessionInv'
<1>1. PICK x : x = NoSession
  OBVIOUS
<1>2. Told(x)
  BY <1>1 DEF NoSession, Told, SessionFields
<1>3. PICK y : y = connect(NoSession)
  OBVIOUS
<1>4. /\ DOMAIN y = DOMAIN x /\ y.attached = 1 /\ y.told = -1 /\ y.connections = 1 /\ y.sequence = 0
      /\ y.gap = FALSE /\ y.repeated = FALSE /\ y.applied = {} /\ y.seen = {}
  BY <1>1, <1>3 DEF connect, NoSession
<1>5. Told(y)
  BY <1>2, <1>4 DEF Told
<1>6. \/ s' = [x EXCEPT !.stage = "refused"]
      \/ \E public, report : s' = [x EXCEPT !.stage = "refused", !.public = public, !.report = report]
      \/ \E public, line, rev, routes, limits, transcribes :
            s' = [y EXCEPT !.stage = "opening", !.public = public, !.line = line, !.rev = rev,
                           !.routes = routes, !.limits = limits, !.transcribes = transcribes]
  <2>1. PICK routes : routes = IF a.public THEN SessionRoutes(a.plan, a.byok, a.open.line) ELSE a.request.routes
    OBVIOUS
  <2>2. PICK limits : limits = IF a.public THEN realtimeLimits(a.open.limits, a.defaults) ELSE a.request.limits
    OBVIOUS
  <2>3. PICK asked : asked = IF a.public THEN a.open ELSE a.request
    OBVIOUS
  <2>4. PICK refused : refused = IF a.public THEN AdmitOpen(a.open, a.entry, a.defaults) # None ELSE ~ValidSessionRequest(a.request)
    OBVIOUS
  <2>5. s' = IF draining \/ refused THEN [x EXCEPT !.stage = "refused"]
             ELSE IF routes = <<>> \/ ~a.claimed
             THEN [x EXCEPT !.stage = "refused", !.public = a.public, !.report = IF a.public THEN [x |-> "unserved"] ELSE None]
             ELSE [y EXCEPT !.stage = "opening", !.public = a.public, !.line = asked.line, !.rev = asked.rev,
                            !.routes = routes, !.limits = limits, !.transcribes = asked.config.transcription # None]
    BY <1>1, <1>3, <2>1, <2>2, <2>3, <2>4, Zenon DEF Arrive
  <2> QED BY <2>5, Zenon
<1>7. CASE s' = [x EXCEPT !.stage = "refused"]
  BY <1>2, <1>7 DEF SessionInv, Told, Over, SessionFields
<1>8. CASE \E public, report : s' = [x EXCEPT !.stage = "refused", !.public = public, !.report = report]
  BY <1>2, <1>8 DEF SessionInv, Told, Over, SessionFields
<1>9. CASE \E public, line, rev, routes, limits, transcribes :
            s' = [y EXCEPT !.stage = "opening", !.public = public, !.line = line, !.rev = rev,
                           !.routes = routes, !.limits = limits, !.transcribes = transcribes]
  <2>1. /\ DOMAIN s' = DOMAIN y /\ s'.attached = y.attached /\ s'.told = y.told /\ s'.connections = y.connections
        /\ s'.sequence = y.sequence /\ s'.gap = y.gap /\ s'.repeated = y.repeated /\ s'.applied = y.applied /\ s'.seen = y.seen
        /\ s'.stage = "opening"
    BY <1>5, <1>9 DEF Told, SessionFields
  <2> QED BY <1>5, <2>1 DEF SessionInv, Told, Over
<1> QED BY <1>6, <1>7, <1>8, <1>9

LEMMA OpenReturnsTold ==
  ASSUME SessionInv, NEW outcomes, OpenReturns(outcomes)
  PROVE  SessionInv'
<1>1. PICK x : x = [s EXCEPT !.opening = OpenSession([line |-> s.line, rev |-> s.rev, routes |-> s.routes], s.public, s.transcribes, outcomes)]
  OBVIOUS
<1>2. s.stage = "opening" /\ Told(s)
  BY DEF OpenReturns, SessionInv
<1>3. Told(x) /\ x.stage = "opening"
  BY <1>1, <1>2, ToldKept DEF Told, SessionFields
<1>4. PICK y : y = [x EXCEPT !.stage = "live"]
  OBVIOUS
<1>5. Told(y) /\ y.stage = "live"
  BY <1>3, <1>4, ToldKept DEF Told, SessionFields
<1>6. PICK fails : \/ Became([emit(y, 1, fails) EXCEPT !.expiry = TRUE])
                   \/ \E reason : Became(finish(x, reason, TRUE, fails))
  BY <1>1, <1>4, Zenon DEF OpenReturns
<1>7. CASE Became([emit(y, 1, fails) EXCEPT !.expiry = TRUE])
  <2>1. PICK z : z = emit(y, 1, fails)
    OBVIOUS
  <2>2. Told(z) /\ z.stage = "live"
    BY <1>5, <2>1, EmitTold
  <2>3. PICK w : w = [z EXCEPT !.expiry = TRUE]
    OBVIOUS
  <2>4. Told(w) /\ w.stage = "live"
    BY <2>2, <2>3, ToldKept DEF Told, SessionFields
  <2>5. Became(w) /\ Over(w)
    BY <1>7, <2>1, <2>3, <2>4 DEF Over
  <2> QED BY <2>4, <2>5, BecameTold
<1>8. CASE \E reason : Became(finish(x, reason, TRUE, fails))
  <2>1. Over(x)
    BY <1>3 DEF Over
  <2> QED BY <1>3, <1>8, <2>1, FinishTold, BecameTold
<1> QED BY <1>6, <1>7, <1>8

LEMMA SessionStep ==
  ASSUME SessionInv, [SessionNext]_sessionVars
  PROVE  SessionInv'
<1>1. Told(s) /\ Over(s)
  BY DEF SessionInv
<1>2. ASSUME s' = s
      PROVE  SessionInv'
  BY <1>2 DEF SessionInv
<1>3. CASE UNCHANGED sessionVars
  BY <1>2, <1>3 DEF sessionVars
<1>4. CASE \E a \in Arrivals : Arrive(a)
  BY <1>4, ArriveTold
<1>5. CASE \E outcomes \in [1..Len(s.routes) -> RouteOutcomes \cup {"cancelled"}] : OpenReturns(outcomes)
  BY <1>5, OpenReturnsTold
<1>6. CASE \E frame \in Frames : ClientSends(frame)
  BY <1>2, <1>6 DEF ClientSends
<1>7. CASE \E sent \in {"ok", "unsupported", "failed"} : Receive(sent)
  <2>1. s.stage = "live"
    BY <1>7 DEF Receive, Running
  <2>2. s' = s \/ \E sent, fails : Became(receive(s, Head(inbox).frame, sent, fails))
    BY <1>7, Zenon DEF Receive
  <2> QED BY <1>1, <1>2, <2>1, <2>2, ReceiveTold, BecameTold
<1>8. CASE \E event \in UpstreamEvents : Upstream(event)
  <2>1. s.stage = "live"
    BY <1>8 DEF Upstream, Running
  <2>2. \E event \in UpstreamEvents : \E fails : Became(upstream(s, event, fails))
    BY <1>8, Zenon DEF Upstream
  <2> QED BY <1>1, <2>1, <2>2, UpstreamTold, BecameTold
<1>9. CASE \E by \in [lane : {"internal", "public"}, opener : BOOLEAN], named \in -1..s.sequence : Resume(by, named)
  <2>1. PICK named \in -1..s.sequence : s.stage = "live" /\ after(s, named) # None /\ \E fails : Became(resume(s, named, fails))
    BY <1>9, Zenon DEF Resume, Running
  <2>2. PICK fails : Became(resume(s, named, fails))
    BY <2>1
  <2>3. Told(resume(s, named, fails)) /\ Over(resume(s, named, fails))
    BY <1>1, <2>1, ReplayTold DEF Over
  <2> QED BY <2>2, <2>3, BecameTold
<1>10. CASE \E reason \in {"max_duration", "idle_timeout", "resume_expired"} : Timer(reason)
  <2>1. \E reason, fails : Became(finish(s, reason, FALSE, fails))
    BY <1>10, Zenon DEF Timer
  <2> QED BY <1>1, <2>1, FinishTold, BecameTold
<1>11. CASE Shutdown
  BY <1>2, <1>11 DEF Shutdown
<1>12. CASE ObserveShutdown
  <2>1. \E fails : Became(finish(s, "server_shutdown", FALSE, fails))
    BY <1>12, Zenon DEF ObserveShutdown
  <2> QED BY <1>1, <2>1, FinishTold, BecameTold
<1>13. CASE Cancel
  <2>1. s' = [s EXCEPT !.cancelled = TRUE] /\ s.stage # "done"
    BY <1>13 DEF Cancel
  <2>2. Told(s') /\ s'.stage = s.stage
    BY <1>1, <2>1, ToldKept DEF Told, SessionFields
  <2> QED BY <2>1, <2>2 DEF SessionInv, Over
<1> QED BY <1>3, <1>4, <1>5, <1>6, <1>7, <1>8, <1>9, <1>10, <1>11, <1>12, <1>13 DEF SessionNext

\* A client that reconnects misses nothing and causes nothing twice
\* (session.resume, replay.after, session.receive), for any frames, provider
\* events, number of connections, buffer sizes and failing writes.
THEOREM ReconnectsExactly == SessionSpec => []ResumesExactly
<1>1. SessionInit => SessionInv
  BY DEF SessionInit, SessionInv, NoSession, Told, Over, SessionFields
<1>2. SessionInv /\ [SessionNext]_sessionVars => SessionInv'
  BY SessionStep
<1>3. SessionInv => ResumesExactly
  BY DEF SessionInv, Told, ResumesExactly, ReplayIsGapless, AppliedOnce
<1> QED BY <1>1, <1>2, <1>3, PTL DEF SessionSpec

-----------------------------------------------------------------------------
(* The updates in flight and the updates the adapter waits for *)

Sent == [id : Nat, command : UpCommands]
Awaited == [id : Nat, config : {c.config : c \in UpCommands}]

IsUpdate(m) == m.command.type = "session.update"

Rising(q) == \A i, j \in 1..Len(q) : i < j => q[i].id < q[j].id

\* The adapter waits for exactly the updates in flight, in their order.
Matches(q, p, n) ==
  /\ q \in Seq(Sent) /\ p \in Seq(Awaited) /\ n \in Nat
  /\ Rising(q) /\ Rising(p)
  /\ \A j \in 1..Len(q) : q[j].id <= n
  /\ \A i \in 1..Len(p) : \E j \in 1..Len(q) : IsUpdate(q[j]) /\ q[j].id = p[i].id /\ q[j].command.config = p[i].config
  /\ \A j \in 1..Len(q) : IsUpdate(q[j]) => \E i \in 1..Len(p) : p[i].id = q[j].id

LEMMA Ids ==
  /\ \A m \in Sent : m.id \in Nat
  /\ \A w \in Awaited : w.id \in Nat
  /\ \A k \in Nat, c \in UpCommands : [id |-> k, command |-> c] \in Sent /\ [id |-> k, config |-> c.config] \in Awaited
BY DEF Sent, Awaited

LEMMA ElementOf ==
  ASSUME NEW S, NEW q \in Seq(S)
  PROVE  \A i \in 1..Len(q) : q[i] \in S
OBVIOUS

LEMMA TailIndex ==
  ASSUME NEW S, NEW q \in Seq(S), q # <<>>
  PROVE  /\ Tail(q) \in Seq(S) /\ Len(Tail(q)) = Len(q) - 1 /\ Len(q) \in Nat \ {0}
         /\ \A i \in 1..Len(Tail(q)) : i + 1 \in 1..Len(q) /\ Tail(q)[i] = q[i + 1]
         /\ \A i \in 1..Len(q) : i # 1 => i - 1 \in 1..Len(Tail(q)) /\ Tail(q)[i - 1] = q[i]
OBVIOUS

LEMMA TailRising ==
  ASSUME NEW S, NEW q \in Seq(S), q # <<>>, Rising(q)
  PROVE  Rising(Tail(q))
<1>1. PICK Q : Q = Tail(q)
  OBVIOUS
<1>2. /\ Len(q) \in Nat /\ Len(Q) = Len(q) - 1
      /\ \A i \in 1..Len(Q) : i + 1 \in 1..Len(q) /\ Q[i] = q[i + 1]
  BY <1>1, TailIndex
<1>3. ASSUME NEW i \in 1..Len(Q), NEW j \in 1..Len(Q), i < j
      PROVE  Q[i].id < Q[j].id
  <2>1. i + 1 \in 1..Len(q) /\ j + 1 \in 1..Len(q) /\ i + 1 < j + 1 /\ Q[i] = q[i + 1] /\ Q[j] = q[j + 1]
    BY <1>2, <1>3
  <2>2. q[i + 1].id < q[j + 1].id
    BY <2>1 DEF Rising
  <2> QED BY <2>1, <2>2
<1> QED BY <1>1, <1>3 DEF Rising

\* The oldest message is an update: it is the one waited for longest.
LEMMA HeadMatches ==
  ASSUME NEW q, NEW p, NEW n, Matches(q, p, n), q # <<>>, IsUpdate(q[1])
  PROVE  p # <<>> /\ p[1].id = q[1].id /\ p[1].config = q[1].command.config /\ Matches(Tail(q), Tail(p), n)
<1>1. q \in Seq(Sent) /\ p \in Seq(Awaited) /\ n \in Nat /\ Rising(q) /\ Rising(p) /\ Len(q) \in Nat \ {0} /\ Len(p) \in Nat
  BY DEF Matches
<1>2. \A i \in 1..Len(q) : q[i].id \in Nat
  BY <1>1, Ids, ElementOf
<1>3. \A i \in 1..Len(p) : p[i].id \in Nat
  BY <1>1, Ids, ElementOf
<1>4. PICK i \in 1..Len(p) : p[i].id = q[1].id
  BY <1>1 DEF Matches
<1>5. PICK j \in 1..Len(q) : IsUpdate(q[j]) /\ q[j].id = p[1].id /\ q[j].command.config = p[1].config
  BY <1>1, <1>4 DEF Matches
<1>6. i = 1
  <2>1. CASE i # 1
    <3>1. p[1].id < q[1].id
      BY <1>1, <1>4, <2>1 DEF Rising
    <3>2. q[1].id <= q[j].id
      BY <1>1, <1>2, <1>5 DEF Rising
    <3> QED BY <1>1, <1>2, <1>3, <1>4, <1>5, <3>1, <3>2
  <2> QED BY <2>1
<1>7. j = 1
  <2>1. CASE j # 1
    <3>1. q[1].id < q[j].id
      BY <1>1, <1>5, <2>1 DEF Rising
    <3> QED BY <1>1, <1>2, <1>4, <1>5, <1>6, <3>1
  <2> QED BY <2>1
<1>8. p # <<>> /\ Len(p) \in Nat \ {0}
  BY <1>1, <1>4
<1>9. PICK Q : Q = Tail(q)
  OBVIOUS
<1>10. PICK P : P = Tail(p)
  OBVIOUS
<1>11. /\ Q \in Seq(Sent) /\ Len(Q) = Len(q) - 1 /\ Rising(Q)
       /\ \A k \in 1..Len(Q) : k + 1 \in 1..Len(q) /\ Q[k] = q[k + 1]
       /\ \A k \in 1..Len(q) : k # 1 => k - 1 \in 1..Len(Q) /\ Q[k - 1] = q[k]
  BY <1>1, <1>9, TailIndex, TailRising
<1>12. /\ P \in Seq(Awaited) /\ Len(P) = Len(p) - 1 /\ Rising(P)
       /\ \A k \in 1..Len(P) : k + 1 \in 1..Len(p) /\ P[k] = p[k + 1]
       /\ \A k \in 1..Len(p) : k # 1 => k - 1 \in 1..Len(P) /\ P[k - 1] = p[k]
  BY <1>1, <1>8, <1>10, TailIndex, TailRising
<1>13. \A k \in 1..Len(Q) : Q[k].id <= n
  BY <1>11 DEF Matches
<1>14. ASSUME NEW k \in 1..Len(P)
       PROVE  \E l \in 1..Len(Q) : IsUpdate(Q[l]) /\ Q[l].id = P[k].id /\ Q[l].command.config = P[k].config
  <2>1. k + 1 \in 1..Len(p) /\ P[k] = p[k + 1] /\ k \in Nat /\ k >= 1
    BY <1>8, <1>12
  <2>2. PICK l \in 1..Len(q) : IsUpdate(q[l]) /\ q[l].id = p[k + 1].id /\ q[l].command.config = p[k + 1].config
    BY <2>1 DEF Matches
  <2>3. p[1].id < p[k + 1].id
    <3>1. 1 \in 1..Len(p) /\ 1 < k + 1
      BY <1>8, <2>1
    <3> QED BY <1>1, <2>1, <3>1 DEF Rising
  <2>4. l # 1
    BY <1>1, <1>3, <1>4, <1>6, <1>8, <2>1, <2>2, <2>3
  <2>5. l - 1 \in 1..Len(Q) /\ Q[l - 1] = q[l]
    BY <1>11, <2>4
  <2> QED BY <2>1, <2>2, <2>5
<1>15. ASSUME NEW l \in 1..Len(Q), IsUpdate(Q[l])
       PROVE  \E k \in 1..Len(P) : P[k].id = Q[l].id
  <2>1. l + 1 \in 1..Len(q) /\ Q[l] = q[l + 1] /\ l \in Nat /\ l >= 1
    BY <1>1, <1>11
  <2>2. PICK k \in 1..Len(p) : p[k].id = q[l + 1].id
    BY <1>15, <2>1 DEF Matches
  <2>3. q[1].id < q[l + 1].id
    <3>1. 1 \in 1..Len(q) /\ 1 < l + 1
      BY <1>1, <2>1
    <3> QED BY <1>1, <2>1, <3>1 DEF Rising
  <2>4. k # 1
    BY <1>1, <1>2, <1>4, <1>6, <2>1, <2>2, <2>3
  <2>5. k - 1 \in 1..Len(P) /\ P[k - 1] = p[k]
    BY <1>12, <2>4
  <2> QED BY <2>1, <2>2, <2>5
<1>16. Matches(Q, P, n)
  BY <1>1, <1>11, <1>12, <1>13, <1>14, <1>15 DEF Matches
<1> QED BY <1>4, <1>5, <1>6, <1>7, <1>8, <1>9, <1>10, <1>16

\* The oldest message is no update: no update is waited for under its name.
LEMMA OtherMatches ==
  ASSUME NEW q, NEW p, NEW n, Matches(q, p, n), q # <<>>, ~IsUpdate(q[1])
  PROVE  (\A i \in 1..Len(p) : p[i].id # q[1].id) /\ Matches(Tail(q), p, n)
<1>1. q \in Seq(Sent) /\ p \in Seq(Awaited) /\ n \in Nat /\ Rising(q) /\ Rising(p) /\ Len(q) \in Nat \ {0} /\ Len(p) \in Nat
  BY DEF Matches
<1>2. \A i \in 1..Len(q) : q[i].id \in Nat
  BY <1>1, Ids, ElementOf
<1>3. ASSUME NEW i \in 1..Len(p), p[i].id = q[1].id
      PROVE  FALSE
  <2>1. PICK j \in 1..Len(q) : IsUpdate(q[j]) /\ q[j].id = p[i].id
    BY DEF Matches
  <2>2. j # 1
    BY <2>1
  <2>3. q[1].id < q[j].id
    BY <1>1, <2>1, <2>2 DEF Rising
  <2> QED BY <1>1, <1>2, <1>3, <2>1, <2>3
<1>4. PICK Q : Q = Tail(q)
  OBVIOUS
<1>5. /\ Q \in Seq(Sent) /\ Len(Q) = Len(q) - 1 /\ Rising(Q)
      /\ \A k \in 1..Len(Q) : k + 1 \in 1..Len(q) /\ Q[k] = q[k + 1]
      /\ \A k \in 1..Len(q) : k # 1 => k - 1 \in 1..Len(Q) /\ Q[k - 1] = q[k]
  BY <1>1, <1>4, TailIndex, TailRising
<1>6. \A k \in 1..Len(Q) : Q[k].id <= n
  BY <1>5 DEF Matches
<1>7. ASSUME NEW k \in 1..Len(p)
      PROVE  \E l \in 1..Len(Q) : IsUpdate(Q[l]) /\ Q[l].id = p[k].id /\ Q[l].command.config = p[k].config
  <2>1. PICK l \in 1..Len(q) : IsUpdate(q[l]) /\ q[l].id = p[k].id /\ q[l].command.config = p[k].config
    BY DEF Matches
  <2>2. l - 1 \in 1..Len(Q) /\ Q[l - 1] = q[l]
    BY <1>5, <2>1
  <2> QED BY <2>1, <2>2
<1>8. ASSUME NEW l \in 1..Len(Q), IsUpdate(Q[l])
      PROVE  \E k \in 1..Len(p) : p[k].id = Q[l].id
  <2>1. l + 1 \in 1..Len(q) /\ Q[l] = q[l + 1]
    BY <1>5
  <2>2. IsUpdate(q[l + 1])
    BY <1>8, <2>1
  <2>3. PICK k \in 1..Len(p) : p[k].id = q[l + 1].id
    BY <2>1, <2>2 DEF Matches
  <2> QED BY <2>1, <2>3
<1>9. Matches(Q, p, n)
  BY <1>1, <1>5, <1>6, <1>7, <1>8 DEF Matches
<1> QED BY <1>3, <1>4, <1>9

\* A message that is sent is the newest of both.
LEMMA SentMatches ==
  ASSUME NEW q, NEW p, NEW n, Matches(q, p, n), NEW c \in UpCommands
  PROVE  LET Q == Append(q, [id |-> n + 1, command |-> c])
         IN  /\ c.type = "session.update" => Matches(Q, Append(p, [id |-> n + 1, config |-> c.config]), n + 1)
             /\ c.type # "session.update" => Matches(Q, p, n + 1)
<1>1. q \in Seq(Sent) /\ p \in Seq(Awaited) /\ n \in Nat /\ Rising(q) /\ Rising(p) /\ Len(q) \in Nat /\ Len(p) \in Nat
  BY DEF Matches
<1>2. \A i \in 1..Len(q) : q[i].id \in Nat
  BY <1>1, Ids, ElementOf
<1>3. \A i \in 1..Len(p) : p[i].id \in Nat
  BY <1>1, Ids, ElementOf
<1>23. n + 1 \in Nat
  BY <1>1
<1>4. PICK m : m = [id |-> n + 1, command |-> c]
  OBVIOUS
<1>5. PICK w : w = [id |-> n + 1, config |-> c.config]
  OBVIOUS
<1>21. m \in Sent
  BY <1>23, <1>4, Ids
<1>22. w \in Awaited
  BY <1>23, <1>5, Ids
<1>6. PICK Q : Q = Append(q, m)
  OBVIOUS
<1>7. PICK P : P = Append(p, w)
  OBVIOUS
<1>8. /\ Q \in Seq(Sent) /\ Len(Q) = Len(q) + 1 /\ Q[Len(q) + 1] = m /\ \A i \in 1..Len(q) : i \in 1..Len(Q) /\ Q[i] = q[i]
  BY <1>1, <1>21, <1>6
<1>9. /\ P \in Seq(Awaited) /\ Len(P) = Len(p) + 1 /\ P[Len(p) + 1] = w /\ \A i \in 1..Len(p) : i \in 1..Len(P) /\ P[i] = p[i]
  BY <1>1, <1>22, <1>7
<1>10. m.id = n + 1 /\ m.command = c /\ w.id = n + 1 /\ w.config = c.config
  BY <1>4, <1>5
<1>11. \A i \in 1..Len(Q) : i \in 1..Len(q) \/ i = Len(q) + 1
  BY <1>1, <1>8
<1>12. \A i \in 1..Len(P) : i \in 1..Len(p) \/ i = Len(p) + 1
  BY <1>1, <1>9
<1>13. \A i \in 1..Len(q) : q[i].id < n + 1
  BY <1>1, <1>2 DEF Matches
<1>14. \A i \in 1..Len(p) : p[i].id < n + 1
  BY <1>1, <1>13 DEF Matches
<1>15. \A i \in 1..Len(Q) : Q[i].id <= n + 1
  BY <1>1, <1>2, <1>8, <1>10, <1>11, <1>13
<1>16. Rising(Q)
  <2>1. ASSUME NEW i \in 1..Len(Q), NEW j \in 1..Len(Q), i < j
        PROVE  Q[i].id < Q[j].id
    <3>1. i \in 1..Len(q)
      BY <1>1, <1>8, <1>11, <2>1
    <3>2. CASE j \in 1..Len(q)
      BY <1>1, <1>8, <2>1, <3>1, <3>2 DEF Rising
    <3>3. CASE j = Len(q) + 1
      BY <1>8, <1>10, <1>13, <3>1, <3>3
    <3> QED BY <1>11, <3>2, <3>3
  <2> QED BY <2>1 DEF Rising
<1>17. Rising(P)
  <2>1. ASSUME NEW i \in 1..Len(P), NEW j \in 1..Len(P), i < j
        PROVE  P[i].id < P[j].id
    <3>1. i \in 1..Len(p)
      BY <1>1, <1>9, <1>12, <2>1
    <3>2. CASE j \in 1..Len(p)
      BY <1>1, <1>9, <2>1, <3>1, <3>2 DEF Rising
    <3>3. CASE j = Len(p) + 1
      BY <1>9, <1>10, <1>14, <3>1, <3>3
    <3> QED BY <1>12, <3>2, <3>3
  <2> QED BY <2>1 DEF Rising
<1>18. \A i \in 1..Len(p) : \E j \in 1..Len(Q) : IsUpdate(Q[j]) /\ Q[j].id = p[i].id /\ Q[j].command.config = p[i].config
  <2>1. ASSUME NEW i \in 1..Len(p)
        PROVE  \E j \in 1..Len(Q) : IsUpdate(Q[j]) /\ Q[j].id = p[i].id /\ Q[j].command.config = p[i].config
    <3>1. PICK j \in 1..Len(q) : IsUpdate(q[j]) /\ q[j].id = p[i].id /\ q[j].command.config = p[i].config
      BY DEF Matches
    <3> QED BY <1>8, <3>1
  <2> QED BY <2>1
<1>19. ASSUME c.type = "session.update"
       PROVE  Matches(Q, P, n + 1)
  <2>1. Len(q) + 1 \in 1..Len(Q) /\ Len(p) + 1 \in 1..Len(P)
    BY <1>1, <1>8, <1>9
  <2>2. IsUpdate(Q[Len(q) + 1])
    BY <1>8, <1>10, <1>19 DEF IsUpdate
  <2>3. \A i \in 1..Len(P) : \E j \in 1..Len(Q) : IsUpdate(Q[j]) /\ Q[j].id = P[i].id /\ Q[j].command.config = P[i].config
    <3>1. ASSUME NEW i \in 1..Len(P)
          PROVE  \E j \in 1..Len(Q) : IsUpdate(Q[j]) /\ Q[j].id = P[i].id /\ Q[j].command.config = P[i].config
      <4>1. CASE i \in 1..Len(p)
        BY <1>9, <1>18, <4>1
      <4>2. CASE i = Len(p) + 1
        BY <1>8, <1>9, <1>10, <2>1, <2>2, <4>2
      <4> QED BY <1>12, <4>1, <4>2
    <3> QED BY <3>1
  <2>4. \A j \in 1..Len(Q) : IsUpdate(Q[j]) => \E i \in 1..Len(P) : P[i].id = Q[j].id
    <3>1. ASSUME NEW j \in 1..Len(Q), IsUpdate(Q[j])
          PROVE  \E i \in 1..Len(P) : P[i].id = Q[j].id
      <4>1. CASE j \in 1..Len(q)
        <5>1. PICK i \in 1..Len(p) : p[i].id = q[j].id
          BY <1>8, <3>1, <4>1 DEF Matches
        <5> QED BY <1>8, <1>9, <4>1, <5>1
      <4>2. CASE j = Len(q) + 1
        BY <1>8, <1>9, <1>10, <2>1, <4>2
      <4> QED BY <1>11, <4>1, <4>2
    <3> QED BY <3>1
  <2> QED BY <1>1, <1>8, <1>9, <1>15, <1>16, <1>17, <2>3, <2>4 DEF Matches
<1>20. ASSUME c.type # "session.update"
       PROVE  Matches(Q, p, n + 1)
  <2>1. ~IsUpdate(Q[Len(q) + 1])
    BY <1>8, <1>10, <1>20 DEF IsUpdate
  <2>2. \A j \in 1..Len(Q) : IsUpdate(Q[j]) => \E i \in 1..Len(p) : p[i].id = Q[j].id
    <3>1. ASSUME NEW j \in 1..Len(Q), IsUpdate(Q[j])
          PROVE  \E i \in 1..Len(p) : p[i].id = Q[j].id
      <4>1. j \in 1..Len(q)
        BY <1>11, <2>1, <3>1
      <4>2. Q[j] = q[j] /\ IsUpdate(q[j])
        BY <1>8, <3>1, <4>1
      <4>3. PICK i \in 1..Len(p) : p[i].id = q[j].id
        BY <4>1, <4>2 DEF Matches
      <4> QED BY <4>2, <4>3
    <3> QED BY <3>1
  <2> QED BY <1>1, <1>8, <1>15, <1>16, <1>18, <2>2 DEF Matches
<1> QED BY <1>4, <1>5, <1>6, <1>7, <1>19, <1>20
\* A refusal names the oldest message: the update waited for longest, or none.
LEMMA RefusalMatches ==
  ASSUME NEW x, NEW q, NEW n, Matches(q, x.pending, n), q # <<>>
  PROVE  Matches(Tail(q), afterRefusal(x, q[1].id), n)
<1>1. PICK p : p = x.pending
  OBVIOUS
<1>2. Matches(q, p, n) /\ p \in Seq(Awaited) /\ Rising(p) /\ Len(p) \in Nat
  BY <1>1 DEF Matches
<1>3. PICK refused : refused = {i \in 1..Len(p) : p[i].id = q[1].id}
  OBVIOUS
<1>4. afterRefusal(x, q[1].id) = IF refused = {} THEN p ELSE RemoveAt(p, Min(refused))
  BY <1>1, <1>3 DEF afterRefusal
<1>5. CASE ~IsUpdate(q[1])
  <2>1. refused = {}
    BY <1>2, <1>3, <1>5, OtherMatches
  <2> QED BY <1>2, <1>4, <1>5, <2>1, OtherMatches
<1>6. CASE IsUpdate(q[1])
  <2>1. p # <<>> /\ p[1].id = q[1].id /\ Matches(Tail(q), Tail(p), n)
    BY <1>2, <1>6, HeadMatches
  <2>2. 1 \in refused /\ \A i \in refused : i >= 1 /\ i \in Nat
    BY <1>2, <1>3, <2>1
  <2>3. Min(refused) = 1
    <3>1. \E m \in refused : \A i \in refused : m <= i
      BY <2>2
    <3>2. Min(refused) \in refused /\ \A i \in refused : Min(refused) <= i
      BY <3>1 DEF Min
    <3> QED BY <2>2, <3>2
  <2>4. RemoveAt(p, 1) = Tail(p)
    <3>1. PICK front : front = SubSeq(p, 1, 0)
      OBVIOUS
    <3>2. PICK back : back = SubSeq(p, 2, Len(p))
      OBVIOUS
    <3>3. front = <<>> /\ back \in Seq(Awaited) /\ back = Tail(p)
      BY <1>2, <2>1, <3>1, <3>2
    <3>4. RemoveAt(p, 1) = front \o back
      BY <3>1, <3>2 DEF RemoveAt
    <3> QED BY <3>3, <3>4
  <2> QED BY <1>4, <2>1, <2>2, <2>3, <2>4
<1> QED BY <1>5, <1>6

-----------------------------------------------------------------------------
(* The provider is followed: the inductive invariant *)

UpstreamFields ==
  /\ {"stage", "config", "pending", "open", "bytes", "sent", "settled"} \subseteq DOMAIN u
  /\ {"dialect", "signed", "config", "response", "answers", "heard", "time"} \subseteq DOMAIN peer
  /\ {"turn", "unpaired", "reported"} \subseteq DOMAIN seen
  /\ peer.heard \in Nat /\ peer.answers \in Nat /\ seen.reported \in Int

Connected == u.stage \in {"dialling", "configuring", "open"}

\* The response the adapter has open is the provider's and the one the client
\* was told of.
OneResponse == u.open = peer.response /\ u.open = seen.turn /\ u.open \in 0..peer.answers

MetersHeard == ~tokenUsage(Dialect) => u.bytes = peer.heard

UpstreamInv ==
  /\ UpstreamFields
  /\ seen.unpaired = FALSE
  /\ Connected => /\ Matches(up, u.pending, u.sent)
             /\ OneResponse
             /\ u.settled = seen.reported
             /\ u.config = IF u.stage = "open" THEN peer.config ELSE peer.signed
  /\ Connected \/ u.stage = "ended" => MetersHeard

LEMMA EndFields ==
  ASSUME NEW stage, NEW failure
  PROVE  /\ {"stage", "config", "pending", "open", "bytes", "sent", "settled"} \subseteq DOMAIN End(stage, failure)
         /\ End(stage, failure).stage = stage
BY DEF End, AdapterSession

LEMMA UpstreamStart == UpstreamInit => UpstreamInv
<1> SUFFICES ASSUME UpstreamInit PROVE UpstreamInv
  OBVIOUS
<1>1. PICK d \in Dialects, c \in SignedConfigs :
         peer = [dialect |-> d, signed |-> c, config |-> None, created |-> FALSE, response |-> NoResponse, asks |-> None, answers |-> 0,
                 heard |-> 0, spoken |-> 0, time |-> 0]
  BY DEF UpstreamInit
<1>2. /\ u.stage = "dialling" /\ u.config = SignedConfig /\ u.pending = <<>> /\ u.open = NoResponse /\ u.bytes = 0 /\ u.sent = 0 /\ u.settled = 0
      /\ {"stage", "config", "pending", "open", "bytes", "sent", "settled"} \subseteq DOMAIN u
  BY DEF UpstreamInit, AdapterSession
<1>3. up = <<>> /\ seen = [turn |-> NoResponse, unpaired |-> FALSE, reported |-> 0]
  BY DEF UpstreamInit
<1>4. Matches(<<>>, <<>>, 0)
  BY DEF Matches, Rising
<1>5. UpstreamFields /\ seen.unpaired = FALSE
  BY <1>1, <1>2, <1>3 DEF UpstreamFields
<1>6. OneResponse /\ u.settled = seen.reported /\ MetersHeard
  BY <1>1, <1>2, <1>3 DEF OneResponse, NoResponse, MetersHeard
<1> QED BY <1>2, <1>3, <1>4, <1>5, <1>6 DEF UpstreamInv, Connected, SignedConfig

LEMMA DialStep ==
  ASSUME UpstreamInv, NEW answer \in {"created", "refused", "lost"}, Dial(answer)
  PROVE  UpstreamInv'
<1>1. u.stage = "dialling" /\ up' = up /\ seen' = seen /\ UpstreamFields
  BY DEF Dial, UpstreamInv
<1>2. ASSUME NEW failure, u' = End("refused", failure), peer' = peer
      PROVE  UpstreamInv'
  BY <1>1, <1>2, EndFields DEF UpstreamInv, UpstreamFields, Connected
<1>3. ASSUME u' = [u EXCEPT !.stage = "configuring"], peer' = [peer EXCEPT !.created = TRUE]
      PROVE  UpstreamInv'
  <2>1. /\ DOMAIN u' = DOMAIN u /\ u'.stage = "configuring" /\ u'.config = u.config /\ u'.pending = u.pending /\ u'.open = u.open
        /\ u'.bytes = u.bytes /\ u'.sent = u.sent /\ u'.settled = u.settled
    BY <1>1, <1>3 DEF UpstreamFields
  <2>2. /\ DOMAIN peer' = DOMAIN peer /\ peer'.dialect = peer.dialect /\ peer'.signed = peer.signed /\ peer'.config = peer.config
        /\ peer'.response = peer.response /\ peer'.answers = peer.answers /\ peer'.heard = peer.heard
    BY <1>1, <1>3 DEF UpstreamFields
  <2> QED BY <1>1, <2>1, <2>2 DEF UpstreamInv, UpstreamFields, Connected, OneResponse, MetersHeard, Dialect
<1> QED BY <1>2, <1>3 DEF Dial

LEMMA ConfigureStep ==
  ASSUME UpstreamInv, NEW answer, Configure(answer)
  PROVE  UpstreamInv'
<1>1. u.stage = "configuring" /\ up' = up /\ seen' = seen /\ UpstreamFields
  BY DEF Configure, UpstreamInv
<1>2. ASSUME NEW failure, u' = End("refused", failure), peer' = peer
      PROVE  UpstreamInv'
  BY <1>1, <1>2, EndFields DEF UpstreamInv, UpstreamFields, Connected
<1>3. ASSUME u' = [u EXCEPT !.stage = "open"], peer' = [peer EXCEPT !.config = SignedConfig]
      PROVE  UpstreamInv'
  <2>1. /\ DOMAIN u' = DOMAIN u /\ u'.stage = "open" /\ u'.config = u.config /\ u'.pending = u.pending /\ u'.open = u.open
        /\ u'.bytes = u.bytes /\ u'.sent = u.sent /\ u'.settled = u.settled
    BY <1>1, <1>3 DEF UpstreamFields
  <2>2. /\ DOMAIN peer' = DOMAIN peer /\ peer'.dialect = peer.dialect /\ peer'.signed = peer.signed /\ peer'.config = peer.signed
        /\ peer'.response = peer.response /\ peer'.answers = peer.answers /\ peer'.heard = peer.heard
    BY <1>1, <1>3 DEF UpstreamFields, SignedConfig
  <2> QED BY <1>1, <2>1, <2>2 DEF UpstreamInv, UpstreamFields, Connected, OneResponse, MetersHeard, Dialect
<1> QED BY <1>2, <1>3 DEF Configure
LEMMA SendStep ==
  ASSUME UpstreamInv, NEW c \in UpCommands, NEW written \in BOOLEAN, Send(c, written)
  PROVE  UpstreamInv'
<1>1. u.stage = "open" /\ seen' = seen /\ UpstreamFields /\ (tokenUsage(Dialect) \/ measure(c) # None)
  BY DEF Send, UpstreamInv
<1>2. /\ Matches(up, u.pending, u.sent) /\ OneResponse /\ u.settled = seen.reported /\ u.config = peer.config
      /\ MetersHeard /\ seen.unpaired = FALSE
  BY <1>1 DEF UpstreamInv, Connected
<1>3. PICK waiting : waiting = IF c.type = "session.update" THEN [u EXCEPT !.pending = Append(@, [id |-> u.sent + 1, config |-> c.config])]
                               ELSE IF c.type = "response.create" THEN expectResponse(u, Parameters(c).modalities)
                               ELSE u
  OBVIOUS
<1>4. PICK billed : billed = IF tokenUsage(Dialect) THEN waiting ELSE record(waiting, c, written)
  OBVIOUS
<1>5. \/ /\ written
         /\ u' = [billed EXCEPT !.sent = @ + 1]
         /\ up' = Append(up, [id |-> u.sent + 1, command |-> c])
         /\ peer' = [peer EXCEPT !.heard = @ + commandInputAudio(c)]
      \/ /\ ~written
         /\ u' = [billed EXCEPT !.stage = "ended", !.failure = "provider_timeout", !.pending = <<>>, !.expected = <<>>]
         /\ peer' = peer
  BY <1>3, <1>4, Zenon DEF Send
<1>6. /\ DOMAIN waiting = DOMAIN u /\ waiting.stage = u.stage /\ waiting.config = u.config /\ waiting.open = u.open
      /\ waiting.bytes = u.bytes /\ waiting.sent = u.sent /\ waiting.settled = u.settled
      /\ c.type = "session.update" => waiting.pending = Append(u.pending, [id |-> u.sent + 1, config |-> c.config])
      /\ c.type # "session.update" => waiting.pending = u.pending
  <2>1. CASE c.type = "session.update"
    BY <1>1, <1>3, <2>1 DEF UpstreamFields
  <2>2. CASE c.type # "session.update"
    BY <1>1, <1>3, <2>2 DEF UpstreamFields, expectResponse
  <2> QED BY <2>1, <2>2
<1>7. /\ DOMAIN billed = DOMAIN u /\ billed.stage = u.stage /\ billed.config = u.config /\ billed.open = u.open
      /\ billed.sent = u.sent /\ billed.settled = u.settled /\ billed.pending = waiting.pending
      /\ ~tokenUsage(Dialect) => billed.bytes = IF written THEN u.bytes + measure(c).bytes ELSE u.bytes
  <2>1. CASE tokenUsage(Dialect)
    BY <1>4, <1>6, <2>1
  <2>2. CASE ~tokenUsage(Dialect)
    BY <1>1, <1>4, <1>6, <2>2 DEF UpstreamFields, record
  <2> QED BY <2>1, <2>2
<1>8. ASSUME written
      PROVE  UpstreamInv'
  <2>1. /\ DOMAIN u' = DOMAIN u /\ u'.stage = "open" /\ u'.config = u.config /\ u'.pending = waiting.pending /\ u'.open = u.open
        /\ u'.bytes = billed.bytes /\ u'.sent = u.sent + 1 /\ u'.settled = u.settled
    BY <1>1, <1>5, <1>7, <1>8 DEF UpstreamFields
  <2>2. /\ DOMAIN peer' = DOMAIN peer /\ peer'.dialect = peer.dialect /\ peer'.signed = peer.signed /\ peer'.config = peer.config
        /\ peer'.response = peer.response /\ peer'.answers = peer.answers /\ peer'.heard = peer.heard + commandInputAudio(c)
    BY <1>1, <1>5, <1>8 DEF UpstreamFields
  <2>3. commandInputAudio(c) \in Nat /\ peer.heard \in Nat
    BY <1>1, CountsAssumption DEF UpstreamFields
  <2>4. UpstreamFields'
    BY <1>1, <2>1, <2>2, <2>3 DEF UpstreamFields
  <2>5. Matches(up', u'.pending, u'.sent)
    <3>1. PICK p, n : p = u.pending /\ n = u.sent
      OBVIOUS
    <3>2. Matches(up, p, n)
      BY <1>2, <3>1
    <3>3. /\ c.type = "session.update" =>
                Matches(Append(up, [id |-> n + 1, command |-> c]), Append(p, [id |-> n + 1, config |-> c.config]), n + 1)
          /\ c.type # "session.update" => Matches(Append(up, [id |-> n + 1, command |-> c]), p, n + 1)
      BY <3>2, SentMatches
    <3>4. up' = Append(up, [id |-> n + 1, command |-> c]) /\ u'.sent = n + 1
      BY <1>5, <1>8, <2>1, <3>1
    <3>5. CASE c.type = "session.update"
      <4>1. u'.pending = Append(p, [id |-> n + 1, config |-> c.config])
        BY <1>6, <2>1, <3>1, <3>5
      <4> QED BY <3>3, <3>4, <3>5, <4>1
    <3>6. CASE c.type # "session.update"
      <4>1. u'.pending = p
        BY <1>6, <2>1, <3>1, <3>6
      <4> QED BY <3>3, <3>4, <3>6, <4>1
    <3> QED BY <3>5, <3>6
  <2>6. MetersHeard'
    <3>1. ASSUME ~tokenUsage(Dialect)
          PROVE  u'.bytes = peer'.heard
      <4>1. measure(c).bytes = commandInputAudio(c)
        BY <1>1, <3>1, Zenon DEF measure
      <4> QED BY <1>2, <1>7, <1>8, <2>1, <2>2, <2>3, <3>1, <4>1 DEF MetersHeard
    <3> QED BY <2>2, <3>1 DEF MetersHeard, Dialect
  <2>7. OneResponse'
    BY <1>1, <1>2, <2>1, <2>2 DEF OneResponse
  <2> QED BY <1>1, <1>2, <2>1, <2>2, <2>4, <2>5, <2>6, <2>7 DEF UpstreamInv, Connected
<1>9. ASSUME ~written
      PROVE  UpstreamInv'
  <2>1. DOMAIN u' = DOMAIN u /\ u'.stage = "ended" /\ u'.bytes = billed.bytes /\ peer' = peer
    BY <1>1, <1>5, <1>7, <1>9 DEF UpstreamFields
  <2>2. MetersHeard'
    BY <1>2, <1>7, <1>9, <2>1 DEF MetersHeard, Dialect
  <2>3. UpstreamFields'
    BY <1>1, <2>1 DEF UpstreamFields
  <2> QED BY <1>1, <1>2, <2>1, <2>2, <2>3 DEF UpstreamInv, Connected
<1> QED BY <1>8, <1>9

\* A response begins: the one before it is told to be done first.
LEMMA BeginsStep ==
  ASSUME UpstreamInv, u.stage = "open", NEW asks, Begins(u, asks), Matches(up', u.pending, u.sent)
  PROVE  UpstreamInv'
<1>1. /\ UpstreamFields /\ OneResponse /\ u.settled = seen.reported /\ u.config = peer.config /\ MetersHeard /\ seen.unpaired = FALSE
  BY DEF UpstreamInv, Connected
<1>2. PICK r : r = peer.answers + 1
  OBVIOUS
<1>3. r \in Nat /\ r > peer.answers /\ r \in 0..r /\ r # 0
  BY <1>1, <1>2 DEF UpstreamFields
<1>4. /\ u' = responseCreated(u, r)
      /\ peer' = [peer EXCEPT !.answers = r, !.response = r, !.asks = asks]
      /\ seen' = ToldCreated(IF endedUnannounced(u.open, r) THEN ToldDone(seen, u.open) ELSE seen, r)
  BY <1>2 DEF Begins
<1>5. /\ DOMAIN u' = DOMAIN u /\ u'.stage = "open" /\ u'.config = u.config /\ u'.pending = u.pending /\ u'.open = r
      /\ u'.bytes = u.bytes /\ u'.sent = u.sent /\ u'.settled = u.settled
  BY <1>1, <1>4 DEF UpstreamFields, responseCreated
<1>6. /\ DOMAIN peer' = DOMAIN peer /\ peer'.dialect = peer.dialect /\ peer'.signed = peer.signed /\ peer'.config = peer.config
      /\ peer'.response = r /\ peer'.answers = r /\ peer'.heard = peer.heard
  BY <1>1, <1>4 DEF UpstreamFields
<1>7. PICK told : told = IF endedUnannounced(u.open, r) THEN ToldDone(seen, u.open) ELSE seen
  OBVIOUS
<1>8. DOMAIN told = DOMAIN seen /\ told.reported = seen.reported /\ told.unpaired = FALSE /\ told.turn = NoResponse
  <2>1. CASE u.open = 0
    BY <1>1, <1>7, <2>1 DEF endedUnannounced, NoResponse, OneResponse
  <2>2. CASE u.open # 0
    <3>1. endedUnannounced(u.open, r)
      BY <1>1, <1>3, <2>2 DEF endedUnannounced, NoResponse, OneResponse, UpstreamFields
    <3>2. told = [seen EXCEPT !.turn = NoResponse, !.unpaired = @ \/ seen.turn # u.open]
      BY <1>7, <3>1 DEF ToldDone
    <3>3. DOMAIN told = DOMAIN seen /\ told.turn = NoResponse /\ told.reported = seen.reported /\ told.unpaired = (seen.unpaired \/ seen.turn # u.open)
      BY <1>1, <3>2 DEF UpstreamFields
    <3> QED BY <1>1, <3>3 DEF OneResponse
  <2> QED BY <2>1, <2>2
<1>9. DOMAIN seen' = DOMAIN seen /\ seen'.turn = r /\ seen'.reported = seen.reported /\ seen'.unpaired = FALSE
  <2>1. seen' = [told EXCEPT !.turn = r, !.unpaired = @ \/ told.turn # NoResponse]
    BY <1>4, <1>7 DEF ToldCreated
  <2>2. DOMAIN seen' = DOMAIN told /\ seen'.turn = r /\ seen'.reported = told.reported /\ seen'.unpaired = (told.unpaired \/ told.turn # NoResponse)
    BY <1>1, <1>8, <2>1 DEF UpstreamFields
  <2> QED BY <1>8, <2>2
<1>10. UpstreamFields'
  BY <1>1, <1>3, <1>5, <1>6, <1>9 DEF UpstreamFields
<1>11. OneResponse'
  BY <1>3, <1>5, <1>6, <1>9 DEF OneResponse
<1>12. MetersHeard'
  BY <1>1, <1>5, <1>6 DEF MetersHeard, Dialect
<1> QED BY <1>1, <1>5, <1>6, <1>9, <1>10, <1>11, <1>12 DEF UpstreamInv, Connected

LEMMA ConfirmsStep ==
  ASSUME UpstreamInv, Confirms
  PROVE  UpstreamInv'
<1>1. u.stage = "open" /\ up # <<>> /\ up' = Tail(up)
  BY DEF Confirms
<1>2. /\ UpstreamFields /\ OneResponse /\ u.settled = seen.reported /\ u.config = peer.config /\ MetersHeard /\ seen.unpaired = FALSE
      /\ Matches(up, u.pending, u.sent)
  BY <1>1 DEF UpstreamInv, Connected
<1>3. PICK c : c = Head(up).command
  OBVIOUS
<1>4. Head(up) = up[1]
  BY <1>1, <1>2 DEF Matches
<1>5. CASE c.type = "session.update"
  <2>1. IsUpdate(up[1])
    BY <1>3, <1>4, <1>5 DEF IsUpdate
  <2>2. /\ u.pending # <<>> /\ Head(u.pending).config = c.config /\ Matches(Tail(up), Tail(u.pending), u.sent)
    <3>1. PICK p : p = u.pending
      OBVIOUS
    <3>2. Matches(up, p, u.sent) /\ p \in Seq(Awaited)
      BY <1>2, <3>1 DEF Matches
    <3>3. p # <<>> /\ p[1].config = up[1].command.config /\ Matches(Tail(up), Tail(p), u.sent)
      BY <1>1, <2>1, <3>2, HeadMatches
    <3>4. Head(p) = p[1]
      BY <3>2, <3>3
    <3>5. c = up[1].command
      BY <1>3, <1>4
    <3> QED BY <3>1, <3>3, <3>4, <3>5
  <2>3. peer' = [peer EXCEPT !.config = mergeUpdate(@, c.config)] /\ u' = sessionUpdated(u) /\ seen' = seen
    BY <1>3, <1>5 DEF Confirms
  <2>4. u' = [u EXCEPT !.config = mergeUpdate(@, c.config), !.pending = Tail(@)]
    BY <2>2, <2>3 DEF sessionUpdated
  <2>5. /\ DOMAIN u' = DOMAIN u /\ u'.stage = "open" /\ u'.config = mergeUpdate(u.config, c.config) /\ u'.pending = Tail(u.pending)
        /\ u'.open = u.open /\ u'.bytes = u.bytes /\ u'.sent = u.sent /\ u'.settled = u.settled
    BY <1>1, <1>2, <2>4 DEF UpstreamFields
  <2>6. /\ DOMAIN peer' = DOMAIN peer /\ peer'.dialect = peer.dialect /\ peer'.signed = peer.signed
        /\ peer'.config = mergeUpdate(peer.config, c.config)
        /\ peer'.response = peer.response /\ peer'.answers = peer.answers /\ peer'.heard = peer.heard
    BY <1>2, <2>3 DEF UpstreamFields
  <2>7. UpstreamFields' /\ OneResponse' /\ MetersHeard'
    BY <1>2, <2>3, <2>5, <2>6 DEF UpstreamFields, OneResponse, MetersHeard, Dialect
  <2> QED BY <1>1, <1>2, <2>2, <2>3, <2>5, <2>6, <2>7 DEF UpstreamInv, Connected
<1>6. CASE c.type # "session.update"
  <2>1. ~IsUpdate(up[1])
    BY <1>3, <1>4, <1>6 DEF IsUpdate
  <2>2. Matches(up', u.pending, u.sent)
    BY <1>1, <1>2, <2>1, OtherMatches
  <2>3. CASE c.type = "response.create"
    <3>1. Begins(u, Parameters(c).modalities)
      BY <1>3, <2>3 DEF Confirms
    <3> QED BY <1>1, <2>2, <3>1, BeginsStep
  <2>4. CASE c.type # "response.create"
    <3>1. u' = u /\ peer' = peer /\ seen' = seen
      BY <1>3, <1>6, <2>4 DEF Confirms
    <3> QED BY <1>1, <2>2, <3>1 DEF UpstreamInv, UpstreamFields, Connected, OneResponse, MetersHeard, Dialect
  <2> QED BY <2>3, <2>4
<1> QED BY <1>5, <1>6

LEMMA RefusesStep ==
  ASSUME UpstreamInv, Refuses
  PROVE  UpstreamInv'
<1>1. u.stage = "open" /\ up # <<>> /\ up' = Tail(up) /\ peer' = peer /\ seen' = seen
  BY DEF Refuses
<1>2. UpstreamFields /\ Matches(up, u.pending, u.sent)
  BY <1>1 DEF UpstreamInv, Connected
<1>3. Head(up) = up[1]
  BY <1>1, <1>2 DEF Matches
<1>4. PICK failure : u' = [u EXCEPT !.pending = afterRefusal(u, up[1].id), !.failure = failure]
  BY <1>3 DEF Refuses, errorEvent
<1>5. /\ DOMAIN u' = DOMAIN u /\ u'.stage = "open" /\ u'.config = u.config /\ u'.pending = afterRefusal(u, up[1].id) /\ u'.open = u.open
      /\ u'.bytes = u.bytes /\ u'.sent = u.sent /\ u'.settled = u.settled
  BY <1>1, <1>2, <1>4 DEF UpstreamFields
<1>6. Matches(up', u'.pending, u'.sent)
  BY <1>1, <1>2, <1>5, RefusalMatches
<1> QED BY <1>1, <1>5, <1>6 DEF UpstreamInv, UpstreamFields, Connected, OneResponse, MetersHeard, Dialect

\* The units of a response add up to the tokens of its report.
LEMMA UnitsAddUp ==
  ASSUME NEW usage \in Usages, usage # None, units(usage) # None
  PROVE  Total(units(usage)) = usage.input + usage.output /\ usage.input + usage.output \in Nat
<1>1. /\ usage.input \in Nat /\ usage.cached \in Nat /\ usage.audioIn \in Nat /\ usage.cachedAudio \in Nat
      /\ usage.output \in Nat /\ usage.audioOut \in Nat
  BY CountsAssumption
<1>2. units(usage) = [input |-> usage.input - usage.cached - (usage.audioIn - usage.cachedAudio),
                      cachedInput |-> usage.cached - usage.cachedAudio,
                      audioInput |-> usage.audioIn - usage.cachedAudio, cachedAudio |-> usage.cachedAudio,
                      output |-> usage.output - usage.audioOut, audioOutput |-> usage.audioOut]
  BY Zenon DEF units
<1> QED BY <1>1, <1>2 DEF Total

LEMMA EndsStep ==
  ASSUME UpstreamInv, NEW usage \in Usages, Ends(usage)
  PROVE  UpstreamInv'
<1>1. u.stage = "open" /\ peer.response # NoResponse /\ up' = up
  BY DEF Ends
<1>2. /\ UpstreamFields /\ OneResponse /\ u.settled = seen.reported /\ u.config = peer.config /\ MetersHeard /\ seen.unpaired = FALSE
      /\ Matches(up, u.pending, u.sent)
  BY <1>1 DEF UpstreamInv, Connected
<1>3. /\ DOMAIN peer' = DOMAIN peer /\ peer'.dialect = peer.dialect /\ peer'.signed = peer.signed /\ peer'.config = peer.config
      /\ peer'.response = NoResponse /\ peer'.answers = peer.answers /\ peer'.heard = peer.heard
  BY <1>2 DEF Ends, UpstreamFields
<1>4. CASE tokenUsage(Dialect) /\ usage # None /\ units(usage) = None
  <2>1. u' = End("ended", "provider_error") /\ seen' = seen
    BY <1>4 DEF Ends
  <2>2. MetersHeard' /\ u'.stage = "ended"
    BY <1>3, <1>4, <2>1, EndFields DEF MetersHeard, Dialect
  <2>3. UpstreamFields'
    BY <1>2, <1>3, <2>1, EndFields DEF UpstreamFields
  <2> QED BY <1>2, <2>1, <2>2, <2>3 DEF UpstreamInv, Connected
<1>5. CASE ~(tokenUsage(Dialect) /\ usage # None /\ units(usage) = None)
  <2>1. PICK tokens : tokens = IF tokenUsage(Dialect) /\ usage # None THEN usage.input + usage.output ELSE 0
    OBVIOUS
  <2>2. tokens \in Nat /\ (IF tokenUsage(Dialect) /\ usage # None THEN Total(units(usage)) ELSE 0) = tokens
    BY <1>5, <2>1, UnitsAddUp
  <2>3. u' = [u EXCEPT !.open = IF @ = peer.response THEN NoResponse ELSE @, !.settled = @ + tokens]
    BY <1>5, <2>2 DEF Ends, responseDone
  <2>4. /\ DOMAIN u' = DOMAIN u /\ u'.stage = "open" /\ u'.config = u.config /\ u'.pending = u.pending /\ u'.open = NoResponse
        /\ u'.bytes = u.bytes /\ u'.sent = u.sent /\ u'.settled = u.settled + tokens
    BY <1>1, <1>2, <2>3 DEF UpstreamFields, OneResponse
  <2>5. PICK told : told = ToldDone(seen, peer.response)
    OBVIOUS
  <2>6. DOMAIN told = DOMAIN seen /\ told.turn = NoResponse /\ told.reported = seen.reported
        /\ told.unpaired = (seen.unpaired \/ seen.turn # peer.response)
    BY <1>2, <2>5 DEF ToldDone, UpstreamFields
  <2>7. seen' = [told EXCEPT !.reported = @ + tokens]
    BY <1>5, <2>1, <2>5 DEF Ends
  <2>8. DOMAIN seen' = DOMAIN seen /\ seen'.turn = NoResponse /\ seen'.reported = seen.reported + tokens /\ seen'.unpaired = told.unpaired
    BY <1>2, <2>6, <2>7 DEF UpstreamFields
  <2>9. seen'.unpaired = FALSE
    BY <1>2, <2>6, <2>8 DEF OneResponse
  <2>10. UpstreamFields' /\ OneResponse' /\ MetersHeard'
    BY <1>2, <1>3, <2>2, <2>4, <2>8 DEF UpstreamFields, OneResponse, MetersHeard, Dialect, NoResponse
  <2> QED BY <1>1, <1>2, <1>3, <2>4, <2>8, <2>9, <2>10 DEF UpstreamInv, Connected
<1> QED BY <1>4, <1>5

LEMMA SpeaksStep ==
  ASSUME UpstreamInv, Speaks \/ Ticks
  PROVE  UpstreamInv'
<1>1. /\ u.stage = "open" /\ up' = up /\ seen' = seen /\ UpstreamFields
      /\ u' = u \/ u' = [u EXCEPT !.outBytes = @ + 1]
      /\ peer' = [peer EXCEPT !.spoken = @ + 1] \/ peer' = [peer EXCEPT !.time = @ + 1]
  BY DEF Speaks, Ticks, UpstreamInv
<1>2. /\ DOMAIN u' = DOMAIN u /\ u'.stage = "open" /\ u'.config = u.config /\ u'.pending = u.pending /\ u'.open = u.open
      /\ u'.bytes = u.bytes /\ u'.sent = u.sent /\ u'.settled = u.settled
  BY <1>1 DEF UpstreamFields
<1>3. /\ DOMAIN peer' = DOMAIN peer /\ peer'.dialect = peer.dialect /\ peer'.signed = peer.signed /\ peer'.config = peer.config
      /\ peer'.response = peer.response /\ peer'.answers = peer.answers /\ peer'.heard = peer.heard
  BY <1>1 DEF UpstreamFields
<1> QED BY <1>1, <1>2, <1>3 DEF UpstreamInv, UpstreamFields, Connected, OneResponse, MetersHeard, Dialect

LEMMA ClosesStep ==
  ASSUME UpstreamInv, NEW reported, Closes(reported)
  PROVE  UpstreamInv'
<1>1. u.stage = "open" /\ peer' = peer /\ seen' = seen /\ UpstreamFields
  BY DEF Closes, UpstreamInv
<1>2. DOMAIN u' = DOMAIN u /\ u'.stage = "ended" /\ u'.bytes = u.bytes
  BY <1>1 DEF Closes, UpstreamFields
<1> QED BY <1>1, <1>2 DEF UpstreamInv, UpstreamFields, Connected, MetersHeard, Dialect

LEMMA UpstreamStep ==
  ASSUME UpstreamInv, [UpstreamNext]_upstreamVars
  PROVE  UpstreamInv'
<1>1. CASE UNCHANGED upstreamVars
  BY <1>1 DEF upstreamVars, UpstreamInv, UpstreamFields, Connected, OneResponse, MetersHeard, Dialect
<1>2. CASE \E answer \in {"created", "refused", "lost"} : Dial(answer)
  BY <1>2, DialStep
<1>3. CASE \E answer \in {"updated", "insufficient_quota", "invalid_request_error"} : Configure(answer)
  BY <1>3, ConfigureStep
<1>4. CASE \E c \in UpCommands, written \in BOOLEAN : Send(c, written)
  BY <1>4, SendStep
<1>5. CASE Detects
  <2>1. u.stage = "open" /\ Begins(u, None) /\ up' = up
    BY <1>5 DEF Detects
  <2>2. Matches(up', u.pending, u.sent)
    BY <2>1 DEF UpstreamInv, Connected
  <2> QED BY <2>1, <2>2, BeginsStep
<1>6. CASE \E usage \in Usages : Ends(usage)
  BY <1>6, EndsStep
<1>7. CASE \E reported \in {None, "insufficient_quota", "timeout"} : Closes(reported)
  BY <1>7, ClosesStep
<1> QED BY <1>1, <1>2, <1>3, <1>4, <1>5, <1>6, <1>7, ConfirmsStep, RefusesStep, SpeaksStep DEF UpstreamNext

-----------------------------------------------------------------------------
(* What the invariant says *)

\* What the client is told of its session follows what the provider did
\* (openairealtime/session.go, translate), for any dialects, configurations,
\* commands, refusals and turns the provider takes by itself.
THEOREM ProviderIsFollowed == UpstreamSpec => []FollowsProvider
<1>1. UpstreamInv /\ [UpstreamNext]_upstreamVars => UpstreamInv'
  BY UpstreamStep
<1>2. UpstreamInv => FollowsProvider
  <2> SUFFICES ASSUME UpstreamInv PROVE FollowsProvider
    OBVIOUS
  <2>1. ASSUME u.stage = "open", \A i \in 1..Len(up) : up[i].command.type # "session.update"
        PROVE  u.config = peer.config /\ u.pending = <<>>
    <3>1. Matches(up, u.pending, u.sent) /\ u.config = peer.config /\ u.pending \in Seq(Awaited)
      BY <2>1 DEF UpstreamInv, Connected, Matches
    <3>2. \A i \in 1..Len(u.pending) : FALSE
      BY <2>1, <3>1 DEF Matches, IsUpdate
    <3> QED BY <3>1, <3>2
  <2> QED BY <2>1 DEF UpstreamInv, FollowsProvider, ConfigFollowsProvider, TurnsArePaired
<1> QED BY <1>1, <1>2, UpstreamStart, PTL DEF UpstreamSpec

\* milliseconds rounds up, by less than one.
LEMMA RoundsUp ==
  ASSUME NEW bytes \in Nat, NEW format
  PROVE  /\ milliseconds(bytes, bytesPerSecond(format)) * bytesPerSecond(format) >= bytes * 1000
         /\ (milliseconds(bytes, bytesPerSecond(format)) - 1) * bytesPerSecond(format) < bytes * 1000
<1>1. CASE format = "pcm16_24khz"
  <2>1. bytesPerSecond(format) = 6
    BY <1>1 DEF bytesPerSecond
  <2> QED BY <2>1 DEF milliseconds
<1>2. CASE format # "pcm16_24khz"
  <2>1. bytesPerSecond(format) = 1
    BY <1>2 DEF bytesPerSecond
  <2> QED BY <2>1 DEF milliseconds
<1> QED BY <1>1, <1>2

\* The settlement of a session is what the provider reported, or what it heard
\* rounded up by less than a millisecond, or its clock (usage.units,
\* responseDone, meter), for any dialects, usages and commands, whatever is
\* written or not.
THEOREM SettlementIsReported == UpstreamSpec => []SettlesWhatWasReported
<1>1. UpstreamInv /\ [UpstreamNext]_upstreamVars => UpstreamInv'
  BY UpstreamStep
<1>2. UpstreamInv => SettlesWhatWasReported
  <2> SUFFICES ASSUME UpstreamInv PROVE SettlesWhatWasReported
    OBVIOUS
  <2>1. u.stage = "open" => u.settled = seen.reported
    BY DEF UpstreamInv, Connected
  <2>2. ASSUME u.stage = "ended", ~tokenUsage(Dialect)
        PROVE  u.bytes = peer.heard /\ peer.heard \in Nat
    BY <2>2 DEF UpstreamInv, MetersHeard, UpstreamFields
  <2>3. PICK clock : clock = clockBilled(Dialect, SignedConfig.detection.type)
    OBVIOUS
  <2>4. /\ Measured.session = IF clock THEN peer.time ELSE 0
        /\ Measured.input = IF clock THEN 0 ELSE milliseconds(u.bytes, bytesPerSecond(SignedConfig.input))
        /\ clock => Measured.output = 0
    BY <2>3 DEF Measured, meterUnits
  <2>5. ASSUME u.stage = "ended", ~tokenUsage(Dialect), ~clock
        PROVE  /\ Measured.input * bytesPerSecond(SignedConfig.input) >= peer.heard * 1000
               /\ (Measured.input - 1) * bytesPerSecond(SignedConfig.input) < peer.heard * 1000
    BY <2>2, <2>4, <2>5, RoundsUp
  <2> QED BY <2>1, <2>3, <2>4, <2>5, Zenon DEF SettlesWhatWasReported
<1> QED BY <1>1, <1>2, UpstreamStart, PTL DEF UpstreamSpec

=============================================================================
