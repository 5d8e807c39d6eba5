---------------------------- MODULE SessionOwners ----------------------------
(***************************************************************************)
(* Which task holds a realtime session, and how a resume that reached      *)
(* another task gets to it (internal/realtime/peers.go, sessionowner,      *)
(* credentialstore/realtime_owners.go).  The directory is a table of       *)
(* leases in the database (external).  One session and its tasks; a unit   *)
(* of time is a renewal interval.                                          *)
(***************************************************************************)
EXTENDS Integers, FiniteSets

CONSTANTS
    Nobody,
    Tasks,
    LeaseDuration,   \* of an entry, in renewal intervals
    MaxGenerations,  \* bound: processes that ran on an address
    MaxClaims        \* bound: opens of the session, and of resumes elsewhere

Entries == [task : Tasks, gen : Nat, left : Nat]
Hops == [owner : [task : Tasks, gen : Nat], stage : {"dialling", "handed", "relaying"}]

ASSUME LeaseAssumption == LeaseDuration \in Nat /\ LeaseDuration > 1
ASSUME NobodyAssumption == Nobody \notin Entries /\ Nobody \notin Hops

VARIABLES
    directory,  \* the session's entry, or Nobody
    tasks,      \* the process at each address
    hop,        \* a resume being forwarded, or Nobody
    handed,     \* generations a customer's credential was handed to
    claims      \* opens and forwarded resumes so far

ownerVars == <<directory, tasks, hop, handed, claims>>

RenewInterval == 1
Process(gen) == [gen |-> gen, session |-> "none", releasing |-> FALSE, due |-> 0, orphan |-> 0, draining |-> FALSE, claimed |-> FALSE]

OwnersInit ==
    /\ directory = Nobody /\ tasks = [t \in Tasks |-> Process(1)]
    /\ hop = Nobody /\ handed = {} /\ claims = 0

(***************************************************************************)
(* The directory (external)                                                *)
(***************************************************************************)
ownerEntry(t) == [task |-> t, gen |-> tasks[t].gen, left |-> LeaseDuration]
Live == directory # Nobody /\ directory.left > 0
Holds(t) == Live /\ directory.task = t /\ directory.gen = tasks[t].gen
Mine(t) == directory # Nobody /\ directory.task = t /\ directory.gen = tasks[t].gen

(***************************************************************************)
(* Manager.open, PublicHandler: claimOwner, then the session is registered *)
(* unless the task holds it already or drains.  An answer may be lost      *)
(* after the entry was written.                                            *)
(***************************************************************************)
OpenAt(t, lost) ==
    /\ claims < MaxClaims /\ claims' = claims + 1
    /\ IF Live THEN UNCHANGED <<directory, tasks>>
       ELSE IF lost THEN directory' = ownerEntry(t) /\ tasks' = [tasks EXCEPT ![t].claimed = TRUE]
       ELSE IF tasks[t].session # "none" \/ tasks[t].draining
            THEN directory' = Nobody /\ UNCHANGED tasks
       ELSE /\ directory' = ownerEntry(t)
            /\ tasks' = [tasks EXCEPT ![t].session = "running", ![t].due = RenewInterval, ![t].orphan = 0, ![t].claimed = TRUE]
    /\ UNCHANGED <<hop, handed>>

(* renewOwner: any failure, or an entry that is not this process's any     *)
(* more, cancels the session.                                              *)
renewed(t, answered) == answered /\ Holds(t)
Renew(t, answered) ==
    /\ tasks[t].session = "running" /\ tasks[t].due = 0
    /\ directory' = IF Holds(t) THEN ownerEntry(t) ELSE directory
    /\ tasks' = IF renewed(t, answered) THEN [tasks EXCEPT ![t].due = RenewInterval]
                ELSE [tasks EXCEPT ![t].session = "ending", ![t].due = 0, ![t].orphan = 0]
    /\ UNCHANGED <<hop, handed, claims>>

(* The session ends by itself; remove takes it off the task, and then its  *)
(* entry off the directory, if the task still holds one.                   *)
Ending(t) ==
    /\ tasks[t].session = "running"
    /\ tasks' = [tasks EXCEPT ![t].session = "ending", ![t].due = 0, ![t].orphan = 0]
    /\ UNCHANGED <<directory, hop, handed, claims>>

Removed(t) ==
    /\ tasks[t].session = "ending" /\ ~tasks[t].releasing
    /\ tasks' = [tasks EXCEPT ![t].session = "none", ![t].releasing = TRUE]
    /\ UNCHANGED <<directory, hop, handed, claims>>

releaseOwner(t, answered) ==
    /\ tasks[t].releasing
    /\ directory' = IF answered /\ Mine(t) THEN Nobody ELSE directory
    /\ tasks' = [tasks EXCEPT ![t].releasing = FALSE]
    /\ UNCHANGED <<hop, handed, claims>>

Drain(t) == ~tasks[t].draining /\ tasks' = [tasks EXCEPT ![t].draining = TRUE] /\ UNCHANGED <<directory, hop, handed, claims>>

(* The process is replaced by another at its address (newPeers: a fresh    *)
(* generation).                                                            *)
Crash(t) ==
    /\ tasks[t].gen < MaxGenerations
    /\ tasks' = [tasks EXCEPT ![t] = Process(tasks[t].gen + 1)]
    /\ UNCHANGED <<directory, hop, handed, claims>>

(***************************************************************************)
(* forwardResume and PeerHandler                                           *)
(***************************************************************************)

(* The resume of a session that is not here: the owner is looked up.       *)
Lookup(t) ==
    /\ claims < MaxClaims /\ hop = Nobody
    /\ ~tasks[t].draining /\ tasks[t].session = "none" /\ Live /\ ~Mine(t)
    /\ claims' = claims + 1
    /\ hop' = [owner |-> [task |-> directory.task, gen |-> directory.gen], stage |-> "dialling"]
    /\ UNCHANGED <<directory, tasks, handed>>

(* PeerHandler takes direct connections from the subnet only, says its     *)
(* generation, and forwardResume hands the credential to no other.         *)
provesAnything(process, owner) == TRUE
provesGeneration(process, owner) == process.gen = owner.gen
Hello(direct) ==
    /\ hop # Nobody /\ hop.stage = "dialling"
    /\ LET process == tasks[hop.owner.task]
           proven == direct /\ ~process.draining /\ provesGeneration(process, hop.owner)
       IN IF proven THEN /\ hop' = [hop EXCEPT !.stage = "handed"]
                         /\ handed' = handed \union {[task |-> hop.owner.task, gen |-> process.gen, claimed |-> process.claimed]}
          ELSE hop' = Nobody /\ UNCHANGED handed
    /\ UNCHANGED <<directory, tasks, claims>>

(* The owner looks itself up again, verifies the signature, and resumes    *)
(* its own session only; otherwise the hop is closed.                      *)
Resumes ==
    /\ hop # Nobody /\ hop.stage = "handed"
    /\ LET t == hop.owner.task IN
       hop' = IF hop.owner.gen = tasks[t].gen /\ Holds(t) /\ tasks[t].session = "running" THEN [hop EXCEPT !.stage = "relaying"] ELSE Nobody
    /\ UNCHANGED <<directory, tasks, handed, claims>>

(* relay: either side's end closes both. *)
relay ==
    /\ hop # Nobody /\ hop.stage = "relaying" /\ hop' = Nobody
    /\ UNCHANGED <<directory, tasks, handed, claims>>

(***************************************************************************)
(* Time does not pass a renewal that is due, nor a release being made.     *)
(***************************************************************************)
Tick ==
    /\ \A t \in Tasks : (tasks[t].session = "running" => tasks[t].due > 0) /\ ~tasks[t].releasing
    /\ Live \/ \E t \in Tasks : tasks[t].session = "running"
    /\ directory' = IF Live THEN [directory EXCEPT !.left = @ - 1] ELSE directory
    /\ tasks' = [t \in Tasks |->
                   IF tasks[t].session # "running" THEN tasks[t]
                   ELSE [tasks[t] EXCEPT !.due = @ - 1, !.orphan = IF Holds(t) /\ directory.left > 1 THEN 0 ELSE @ + 1]]
    /\ UNCHANGED <<hop, handed, claims>>

OwnersNext ==
    \/ \E t \in Tasks, b \in BOOLEAN : OpenAt(t, b) \/ Renew(t, b) \/ releaseOwner(t, b)
    \/ \E t \in Tasks : Ending(t) \/ Removed(t) \/ Drain(t) \/ Crash(t) \/ Lookup(t)
    \/ \E direct \in BOOLEAN : Hello(direct)
    \/ Resumes \/ relay \/ Tick

OwnersSpec == OwnersInit /\ [][OwnersNext]_ownerVars

(***************************************************************************)
(* Properties                                                              *)
(***************************************************************************)

(* A task that runs the session while the directory names another, or      *)
(* nobody, ends it by its next renewal, whatever answers were lost,        *)
(* processes replaced and entries released by an earlier session of the    *)
(* same process: two tasks hold it for no longer than that (claimOwner,    *)
(* renewOwner, releaseOwner).                                              *)
OneOwner == \A t \in Tasks : tasks[t].session = "running" => tasks[t].orphan <= RenewInterval

(* A customer's credential is handed to a process only after that very     *)
(* process claimed the session, never to one that took its address         *)
(* (forwardResume).                                                        *)
CredentialsStayWithOwner == \A p \in handed : p.claimed

(* A session and the credentials it runs with stay with one process        *)
(* (peers.go).                                                             *)
StaysWithOwner == OneOwner /\ CredentialsStayWithOwner

=============================================================================
