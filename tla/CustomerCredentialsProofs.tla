--------------------- MODULE CustomerCredentialsProofs ---------------------
(***************************************************************************)
(* A customer's credential and the signed surfaces, for any number of      *)
(* connections, operations, validators and messages, repeated and          *)
(* interleaved in any way; and the limits kept of a credential, for any    *)
(* number of generations, of concurrent attempts and every cooldown.       *)
(***************************************************************************)
EXTENDS CustomerLimit, CustomerCredentials, FiniteSetTheorems, TLAPS

-----------------------------------------------------------------------------
(* The invariant *)

ToldShape == told = [written |-> told.written, answers |-> told.answers, verdicts |-> told.verdicts]

\* A row that exists holds a secret that was written for the generation it is
\* bound to.
RowOK(c) ==
  LET r == rows[c]
  IN  /\ r = [handle |-> r.handle, revision |-> r.revision, status |-> r.status, secret |-> r.secret,
              boundTo |-> r.boundTo]
      /\ r.revision \in Nat
      /\ r # NoRow => \E x \in told.written : x.scope = r.boundTo /\ x.secret = r.secret

RowsOK == rows = [c \in Connections |-> rows[c]] /\ \A c \in Connections : RowOK(c)

\* What was written is a generation of a row that exists, not past its present one.
Reached(scope) ==
  \E c \in Connections, n \in Nat :
    rows[c] # NoRow /\ scope = ScopeOf(c, rows[c].handle, n) /\ n <= rows[c].revision

WrittenOK ==
  /\ \A x \in told.written : Reached(x.scope)
  /\ \A x, y \in told.written : x.scope = y.scope => x = y

\* An applied write is on record under its own operation.
Backed(a, written) ==
  a.status = "applied" /\ a.request.action # "revoke" =>
    \E x \in written : /\ x.scope = ScopeOf(a.request.connection, a.handle, a.revision)
                       /\ x.secret = a.request.secret /\ x.op = a.request.op

StoredOK(s, op, written) ==
  /\ s = [request |-> s.request, status |-> s.status, handle |-> s.handle, revision |-> s.revision]
  /\ s.request.op = op /\ s.status \in {"conflict", "applied"} /\ Backed(s, written)

OutcomesOK ==
  /\ outcomes = [o \in Operations |-> outcomes[o]]
  /\ \A o \in Operations : outcomes[o] # NoOutcome => StoredOK(outcomes[o], o, told.written)

\* Every answer is what the operation would be answered now.
AnswerOK(a) ==
  /\ a.request.op \in Operations /\ outcomes[a.request.op] # NoOutcome
  /\ a = replay(outcomes[a.request.op], a.request)

AnswersOK == \A a \in told.answers : AnswerOK(a)

MutationInv == ToldShape /\ RowsOK /\ WrittenOK /\ OutcomesOK /\ AnswersOK

\* The provider was asked about the very secret written as the task's generation.
Earned(task, judged, written) ==
  \E x \in written : x.scope = ScopeOf(task.connection, task.handle, task.revision) /\ x.secret = judged

StateEarned(task, state, judged, written) == state \in {"valid", "invalid"} => Earned(task, judged, written)

ValidationOK(id) ==
  LET v == validations[id]
  IN  /\ v = [task |-> v.task, state |-> v.state, failure |-> v.failure, generation |-> v.generation,
              leased |-> v.leased, judged |-> v.judged]
      /\ v.generation \in Nat
      /\ StateEarned(v.task, v.state, v.judged, told.written)

\* A validator at work holds a claim of its own on a validation that is still
\* running under it, or was claimed again since.
AtWork(v, r) ==
  /\ v.task.id \in Validations /\ v.task.connection \in Connections
  /\ r.state # "none" /\ r.task = v.task
  /\ v.generation \in Nat /\ v.generation <= r.generation
  /\ v.generation = r.generation => r.state = "running"

ValidatorOK(w) ==
  LET v == validating[w]
  IN  /\ v = [step |-> v.step, task |-> v.task, generation |-> v.generation, judged |-> v.judged,
              state |-> v.state, failure |-> v.failure]
      /\ v.step # "idle" => AtWork(v, validations[v.task.id])
      /\ v.step = "calling" => Earned(v.task, v.judged, told.written)
      /\ v.step = "probed" => v.state \in Terminal /\ StateEarned(v.task, v.state, v.judged, told.written)

Apart(w, x) ==
  validating[w].step # "idle" /\ validating[x].step # "idle" /\ validating[w].task.id = validating[x].task.id =>
    validating[w].generation # validating[x].generation

\* What was told is what is stored, for good.
VerdictOK(v) ==
  LET r == validations[v.task.id]
  IN  /\ v.task.id \in Validations /\ r.task = v.task /\ r.state \in Terminal
      /\ v = Verdict(v.task, r)

ReporterOK ==
  /\ reporter = [queue |-> reporter.queue, posting |-> reporter.posting, pending |-> reporter.pending,
                 delivered |-> reporter.delivered]
  /\ reporter.queue \in Seq(told.verdicts)
  /\ reporter.posting \subseteq told.verdicts

ValidationInv ==
  /\ validations = [id \in Validations |-> validations[id]]
  /\ validating = [w \in Validators |-> validating[w]]
  /\ \A id \in Validations : ValidationOK(id)
  /\ \A w \in Validators : ValidatorOK(w)
  /\ \A w, x \in Validators : w # x => Apart(w, x)
  /\ \A v \in told.verdicts : VerdictOK(v)
  /\ ReporterOK

CredentialInv == MutationInv /\ ValidationInv

-----------------------------------------------------------------------------
(* Mutations *)

\* The four things applyCustomer may decide.
Decided(request, handle, f) ==
  LET row  == rows[request.connection]
      next == request.expected + 1
  IN  \/ f.row = row /\ f.outcome = Conflict(request)
      \/ /\ request.action = "create" /\ row = NoRow
         /\ f.row = [handle |-> handle, revision |-> 1, status |-> "active", secret |-> request.secret,
                     boundTo |-> ScopeOf(request.connection, handle, 1)]
         /\ f.outcome = Applied(request, handle, 1)
      \/ /\ request.action = "rotate" /\ Names(row, request)
         /\ f.row = [row EXCEPT !.revision = next, !.secret = request.secret,
                                !.boundTo = ScopeOf(request.connection, request.handle, next)]
         /\ f.outcome = Applied(request, request.handle, next)
      \/ /\ request.action = "revoke" /\ Names(row, request)
         /\ f.row = [row EXCEPT !.revision = next, !.status = "revoked"]
         /\ f.outcome = Applied(request, request.handle, next)

LEMMA ApplyFacts ==
  ASSUME NEW request, NEW handle
  PROVE  Decided(request, handle, applyCustomer(request, handle))
<1> DEFINE row == rows[request.connection]
<1>1. CASE request.action = "create" /\ row = NoRow
  BY <1>1 DEF Decided, applyCustomer
<1>2. CASE request.action = "rotate" /\ Names(row, request)
  BY <1>2 DEF Decided, applyCustomer
<1>3. CASE request.action = "revoke" /\ Names(row, request)
  BY <1>3 DEF Decided, applyCustomer
<1>4. CASE /\ ~(request.action = "create" /\ row = NoRow)
           /\ ~(request.action = "rotate" /\ Names(row, request))
           /\ ~(request.action = "revoke" /\ Names(row, request))
  BY <1>4 DEF Decided, applyCustomer
<1>5. QED
  BY <1>1, <1>2, <1>3, <1>4

\* A mutation that was seen before is answered as it was, and changes nothing.
LEMMA ReplayedKept ==
  ASSUME MutationInv, NEW m \in Orders, NEW handle \in Handles, handleMutation(m, handle),
         outcomes[m.body.request.op] # NoOutcome
  PROVE  MutationInv' /\ told'.written = told.written /\ told'.verdicts = told.verdicts
<1> DEFINE q == m.body.request
           stored == outcomes[q.op]
           answer == replay(stored, q)
<1>1. q.op \in Operations
  BY CredentialAssumption
<1>2. StoredOK(stored, q.op, told.written)
  BY <1>1 DEF MutationInv, OutcomesOK
<1>3. answer.request = q /\ [answer EXCEPT !.request = q] = answer
  <2>1. CASE stored.request = q
    BY <1>2, <2>1 DEF replay, StoredOK
  <2>2. CASE stored.request # q
    BY <2>2 DEF replay, Conflict
  <2>3. QED
    BY <2>1, <2>2
<1>4. rows' = rows /\ outcomes' = outcomes
  BY DEF handleMutation
<1>5. told' = [told EXCEPT !.written = told.written, !.answers = told.answers \cup {answer}]
  BY <1>3 DEF handleMutation
<1> HIDE DEF answer
<1>6. /\ told'.written = told.written /\ told'.verdicts = told.verdicts
      /\ told'.answers = told.answers \cup {answer} /\ ToldShape'
  BY <1>5 DEF MutationInv, ToldShape
<1>7. RowsOK' /\ WrittenOK' /\ OutcomesOK'
  BY <1>4, <1>6 DEF MutationInv, RowsOK, RowOK, WrittenOK, Reached, OutcomesOK
<1>8. AnswerOK(answer)
  BY <1>1, <1>3 DEF AnswerOK, answer
<1>9. AnswersOK'
  BY <1>4, <1>6, <1>8 DEF MutationInv, AnswersOK, AnswerOK
<1>10. QED
  BY <1>6, <1>7, <1>9 DEF MutationInv

\* What a fresh mutation leaves in its row, its outcome and the history.
Fresh(q, f, written) ==
  /\ f.row = [handle |-> f.row.handle, revision |-> f.row.revision, status |-> f.row.status,
              secret |-> f.row.secret, boundTo |-> f.row.boundTo]
  /\ f.row.revision \in Nat
  /\ f.row # NoRow => \E x \in written : x.scope = f.row.boundTo /\ x.secret = f.row.secret
  /\ rows[q.connection] # NoRow =>
       f.row # NoRow /\ f.row.handle = rows[q.connection].handle /\ f.row.revision >= rows[q.connection].revision
  /\ f.outcome.request = q /\ f.outcome # NoOutcome /\ StoredOK(f.outcome, q.op, written)

\* The generation it writes was never written before.
New(q, f, entry) ==
  \E n \in Nat : /\ f.row # NoRow /\ n <= f.row.revision
                 /\ entry.scope = ScopeOf(q.connection, f.row.handle, n)
                 /\ rows[q.connection] = NoRow \/ n > rows[q.connection].revision

LEMMA FreshFacts ==
  ASSUME MutationInv, NEW m \in Orders, NEW handle \in Handles
  PROVE  LET q       == m.body.request
             f       == applyCustomer(q, handle)
             writes  == f.outcome.status = "applied" /\ q.action # "revoke"
             entry   == [scope |-> f.row.boundTo, secret |-> q.secret, op |-> q.op]
             written == IF writes THEN told.written \cup {entry} ELSE told.written
         IN  Fresh(q, f, written) /\ (writes => New(q, f, entry))
<1> DEFINE q       == m.body.request
           row     == rows[q.connection]
           next    == q.expected + 1
           f       == applyCustomer(q, handle)
           writes  == f.outcome.status = "applied" /\ q.action # "revoke"
           entry   == [scope |-> f.row.boundTo, secret |-> q.secret, op |-> q.op]
           written == IF writes THEN told.written \cup {entry} ELSE told.written
<1>1. q.op \in Operations /\ q.connection \in Connections
  BY CredentialAssumption
<1>2. RowOK(q.connection)
  BY <1>1 DEF MutationInv, RowsOK
<1>3. Decided(q, handle, f)
  BY ApplyFacts
<1>4. entry.scope = f.row.boundTo /\ entry.secret = q.secret /\ entry.op = q.op
  OBVIOUS
<1> HIDE DEF f, entry
<1>5. CASE f.row = row /\ f.outcome = Conflict(q)
  <2>1. f.outcome = [request |-> q, status |-> "conflict", handle |-> "none", revision |-> 0]
    BY <1>5 DEF Conflict
  <2>2. ~writes /\ written = told.written
    BY <2>1
  <2>3. StoredOK(f.outcome, q.op, told.written) /\ f.outcome.request = q /\ f.outcome # NoOutcome
    BY <2>1 DEF StoredOK, Backed, NoOutcome
  <2> HIDE DEF q, writes, written
  <2>4. Fresh(q, f, told.written)
    BY <1>2, <1>5, <2>3 DEF Fresh, RowOK, row
  <2>5. QED
    BY <2>2, <2>4 DEF q, f, writes, entry, written
<1>6. CASE /\ q.action = "create" /\ row = NoRow
           /\ f.row = [handle |-> handle, revision |-> 1, status |-> "active", secret |-> q.secret,
                       boundTo |-> ScopeOf(q.connection, handle, 1)]
           /\ f.outcome = Applied(q, handle, 1)
  <2>1. f.outcome = [request |-> q, status |-> "applied", handle |-> handle, revision |-> 1]
    BY <1>6 DEF Applied
  <2>2. writes /\ written = told.written \cup {entry}
    BY <1>6, <2>1
  <2>3. /\ f.row.handle = handle /\ f.row.revision = 1 /\ f.row.status = "active"
        /\ f.row.secret = q.secret /\ f.row.boundTo = ScopeOf(q.connection, handle, 1)
        /\ f.row # NoRow
    BY <1>6 DEF NoRow
  <2>4. f.outcome.request = q /\ f.outcome # NoOutcome /\ f.outcome.handle = handle /\ f.outcome.revision = 1
    BY <2>1 DEF NoOutcome
  <2>5. StoredOK(f.outcome, q.op, written)
    <3>1. Backed(f.outcome, written)
      BY <1>4, <2>2, <2>3, <2>4 DEF Backed
    <3>2. QED
      BY <2>1, <3>1 DEF StoredOK
  <2>6. Fresh(q, f, written)
    <3>1. f.row = [handle |-> f.row.handle, revision |-> f.row.revision, status |-> f.row.status,
                   secret |-> f.row.secret, boundTo |-> f.row.boundTo]
      BY <1>6
    <3>2. entry \in written
      BY <2>2
    <3> HIDE DEF written, writes, q
    <3>3. QED
      BY <1>4, <1>6, <2>3, <2>4, <2>5, <3>1, <3>2 DEF Fresh, row
  <2>7. New(q, f, entry)
    BY <1>4, <1>6, <2>3 DEF New
  <2>8. QED
    BY <2>6, <2>7 DEF f, entry
<1>7. CASE /\ q.action = "rotate" /\ Names(row, q)
           /\ f.row = [row EXCEPT !.revision = next, !.secret = q.secret,
                                  !.boundTo = ScopeOf(q.connection, q.handle, next)]
           /\ f.outcome = Applied(q, q.handle, next)
  <2>1. f.outcome = [request |-> q, status |-> "applied", handle |-> q.handle, revision |-> next]
    BY <1>7 DEF Applied
  <2>2. writes /\ written = told.written \cup {entry}
    BY <1>7, <2>1
  <2>3. /\ row.status = "active" /\ row.handle = q.handle /\ row.revision = q.expected /\ row # NoRow
        /\ row.revision \in Nat /\ next \in Nat /\ next > row.revision
    BY <1>2, <1>7 DEF Names, RowOK, NoRow
  <2>4. f.row = [handle |-> row.handle, revision |-> next, status |-> row.status, secret |-> q.secret,
                 boundTo |-> ScopeOf(q.connection, q.handle, next)]
    BY <1>2, <1>7 DEF RowOK
  <2> HIDE DEF next
  <2>5. /\ f.row.handle = row.handle /\ f.row.revision = next /\ f.row.status = "active"
        /\ f.row.secret = q.secret /\ f.row.boundTo = ScopeOf(q.connection, q.handle, next)
        /\ f.row # NoRow
    BY <2>3, <2>4 DEF NoRow
  <2>6. f.outcome.request = q /\ f.outcome # NoOutcome /\ f.outcome.handle = q.handle /\ f.outcome.revision = next
    BY <2>1 DEF NoOutcome
  <2>7. StoredOK(f.outcome, q.op, written)
    <3>1. Backed(f.outcome, written)
      BY <1>4, <2>2, <2>5, <2>6 DEF Backed
    <3>2. QED
      BY <2>1, <3>1 DEF StoredOK
  <2>8. Fresh(q, f, written)
    <3>1. f.row = [handle |-> f.row.handle, revision |-> f.row.revision, status |-> f.row.status,
                   secret |-> f.row.secret, boundTo |-> f.row.boundTo]
      BY <2>4
    <3>2. entry \in written
      BY <2>2
    <3> HIDE DEF written, writes, q
    <3>3. QED
      BY <1>4, <2>3, <2>5, <2>6, <2>7, <3>1, <3>2 DEF Fresh, row
  <2>9. New(q, f, entry)
    BY <1>4, <2>3, <2>5 DEF New
  <2>10. QED
    BY <2>8, <2>9 DEF f, entry
<1>8. CASE /\ q.action = "revoke" /\ Names(row, q)
           /\ f.row = [row EXCEPT !.revision = next, !.status = "revoked"]
           /\ f.outcome = Applied(q, q.handle, next)
  <2>1. f.outcome = [request |-> q, status |-> "applied", handle |-> q.handle, revision |-> next]
    BY <1>8 DEF Applied
  <2>2. ~writes /\ written = told.written
    BY <1>8
  <2>3. /\ row.handle = q.handle /\ row.revision = q.expected /\ row # NoRow
        /\ row.revision \in Nat /\ next \in Nat /\ next > row.revision
    BY <1>2, <1>8 DEF Names, RowOK, NoRow
  <2>4. f.row = [handle |-> row.handle, revision |-> next, status |-> "revoked", secret |-> row.secret,
                 boundTo |-> row.boundTo]
    BY <1>2, <1>8 DEF RowOK
  <2> HIDE DEF next
  <2>5. /\ f.row.handle = row.handle /\ f.row.revision = next
        /\ f.row.secret = row.secret /\ f.row.boundTo = row.boundTo
        /\ f.row # NoRow
    BY <2>4 DEF NoRow
  <2>6. f.outcome.request = q /\ f.outcome # NoOutcome
    BY <2>1 DEF NoOutcome
  <2>7. StoredOK(f.outcome, q.op, written)
    BY <1>8, <2>1 DEF StoredOK, Backed
  <2>8. Fresh(q, f, written)
    <3>1. f.row = [handle |-> f.row.handle, revision |-> f.row.revision, status |-> f.row.status,
                   secret |-> f.row.secret, boundTo |-> f.row.boundTo]
      BY <2>4
    <3>2. \E x \in written : x.scope = row.boundTo /\ x.secret = row.secret
      BY <1>2, <2>2, <2>3 DEF RowOK
    <3> HIDE DEF written, writes, q
    <3>3. QED
      BY <2>3, <2>5, <2>6, <2>7, <3>1, <3>2 DEF Fresh, row
  <2>9. QED
    BY <2>2, <2>8 DEF f, entry
<1>9. QED
  BY <1>3, <1>5, <1>6, <1>7, <1>8 DEF Decided

LEMMA FreshKept ==
  ASSUME MutationInv, NEW m \in Orders, NEW handle \in Handles, handleMutation(m, handle),
         outcomes[m.body.request.op] = NoOutcome
  PROVE  MutationInv' /\ told.written \subseteq told'.written /\ told'.verdicts = told.verdicts
<1> DEFINE q == m.body.request
<1>f. PICK f : f = applyCustomer(q, handle)
  OBVIOUS
<1> DEFINE writes == f.outcome.status = "applied" /\ q.action # "revoke"
           entry  == [scope |-> f.row.boundTo, secret |-> q.secret, op |-> q.op]
<1>w. PICK written : written = IF writes THEN told.written \cup {entry} ELSE told.written
  OBVIOUS
<1>1. q.op \in Operations /\ q.connection \in Connections
  BY CredentialAssumption
<1>2. Fresh(q, f, written) /\ (writes => New(q, f, entry))
  BY <1>f, <1>w, FreshFacts
<1>3. rows' = [rows EXCEPT ![q.connection] = f.row]
  BY <1>f DEF handleMutation
<1>4. outcomes' = [outcomes EXCEPT ![q.op] = f.outcome]
  BY <1>f DEF handleMutation
<1>5. told' = [told EXCEPT !.written = written, !.answers = told.answers \cup {[f.outcome EXCEPT !.request = q]}]
  BY <1>f, <1>w DEF handleMutation
<1>6. [f.outcome EXCEPT !.request = q] = f.outcome
  BY <1>2 DEF Fresh, StoredOK
<1>7. told.written \subseteq written /\ (writes => written = told.written \cup {entry})
      /\ (~writes => written = told.written)
  BY <1>w
<1> HIDE DEF q, writes, entry
<1>8. /\ told'.written = written /\ told'.verdicts = told.verdicts
      /\ told'.answers = told.answers \cup {f.outcome} /\ ToldShape'
  BY <1>5, <1>6 DEF MutationInv, ToldShape
<1>9. /\ rows'[q.connection] = f.row
      /\ \A c \in Connections : c # q.connection => rows'[c] = rows[c]
      /\ rows' = [c \in Connections |-> rows'[c]]
  BY <1>1, <1>3 DEF MutationInv, RowsOK
<1>10. /\ outcomes'[q.op] = f.outcome
       /\ \A o \in Operations : o # q.op => outcomes'[o] = outcomes[o]
       /\ outcomes' = [o \in Operations |-> outcomes'[o]]
  BY <1>1, <1>4 DEF MutationInv, OutcomesOK
<1>11. RowsOK'
  <2>1. ASSUME NEW c \in Connections
        PROVE  RowOK(c)'
    <3>1. CASE c = q.connection
      BY <1>2, <1>8, <1>9, <3>1 DEF RowOK, Fresh
    <3>2. CASE c # q.connection
      <4>1. RowOK(c) /\ rows'[c] = rows[c]
        BY <1>9, <3>2 DEF MutationInv, RowsOK
      <4>2. QED
        BY <1>7, <1>8, <4>1 DEF RowOK
    <3>3. QED
      BY <3>1, <3>2
  <2>2. QED
    BY <1>9, <2>1 DEF RowsOK
<1>12. ASSUME NEW x \in told.written
       PROVE  Reached(x.scope)'
  <2>1. PICK c \in Connections, n \in Nat :
          rows[c] # NoRow /\ x.scope = ScopeOf(c, rows[c].handle, n) /\ n <= rows[c].revision
    BY DEF MutationInv, WrittenOK, Reached
  <2>2. /\ rows'[c] # NoRow /\ rows'[c].handle = rows[c].handle
        /\ rows'[c].revision \in Nat /\ rows[c].revision \in Nat /\ rows'[c].revision >= rows[c].revision
    <3>1. CASE c = q.connection
      BY <1>2, <1>9, <2>1, <3>1 DEF Fresh, MutationInv, RowsOK, RowOK
    <3>2. CASE c # q.connection
      BY <1>9, <2>1, <3>2 DEF MutationInv, RowsOK, RowOK
    <3>3. QED
      BY <3>1, <3>2
  <2>3. n <= rows'[c].revision
    BY <2>1, <2>2
  <2>4. QED
    BY <2>1, <2>2, <2>3 DEF Reached
<1>13. writes => Reached(entry.scope)' /\ \A x \in told.written : x.scope # entry.scope
  <2>1. SUFFICES ASSUME writes
                 PROVE  Reached(entry.scope)' /\ \A x \in told.written : x.scope # entry.scope
    OBVIOUS
  <2>2. PICK n \in Nat : /\ f.row # NoRow /\ n <= f.row.revision
                         /\ entry.scope = ScopeOf(q.connection, f.row.handle, n)
                         /\ rows[q.connection] = NoRow \/ n > rows[q.connection].revision
    BY <1>2, <2>1 DEF New
  <2>3. Reached(entry.scope)'
    BY <1>1, <1>9, <2>2 DEF Reached
  <2>4. ASSUME NEW x \in told.written, x.scope = entry.scope
        PROVE  FALSE
    <3>1. PICK c \in Connections, k \in Nat :
            rows[c] # NoRow /\ x.scope = ScopeOf(c, rows[c].handle, k) /\ k <= rows[c].revision
      BY DEF MutationInv, WrittenOK, Reached
    <3>2. c = q.connection /\ k = n
      BY <2>2, <2>4, <3>1 DEF ScopeOf
    <3>3. rows[c].revision \in Nat
      BY DEF MutationInv, RowsOK, RowOK
    <3>4. QED
      BY <2>2, <3>1, <3>2, <3>3
  <2>5. QED
    BY <2>3, <2>4
<1>14. WrittenOK'
  <2>1. \A x, y \in told.written : x.scope = y.scope => x = y
    BY DEF MutationInv, WrittenOK
  <2>2. CASE writes
    BY <1>7, <1>8, <1>12, <1>13, <2>1, <2>2 DEF WrittenOK
  <2>3. CASE ~writes
    BY <1>7, <1>8, <1>12, <2>1, <2>3 DEF WrittenOK
  <2>4. QED
    BY <2>2, <2>3
<1>15. OutcomesOK'
  <2>1. ASSUME NEW o \in Operations, outcomes'[o] # NoOutcome
        PROVE  StoredOK(outcomes'[o], o, written)
    <3>1. CASE o = q.op
      BY <1>2, <1>10, <3>1 DEF Fresh
    <3>2. CASE o # q.op
      <4>1. outcomes'[o] = outcomes[o] /\ StoredOK(outcomes[o], o, told.written)
        BY <1>10, <2>1, <3>2 DEF MutationInv, OutcomesOK
      <4>2. QED
        BY <1>7, <4>1 DEF StoredOK, Backed
    <3>3. QED
      BY <3>1, <3>2
  <2>2. QED
    BY <1>8, <1>10, <2>1 DEF OutcomesOK
<1>16. AnswersOK'
  <2>1. ASSUME NEW a \in told.answers
        PROVE  AnswerOK(a)'
    <3>1. AnswerOK(a) /\ outcomes[q.op] = NoOutcome
      BY DEF MutationInv, AnswersOK, q
    <3>2. a.request.op # q.op
      BY <3>1 DEF AnswerOK
    <3>3. QED
      BY <1>10, <3>1, <3>2 DEF AnswerOK
  <2>2. AnswerOK(f.outcome)'
    <3>1. f.outcome.request = q /\ f.outcome # NoOutcome
      BY <1>2 DEF Fresh
    <3>2. QED
      BY <1>1, <1>10, <3>1 DEF AnswerOK, replay
  <2>3. QED
    BY <1>8, <2>1, <2>2 DEF AnswersOK
<1>17. QED
  BY <1>7, <1>8, <1>11, <1>14, <1>15, <1>16 DEF MutationInv

\* An outcome query answers what is stored, and changes nothing.
LEMMA QueryKept ==
  ASSUME MutationInv, NEW m \in Orders, handleOutcome(m)
  PROVE  MutationInv' /\ told'.written = told.written /\ told'.verdicts = told.verdicts
<1> DEFINE q == m.body.request
           stored == outcomes[q.op]
<1>1. q.op \in Operations /\ stored # NoOutcome
  BY CredentialAssumption DEF handleOutcome, queried
<1>2. StoredOK(stored, q.op, told.written)
  BY <1>1 DEF MutationInv, OutcomesOK
<1>3. told' = [told EXCEPT !.answers = told.answers \cup {stored}] /\ rows' = rows /\ outcomes' = outcomes
  BY DEF handleOutcome
<1>4. AnswerOK(stored)
  BY <1>1, <1>2 DEF AnswerOK, StoredOK, replay
<1> HIDE DEF stored
<1>5. /\ told'.written = told.written /\ told'.verdicts = told.verdicts
      /\ told'.answers = told.answers \cup {stored} /\ ToldShape'
  BY <1>3 DEF MutationInv, ToldShape
<1>6. RowsOK' /\ WrittenOK' /\ OutcomesOK'
  BY <1>3, <1>5 DEF MutationInv, RowsOK, RowOK, WrittenOK, Reached, OutcomesOK
<1>7. AnswersOK'
  BY <1>3, <1>4, <1>5 DEF MutationInv, AnswersOK, AnswerOK
<1>8. QED
  BY <1>5, <1>6, <1>7 DEF MutationInv

\* Verdicts and reports leave the operations alone.
LEMMA MutationsApart ==
  ASSUME MutationInv, rows' = rows, outcomes' = outcomes, ToldShape',
         told'.written = told.written, told'.answers = told.answers
  PROVE  MutationInv'
<1>1. RowsOK' /\ WrittenOK' /\ OutcomesOK'
  BY DEF MutationInv, RowsOK, RowOK, WrittenOK, Reached, OutcomesOK
<1>2. AnswersOK'
  BY DEF MutationInv, AnswersOK, AnswerOK
<1>3. QED
  BY <1>1, <1>2 DEF MutationInv

\* What was earned stays earned.
LEMMA ValidationsApart ==
  ASSUME ValidationInv, UNCHANGED <<validations, validating, reporter>>,
         told.written \subseteq told'.written, told'.verdicts = told.verdicts
  PROVE  ValidationInv'
<1>1. \A id \in Validations : ValidationOK(id)'
  BY DEF ValidationInv, ValidationOK, StateEarned, Earned
<1>2. ASSUME NEW w \in Validators
      PROVE  ValidatorOK(w)'
  <2>1. ValidatorOK(w) /\ validating'[w] = validating[w] /\ validations' = validations
    BY DEF ValidationInv
  <2>2. \A task, judged : Earned(task, judged, told.written) => Earned(task, judged, told'.written)
    BY DEF Earned
  <2>3. QED
    BY <2>1, <2>2 DEF ValidatorOK, StateEarned
<1>3. \A w, x \in Validators : w # x => Apart(w, x)'
  BY DEF ValidationInv, Apart
<1>4. (\A v \in told.verdicts : VerdictOK(v))'
  BY DEF ValidationInv, VerdictOK
<1>5. ReporterOK'
  BY DEF ValidationInv, ReporterOK
<1>6. QED
  BY <1>1, <1>2, <1>3, <1>4, <1>5 DEF ValidationInv

-----------------------------------------------------------------------------
(* Validations *)

ValidationShape(v) ==
  v = [task |-> v.task, state |-> v.state, failure |-> v.failure, generation |-> v.generation,
       leased |-> v.leased, judged |-> v.judged]

\* s may take the place of the stored validation r.
Later(r, s) ==
  /\ ValidationShape(s) /\ s.generation \in Nat /\ s.generation >= r.generation
  /\ r.state # "none" => s.task = r.task /\ s.state # "none"
  /\ r.state \in Terminal => s.state = r.state /\ s.failure = r.failure /\ s.judged = r.judged

ValidatorShape(v) ==
  v = [step |-> v.step, task |-> v.task, generation |-> v.generation, judged |-> v.judged,
       state |-> v.state, failure |-> v.failure]

\* A step of one validator on one validation keeps everything but the verdicts
\* told and the reporter.
LEMMA ValidatorStep ==
  ASSUME ValidationInv, told'.written = told.written,
         NEW w \in Validators, NEW id \in Validations, NEW s, NEW v,
         validations' = [validations EXCEPT ![id] = s],
         validating' = [validating EXCEPT ![w] = v],
         Later(validations[id], s), StateEarned(s.task, s.state, s.judged, told.written),
         ValidatorShape(v),
         v.step # "idle" => /\ v.task.id = id /\ AtWork(v, s)
                            /\ \/ /\ validating[w].step # "idle" /\ validating[w].task.id = id
                                  /\ v.generation = validating[w].generation
                               \/ v.generation > validations[id].generation,
         v.step = "calling" => Earned(v.task, v.judged, told.written),
         v.step = "probed" => v.state \in Terminal /\ StateEarned(v.task, v.state, v.judged, told.written),
         \/ s.state = validations[id].state
         \/ s.generation > validations[id].generation
         \/ /\ validating[w].step # "idle" /\ validating[w].task.id = id
            /\ validating[w].generation = validations[id].generation
  PROVE  /\ validations' = [i \in Validations |-> validations'[i]]
         /\ validating' = [x \in Validators |-> validating'[x]]
         /\ \A i \in Validations : ValidationOK(i)'
         /\ \A x \in Validators : ValidatorOK(x)'
         /\ \A x, y \in Validators : x # y => Apart(x, y)'
         /\ \A u \in told.verdicts : VerdictOK(u)'
<1> DEFINE r == validations[id]
<1>1. /\ validations'[id] = s
      /\ \A i \in Validations : i # id => validations'[i] = validations[i]
      /\ validations' = [i \in Validations |-> validations'[i]]
  BY DEF ValidationInv
<1>2. /\ validating'[w] = v
      /\ \A x \in Validators : x # w => validating'[x] = validating[x]
      /\ validating' = [x \in Validators |-> validating'[x]]
  BY DEF ValidationInv
<1>3. ValidationOK(id) /\ r.generation \in Nat
  BY DEF ValidationInv, ValidationOK
<1>4. ASSUME NEW i \in Validations
      PROVE  ValidationOK(i)'
  <2>1. CASE i = id
    BY <1>1, <2>1 DEF ValidationOK, Later, ValidationShape
  <2>2. CASE i # id
    <3>1. ValidationOK(i) /\ validations'[i] = validations[i]
      BY <1>1, <2>2 DEF ValidationInv
    <3>2. QED
      BY <3>1 DEF ValidationOK
  <2>3. QED
    BY <2>1, <2>2
<1>5. ASSUME NEW x \in Validators, x # w, validating[x].step # "idle"
      PROVE  AtWork(validating[x], validations'[validating[x].task.id])
  <2>1. AtWork(validating[x], validations[validating[x].task.id])
    BY <1>5 DEF ValidationInv, ValidatorOK
  <2>2. CASE validating[x].task.id # id
    BY <1>1, <2>1, <2>2 DEF AtWork
  <2>3. CASE validating[x].task.id = id
    <3>1. /\ validating[x].generation \in Nat /\ validating[x].generation <= r.generation
          /\ validating[x].generation = r.generation => r.state = "running"
          /\ r.state # "none" /\ r.task = validating[x].task
      BY <2>1, <2>3 DEF AtWork
    <3>2. s.generation \in Nat /\ s.generation >= r.generation /\ s.task = r.task /\ s.state # "none"
      BY <3>1 DEF Later
    <3>3. validating[x].generation = s.generation => s.state = "running"
      <4>1. CASE s.state = r.state
        BY <1>3, <3>1, <3>2, <4>1
      <4>2. CASE s.generation > r.generation
        BY <1>3, <3>1, <3>2, <4>2
      <4>3. CASE /\ validating[w].step # "idle" /\ validating[w].task.id = id
                 /\ validating[w].generation = r.generation
        <5>1. validating[x].generation # r.generation
          BY <1>5, <2>3, <4>3 DEF ValidationInv, Apart
        <5>2. QED
          BY <1>3, <3>1, <3>2, <5>1
      <4>4. QED
        BY <4>1, <4>2, <4>3
    <3>4. validating[x].generation <= s.generation
      BY <1>3, <3>1, <3>2
    <3>5. QED
      BY <1>1, <2>1, <2>3, <3>1, <3>2, <3>3, <3>4 DEF AtWork
  <2>4. QED
    BY <2>2, <2>3
<1>6. ASSUME NEW x \in Validators
      PROVE  ValidatorOK(x)'
  <2>1. CASE x = w
    BY <1>1, <1>2, <2>1 DEF ValidatorOK, ValidatorShape
  <2>2. CASE x # w
    <3>1. ValidatorOK(x) /\ validating'[x] = validating[x]
      BY <1>2, <2>2 DEF ValidationInv
    <3>2. QED
      BY <1>5, <2>2, <3>1 DEF ValidatorOK
  <2>3. QED
    BY <2>1, <2>2
<1>7. ASSUME NEW x \in Validators, x # w, validating[x].step # "idle", v.step # "idle",
             validating[x].task.id = v.task.id
      PROVE  validating[x].generation # v.generation
  <2>1. validating[x].task.id = id
    BY <1>7
  <2>2. AtWork(validating[x], r)
    BY <1>7, <2>1 DEF ValidationInv, ValidatorOK
  <2>3. CASE v.generation > r.generation
    BY <1>3, <2>2, <2>3 DEF AtWork
  <2>4. CASE /\ validating[w].step # "idle" /\ validating[w].task.id = id
             /\ v.generation = validating[w].generation
    BY <1>7, <2>1, <2>4 DEF ValidationInv, Apart
  <2>5. QED
    BY <1>7, <2>3, <2>4
<1>8. ASSUME NEW x \in Validators, NEW y \in Validators, x # y
      PROVE  Apart(x, y)'
  <2>1. CASE x = w
    BY <1>2, <1>7, <1>8, <2>1 DEF Apart
  <2>2. CASE y = w
    BY <1>2, <1>7, <1>8, <2>2 DEF Apart
  <2>3. CASE x # w /\ y # w
    BY <1>2, <1>8, <2>3 DEF ValidationInv, Apart
  <2>4. QED
    BY <2>1, <2>2, <2>3
<1>9. ASSUME NEW u \in told.verdicts
      PROVE  VerdictOK(u)'
  <2>1. VerdictOK(u)
    BY DEF ValidationInv
  <2>2. CASE u.task.id = id
    <3>1. s.task = r.task /\ s.state = r.state /\ s.failure = r.failure /\ s.judged = r.judged
      BY <2>1, <2>2 DEF VerdictOK, Later, Terminal
    <3>2. QED
      BY <1>1, <2>1, <2>2, <3>1 DEF VerdictOK, Verdict
  <2>3. CASE u.task.id # id
    BY <1>1, <2>1, <2>3 DEF VerdictOK
  <2>4. QED
    BY <2>2, <2>3
<1>10. QED
  BY <1>1, <1>2, <1>4, <1>6, <1>8, <1>9

\* Queueing one verdict that was told.
LEMMA SubmitFacts ==
  ASSUME ReporterOK, NEW u, NEW verdicts, told.verdicts \subseteq verdicts, u \in verdicts
  PROVE  LET s == Submit(reporter, u)
         IN  /\ s = [queue |-> s.queue, posting |-> s.posting, pending |-> s.pending, delivered |-> s.delivered]
             /\ s.queue \in Seq(verdicts) /\ s.posting \subseteq verdicts
<1> DEFINE s == Submit(reporter, u)
<1>1. reporter.queue \in Seq(verdicts) /\ reporter.posting \subseteq verdicts
  BY DEF ReporterOK
<1>2. CASE s = reporter
  BY <1>1, <1>2 DEF ReporterOK
<1>3. CASE s = [reporter EXCEPT !.queue = Append(@, u), !.pending = @ \cup {u}]
  <2> DEFINE queue == Append(reporter.queue, u)
             pending == reporter.pending \cup {u}
  <2>1. s = [queue |-> queue, posting |-> reporter.posting, pending |-> pending, delivered |-> reporter.delivered]
    BY <1>3 DEF ReporterOK
  <2>2. queue \in Seq(verdicts)
    BY <1>1
  <2> HIDE DEF queue, pending, s
  <2>3. QED
    BY <1>1, <2>1, <2>2 DEF s
<1>4. QED
  BY <1>2, <1>3 DEF Submit

\* What a claim answers and leaves behind.
ClaimOutcome(r, task, c) ==
  \/ /\ c.answer = "execute" /\ r.state \notin Terminal
     /\ r # NoValidation => r.task = task
     /\ c.row = [task |-> task, state |-> "running", failure |-> r.failure, generation |-> r.generation + 1,
                 leased |-> TRUE, judged |-> r.judged]
  \/ /\ c.answer \in Terminal /\ c.answer = r.state /\ r.task = task /\ c.row = r
  \/ /\ c.answer \in {"conflict", "pending"} /\ c.row = r

LEMMA ClaimFacts ==
  ASSUME NEW r, ValidationShape(r), NEW task
  PROVE  ClaimOutcome(r, task, ClaimCustomerValidation(r, task))
<1> DEFINE row == IF r = NoValidation THEN [r EXCEPT !.task = task] ELSE r
           c == ClaimCustomerValidation(r, task)
<1>1. /\ row = [task |-> row.task, state |-> r.state, failure |-> r.failure, generation |-> r.generation,
                leased |-> r.leased, judged |-> r.judged]
      /\ r = NoValidation => row.task = task /\ r.state = "none" /\ r.leased = FALSE
      /\ r # NoValidation => row = r
  <2>1. CASE r = NoValidation
    BY <2>1 DEF NoValidation
  <2>2. CASE r # NoValidation
    BY <2>2 DEF ValidationShape
  <2>3. QED
    BY <2>1, <2>2
<1>2. CASE row.task # task
  <2>1. c.answer = "conflict" /\ c.row = row
    BY <1>2 DEF ClaimCustomerValidation
  <2>2. QED
    BY <1>1, <1>2, <2>1 DEF ClaimOutcome
<1>3. CASE row.task = task /\ row.state \in Terminal
  <2>1. c.answer = row.state /\ c.row = row
    BY <1>3 DEF ClaimCustomerValidation, Terminal
  <2>2. r # NoValidation
    BY <1>1, <1>3 DEF Terminal
  <2>3. QED
    BY <1>1, <1>3, <2>1, <2>2 DEF ClaimOutcome
<1>4. CASE row.task = task /\ row.state \notin Terminal /\ row.leased
  <2>1. c.answer = "pending" /\ c.row = row
    BY <1>4 DEF ClaimCustomerValidation
  <2>2. r # NoValidation
    BY <1>1, <1>4
  <2>3. QED
    BY <1>1, <2>1, <2>2 DEF ClaimOutcome
<1>5. CASE row.task = task /\ row.state \notin Terminal /\ ~row.leased
  <2>1. c.answer = "execute" /\ c.row = [row EXCEPT !.state = "running", !.generation = @ + 1, !.leased = TRUE]
    BY <1>5 DEF ClaimCustomerValidation
  <2> DEFINE next == r.generation + 1
  <2>2. row.generation = r.generation /\ row.state = r.state
    BY <1>1
  <2>3. c.row = [row EXCEPT !.state = "running", !.generation = next, !.leased = TRUE]
    BY <2>1, <2>2
  <2> HIDE DEF next, row, c
  <2>4. c.row = [task |-> task, state |-> "running", failure |-> r.failure, generation |-> next,
                 leased |-> TRUE, judged |-> r.judged]
    <3>1. row.task = task /\ row.failure = r.failure /\ row.judged = r.judged /\ ValidationShape(row)
      BY <1>1, <1>5 DEF ValidationShape
    <3>2. PICK q : q = c.row
      OBVIOUS
    <3>3. PICK p : p = row
      OBVIOUS
    <3>4. q = [p EXCEPT !.state = "running", !.generation = next, !.leased = TRUE]
      BY <2>3, <3>2, <3>3
    <3>5. q = [task |-> p.task, state |-> "running", failure |-> p.failure, generation |-> next,
               leased |-> TRUE, judged |-> p.judged]
      BY <3>1, <3>3, <3>4 DEF ValidationShape
    <3>6. QED
      BY <3>1, <3>2, <3>3, <3>5
  <2>5. QED
    BY <1>1, <1>5, <2>1, <2>2, <2>4 DEF ClaimOutcome, next, c
<1>6. QED
  BY <1>2, <1>3, <1>4, <1>5

\* One more verdict is told, with a reporter that may have queued it.
LEMMA VerdictTold ==
  ASSUME ToldShape, ReporterOK, NEW u, NEW tells \in BOOLEAN,
         told' = IF tells THEN [told EXCEPT !.verdicts = @ \cup {u}] ELSE told,
         reporter' = IF tells THEN Submit(reporter, u) ELSE reporter,
         \A x \in told.verdicts : VerdictOK(x)', tells => VerdictOK(u)'
  PROVE  /\ ToldShape' /\ ReporterOK' /\ told'.written = told.written /\ told'.answers = told.answers
         /\ (\A x \in told.verdicts : VerdictOK(x))'
<1>1. CASE tells
  <2> DEFINE verdicts == told.verdicts \cup {u}
  <2>1. told' = [written |-> told.written, answers |-> told.answers, verdicts |-> verdicts]
    BY <1>1 DEF ToldShape
  <2>2. reporter' = Submit(reporter, u) /\ told.verdicts \subseteq verdicts /\ u \in verdicts
    BY <1>1
  <2>3. \A x \in verdicts : VerdictOK(x)'
    BY <1>1
  <2> HIDE DEF verdicts
  <2>4. /\ told'.verdicts = verdicts /\ told'.written = told.written /\ told'.answers = told.answers
        /\ ToldShape'
    BY <2>1 DEF ToldShape
  <2>5. ReporterOK'
    BY <2>2, <2>4, SubmitFacts DEF ReporterOK
  <2>6. QED
    BY <2>3, <2>4, <2>5
<1>2. CASE ~tells
  BY <1>2 DEF ToldShape, ReporterOK
<1>3. QED
  BY <1>1, <1>2

LEMMA ValidateKept ==
  ASSUME CredentialInv, NEW m \in Tasks, NEW w \in Validators, Validate(w, m)
  PROVE  CredentialInv'
<1> DEFINE task == m.body.task
           id == task.id
<1>r. PICK r : r = validations[id]
  OBVIOUS
<1>c. PICK c : c = ClaimCustomerValidation(r, task)
  OBVIOUS
<1>u. PICK u : u = Verdict(task, r)
  OBVIOUS
<1>1. id \in Validations /\ task.connection \in Connections
  BY CredentialAssumption
<1>2. /\ ValidationShape(r) /\ r.generation \in Nat
      /\ StateEarned(r.task, r.state, r.judged, told.written)
  BY <1>r, <1>1 DEF CredentialInv, ValidationInv, ValidationOK, ValidationShape
<1>3. ClaimOutcome(r, task, c)
  BY <1>c, <1>2, ClaimFacts
<1>4. /\ validating[w] = Idle /\ rows' = rows /\ outcomes' = outcomes
      /\ validations' = [validations EXCEPT ![id] = c.row]
  BY <1>r, <1>c DEF Validate
<1>5. validating' = IF c.answer = "execute"
                    THEN [validating EXCEPT ![w] = [@ EXCEPT !.step = "claimed", !.task = task,
                                                             !.generation = c.row.generation]]
                    ELSE validating
  BY <1>r, <1>c DEF Validate
<1> DEFINE tells == c.answer \in Terminal
<1>6. /\ told' = IF tells THEN [told EXCEPT !.verdicts = @ \cup {u}] ELSE told
      /\ reporter' = IF tells THEN Submit(reporter, u) ELSE reporter
  BY <1>r, <1>c, <1>u DEF Validate
<1>7. told'.written = told.written
  BY <1>6 DEF CredentialInv, MutationInv, ToldShape
<1> DEFINE P == /\ validations' = [i \in Validations |-> validations'[i]]
                /\ validating' = [x \in Validators |-> validating'[x]]
                /\ \A i \in Validations : ValidationOK(i)'
                /\ \A x \in Validators : ValidatorOK(x)'
                /\ \A x, y \in Validators : x # y => Apart(x, y)'
                /\ \A x \in told.verdicts : VerdictOK(x)'
<1> HIDE DEF task, id
<1>8. P
  <2>1. CASE c.answer = "execute"
    <3> DEFINE v == [step |-> "claimed", task |-> task, generation |-> c.row.generation, judged |-> "none",
                     state |-> "none", failure |-> "none"]
               next == r.generation + 1
    <3>1. /\ c.row = [task |-> task, state |-> "running", failure |-> r.failure, generation |-> next,
                      leased |-> TRUE, judged |-> r.judged]
          /\ r.state \notin Terminal /\ (r # NoValidation => r.task = task)
      BY <1>3, <2>1 DEF ClaimOutcome, Terminal
    <3>2. next \in Nat /\ next > r.generation /\ next >= r.generation
      BY <1>2
    <3> HIDE DEF next
    <3>3. /\ c.row.task = task /\ c.row.state = "running" /\ c.row.generation = next
          /\ ValidationShape(c.row)
      BY <3>1 DEF ValidationShape
    <3>4. r.state # "none" => r.task = task
      BY <3>1 DEF NoValidation
    <3>5. Later(r, c.row)
      BY <3>1, <3>2, <3>3, <3>4 DEF Later
    <3>6. validating' = [validating EXCEPT ![w] = v]
      <4>1. validating' = [validating EXCEPT ![w] = [@ EXCEPT !.step = "claimed", !.task = task,
                                                              !.generation = c.row.generation]]
        BY <1>5, <2>1
      <4>2. [validating[w] EXCEPT !.step = "claimed", !.task = task, !.generation = c.row.generation] = v
        <5>1. /\ ValidatorShape(validating[w]) /\ validating[w].judged = "none"
              /\ validating[w].state = "none" /\ validating[w].failure = "none"
          BY <1>4 DEF Idle, ValidatorShape
        <5>2. PICK q : q = [validating[w] EXCEPT !.step = "claimed", !.task = task, !.generation = c.row.generation]
          OBVIOUS
        <5>3. PICK idle : idle = validating[w]
          OBVIOUS
        <5>4. q = [step |-> "claimed", task |-> task, generation |-> c.row.generation, judged |-> idle.judged,
                   state |-> idle.state, failure |-> idle.failure]
          BY <5>1, <5>2, <5>3 DEF ValidatorShape
        <5>5. QED
          BY <5>1, <5>2, <5>3, <5>4
      <4> HIDE DEF v
      <4>3. QED
        BY <4>1, <4>2
    <3>7. /\ v.step = "claimed" /\ v.task = task /\ v.generation = next /\ ValidatorShape(v)
      BY <3>3 DEF ValidatorShape
    <3> HIDE DEF v
    <3>8. AtWork(v, c.row) /\ v.task.id = id
      BY <1>1, <3>2, <3>3, <3>7 DEF AtWork, task, id
    <3>9. StateEarned(c.row.task, c.row.state, c.row.judged, told.written)
      BY <3>3 DEF StateEarned
    <3>10. QED
      BY <1>r, <1>1, <1>4, <1>7, <3>2, <3>3, <3>5, <3>6, <3>7, <3>8, <3>9, ValidatorStep
      DEF CredentialInv
  <2>2. CASE c.answer # "execute"
    <3>1. c.row = r
      BY <1>3, <2>2 DEF ClaimOutcome
    <3>2. validating' = [validating EXCEPT ![w] = Idle]
      BY <1>4, <1>5, <2>2 DEF CredentialInv, ValidationInv
    <3>3. Later(r, r)
      BY <1>2 DEF Later
    <3>4. ValidatorShape(Idle) /\ Idle.step = "idle"
      BY DEF ValidatorShape, Idle
    <3>5. QED
      BY <1>r, <1>1, <1>2, <1>4, <1>7, <3>1, <3>2, <3>3, <3>4, ValidatorStep DEF CredentialInv
  <2>3. QED
    BY <2>1, <2>2
<1>9. tells => VerdictOK(u)'
  <2>1. SUFFICES ASSUME tells PROVE VerdictOK(u)'
    OBVIOUS
  <2>2. c.row = r /\ r.task = task /\ r.state \in Terminal
    BY <1>3, <2>1 DEF ClaimOutcome, Terminal
  <2>3. validations'[id] = r
    BY <1>1, <1>4, <2>2 DEF CredentialInv, ValidationInv
  <2>4. u.task = task
    BY <1>u DEF Verdict
  <2>5. QED
    BY <1>1, <1>u, <2>2, <2>3, <2>4 DEF VerdictOK, id
<1>10. /\ ToldShape' /\ ReporterOK' /\ told'.written = told.written /\ told'.answers = told.answers
       /\ (\A x \in told.verdicts : VerdictOK(x))'
  <2>1. tells \in BOOLEAN /\ ToldShape /\ ReporterOK
    BY DEF CredentialInv, MutationInv, ValidationInv
  <2> HIDE DEF tells
  <2>2. QED
    BY <1>6, <1>8, <1>9, <2>1, VerdictTold
<1>11. MutationInv'
  BY <1>4, <1>10, MutationsApart DEF CredentialInv
<1>12. QED
  BY <1>8, <1>10, <1>11 DEF CredentialInv, ValidationInv

\* A validator goes on with the validation it claimed.
LEMMA WorkKept ==
  ASSUME CredentialInv, NEW w \in Validators, NEW v,
         UNCHANGED <<rows, outcomes, validations, reporter, told>>,
         validating' = [validating EXCEPT ![w] = v],
         validating[w].step # "idle", ValidatorShape(v),
         v.task = validating[w].task, v.generation = validating[w].generation,
         v.step = "calling" => Earned(v.task, v.judged, told.written),
         v.step = "probed" => v.state \in Terminal /\ StateEarned(v.task, v.state, v.judged, told.written)
  PROVE  CredentialInv'
<1> DEFINE id == v.task.id
<1>r. PICK r : r = validations[id]
  OBVIOUS
<1>1. AtWork(validating[w], r) /\ id \in Validations
  BY <1>r DEF CredentialInv, ValidationInv, ValidatorOK, AtWork
<1>2. AtWork(v, r)
  BY <1>1 DEF AtWork
<1>3. /\ ValidationShape(r) /\ r.generation \in Nat
      /\ StateEarned(r.task, r.state, r.judged, told.written)
  BY <1>r, <1>1 DEF CredentialInv, ValidationInv, ValidationOK, ValidationShape
<1>4. Later(r, r)
  BY <1>3 DEF Later
<1>5. validations' = [validations EXCEPT ![id] = r] /\ told'.written = told.written
  BY <1>r DEF CredentialInv, ValidationInv
<1>6. /\ validations' = [i \in Validations |-> validations'[i]]
      /\ validating' = [x \in Validators |-> validating'[x]]
      /\ \A i \in Validations : ValidationOK(i)'
      /\ \A x \in Validators : ValidatorOK(x)'
      /\ \A x, y \in Validators : x # y => Apart(x, y)'
      /\ \A u \in told.verdicts : VerdictOK(u)'
  <2>1. ValidationInv
    BY DEF CredentialInv
  <2> HIDE DEF id
  <2>2. v.task.id = id /\ validating[w].task.id = id
    BY DEF id
  <2>3. QED
    BY <1>r, <1>1, <1>2, <1>3, <1>4, <1>5, <2>1, <2>2, ValidatorStep
<1>7. MutationInv' /\ ReporterOK'
  BY MutationsApart DEF CredentialInv, MutationInv, ValidationInv, ToldShape, ReporterOK
<1>8. QED
  BY <1>6, <1>7 DEF CredentialInv, ValidationInv

\* The secret resolved for a task is the one written as its generation.
LEMMA ResolvedIsWritten ==
  ASSUME RowsOK, NEW task, task.connection \in Connections, ResolveForInference(task) # "none"
  PROVE  Earned(task, ResolveForInference(task), told.written)
<1> DEFINE row == rows[task.connection]
<1>1. /\ row.status = "active" /\ row.boundTo = ScopeOf(task.connection, task.handle, task.revision)
      /\ ResolveForInference(task) = row.secret
  BY DEF ResolveForInference
<1>2. row # NoRow
  BY <1>1 DEF NoRow
<1>3. PICK x \in told.written : x.scope = row.boundTo /\ x.secret = row.secret
  BY <1>2 DEF RowsOK, RowOK
<1>4. QED
  BY <1>1, <1>3 DEF Earned

LEMMA ResolveKept ==
  ASSUME CredentialInv, NEW w \in Validators, NEW fate \in Fates, Resolve(w, fate)
  PROVE  CredentialInv'
<1> DEFINE secret == ResolveForInference(validating[w].task)
           failure == CASE fate = "late"           -> "network"
                        [] fate = "unserved"       -> "not_found"
                        [] fate = "untranslatable" -> IF secret = "none" THEN "not_found" ELSE "unknown"
                        [] fate = "ready"          -> IF secret = "none" THEN "not_found" ELSE "none"
<1>o. PICK old : old = validating[w]
  OBVIOUS
<1>f. PICK f : f = failure
  OBVIOUS
<1>j. PICK j : j = secret
  OBVIOUS
<1>1. /\ old.step = "claimed" /\ UNCHANGED <<rows, outcomes, validations, reporter, told>>
      /\ validating' = [validating EXCEPT ![w] =
                          IF f = "none" THEN [old EXCEPT !.step = "calling", !.judged = j]
                          ELSE [old EXCEPT !.step = "probed", !.state = "inconclusive", !.failure = f]]
  BY <1>o, <1>f, <1>j DEF Resolve
<1>2. ValidatorShape(old) /\ old.task.connection \in Connections
  BY <1>o, <1>1 DEF CredentialInv, ValidationInv, ValidatorOK, ValidatorShape, AtWork
<1>3. f = "none" => j # "none"
  <2>1. fate \in {"ready", "late", "unserved", "untranslatable"}
    BY CredentialAssumption
  <2> HIDE DEF secret
  <2>2. QED
    BY <1>f, <1>j, <2>1
<1> HIDE DEF failure
<1>4. CASE f = "none"
  <2>1. PICK v : v = [old EXCEPT !.step = "calling", !.judged = j]
    OBVIOUS
  <2>2. v = [step |-> "calling", task |-> old.task, generation |-> old.generation, judged |-> j,
             state |-> old.state, failure |-> old.failure]
    BY <1>2, <2>1 DEF ValidatorShape
  <2>3. /\ v.step = "calling" /\ v.task = old.task /\ v.generation = old.generation /\ v.judged = j
        /\ ValidatorShape(v)
    BY <2>2 DEF ValidatorShape
  <2>4. Earned(v.task, v.judged, told.written)
    BY <1>o, <1>j, <1>2, <1>3, <1>4, <2>3, ResolvedIsWritten DEF CredentialInv, MutationInv
  <2>5. validating' = [validating EXCEPT ![w] = v]
    BY <1>1, <1>4, <2>1
  <2>6. QED
    BY <1>o, <1>1, <2>3, <2>4, <2>5, WorkKept
<1>5. CASE f # "none"
  <2>1. PICK v : v = [old EXCEPT !.step = "probed", !.state = "inconclusive", !.failure = f]
    OBVIOUS
  <2>2. v = [step |-> "probed", task |-> old.task, generation |-> old.generation, judged |-> old.judged,
             state |-> "inconclusive", failure |-> f]
    BY <1>2, <2>1 DEF ValidatorShape
  <2>3. /\ v.step = "probed" /\ v.task = old.task /\ v.generation = old.generation
        /\ v.state = "inconclusive" /\ ValidatorShape(v)
    BY <2>2 DEF ValidatorShape
  <2>4. v.state \in Terminal /\ StateEarned(v.task, v.state, v.judged, told.written)
    BY <2>3 DEF Terminal, StateEarned
  <2>5. validating' = [validating EXCEPT ![w] = v]
    BY <1>1, <1>5, <2>1
  <2>6. QED
    BY <1>o, <1>1, <2>3, <2>4, <2>5, WorkKept
<1>6. QED
  BY <1>4, <1>5

LEMMA ProbedKept ==
  ASSUME CredentialInv, NEW w \in Validators, NEW answer \in Answers, Probed(w, answer)
  PROVE  CredentialInv'
<1>o. PICK old : old = validating[w]
  OBVIOUS
<1>s. PICK s : s = probe(answer).state
  OBVIOUS
<1>f. PICK f : f = probe(answer).failure
  OBVIOUS
<1>1. /\ old.step = "calling" /\ UNCHANGED <<rows, outcomes, validations, reporter, told>>
      /\ validating' = [validating EXCEPT ![w] = [old EXCEPT !.step = "probed", !.state = s, !.failure = f]]
  BY <1>o, <1>s, <1>f DEF Probed
<1>2. ValidatorShape(old) /\ Earned(old.task, old.judged, told.written)
  BY <1>o, <1>1 DEF CredentialInv, ValidationInv, ValidatorOK, ValidatorShape
<1>3. s \in Terminal
  <2>1. answer \in {"served", "unauthorized", "billing", "rate_limited", "timed_out", "unreadable"}
    BY CredentialAssumption
  <2>2. QED
    BY <1>s, <2>1 DEF probe, Terminal
<1>4. PICK v : v = [old EXCEPT !.step = "probed", !.state = s, !.failure = f]
  OBVIOUS
<1>5. v = [step |-> "probed", task |-> old.task, generation |-> old.generation, judged |-> old.judged,
           state |-> s, failure |-> f]
  BY <1>2, <1>4 DEF ValidatorShape
<1>6. /\ v.step = "probed" /\ v.task = old.task /\ v.generation = old.generation
      /\ v.state = s /\ v.judged = old.judged /\ ValidatorShape(v)
  BY <1>5 DEF ValidatorShape
<1>7. v.state \in Terminal /\ StateEarned(v.task, v.state, v.judged, told.written)
  BY <1>2, <1>3, <1>6 DEF StateEarned
<1>8. validating' = [validating EXCEPT ![w] = v]
  BY <1>1, <1>4
<1>9. QED
  BY <1>o, <1>1, <1>6, <1>7, <1>8, WorkKept

\* The result is stored under the claim that earned it, and a claim that was
\* replaced stores nothing and tells nothing.
LEMMA CompletedKept ==
  ASSUME CredentialInv, NEW w \in Validators, NEW commits \in BOOLEAN, NEW answered \in BOOLEAN,
         Completed(w, commits, answered)
  PROVE  CredentialInv'
<1> DEFINE id == validating[w].task.id
<1>v. PICK v : v = validating[w]
  OBVIOUS
<1>r. PICK r : r = validations[id]
  OBVIOUS
<1>c. PICK c : c = CompleteCustomerValidation(r, v)
  OBVIOUS
<1>u. PICK u : u = Verdict(v.task, v)
  OBVIOUS
<1> DEFINE tells == commits /\ answered /\ c.done
<1>1. /\ v.step = "probed" /\ rows' = rows /\ outcomes' = outcomes
      /\ validations' = IF commits THEN [validations EXCEPT ![id] = c.row] ELSE validations
      /\ validating' = [validating EXCEPT ![w] = Idle]
  BY <1>v, <1>r, <1>c DEF Completed
<1>2. /\ told' = IF tells THEN [told EXCEPT !.verdicts = @ \cup {u}] ELSE told
      /\ reporter' = IF tells THEN Submit(reporter, u) ELSE reporter
  BY <1>v, <1>r, <1>c, <1>u DEF Completed
<1>3. told'.written = told.written
  BY <1>2 DEF CredentialInv, MutationInv, ToldShape
<1>4. /\ AtWork(v, r) /\ v.task.id = id /\ id \in Validations /\ v.state \in Terminal
      /\ StateEarned(v.task, v.state, v.judged, told.written)
  BY <1>v, <1>r, <1>1 DEF CredentialInv, ValidationInv, ValidatorOK, AtWork
<1>5. /\ ValidationShape(r) /\ r.generation \in Nat
      /\ StateEarned(r.task, r.state, r.judged, told.written)
  BY <1>r, <1>4 DEF CredentialInv, ValidationInv, ValidationOK, ValidationShape
<1>6. \/ /\ c.done = TRUE /\ v.generation = r.generation /\ r.state = "running"
         /\ c.row = [task |-> r.task, state |-> v.state, failure |-> v.failure, generation |-> r.generation,
                     leased |-> FALSE, judged |-> v.judged]
      \/ c.done = FALSE /\ c.row = r
  <2>1. CASE r.state = "running" /\ r.generation = v.generation
    <3>1. c.done = TRUE /\ c.row = [r EXCEPT !.state = v.state, !.failure = v.failure, !.judged = v.judged,
                                             !.leased = FALSE]
      BY <1>c, <2>1 DEF CompleteCustomerValidation
    <3>2. PICK q : q = c.row
      OBVIOUS
    <3>3. q = [task |-> r.task, state |-> v.state, failure |-> v.failure, generation |-> r.generation,
               leased |-> FALSE, judged |-> v.judged]
      BY <1>5, <3>1, <3>2 DEF ValidationShape
    <3>4. QED
      BY <2>1, <3>1, <3>2, <3>3
  <2>2. CASE ~(r.state = "running" /\ r.generation = v.generation)
    <3>1. r.generation # v.generation
      BY <1>4, <2>2 DEF AtWork
    <3>2. QED
      BY <1>c, <2>2, <3>1 DEF CompleteCustomerValidation
  <2>3. QED
    BY <2>1, <2>2
<1> DEFINE s == IF commits THEN c.row ELSE r
<1>7. /\ validations' = [validations EXCEPT ![id] = s]
      /\ tells => s = c.row
  BY <1>r, <1>1 DEF CredentialInv, ValidationInv
<1>8. /\ Later(r, s) /\ StateEarned(s.task, s.state, s.judged, told.written)
      /\ s.state = r.state \/ v.generation = r.generation
      /\ tells => s.task = v.task /\ s.state = v.state /\ s.failure = v.failure /\ s.judged = v.judged
  <2>1. CASE s = r /\ ~tells
    BY <1>5, <2>1 DEF Later
  <2>2. CASE /\ s = [task |-> r.task, state |-> v.state, failure |-> v.failure, generation |-> r.generation,
                     leased |-> FALSE, judged |-> v.judged]
             /\ v.generation = r.generation /\ r.state = "running"
    <3> HIDE DEF s
    <3>1. /\ s.task = r.task /\ s.state = v.state /\ s.failure = v.failure /\ s.generation = r.generation
          /\ s.judged = v.judged /\ ValidationShape(s)
      BY <2>2 DEF ValidationShape
    <3>2. r.task = v.task /\ r.state \notin Terminal /\ v.state # "none"
      BY <1>4, <2>2 DEF AtWork, Terminal
    <3>3. Later(r, s)
      BY <1>5, <3>1, <3>2 DEF Later
    <3>4. QED
      BY <1>4, <2>2, <3>1, <3>2, <3>3
  <2>3. QED
    BY <1>6, <2>1, <2>2
<1> HIDE DEF id, s
<1>9. /\ validations' = [i \in Validations |-> validations'[i]]
      /\ validating' = [x \in Validators |-> validating'[x]]
      /\ \A i \in Validations : ValidationOK(i)'
      /\ \A x \in Validators : ValidatorOK(x)'
      /\ \A x, y \in Validators : x # y => Apart(x, y)'
      /\ \A x \in told.verdicts : VerdictOK(x)'
  <2>1. ValidatorShape(Idle) /\ Idle.step = "idle" /\ ValidationInv
    BY DEF ValidatorShape, Idle, CredentialInv
  <2>2. validating[w].step # "idle" /\ validating[w].task.id = id
    BY <1>v, <1>1, <1>4
  <2>3. s.state = validations[id].state \/ validating[w].generation = validations[id].generation
    BY <1>v, <1>r, <1>8 DEF id
  <2>4. QED
    BY <1>r, <1>1, <1>3, <1>4, <1>7, <1>8, <2>1, <2>2, <2>3, ValidatorStep DEF id
<1>10. tells => VerdictOK(u)'
  <2>1. SUFFICES ASSUME tells PROVE VerdictOK(u)'
    OBVIOUS
  <2>2. validations'[id] = s
    BY <1>4, <1>7 DEF CredentialInv, ValidationInv
  <2>3. u.task = v.task
    BY <1>u DEF Verdict
  <2>4. u = Verdict(u.task, s) /\ s.state \in Terminal /\ s.task = u.task
    BY <1>u, <1>4, <1>8, <2>1, <2>3 DEF Verdict
  <2>5. QED
    BY <1>4, <2>2, <2>3, <2>4 DEF VerdictOK
<1>11. /\ ToldShape' /\ ReporterOK' /\ told'.written = told.written /\ told'.answers = told.answers
       /\ (\A x \in told.verdicts : VerdictOK(x))'
  <2>1. tells \in BOOLEAN /\ ToldShape /\ ReporterOK
    BY <1>6 DEF CredentialInv, MutationInv, ValidationInv
  <2> HIDE DEF tells
  <2>2. QED
    BY <1>2, <1>9, <1>10, <2>1, VerdictTold
<1>12. MutationInv'
  BY <1>1, <1>11, MutationsApart DEF CredentialInv
<1>13. QED
  BY <1>9, <1>11, <1>12 DEF CredentialInv, ValidationInv

LEMMA LeaseEndsKept ==
  ASSUME CredentialInv, NEW id \in Validations, LeaseEnds(id)
  PROVE  CredentialInv'
<1>r. PICK r : r = validations[id]
  OBVIOUS
<1>s. PICK s : s = [r EXCEPT !.leased = FALSE]
  OBVIOUS
<1>1. /\ validations' = [validations EXCEPT ![id] = s]
      /\ UNCHANGED <<rows, outcomes, validating, reporter, told>>
  BY <1>r, <1>s DEF LeaseEnds
<1>2. ValidationOK(id) /\ ValidationShape(r)
  BY <1>r DEF CredentialInv, ValidationInv, ValidationOK, ValidationShape
<1>3. s = [task |-> r.task, state |-> r.state, failure |-> r.failure, generation |-> r.generation,
           leased |-> FALSE, judged |-> r.judged]
  BY <1>s, <1>2 DEF ValidationShape
<1>4. /\ s.task = r.task /\ s.state = r.state /\ s.failure = r.failure /\ s.generation = r.generation
      /\ s.judged = r.judged /\ ValidationShape(s)
  BY <1>3 DEF ValidationShape
<1>5. /\ validations'[id] = s /\ validations' = [i \in Validations |-> validations'[i]]
      /\ \A i \in Validations : i # id => validations'[i] = validations[i]
  BY <1>1 DEF CredentialInv, ValidationInv
<1>6. ASSUME NEW i \in Validations
      PROVE  ValidationOK(i)'
  <2>1. CASE i = id
    BY <1>r, <1>1, <1>2, <1>4, <1>5, <2>1 DEF ValidationOK, ValidationShape
  <2>2. CASE i # id
    BY <1>1, <1>5, <2>2 DEF CredentialInv, ValidationInv, ValidationOK
  <2>3. QED
    BY <2>1, <2>2
<1>7. ASSUME NEW x \in Validators
      PROVE  ValidatorOK(x)'
  <2>1. ValidatorOK(x) /\ validating' = validating /\ told' = told
    BY <1>1 DEF CredentialInv, ValidationInv
  <2>2. validating[x].step # "idle" => AtWork(validating[x], validations'[validating[x].task.id])
    BY <1>r, <1>4, <1>5, <2>1 DEF ValidatorOK, AtWork
  <2>3. QED
    BY <2>1, <2>2 DEF ValidatorOK
<1>8. ASSUME NEW u \in told.verdicts
      PROVE  VerdictOK(u)'
  <2>1. VerdictOK(u)
    BY DEF CredentialInv, ValidationInv
  <2>2. QED
    BY <1>r, <1>4, <1>5, <2>1 DEF VerdictOK, Verdict
<1>9. /\ MutationInv' /\ ReporterOK' /\ validating' = [x \in Validators |-> validating'[x]]
      /\ \A x, y \in Validators : x # y => Apart(x, y)'
  BY <1>1, MutationsApart DEF CredentialInv, MutationInv, ValidationInv, ToldShape, ReporterOK, Apart
<1>10. QED
  BY <1>1, <1>5, <1>6, <1>7, <1>8, <1>9 DEF CredentialInv, ValidationInv

LEMMA RestartKept ==
  ASSUME CredentialInv, Restart
  PROVE  CredentialInv'
<1>1. /\ validating' = [x \in Validators |-> Idle] /\ reporter' = NewReporter
      /\ UNCHANGED <<rows, outcomes, validations, told>>
  BY DEF Restart
<1>2. Idle.step = "idle" /\ ValidatorShape(Idle)
  BY DEF Idle, ValidatorShape
<1>3. \A x \in Validators : ValidatorOK(x)'
  BY <1>1, <1>2 DEF ValidatorOK, ValidatorShape
<1>4. \A x, y \in Validators : Apart(x, y)'
  BY <1>1, <1>2 DEF Apart
<1>5. ReporterOK'
  BY <1>1 DEF ReporterOK, NewReporter
<1>6. /\ MutationInv' /\ \A i \in Validations : ValidationOK(i)'
      /\ \A u \in told.verdicts : VerdictOK(u)'
      /\ validations' = [i \in Validations |-> validations'[i]]
  BY <1>1, MutationsApart DEF CredentialInv, MutationInv, ValidationInv, ToldShape, ValidationOK, VerdictOK
<1>7. QED
  BY <1>1, <1>3, <1>4, <1>5, <1>6 DEF CredentialInv, ValidationInv

\* What is reported was told before: a report changes the reporter alone.
LEMMA ReportKept ==
  ASSUME CredentialInv, UNCHANGED <<rows, outcomes, validations, validating, told>>, ReporterOK'
  PROVE  CredentialInv'
<1>1. \A x \in Validators : ValidatorOK(x)'
  BY DEF CredentialInv, ValidationInv, ValidatorOK
<1>2. \A i \in Validations : ValidationOK(i)'
  BY DEF CredentialInv, ValidationInv, ValidationOK
<1>3. (\A u \in told.verdicts : VerdictOK(u))' /\ \A x, y \in Validators : x # y => Apart(x, y)'
  BY DEF CredentialInv, ValidationInv, VerdictOK, Apart
<1>4. MutationInv'
  BY MutationsApart DEF CredentialInv, MutationInv, ToldShape
<1>5. QED
  BY <1>1, <1>2, <1>3, <1>4 DEF CredentialInv, ValidationInv

LEMMA TakenKept ==
  ASSUME CredentialInv, Taken
  PROVE  CredentialInv'
<1>r. PICK r : r = reporter
  OBVIOUS
<1>t. PICK t : t = told.verdicts
  OBVIOUS
<1>1. /\ r = [queue |-> r.queue, posting |-> r.posting, pending |-> r.pending, delivered |-> r.delivered]
      /\ r.queue \in Seq(t) /\ r.queue # <<>>
  BY <1>r, <1>t DEF CredentialInv, ValidationInv, ReporterOK, Taken
<1>2. Head(r.queue) \in t /\ Tail(r.queue) \in Seq(t)
  BY <1>1
<1> DEFINE head == Head(r.queue)
           tail == Tail(r.queue)
<1> HIDE DEF head, tail
<1>3. reporter' = [r EXCEPT !.posting = {head}, !.queue = tail]
  BY <1>r DEF Taken, head, tail
<1>4. PICK q : q = reporter'
  OBVIOUS
<1>5. q = [queue |-> tail, posting |-> {head}, pending |-> r.pending, delivered |-> r.delivered]
  BY <1>1, <1>3, <1>4
<1>6. head \in t /\ tail \in Seq(t)
  BY <1>2 DEF head, tail
<1>7. UNCHANGED <<rows, outcomes, validations, validating, told>>
  BY DEF Taken
<1>8. ReporterOK'
  BY <1>t, <1>4, <1>5, <1>6, <1>7 DEF ReporterOK
<1>9. QED
  BY <1>7, <1>8, ReportKept

LEMMA PostedKept ==
  ASSUME CredentialInv, NEW v \in reporter.posting, NEW post, Posted(v, post)
  PROVE  CredentialInv'
<1>r. PICK r : r = reporter
  OBVIOUS
<1>1. /\ r = [queue |-> r.queue, posting |-> r.posting, pending |-> r.pending, delivered |-> r.delivered]
      /\ r.queue \in Seq(told.verdicts) /\ v \in told.verdicts /\ ToldShape
  BY <1>r DEF CredentialInv, MutationInv, ValidationInv, ReporterOK
<1>2. told' = told
  <2>1. PICK t : t = IF post.sent THEN told.verdicts \cup {v} ELSE told.verdicts
    OBVIOUS
  <2>2. t = told.verdicts
    BY <1>1, <2>1
  <2>3. told' = [told EXCEPT !.verdicts = t]
    BY <2>1 DEF Posted
  <2>4. QED
    BY <1>1, <2>2, <2>3 DEF ToldShape
<1>3. PICK pending, delivered : reporter' = [r EXCEPT !.posting = {}, !.pending = pending, !.delivered = delivered]
  BY <1>r DEF Posted
<1>4. PICK q : q = reporter'
  OBVIOUS
<1>5. q = [queue |-> r.queue, posting |-> {}, pending |-> pending, delivered |-> delivered]
  BY <1>1, <1>3, <1>4
<1>6. UNCHANGED <<rows, outcomes, validations, validating, told>>
  BY <1>2 DEF Posted
<1>7. ReporterOK'
  BY <1>1, <1>4, <1>5, <1>6 DEF ReporterOK
<1>8. QED
  BY <1>6, <1>7, ReportKept

-----------------------------------------------------------------------------
(* Both histories *)

LEMMA CredentialStart ==
  ASSUME CredentialInit
  PROVE  CredentialInv
<1>1. /\ rows = [c \in Connections |-> NoRow] /\ outcomes = [o \in Operations |-> NoOutcome]
      /\ told = [written |-> {}, answers |-> {}, verdicts |-> {}]
  BY DEF CredentialInit
<1>2. told.written = {} /\ told.answers = {} /\ told.verdicts = {} /\ ToldShape
  BY <1>1 DEF ToldShape
<1>3. RowsOK
  BY <1>1 DEF RowsOK, RowOK, NoRow
<1>4. WrittenOK /\ OutcomesOK /\ AnswersOK
  BY <1>1, <1>2 DEF WrittenOK, OutcomesOK, AnswersOK
<1>5. /\ validations = [i \in Validations |-> NoValidation] /\ validating = [w \in Validators |-> Idle]
      /\ reporter = NewReporter
  BY DEF CredentialInit
<1>6. \A i \in Validations : ValidationOK(i)
  BY <1>5 DEF ValidationOK, NoValidation, StateEarned
<1>7. \A w \in Validators : validating[w].step = "idle" /\ ValidatorOK(w)
  BY <1>5 DEF ValidatorOK, Idle
<1>8. ReporterOK
  BY <1>5 DEF ReporterOK, NewReporter
<1>9. QED
  BY <1>2, <1>3, <1>4, <1>5, <1>6, <1>7, <1>8 DEF CredentialInv, MutationInv, ValidationInv, Apart

LEMMA CredentialStep ==
  ASSUME CredentialInv, [CredentialNext]_credentialVars
  PROVE  CredentialInv'
<1>1. ASSUME NEW m \in Orders, NEW handle \in Handles, handleMutation(m, handle)
      PROVE  CredentialInv'
  <2>1. UNCHANGED <<validations, validating, reporter>>
    BY <1>1 DEF handleMutation
  <2>2. MutationInv' /\ told.written \subseteq told'.written /\ told'.verdicts = told.verdicts
    BY <1>1, ReplayedKept, FreshKept DEF CredentialInv
  <2>3. QED
    BY <2>1, <2>2, ValidationsApart DEF CredentialInv
<1>2. ASSUME NEW m \in Orders, handleOutcome(m)
      PROVE  CredentialInv'
  <2>1. UNCHANGED <<validations, validating, reporter>>
    BY <1>2 DEF handleOutcome
  <2>2. QED
    BY <1>2, <2>1, QueryKept, ValidationsApart DEF CredentialInv
<1>3. CASE UNCHANGED credentialVars
  <2>1. UNCHANGED <<rows, outcomes, validations, validating, reporter, told>>
    BY <1>3 DEF credentialVars
  <2>2. ReporterOK'
    BY <2>1 DEF CredentialInv, ValidationInv, ReporterOK
  <2>3. QED
    BY <2>1, <2>2, ReportKept
<1>4. QED
  BY <1>1, <1>2, <1>3, ValidateKept, ResolveKept, ProbedKept, CompletedKept, LeaseEndsKept, RestartKept,
     TakenKept, PostedKept DEF CredentialNext

LEMMA AnswersFromInv ==
  ASSUME MutationInv
  PROVE  AnswersAreTrue
<1>1. ASSUME NEW a \in told.answers, a.status = "applied", a.request.action # "revoke"
      PROVE  \E x \in told.written : /\ x.scope = ScopeOf(a.request.connection, a.handle, a.revision)
                                     /\ x.secret = a.request.secret /\ x.op = a.request.op
  <2>1. AnswerOK(a)
    BY DEF MutationInv, AnswersOK
  <2> DEFINE stored == outcomes[a.request.op]
  <2>2. StoredOK(stored, a.request.op, told.written) /\ a = replay(stored, a.request)
    BY <2>1 DEF AnswerOK, MutationInv, OutcomesOK
  <2>3. a = stored
    BY <1>1, <2>2 DEF replay, Conflict
  <2>4. QED
    BY <1>1, <2>2, <2>3 DEF StoredOK, Backed
<1>2. \A a, b \in told.answers : a.request = b.request => a = b
  BY DEF MutationInv, AnswersOK, AnswerOK
<1>3. QED
  BY <1>1, <1>2 DEF AnswersAreTrue, MutationInv, WrittenOK

LEMMA VerdictsFromInv ==
  ASSUME ValidationInv
  PROVE  VerdictsAreEarned
<1>1. ASSUME NEW v \in told.verdicts, v.state \in {"valid", "invalid"}
      PROVE  \E x \in told.written : /\ x.scope = ScopeOf(v.task.connection, v.task.handle, v.task.revision)
                                     /\ x.secret = v.judged
  <2> DEFINE r == validations[v.task.id]
  <2>1. v.task.id \in Validations /\ r.task = v.task /\ v = Verdict(v.task, r)
    BY DEF ValidationInv, VerdictOK
  <2>2. v.state = r.state /\ v.judged = r.judged
    BY <2>1 DEF Verdict
  <2>3. StateEarned(r.task, r.state, r.judged, told.written)
    BY <2>1 DEF ValidationInv, ValidationOK
  <2>4. QED
    BY <1>1, <2>1, <2>2, <2>3 DEF StateEarned, Earned
<1>2. \A u, v \in told.verdicts : u.task = v.task => u = v
  BY DEF ValidationInv, VerdictOK
<1>3. QED
  BY <1>1, <1>2 DEF VerdictsAreEarned

\* The invariant holds of every behaviour of the control and validation surfaces
\* (CustomerWriter.Create, Rotate, Revoke; Runner.Validate; Reporter).
THEOREM CredentialsAreKept == CredentialSpec => []CredentialInv
<1>1. CredentialInit => CredentialInv
  BY CredentialStart
<1>2. CredentialInv /\ [CredentialNext]_credentialVars => CredentialInv'
  BY CredentialStep
<1>3. QED
  BY <1>1, <1>2, PTL DEF CredentialSpec

\* Whatever mutations arrive, resent, lost or with an operation id used again,
\* the answers to one request never differ, an applied one names the generation
\* its own secret was written as, and no generation is written twice
\* (CustomerWriter.Create, Rotate, Revoke).
THEOREM OperationsAnswerTruly == CredentialSpec => []AnswersAreTrue
<1>1. CredentialInv => AnswersAreTrue
  BY AnswersFromInv DEF CredentialInv
<1>2. QED
  BY <1>1, CredentialsAreKept, PTL

\* Whatever leases end, validators die, credentials rotate and reports are sent
\* again, a validation has one verdict, and one that calls a generation valid or
\* invalid was earned by the very secret written as that generation
\* (Runner.Validate, CompleteCustomerValidation, ResolveForInference).
THEOREM VerdictsHoldGood == CredentialSpec => []VerdictsAreEarned
<1>1. CredentialInv => VerdictsAreEarned
  BY VerdictsFromInv DEF CredentialInv
<1>2. QED
  BY <1>1, CredentialsAreKept, PTL

-----------------------------------------------------------------------------
(* The signed surfaces *)

StreamShape ==
  /\ stream = [open |-> stream.open, broken |-> stream.broken, produced |-> stream.produced,
               frames |-> stream.frames]
  /\ stream.open \in BOOLEAN /\ stream.broken \in BOOLEAN
  /\ stream.produced \in Nat /\ stream.frames \in Seq(Nat)

\* A stream that is open has written its events in order, all of them unless a
\* write failed.
OpenInOrder ==
  stream.open =>
    /\ \A i \in 1..Len(stream.frames) : stream.frames[i] = i
    /\ ~stream.broken => Len(stream.frames) = stream.produced

Positions == Nat \X Nat \X Nat

\* The writes that committed did so after they started, and not in the future.
FeedShape ==
  /\ feed = [now |-> feed.now, open |-> feed.open, kept |-> feed.kept]
  /\ feed.now \in Nat \ {0}
  /\ \A w \in feed.open : w.request \in FeedRequests /\ w.started \in 1..feed.now
  /\ \A w \in feed.kept :
       w.request \in FeedRequests /\ w.started \in 1..feed.now /\ w.ended \in w.started..feed.now
  /\ IsFiniteSet(feed.kept)

ReaderShape ==
  /\ reader = [cursor |-> reader.cursor, has |-> reader.has]
  /\ reader.cursor \in Positions

\* The cursor is a row that was old enough to show, so a write that can still end
\* in time started after it.
CursorSettled == reader.cursor = FeedStart \/ reader.cursor[1] + SettleWindow < feed.now

BatchIsWhole ==
  (reply.surface = "deployments" /\ reply.status = 200 /\ reply.asked # {}) => reply.ids = reply.asked

StreamInv == StreamShape /\ OpenInOrder /\ FramesAreWhole
ReaderInv == FeedShape /\ ReaderShape /\ CursorSettled /\ PagesAreWhole
EdgeInv == StreamInv /\ ReaderInv /\ BatchIsWhole

\* The order of the rows is total and transitive.
LEMMA BeforeOrders ==
  /\ \A p, q \in Positions : p = q \/ Before(p, q) \/ Before(q, p)
  /\ \A p, q, t \in Positions : Before(p, q) /\ Before(q, t) => Before(p, t)
  /\ \A p, q \in Positions : Before(p, q) => p[1] <= q[1]
<1>1. ASSUME NEW p \in Positions
      PROVE  p = <<p[1], p[2], p[3]>> /\ p[1] \in Nat /\ p[2] \in Nat /\ p[3] \in Nat
  BY DEF Positions
<1>2. \A p, q \in Positions : p = q \/ Before(p, q) \/ Before(q, p)
  <2>1. SUFFICES ASSUME NEW p \in Positions, NEW q \in Positions, ~Before(p, q), ~Before(q, p)
                 PROVE  p = q
    OBVIOUS
  <2>2. p[1] = q[1] /\ p[2] = q[2] /\ p[3] = q[3]
    BY <1>1, <2>1 DEF Before
  <2>3. p = <<p[1], p[2], p[3]>> /\ q = <<q[1], q[2], q[3]>>
    BY <1>1
  <2>4. QED
    BY <2>2, <2>3
<1>3. \A p, q, t \in Positions : Before(p, q) /\ Before(q, t) => Before(p, t)
  BY <1>1 DEF Before
<1>4. \A p, q \in Positions : Before(p, q) => p[1] <= q[1]
  BY <1>1 DEF Before
<1>5. QED
  BY <1>2, <1>3, <1>4

\* The rows of finitely many writes are finitely many.
LEMMA RowsAreFinite ==
  ASSUME NEW writes, IsFiniteSet(writes), \A w \in writes : w.request \in FeedRequests
  PROVE  IsFiniteSet(RowsOf(writes))
<1> DEFINE Of(w) == {<<w.started, w.request, i>> : i \in 0..(AttemptsOf[w.request] - 1)}
           each == {Of(w) : w \in writes}
<1>1. ASSUME NEW w \in writes
      PROVE  IsFiniteSet(Of(w))
  <2> DEFINE dom == 0..(AttemptsOf[w.request] - 1)
             f == [i \in dom |-> <<w.started, w.request, i>>]
  <2>1. AttemptsOf[w.request] \in Nat
    BY FeedAssumption
  <2>2. IsFiniteSet(dom)
    BY <2>1, FS_Interval
  <2>3. f \in Surjection(dom, Of(w))
    BY DEF Surjection
  <2>4. QED
    BY <2>2, <2>3, FS_Surjection
<1>2. IsFiniteSet(each)
  <2> DEFINE f == [w \in writes |-> Of(w)]
  <2>1. f \in Surjection(writes, each)
    <3> HIDE DEF Of
    <3>1. QED
      BY DEF Surjection
  <2> HIDE DEF f, each
  <2>2. QED
    BY <2>1, FS_Surjection
<1>3. \A T \in each : IsFiniteSet(T)
  BY <1>1
<1>4. RowsOf(writes) = UNION each
  BY DEF RowsOf
<1> HIDE DEF each
<1>5. QED
  BY <1>2, <1>3, <1>4, FS_UNION

\* A row is that of a write, and stands at the write's start.
LEMMA RowsStandAtStart ==
  ASSUME FeedShape, NEW writes, writes \subseteq feed.kept, NEW p \in RowsOf(writes)
  PROVE  /\ p \in Positions /\ p \in RowsOf(feed.kept)
         /\ \E w \in writes : p[1] = w.started /\ p \in RowsOf({w})
<1>1. PICK w \in writes : p \in {<<w.started, w.request, i>> : i \in 0..(AttemptsOf[w.request] - 1)}
  BY DEF RowsOf
<1>2. PICK i \in 0..(AttemptsOf[w.request] - 1) : p = <<w.started, w.request, i>>
  BY <1>1
<1>3. w.request \in Nat /\ w.started \in Nat /\ w \in feed.kept
  BY FeedAssumption DEF FeedShape
<1>4. i \in Nat
  BY <1>2, <1>3, FeedAssumption DEF FeedShape
<1>5. p \in Positions /\ p[1] = w.started
  BY <1>2, <1>3, <1>4 DEF Positions
<1>6. p \in RowsOf(feed.kept) /\ p \in RowsOf({w})
  BY <1>1, <1>3 DEF RowsOf
<1>7. QED
  BY <1>5, <1>6

\* A page leaves no row of the feed behind: one that is old enough to show and
\* not after the page's last is on it.
LEMMA PageLeavesNone ==
  ASSUME FeedShape, NEW after \in Positions, NEW limit \in Nat, NEW page,
         page = ReadAttemptFeed(after, limit),
         NEW last \in page, NEW p \in Settled, Before(after, p), p = last \/ Before(p, last)
  PROVE  p \in page
<1> DEFINE rs == {q \in Settled : Before(after, q)}
           ahead(q) == {t \in rs : Before(t, q)}
<1>1. page = {q \in rs : Cardinality(ahead(q)) < limit} /\ p \in rs
  BY DEF ReadAttemptFeed, FirstOf
<1>2. IsFiniteSet(rs) /\ \A q \in rs : q \in Positions
  <2>1. IsFiniteSet(RowsOf(feed.kept))
    BY RowsAreFinite DEF FeedShape
  <2>2. rs \subseteq RowsOf(feed.kept)
    BY DEF Settled
  <2>3. \A q \in RowsOf(feed.kept) : q \in Positions
    BY RowsStandAtStart
  <2> HIDE DEF rs
  <2>4. QED
    BY <2>1, <2>2, <2>3, FS_Subset
<1> HIDE DEF rs
<1>3. last \in rs /\ Cardinality(ahead(last)) < limit
  BY <1>1
<1>4. CASE Before(p, last)
  <2>1. ahead(p) \subseteq ahead(last) /\ ahead(last) \subseteq rs
    BY <1>1, <1>2, <1>3, <1>4, BeforeOrders
  <2>2. IsFiniteSet(ahead(last))
    BY <1>2, <2>1, FS_Subset
  <2> HIDE DEF ahead
  <2>3. /\ Cardinality(ahead(p)) <= Cardinality(ahead(last))
        /\ Cardinality(ahead(p)) \in Nat /\ Cardinality(ahead(last)) \in Nat
    <3>1. IsFiniteSet(ahead(p)) /\ Cardinality(ahead(p)) <= Cardinality(ahead(last))
      BY <2>1, <2>2, FS_Subset
    <3>2. QED
      BY <2>2, <3>1, FS_CardinalityType
  <2>4. QED
    BY <1>1, <1>3, <2>3
<1>5. QED
  BY <1>4

\* A call that passes the feed's checks asks for a page of at most 500.
LEMMA FeedLimited ==
  ASSUME NEW m, feedRefusal(m) = 0
  PROVE  m.body.limit \in 1..500
<1>1. SUFFICES ASSUME m.body.limit \notin 1..500 PROVE FALSE
  OBVIOUS
<1>2. PICK a : a = Refuses(400, m.body.limit \notin 1..500)
  OBVIOUS
<1>3. PICK b : b = Refuses(400, ~m.body.cursorReadable)
  OBVIOUS
<1>4. a.status = 400 /\ a.refuses
  BY <1>1, <1>2 DEF Refuses
<1>5. FirstStatus(<<a, b>>) = 0
  BY <1>2, <1>3 DEF feedRefusal
<1> DEFINE checks == <<a, b>>
           failing == {i \in DOMAIN checks : checks[i].refuses}
           first == CHOOSE i \in failing : \A j \in failing : i <= j
<1>6. DOMAIN checks = 1..2 /\ checks[1] = a
  OBVIOUS
<1>7. 1 \in failing /\ failing \subseteq 1..2
  BY <1>4, <1>6
<1>8. FirstStatus(checks) = checks[first].status
  BY <1>7 DEF FirstStatus
<1> HIDE DEF failing, checks
<1>9. \E i \in failing : \A j \in failing : i <= j
  <2>1. \A j \in failing : 1 <= j
    BY <1>7
  <2>2. QED
    BY <1>7, <2>1
<1>10. first = 1
  <2>1. first \in failing /\ \A j \in failing : first <= j
    BY <1>9
  <2> HIDE DEF first
  <2>2. QED
    BY <1>7, <2>1
<1> HIDE DEF first
<1>11. FirstStatus(checks) = 400
  BY <1>4, <1>6, <1>8, <1>10
<1>12. QED
  BY <1>5, <1>11 DEF checks

\* The checks of a surface answer 0, or the status of one of them.
LEMMA FourChecks ==
  ASSUME NEW a, NEW b, NEW c, NEW d, \A x \in {a, b, c, d} : x.status \in {400, 401}
  PROVE  FirstStatus(<<a, b, c, d>>) \in {0, 400, 401}
<1> DEFINE checks == <<a, b, c, d>>
           failing == {i \in DOMAIN checks : checks[i].refuses}
           first == CHOOSE i \in failing : \A j \in failing : i <= j
<1>1. FirstStatus(checks) = IF failing = {} THEN 0 ELSE checks[first].status
  BY DEF FirstStatus
<1>2. DOMAIN checks = 1..4 /\ checks[1] = a /\ checks[2] = b /\ checks[3] = c /\ checks[4] = d
  OBVIOUS
<1>3. failing \subseteq 1..4
  BY <1>2
<1> HIDE DEF failing, checks
<1>4. CASE failing # {}
  <2>1. \A j \in failing : j \in Int /\ 1 <= j /\ (j = 1 \/ j = 2 \/ j = 3 \/ j = 4)
    BY <1>3
  <2>2. \E i \in failing : \A j \in failing : i <= j
    <3>1. CASE 1 \in failing
      BY <2>1, <3>1
    <3>2. CASE 1 \notin failing /\ 2 \in failing
      BY <2>1, <3>2
    <3>3. CASE 1 \notin failing /\ 2 \notin failing /\ 3 \in failing
      BY <2>1, <3>3
    <3>4. CASE 1 \notin failing /\ 2 \notin failing /\ 3 \notin failing /\ 4 \in failing
      BY <2>1, <3>4
    <3>5. QED
      BY <1>4, <2>1, <3>1, <3>2, <3>3, <3>4
  <2>3. first \in failing
    BY <2>2
  <2> HIDE DEF first
  <2>4. checks[first].status \in {400, 401}
    BY <1>2, <2>1, <2>3
  <2>5. QED
    BY <1>1, <1>4, <2>4 DEF first, checks
<1>5. QED
  BY <1>1, <1>4 DEF checks

LEMMA TwoChecks ==
  ASSUME NEW a, NEW b, \A x \in {a, b} : x.status \in {400, 401}
  PROVE  FirstStatus(<<a, b>>) \in {0, 400, 401}
<1> DEFINE checks == <<a, b>>
           failing == {i \in DOMAIN checks : checks[i].refuses}
           first == CHOOSE i \in failing : \A j \in failing : i <= j
<1>1. FirstStatus(checks) = IF failing = {} THEN 0 ELSE checks[first].status
  BY DEF FirstStatus
<1>2. DOMAIN checks = 1..2 /\ checks[1] = a /\ checks[2] = b
  OBVIOUS
<1>3. failing \subseteq 1..2
  BY <1>2
<1> HIDE DEF failing, checks
<1>4. CASE failing # {}
  <2>1. \A j \in failing : j \in Int /\ 1 <= j /\ (j = 1 \/ j = 2)
    BY <1>3
  <2>2. \E i \in failing : \A j \in failing : i <= j
    <3>1. CASE 1 \in failing
      BY <2>1, <3>1
    <3>2. CASE 1 \notin failing /\ 2 \in failing
      BY <2>1, <3>2
    <3>3. QED
      BY <1>4, <2>1, <3>1, <3>2
  <2>3. first \in failing
    BY <2>2
  <2> HIDE DEF first
  <2>4. checks[first].status \in {400, 401}
    BY <1>2, <2>1, <2>3
  <2>5. QED
    BY <1>1, <1>4, <2>4 DEF first, checks
<1>5. QED
  BY <1>1, <1>4 DEF checks

\* A call that is refused is never answered as a success.
LEMMA RefusedIsNotServed ==
  ASSUME NEW m
  PROVE  deploymentsRefusal(m) # 200
<1>1. PICK a : a = readSignedBody(m)
  OBVIOUS
<1>2. PICK b : b = noQuery(m)
  OBVIOUS
<1>3. PICK c : c = strict(m)
  OBVIOUS
<1>4. PICK d : d = Refuses(400, m.body.batch > 64)
  OBVIOUS
<1>5. a.status = 401 /\ b.status = 400 /\ c.status = 400 /\ d.status = 400
  BY <1>1, <1>2, <1>3, <1>4 DEF readSignedBody, noQuery, strict, Refuses
<1>6. deploymentsRefusal(m) = FirstStatus(<<a, b, c, d>>)
  BY <1>1, <1>2, <1>3, <1>4 DEF deploymentsRefusal
<1>7. FirstStatus(<<a, b, c, d>>) \in {0, 400, 401}
  BY <1>5, FourChecks
<1>8. QED
  BY <1>6, <1>7

LEMMA FeedRefusedIsNotServed ==
  ASSUME NEW m
  PROVE  feedRefusal(m) # 200
<1>1. PICK a : a = readSignedBody(m)
  OBVIOUS
<1>2. PICK b : b = noQuery(m)
  OBVIOUS
<1>3. PICK c : c = strict(m)
  OBVIOUS
<1>4. PICK d : d = Refuses(400, m.body.version # 1)
  OBVIOUS
<1>5. PICK e : e = Refuses(400, m.body.limit \notin 1..500)
  OBVIOUS
<1>6. PICK f : f = Refuses(400, ~m.body.cursorReadable)
  OBVIOUS
<1>7. /\ a.status = 401 /\ b.status = 400 /\ c.status = 400 /\ d.status = 400
      /\ e.status = 400 /\ f.status = 400
  BY <1>1, <1>2, <1>3, <1>4, <1>5, <1>6 DEF readSignedBody, noQuery, strict, Refuses
<1>8. /\ telemetryRefusal(m) = FirstStatus(<<a, b, c, d>>)
      /\ feedRefusal(m) = IF telemetryRefusal(m) # 0 THEN telemetryRefusal(m) ELSE FirstStatus(<<e, f>>)
  BY <1>1, <1>2, <1>3, <1>4, <1>5, <1>6 DEF telemetryRefusal, feedRefusal
<1>9. FirstStatus(<<a, b, c, d>>) \in {0, 400, 401} /\ FirstStatus(<<e, f>>) \in {0, 400, 401}
  BY <1>7, FourChecks, TwoChecks
<1>10. QED
  BY <1>8, <1>9

\* What leaves the stream, or the feed and its reader, alone keeps them.
LEMMA StreamApart ==
  ASSUME StreamInv, stream' = stream
  PROVE  StreamInv'
BY DEF StreamInv, StreamShape, OpenInOrder, FramesAreWhole

LEMMA ReaderApart ==
  ASSUME ReaderInv, reader' = reader, feed' = feed
  PROVE  ReaderInv'
BY DEF ReaderInv, FeedShape, ReaderShape, CursorSettled, PagesAreWhole

LEMMA EventKept ==
  ASSUME EdgeInv, NEW arrives \in BOOLEAN, EventProduced(arrives)
  PROVE  EdgeInv'
<1>s. PICK s : s = stream
  OBVIOUS
<1>1. /\ UNCHANGED <<serving, feed, reply, reader>> /\ s.open
      /\ stream' = [WriteEvent(s, s.produced + 1, arrives) EXCEPT !.produced = @ + 1]
  BY <1>s DEF EventProduced
<1>2. /\ s = [open |-> s.open, broken |-> s.broken, produced |-> s.produced, frames |-> s.frames]
      /\ s.open \in BOOLEAN /\ s.broken \in BOOLEAN /\ s.produced \in Nat /\ s.frames \in Seq(Nat)
      /\ \A i \in 1..Len(s.frames) : s.frames[i] = i
      /\ ~s.broken => Len(s.frames) = s.produced
  BY <1>s, <1>1 DEF EdgeInv, StreamInv, StreamShape, OpenInOrder
<1>n. PICK n \in Nat : n = s.produced + 1
  BY <1>2
<1>t. PICK t : t = stream'
  OBVIOUS
<1>3. \/ /\ s.broken
         /\ t = [open |-> s.open, broken |-> s.broken, produced |-> n, frames |-> s.frames]
      \/ /\ ~s.broken
         /\ t = [open |-> s.open, broken |-> s.broken, produced |-> n, frames |-> Append(s.frames, n)]
      \/ t = [open |-> s.open, broken |-> TRUE, produced |-> n, frames |-> s.frames]
  <2>1. PICK u : u = WriteEvent(s, n, arrives)
    OBVIOUS
  <2>2. u.produced = s.produced /\ t = [u EXCEPT !.produced = n]
    <3>1. u.produced = s.produced
      <4>1. CASE s.broken
        BY <2>1, <4>1 DEF WriteEvent
      <4>2. CASE ~s.broken /\ arrives
        BY <1>2, <2>1, <4>2 DEF WriteEvent
      <4>3. CASE ~s.broken /\ ~arrives
        BY <1>2, <2>1, <4>3 DEF WriteEvent
      <4>4. QED
        BY <4>1, <4>2, <4>3
    <3>2. QED
      BY <1>1, <1>n, <1>t, <2>1, <3>1
  <2>3. CASE s.broken
    <3>1. u = s
      BY <2>1, <2>3 DEF WriteEvent
    <3>2. QED
      BY <1>2, <2>2, <2>3, <3>1
  <2>4. CASE ~s.broken /\ arrives
    <3>1. PICK f : f = Append(s.frames, n)
      OBVIOUS
    <3>2. u = [s EXCEPT !.frames = f]
      BY <2>1, <2>4, <3>1 DEF WriteEvent
    <3>3. u = [open |-> s.open, broken |-> s.broken, produced |-> s.produced, frames |-> f]
      BY <1>2, <3>2
    <3>4. t = [open |-> s.open, broken |-> s.broken, produced |-> n, frames |-> f]
      BY <2>2, <3>3
    <3>5. QED
      BY <2>4, <3>1, <3>4
  <2>5. CASE ~s.broken /\ ~arrives
    <3>1. u = [s EXCEPT !.broken = TRUE]
      BY <2>1, <2>5 DEF WriteEvent
    <3>2. u = [open |-> s.open, broken |-> TRUE, produced |-> s.produced, frames |-> s.frames]
      BY <1>2, <3>1
    <3>3. t = [open |-> s.open, broken |-> TRUE, produced |-> n, frames |-> s.frames]
      BY <2>2, <3>2
    <3>4. QED
      BY <3>3
  <2>6. QED
    BY <2>3, <2>4, <2>5
<1>4. /\ t = [open |-> t.open, broken |-> t.broken, produced |-> t.produced, frames |-> t.frames]
      /\ t.open \in BOOLEAN /\ t.broken \in BOOLEAN /\ t.produced \in Nat /\ t.frames \in Seq(Nat)
  <2>1. PICK f : f = Append(s.frames, n)
    OBVIOUS
  <2>2. f \in Seq(Nat)
    BY <1>2, <2>1
  <2>3. CASE t = [open |-> s.open, broken |-> s.broken, produced |-> n, frames |-> s.frames]
    BY <1>2, <2>3
  <2>4. CASE t = [open |-> s.open, broken |-> s.broken, produced |-> n, frames |-> f]
    BY <1>2, <2>2, <2>4
  <2>5. CASE t = [open |-> s.open, broken |-> TRUE, produced |-> n, frames |-> s.frames]
    BY <1>2, <2>5
  <2>6. QED
    BY <1>3, <2>1, <2>3, <2>4, <2>5
<1>5. /\ \A i \in 1..Len(t.frames) : t.frames[i] = i
      /\ ~t.broken => Len(t.frames) = t.produced
  <2>1. CASE t.frames = s.frames /\ t.broken
    BY <1>2, <2>1
  <2>2. CASE ~s.broken /\ t.frames = Append(s.frames, n) /\ t.produced = n
    <3>1. Len(s.frames) + 1 = n
      BY <1>2, <1>n, <2>2
    <3>2. Len(t.frames) = n /\ \A i \in 1..n : t.frames[i] = IF i = n THEN n ELSE s.frames[i]
      BY <1>2, <2>2, <3>1
    <3>3. QED
      BY <1>2, <2>2, <3>1, <3>2
  <2>3. QED
    BY <1>3, <2>1, <2>2
<1>6. StreamShape' /\ OpenInOrder'
  BY <1>t, <1>4, <1>5 DEF StreamShape, OpenInOrder
<1>7. FramesAreWhole'
  <2>1. Len(t.frames) \in Nat
    BY <1>4
  <2>2. ~(Len(t.frames) > 0 /\ t.frames[Len(t.frames)] = 0)
    BY <1>5, <2>1
  <2>3. QED
    BY <1>t, <1>5, <2>2 DEF FramesAreWhole
<1>8. ReaderInv' /\ BatchIsWhole'
  BY <1>1, ReaderApart DEF EdgeInv, BatchIsWhole
<1>9. QED
  BY <1>6, <1>7, <1>8 DEF EdgeInv, StreamInv

LEMMA ReturnKept ==
  ASSUME EdgeInv, NEW reported \in BOOLEAN, NEW arrives \in BOOLEAN, ExecuteReturned(reported, arrives)
  PROVE  EdgeInv'
<1>s. PICK s : s = stream
  OBVIOUS
<1>t. PICK t : t = stream'
  OBVIOUS
<1>1. /\ UNCHANGED <<serving, feed, reply, reader>> /\ s.open
      /\ t = [IF reported THEN WriteEvent(s, 0, arrives) ELSE s EXCEPT !.open = FALSE]
  BY <1>s, <1>t DEF ExecuteReturned
<1>2. /\ s = [open |-> s.open, broken |-> s.broken, produced |-> s.produced, frames |-> s.frames]
      /\ s.open \in BOOLEAN /\ s.broken \in BOOLEAN /\ s.produced \in Nat /\ s.frames \in Seq(Nat)
      /\ \A i \in 1..Len(s.frames) : s.frames[i] = i
      /\ ~s.broken => Len(s.frames) = s.produced
  BY <1>s, <1>1 DEF EdgeInv, StreamInv, StreamShape, OpenInOrder
<1>f. PICK f : f = Append(s.frames, 0)
  OBVIOUS
<1>3. /\ f \in Seq(Nat) /\ Len(f) = Len(s.frames) + 1 /\ f[Len(f)] = 0
      /\ \A i \in 1..Len(s.frames) : f[i] = s.frames[i]
  BY <1>2, <1>f
<1>4. \/ t = [open |-> FALSE, broken |-> s.broken, produced |-> s.produced, frames |-> s.frames]
      \/ /\ ~s.broken
         /\ t = [open |-> FALSE, broken |-> s.broken, produced |-> s.produced, frames |-> f]
      \/ t = [open |-> FALSE, broken |-> TRUE, produced |-> s.produced, frames |-> s.frames]
  <2>1. PICK u : u = IF reported THEN WriteEvent(s, 0, arrives) ELSE s
    OBVIOUS
  <2>2. t = [u EXCEPT !.open = FALSE]
    BY <1>1, <2>1
  <2>3. CASE ~reported \/ s.broken
    <3>1. u = s
      BY <2>1, <2>3 DEF WriteEvent
    <3>2. QED
      BY <1>2, <2>2, <3>1
  <2>4. CASE reported /\ ~s.broken /\ arrives
    <3>1. u = [s EXCEPT !.frames = f]
      BY <1>f, <2>1, <2>4 DEF WriteEvent
    <3>2. u = [open |-> s.open, broken |-> s.broken, produced |-> s.produced, frames |-> f]
      BY <1>2, <3>1
    <3>3. t = [open |-> FALSE, broken |-> s.broken, produced |-> s.produced, frames |-> f]
      BY <2>2, <3>2
    <3>4. QED
      BY <2>4, <3>3
  <2>5. CASE reported /\ ~s.broken /\ ~arrives
    <3>1. u = [s EXCEPT !.broken = TRUE]
      BY <2>1, <2>5 DEF WriteEvent
    <3>2. u = [open |-> s.open, broken |-> TRUE, produced |-> s.produced, frames |-> s.frames]
      BY <1>2, <3>1
    <3>3. t = [open |-> FALSE, broken |-> TRUE, produced |-> s.produced, frames |-> s.frames]
      BY <2>2, <3>2
    <3>4. QED
      BY <3>3
  <2>6. QED
    BY <2>3, <2>4, <2>5
<1>5. /\ t = [open |-> t.open, broken |-> t.broken, produced |-> t.produced, frames |-> t.frames]
      /\ t.open = FALSE /\ t.broken \in BOOLEAN /\ t.produced = s.produced
      /\ \/ t.frames = s.frames
         \/ ~s.broken /\ t.frames = f
  <2>1. CASE t = [open |-> FALSE, broken |-> s.broken, produced |-> s.produced, frames |-> s.frames]
    BY <1>2, <2>1
  <2>2. CASE ~s.broken /\ t = [open |-> FALSE, broken |-> s.broken, produced |-> s.produced, frames |-> f]
    BY <1>2, <2>2
  <2>3. CASE t = [open |-> FALSE, broken |-> TRUE, produced |-> s.produced, frames |-> s.frames]
    BY <1>2, <2>3
  <2>4. QED
    BY <1>4, <2>1, <2>2, <2>3
<1>6. t.frames \in Seq(Nat)
  BY <1>2, <1>3, <1>5
<1>7. StreamShape' /\ OpenInOrder'
  BY <1>t, <1>2, <1>5, <1>6 DEF StreamShape, OpenInOrder
<1>8. FramesAreWhole'
  <2>1. CASE t.frames = s.frames
    <3>1. Len(t.frames) \in Nat
      BY <1>6
    <3>2. ~(Len(t.frames) > 0 /\ t.frames[Len(t.frames)] = 0)
      BY <1>2, <2>1, <3>1
    <3>3. QED
      BY <1>t, <1>2, <2>1, <3>2 DEF FramesAreWhole
  <2>2. CASE ~s.broken /\ t.frames = f
    <3>1. Len(s.frames) \in Nat /\ Len(s.frames) = s.produced
      BY <1>2, <2>2
    <3>2. Len(t.frames) > 0 /\ t.frames[Len(t.frames)] = 0 /\ Len(t.frames) - 1 = Len(s.frames)
      BY <1>3, <2>2, <3>1
    <3>3. \A i \in 1..Len(s.frames) : t.frames[i] = i
      BY <1>2, <1>3, <2>2
    <3>4. QED
      BY <1>t, <1>5, <3>1, <3>2, <3>3 DEF FramesAreWhole
  <2>3. QED
    BY <1>5, <2>1, <2>2
<1>9. ReaderInv'
  BY <1>1, ReaderApart DEF EdgeInv
<1>10. BatchIsWhole'
  BY <1>1 DEF EdgeInv, BatchIsWhole
<1>11. QED
  BY <1>7, <1>8, <1>9, <1>10 DEF EdgeInv, StreamInv

LEMMA DeploymentsKept ==
  ASSUME EdgeInv, NEW m, handleDeployments(m)
  PROVE  EdgeInv'
<1>1. UNCHANGED <<serving, feed, stream, reader>>
  BY DEF handleDeployments
<1> DEFINE refused == deploymentsRefusal(m)
           found == selectExactDeploymentDescriptors(m.body.ids)
<1>2. reply' = [surface |-> "deployments", status |-> IF refused # 0 THEN refused ELSE found.status,
                ids |-> IF refused # 0 THEN {} ELSE found.ids, asked |-> m.body.ids]
  BY DEF handleDeployments, Answer
<1>3. refused # 200
  BY RefusedIsNotServed
<1>4. found.status = 200 /\ m.body.ids # {} => found.ids = m.body.ids
  BY DEF selectExactDeploymentDescriptors
<1> HIDE DEF refused, found
<1>5. BatchIsWhole'
  BY <1>2, <1>3, <1>4 DEF BatchIsWhole
<1>6. QED
  BY <1>1, <1>5, StreamApart, ReaderApart DEF EdgeInv

LEMMA FeedKept ==
  ASSUME EdgeInv, NEW m, NEW readable \in BOOLEAN, NEW arrives \in BOOLEAN,
         handleAttemptFeed(m, readable, arrives)
  PROVE  EdgeInv'
<1>p. PICK page : page = ReadAttemptFeed(reader.cursor, m.body.limit)
  OBVIOUS
<1>1. UNCHANGED <<serving, feed, stream>> /\ reply'.surface = "attempts"
  BY DEF handleAttemptFeed, Answer
<1>2. \/ reader' = reader
      \/ /\ feedRefusal(m) = 0
         /\ \E last \in page :
              /\ \A p \in page \ {last} : Before(p, last)
              /\ reader' = [cursor |-> last, has |-> reader.has \cup page]
  <2>1. CASE feedRefusal(m) = 0
    BY <1>p, <2>1 DEF handleAttemptFeed
  <2>2. CASE feedRefusal(m) # 0
    <3>1. feedRefusal(m) # 200
      BY FeedRefusedIsNotServed
    <3>2. QED
      BY <2>2, <3>1 DEF handleAttemptFeed
  <2>3. QED
    BY <2>1, <2>2
<1>3. ReaderInv'
  <2>1. CASE reader' = reader
    BY <1>1, <2>1, ReaderApart DEF EdgeInv
  <2>2. ASSUME feedRefusal(m) = 0, NEW last \in page,
               \A p \in page \ {last} : Before(p, last),
               reader' = [cursor |-> last, has |-> reader.has \cup page]
        PROVE  ReaderInv'
    <3>1. /\ FeedShape /\ ReaderShape /\ CursorSettled /\ PagesAreWhole
          /\ reader.cursor \in Positions
      BY DEF EdgeInv, ReaderInv, ReaderShape
    <3>2. PICK limit \in Nat : limit = m.body.limit
      <4>1. m.body.limit \in 1..500
        BY <2>2, FeedLimited
      <4>2. QED
        BY <4>1
    <3>3. page = ReadAttemptFeed(reader.cursor, limit)
      BY <1>p, <3>2
    <3>4. page \subseteq Settled /\ Settled \subseteq RowsOf(feed.kept)
      BY <3>3 DEF ReadAttemptFeed, FirstOf, Settled
    <3>5. last \in Positions /\ last[1] + SettleWindow < feed.now
      BY <3>1, <3>4, RowsStandAtStart DEF Settled
    <3>6. reader.has \cup page \subseteq RowsOf(feed.kept)
      BY <3>1, <3>4 DEF PagesAreWhole
    <3>7. ASSUME NEW p \in RowsOf({w \in feed.kept : w.ended - w.started <= SettleWindow})
          PROVE  p \in reader.has \cup page \/ Before(last, p)
      <4>1. p \in reader.has \/ Before(reader.cursor, p)
        BY <3>1, <3>7 DEF PagesAreWhole
      <4>2. p \in Positions /\ p \in RowsOf(feed.kept)
        BY <3>1, <3>7, RowsStandAtStart
      <4>3. p = last \/ Before(p, last) \/ Before(last, p)
        BY <3>5, <4>2, BeforeOrders
      <4>4. CASE Before(reader.cursor, p) /\ (p = last \/ Before(p, last))
        <5>1. p[1] <= last[1]
          BY <3>5, <4>2, <4>4, BeforeOrders DEF Positions
        <5>2. p[1] + SettleWindow < feed.now
          BY <3>1, <3>5, <4>2, <5>1, FeedAssumption DEF Positions, FeedShape
        <5>3. p \in Settled
          BY <4>2, <5>2 DEF Settled
        <5>4. p \in page
          BY <3>1, <3>3, <4>4, <5>3, PageLeavesNone
        <5>5. QED
          BY <5>4
      <4>5. QED
        BY <4>1, <4>3, <4>4
    <3>8. PagesAreWhole'
      BY <1>1, <2>2, <3>6, <3>7 DEF PagesAreWhole
    <3>9. FeedShape' /\ ReaderShape' /\ CursorSettled'
      BY <1>1, <2>2, <3>1, <3>5 DEF FeedShape, ReaderShape, CursorSettled
    <3>10. QED
      BY <3>8, <3>9 DEF ReaderInv
  <2>3. QED
    BY <1>2, <2>1, <2>2
<1>4. BatchIsWhole'
  BY <1>1 DEF BatchIsWhole
<1>5. QED
  BY <1>1, <1>3, <1>4, StreamApart DEF EdgeInv

LEMMA InferenceKept ==
  ASSUME EdgeInv, NEW m, NEW embedding, handleInference(m, embedding)
  PROVE  EdgeInv'
<1>1. UNCHANGED <<serving, feed, reader>>
  BY DEF handleInference
<1>2. \/ reply'.surface = "inference" /\ stream' = stream
      \/ reply' = reply /\ stream' = [NoStream EXCEPT !.open = TRUE]
  BY DEF handleInference, Answer
<1>3. BatchIsWhole'
  BY <1>2 DEF BatchIsWhole, EdgeInv
<1>4. StreamInv'
  <2>1. CASE stream' = stream
    BY <2>1, StreamApart DEF EdgeInv
  <2>2. CASE stream' = [NoStream EXCEPT !.open = TRUE]
    <3>1. PICK t : t = stream'
      OBVIOUS
    <3>2. t = [open |-> TRUE, broken |-> FALSE, produced |-> 0, frames |-> <<>>]
      BY <2>2, <3>1 DEF NoStream
    <3>3. /\ t.open = TRUE /\ t.broken = FALSE /\ t.produced = 0 /\ t.frames = <<>>
          /\ t = [open |-> t.open, broken |-> t.broken, produced |-> t.produced, frames |-> t.frames]
      BY <3>2
    <3>4. Len(t.frames) = 0 /\ t.frames \in Seq(Nat)
      BY <3>3
    <3>5. StreamShape'
      <4>1. t.open \in BOOLEAN /\ t.broken \in BOOLEAN
        BY <3>3
      <4>2. t.produced \in Nat
        BY <3>3
      <4>3. t = [open |-> t.open, broken |-> t.broken, produced |-> t.produced, frames |-> t.frames]
        BY <3>3
      <4>4. QED
        BY <3>1, <3>4, <4>1, <4>2, <4>3 DEF StreamShape
    <3>6. OpenInOrder'
      BY <3>1, <3>3, <3>4 DEF OpenInOrder
    <3>7. FramesAreWhole'
      BY <3>1, <3>3, <3>4 DEF FramesAreWhole
    <3>8. QED
      BY <3>5, <3>6, <3>7 DEF StreamInv
  <2>3. QED
    BY <1>2, <2>1, <2>2
<1>5. QED
  BY <1>1, <1>3, <1>4, ReaderApart DEF EdgeInv

\* A write that commits in time stands after every cursor that was given out.
LEMMA CommitKept ==
  ASSUME EdgeInv, NEW w \in feed.open, RecordCommits(w)
  PROVE  EdgeInv'
<1>1. /\ UNCHANGED <<serving, stream, reply, reader>>
      /\ \/ feed' = [feed EXCEPT !.open = @ \ {w}, !.kept = @]
         \/ feed' = [feed EXCEPT !.open = @ \ {w}, !.kept =
                      @ \cup {[request |-> w.request, started |-> w.started, ended |-> feed.now]}]
  BY DEF RecordCommits
<1>i. FeedShape /\ ReaderShape /\ CursorSettled /\ PagesAreWhole
  BY DEF EdgeInv, ReaderInv
<1> DEFINE new == [request |-> w.request, started |-> w.started, ended |-> feed.now]
           timely(k) == k.ended - k.started <= SettleWindow
<1>2. PICK kept \in {feed.kept, feed.kept \cup {new}} :
        feed' = [now |-> feed.now, open |-> feed.open \ {w}, kept |-> kept]
  BY <1>1, <1>i DEF FeedShape
<1>3. w.request \in FeedRequests /\ w.started \in 1..feed.now /\ feed.now \in Nat
  BY <1>i DEF FeedShape
<1>4. new.request = w.request /\ new.started = w.started /\ new.ended = feed.now
  OBVIOUS
<1> HIDE DEF new
<1>5. FeedShape'
  <2>1. IsFiniteSet(kept)
    BY <1>i, <1>2, FS_AddElement DEF FeedShape
  <2>2. ASSUME NEW k \in kept
        PROVE  k.request \in FeedRequests /\ k.started \in 1..feed.now /\ k.ended \in k.started..feed.now
    BY <1>i, <1>2, <1>3, <1>4 DEF FeedShape
  <2>3. feed'.now = feed.now /\ feed'.open \subseteq feed.open /\ feed'.kept = kept
    BY <1>2
  <2>4. feed' = [now |-> feed'.now, open |-> feed'.open, kept |-> feed'.kept]
    BY <1>2
  <2>5. QED
    BY <1>i, <2>1, <2>2, <2>3, <2>4 DEF FeedShape
<1>6. ASSUME NEW p \in RowsOf({k \in kept : timely(k)})
      PROVE  p \in reader.has \/ Before(reader.cursor, p)
  <2>1. PICK k \in kept : /\ timely(k)
                         /\ p \in {<<k.started, k.request, i>> : i \in 0..(AttemptsOf[k.request] - 1)}
    BY DEF RowsOf
  <2>2. CASE k \in feed.kept
    <3>1. p \in RowsOf({v \in feed.kept : v.ended - v.started <= SettleWindow})
      BY <2>1, <2>2 DEF RowsOf
    <3>2. QED
      BY <1>i, <3>1 DEF PagesAreWhole
  <2>3. CASE k = new
    <3>1. p[1] = w.started /\ feed.now - w.started <= SettleWindow
      BY <1>4, <2>1, <2>3
    <3>2. reader.cursor[1] < p[1]
      <4>1. CASE reader.cursor = FeedStart
        BY <1>3, <3>1, <4>1 DEF FeedStart
      <4>2. CASE reader.cursor[1] + SettleWindow < feed.now
        BY <1>3, <1>i, <3>1, <4>2, FeedAssumption DEF ReaderShape, Positions
      <4>3. QED
        BY <1>i, <4>1, <4>2 DEF CursorSettled
    <3>3. QED
      BY <3>2 DEF Before
  <2>4. QED
    BY <1>2, <2>2, <2>3
<1>7. RowsOf(feed.kept) \subseteq RowsOf(kept)
  BY <1>2 DEF RowsOf
<1>8. PagesAreWhole'
  <2>1. feed'.kept = kept /\ reader' = reader
    BY <1>1, <1>2
  <2>2. reader.has \subseteq RowsOf(kept)
    BY <1>i, <1>7 DEF PagesAreWhole
  <2>3. QED
    BY <1>6, <2>1, <2>2 DEF PagesAreWhole
<1>9. ReaderShape' /\ CursorSettled'
  BY <1>1, <1>2, <1>i DEF ReaderShape, CursorSettled
<1>10. QED
  BY <1>1, <1>5, <1>8, <1>9, StreamApart DEF EdgeInv, ReaderInv, BatchIsWhole

\* A write that begins, or is given up, gives the reader nothing.
LEMMA WritesKept ==
  ASSUME EdgeInv,
         \/ \E q \in FeedRequests : RecordBegins(q)
         \/ \E w \in feed.open : RecordAborts(w)
         \/ FeedTick
  PROVE  EdgeInv'
<1>i. FeedShape /\ ReaderShape /\ CursorSettled /\ PagesAreWhole
  BY DEF EdgeInv, ReaderInv
<1>1. /\ UNCHANGED <<serving, stream, reply, reader>>
      /\ feed'.kept = feed.kept /\ feed'.now \in {feed.now, feed.now + 1}
      /\ feed' = [now |-> feed'.now, open |-> feed'.open, kept |-> feed'.kept]
      /\ \A w \in feed'.open :
           w \in feed.open \/ (w.request \in FeedRequests /\ w.started = feed.now)
  <2>1. CASE \E q \in FeedRequests : RecordBegins(q)
    <3>1. PICK q \in FeedRequests : RecordBegins(q)
      BY <2>1
    <3>2. feed' = [now |-> feed.now, kept |-> feed.kept,
                   open |-> feed.open \cup {[request |-> q, started |-> feed.now]}]
      BY <1>i, <3>1 DEF RecordBegins, FeedShape
    <3>3. PICK v : v = [request |-> q, started |-> feed.now]
      OBVIOUS
    <3>4. v.request = q /\ v.started = feed.now
      BY <3>3
    <3>5. /\ feed'.kept = feed.kept /\ feed'.now = feed.now /\ feed'.open = feed.open \cup {v}
          /\ feed' = [now |-> feed'.now, open |-> feed'.open, kept |-> feed'.kept]
      BY <3>2, <3>3
    <3>6. UNCHANGED <<serving, stream, reply, reader>>
      BY <3>1 DEF RecordBegins
    <3>7. QED
      BY <3>4, <3>5, <3>6
  <2>2. CASE \E w \in feed.open : RecordAborts(w)
    <3>1. PICK w \in feed.open : RecordAborts(w)
      BY <2>2
    <3>2. feed' = [now |-> feed.now, kept |-> feed.kept, open |-> feed.open \ {w}]
      BY <1>i, <3>1 DEF RecordAborts, FeedShape
    <3>3. QED
      BY <3>1, <3>2 DEF RecordAborts
  <2>3. CASE FeedTick
    <3>1. feed' = [now |-> feed.now + 1, kept |-> feed.kept, open |-> feed.open]
      BY <1>i, <2>3 DEF FeedTick, FeedShape
    <3>2. QED
      BY <2>3, <3>1 DEF FeedTick
  <2>4. QED
    BY <2>1, <2>2, <2>3
<1>2. FeedShape'
  <2>1. feed.now \in Nat /\ feed'.now \in Nat /\ feed.now <= feed'.now
    BY <1>1, <1>i DEF FeedShape
  <2>2. QED
    BY <1>1, <1>i, <2>1 DEF FeedShape
<1>3. ReaderShape' /\ CursorSettled' /\ PagesAreWhole'
  <2>1. CursorSettled'
    <3>1. reader.cursor = FeedStart \/ reader.cursor[1] \in Nat
      BY <1>i DEF ReaderShape, Positions
    <3>2. QED
      BY <1>1, <1>i, <3>1, FeedAssumption DEF CursorSettled, FeedShape
  <2>2. QED
    BY <1>1, <1>i, <2>1 DEF ReaderShape, PagesAreWhole
<1>4. QED
  BY <1>1, <1>2, <1>3, StreamApart DEF EdgeInv, ReaderInv, BatchIsWhole

LEMMA EdgeStart ==
  ASSUME EdgeInit
  PROVE  EdgeInv
<1>1. /\ stream = NoStream /\ feed = [now |-> 1, open |-> {}, kept |-> {}]
      /\ reader = [cursor |-> FeedStart, has |-> {}] /\ reply = Silence
  BY DEF EdgeInit
<1>2. StreamShape /\ OpenInOrder
  BY <1>1 DEF StreamShape, OpenInOrder, NoStream
<1>3. FramesAreWhole
  BY <1>1 DEF FramesAreWhole, NoStream
<1>4. ReaderInv
  <2>1. FeedShape
    BY <1>1, FS_EmptySet DEF FeedShape
  <2>2. ReaderShape /\ CursorSettled
    BY <1>1 DEF ReaderShape, CursorSettled, FeedStart, Positions
  <2>3. PagesAreWhole
    BY <1>1 DEF PagesAreWhole, RowsOf
  <2>4. QED
    BY <2>1, <2>2, <2>3 DEF ReaderInv
<1>5. BatchIsWhole
  BY <1>1 DEF BatchIsWhole, Silence
<1>6. QED
  BY <1>2, <1>3, <1>4, <1>5 DEF EdgeInv, StreamInv

LEMMA EdgeStep ==
  ASSUME EdgeInv, [EdgeNext]_edgeVars
  PROVE  EdgeInv'
<1>1. ASSUME NEW m \in EdgeMessages,
             \/ \E readable \in BOOLEAN : handleCredentialEconomics(m, readable)
             \/ handleModels(m)
             \/ handleHealth(m)
      PROVE  EdgeInv'
  <2>1. UNCHANGED <<serving, feed, stream, reader>> /\ reply'.surface # "deployments"
    BY <1>1 DEF handleCredentialEconomics, handleModels, handleHealth, Answer
  <2>2. QED
    BY <2>1, StreamApart, ReaderApart DEF EdgeInv, BatchIsWhole
<1>2. CASE \/ \E ids \in SUBSET Deployments : SnapshotSwapped(ids)
           \/ UNCHANGED edgeVars
  <2>1. UNCHANGED <<feed, stream, reply, reader>>
    BY <1>2 DEF SnapshotSwapped, edgeVars
  <2>2. QED
    BY <2>1, StreamApart, ReaderApart DEF EdgeInv, BatchIsWhole
<1>3. QED
  BY <1>1, <1>2, DeploymentsKept, FeedKept, InferenceKept, EventKept, ReturnKept, CommitKept, WritesKept
  DEF EdgeNext, SurfaceNext, FeedNext

\* For any messages and any number of deployments, events and attempts: a stream
\* that breaks at any write has no gap and no early report (sse.Writer.WriteEvent);
\* in whatever order the writes of attempts commit and whatever answers are lost, a
\* follower of the feed misses no attempt but one whose transaction outlasted the
\* settle window (kaana_read_provider_attempt_feed); and a batch is answered whole
\* or not at all (selectExactDeploymentDescriptors).
THEOREM AnswersAreWhole == EdgeSpec => []EdgeAnswersWhole
<1>1. EdgeInit => EdgeInv
  BY EdgeStart
<1>2. EdgeInv /\ [EdgeNext]_edgeVars => EdgeInv'
  BY EdgeStep
<1>3. EdgeInv => EdgeAnswersWhole
  BY DEF EdgeInv, StreamInv, ReaderInv, BatchIsWhole, EdgeAnswersWhole
<1>4. QED
  BY <1>1, <1>2, <1>3, PTL DEF EdgeSpec

-----------------------------------------------------------------------------
(* The limits kept of a credential *)

\* An absent entry holds no slot.
AbsentIsEmpty == \A s \in Scopes : ~entries[s].known => entries[s] = NoEntry

\* The inductive invariant: a report about an absent entry leaves it alone, so
\* TrialSlotHeld needs to know that absent entries are empty.
LimitInv == TypeOK /\ AbsentIsEmpty /\ TrialSlotHeld

-----------------------------------------------------------------------------
LEMMA NoEntryType == NoEntry \in Entry /\ NoEntry.known = FALSE /\ NoEntry.trialInFlight = FALSE
BY CooldownAssumption DEF NoEntry, Entry, Reasons

LEMMA EntryForType ==
  ASSUME NEW reason \in Reasons, NEW cooldown \in Nat
  PROVE  /\ EntryFor(reason, cooldown) \in Entry
         /\ EntryFor(reason, cooldown).known = TRUE
         /\ EntryFor(reason, cooldown).trialInFlight = FALSE
BY CooldownAssumption DEF EntryFor, Entry

\* The sweep only turns entries into absent ones, and never one whose trial
\* runs.
LEMMA SweptEntry ==
  ASSUME LimitInv, NEW s \in Scopes
  PROVE  /\ Swept[s] \in Entry
         /\ ~Swept[s].known => Swept[s] = NoEntry
         /\ Swept[s].trialInFlight => entries[s].trialInFlight
<1>1. entries[s] \in Entry BY DEF LimitInv, TypeOK
<1>2. CASE Stale(entries[s]) BY <1>2, NoEntryType DEF Swept
<1>3. CASE ~Stale(entries[s]) BY <1>1, <1>3 DEF Swept, LimitInv, AbsentIsEmpty
<1> QED BY <1>2, <1>3

LEMMA SeenEntry ==
  ASSUME NEW e \in Entry, ~e.known => e = NoEntry, NEW admitted \in BOOLEAN
  PROVE  /\ Seen(e, admitted) \in Entry
         /\ ~Seen(e, admitted).known => Seen(e, admitted) = NoEntry
         /\ Seen(e, admitted).trialInFlight => e.trialInFlight \/ (admitted /\ e.known)
<1>1. CASE ~e.known BY <1>1 DEF Seen
<1>2. CASE e.known
  <2> DEFINE slot == e.trialInFlight \/ admitted
             r == [known |-> e.known, reason |-> e.reason, probesIn |-> e.probesIn,
                   trialInFlight |-> slot, idle |-> 0]
  <2>1. Seen(e, admitted) = r BY <1>2 DEF Seen, Entry
  <2>2. slot \in BOOLEAN OBVIOUS
  <2>3. slot => e.trialInFlight \/ admitted OBVIOUS
  <2> HIDE DEF slot
  <2>4. r \in Entry BY <2>2, CooldownAssumption DEF Entry
  <2> QED BY <1>2, <2>1, <2>3, <2>4
<1> QED BY <1>1, <1>2

\* Whatever is reported, the entry's slot is free afterwards.
LEMMA ReportedEntry ==
  ASSUME NEW e \in Entry, ~e.known => e = NoEntry,
         NEW kind \in Reports, NEW retryAfter \in RetryAfters
  PROVE  LET r == Reported(e, kind, retryAfter)
         IN  /\ r \in Entry
             /\ ~r.known => r = NoEntry
             /\ r.trialInFlight = FALSE
<1>1. CASE kind = "succeeded" BY <1>1, NoEntryType DEF Reported
<1>2. CASE kind = "rejected"
  BY <1>2, EntryForType, CooldownAssumption DEF Reported, Reasons
<1>3. CASE kind = "throttled"
  <2>1. ThrottleWindow(retryAfter) \in Nat BY CooldownAssumption DEF ThrottleWindow
  <2>2. Reported(e, kind, retryAfter) = EntryFor("throttled", ThrottleWindow(retryAfter))
    BY <1>3 DEF Reported
  <2> QED BY <2>1, <2>2, EntryForType DEF Reasons
<1>4. CASE kind = "not_attributable" /\ ~e.known BY <1>4, NoEntryType DEF Reported
<1>5. CASE kind = "not_attributable" /\ e.known
  <2> DEFINE f == [known |-> e.known, reason |-> e.reason, probesIn |-> e.probesIn,
                   trialInFlight |-> FALSE, idle |-> 0]
  <2>1. Reported(e, kind, retryAfter) = f BY <1>5 DEF Reported, Entry
  <2>2. f \in Entry BY CooldownAssumption DEF Entry
  <2>3. f.known = e.known /\ f.trialInFlight = FALSE OBVIOUS
  <2> HIDE DEF f
  <2> QED BY <1>5, <2>1, <2>2, <2>3
<1> QED BY <1>1, <1>2, <1>3, <1>4, <1>5 DEF Reports

-----------------------------------------------------------------------------
LEMMA InitInv == Init => LimitInv
BY NoEntryType DEF Init, LimitInv, TypeOK, AbsentIsEmpty, TrialSlotHeld

LEMMA AdmitInv ==
  ASSUME LimitInv, NEW a \in Attempts, NEW s \in Scopes, Admit(a, s)
  PROVE  LimitInv'
<1> DEFINE p == [by |-> a, scope |-> s, trial |-> Swept[s].known]
<1>1. Swept \in [Scopes -> Entry] BY SweptEntry DEF Swept
<1>2. entries' = [Swept EXCEPT ![s] = Seen(Swept[s], TRUE)] /\ permits' = permits \cup {p}
  BY DEF Admit
<1>3. p \in Permit /\ p.scope = s /\ p.trial = Swept[s].known
  BY SweptEntry DEF Permit, Entry
<1>4. entries'[s] = Seen(Swept[s], TRUE) BY <1>1, <1>2
<1>5. \A t \in Scopes : t # s => entries'[t] = Swept[t] BY <1>1, <1>2
<1>6. /\ entries'[s] \in Entry
      /\ ~entries'[s].known => entries'[s] = NoEntry
      /\ entries'[s].trialInFlight => Swept[s].trialInFlight \/ Swept[s].known
  <2> DEFINE e == Swept[s]
  <2>1. e \in Entry /\ (~e.known => e = NoEntry) BY SweptEntry
  <2>2. TRUE \in BOOLEAN OBVIOUS
  <2> HIDE DEF e
  <2>3. /\ Seen(e, TRUE) \in Entry
        /\ ~Seen(e, TRUE).known => Seen(e, TRUE) = NoEntry
        /\ Seen(e, TRUE).trialInFlight => e.trialInFlight \/ (TRUE /\ e.known)
    BY <2>1, <2>2, SeenEntry
  <2> QED BY <1>4, <2>3 DEF e
<1> HIDE DEF p
<1>7. TypeOK'
  <2>1. permits' \in SUBSET Permit BY <1>2, <1>3 DEF LimitInv, TypeOK
  <2>2. entries' \in [Scopes -> Entry] BY <1>1, <1>2, <1>4, <1>6
  <2> QED BY <2>1, <2>2 DEF TypeOK
<1>8. AbsentIsEmpty' BY <1>5, <1>6, SweptEntry DEF AbsentIsEmpty
<1>9. TrialSlotHeld'
  <2> SUFFICES ASSUME NEW t \in Scopes, entries'[t].trialInFlight
               PROVE  \E q \in permits' : q.scope = t /\ q.trial
    BY DEF TrialSlotHeld, TrialsOn
  <2>1. CASE t = s /\ Swept[s].known BY <1>2, <1>3, <2>1
  <2>2. CASE Swept[t].trialInFlight
    BY <1>2, <2>2, SweptEntry DEF LimitInv, TrialSlotHeld, TrialsOn
  <2> QED BY <1>5, <1>6, <2>1, <2>2
<1> QED BY <1>7, <1>8, <1>9 DEF LimitInv

LEMMA RefuseInv ==
  ASSUME LimitInv, NEW s \in Scopes, Refuse(s)
  PROVE  LimitInv'
<1>1. Swept \in [Scopes -> Entry] BY SweptEntry DEF Swept
<1>2. entries' = [Swept EXCEPT ![s] = Seen(Swept[s], FALSE)] /\ permits' = permits
  BY DEF Refuse
<1>3. entries'[s] = Seen(Swept[s], FALSE) BY <1>1, <1>2
<1>4. \A t \in Scopes : t # s => entries'[t] = Swept[t] BY <1>1, <1>2
<1>5. /\ entries'[s] \in Entry
      /\ ~entries'[s].known => entries'[s] = NoEntry
      /\ entries'[s].trialInFlight => Swept[s].trialInFlight
  <2> DEFINE e == Swept[s]
  <2>1. e \in Entry /\ (~e.known => e = NoEntry) BY SweptEntry
  <2>2. FALSE \in BOOLEAN OBVIOUS
  <2> HIDE DEF e
  <2>3. /\ Seen(e, FALSE) \in Entry
        /\ ~Seen(e, FALSE).known => Seen(e, FALSE) = NoEntry
        /\ Seen(e, FALSE).trialInFlight => e.trialInFlight \/ (FALSE /\ e.known)
    BY <2>1, <2>2, SeenEntry
  <2> QED BY <1>3, <2>3 DEF e
<1>6. TypeOK' BY <1>1, <1>2, <1>3, <1>5 DEF LimitInv, TypeOK
<1>7. AbsentIsEmpty' BY <1>4, <1>5, SweptEntry DEF AbsentIsEmpty
<1>8. TrialSlotHeld'
  BY <1>2, <1>4, <1>5, SweptEntry DEF LimitInv, TrialSlotHeld, TrialsOn
<1> QED BY <1>6, <1>7, <1>8 DEF LimitInv

LEMMA ReportInv ==
  ASSUME LimitInv, NEW p \in permits, NEW kind \in Reports, NEW retryAfter \in RetryAfters,
         Report(p, kind, retryAfter)
  PROVE  LimitInv'
<1> DEFINE s == p.scope
           r == Reported(entries[s], kind, retryAfter)
<1>1. s \in Scopes /\ entries[s] \in Entry /\ (~entries[s].known => entries[s] = NoEntry)
  BY DEF LimitInv, TypeOK, Permit, AbsentIsEmpty
<1>2. r \in Entry /\ (~r.known => r = NoEntry) /\ r.trialInFlight = FALSE
  BY <1>1, ReportedEntry
<1>3. entries' = [entries EXCEPT ![s] = r] /\ permits' = permits \ {p} BY DEF Report
<1> HIDE DEF r
<1>4. TypeOK' BY <1>1, <1>2, <1>3 DEF LimitInv, TypeOK
<1>5. AbsentIsEmpty' BY <1>1, <1>2, <1>3 DEF LimitInv, TypeOK, AbsentIsEmpty
<1>6. TrialSlotHeld'
  <2> SUFFICES ASSUME NEW t \in Scopes, entries'[t].trialInFlight
               PROVE  \E q \in permits' : q.scope = t /\ q.trial
    BY DEF TrialSlotHeld, TrialsOn
  <2>1. t # s /\ entries'[t] = entries[t] BY <1>1, <1>2, <1>3 DEF LimitInv, TypeOK
  <2>2. PICK q \in permits : q.scope = t /\ q.trial
    BY <2>1 DEF LimitInv, TrialSlotHeld, TrialsOn
  <2> QED BY <1>3, <2>1, <2>2
<1> QED BY <1>4, <1>5, <1>6 DEF LimitInv

LEMMA TickInv ==
  ASSUME LimitInv, Tick
  PROVE  LimitInv'
<1> DEFINE Aged(e) == [known |-> e.known, reason |-> e.reason,
                       probesIn |-> IF e.probesIn > 0 THEN e.probesIn - 1 ELSE 0,
                       trialInFlight |-> e.trialInFlight,
                       idle |-> IF e.idle <= StaleAge THEN e.idle + 1 ELSE e.idle]
<1>1. ASSUME NEW s \in Scopes
      PROVE  /\ entries'[s] \in Entry
             /\ entries'[s].known = entries[s].known
             /\ entries'[s].trialInFlight = entries[s].trialInFlight
             /\ ~entries[s].known => entries'[s] = entries[s]
  <2>1. entries[s] \in Entry BY DEF LimitInv, TypeOK
  <2>2. CASE ~entries[s].known BY <2>1, <2>2 DEF Tick
  <2>3. CASE entries[s].known
    <3>1. entries'[s] = Aged(entries[s]) BY <2>1, <2>3 DEF Tick, Entry
    <3>2. Aged(entries[s]) \in Entry
      BY <2>1, CooldownAssumption DEF Entry
    <3> QED BY <2>3, <3>1, <3>2
  <2> QED BY <2>2, <2>3
<1>2. TypeOK'
  <2>1. entries' \in [Scopes -> Entry] BY <1>1 DEF Tick
  <2> QED BY <2>1 DEF Tick, LimitInv, TypeOK
<1>3. AbsentIsEmpty' BY <1>1 DEF LimitInv, AbsentIsEmpty
<1>4. TrialSlotHeld' BY <1>1 DEF Tick, LimitInv, TrialSlotHeld, TrialsOn
<1> QED BY <1>2, <1>3, <1>4 DEF LimitInv

LEMMA LimitInvariant == Spec => []LimitInv
<1>1. Init => LimitInv BY InitInv
<1>2. LimitInv /\ [Next]_vars => LimitInv'
  <2> SUFFICES ASSUME LimitInv, [Next]_vars PROVE LimitInv' OBVIOUS
  <2>1. CASE Next
    BY <2>1, AdmitInv, RefuseInv, ReportInv, TickInv DEF Next
  <2>2. CASE UNCHANGED vars
    BY <2>2 DEF vars, LimitInv, TypeOK, AbsentIsEmpty, TrialSlotHeld, TrialsOn
  <2> QED BY <2>1, <2>2
<1> QED BY <1>1, <1>2, PTL DEF Spec

-----------------------------------------------------------------------------
\* The limiter's entries and permits are well formed for every cooldown and any
\* number of concurrent attempts.
THEOREM LimitTypeCorrect == Spec => []TypeOK
<1>1. LimitInv => TypeOK BY DEF LimitInv
<1> QED BY <1>1, LimitInvariant, PTL

\* A customer's trial slot is never taken with no trial running that gives it
\* back, whatever is reported late and whatever Admit sweeps away.
THEOREM LimitSlotNeverLost == Spec => []TrialSlotHeld
<1>1. LimitInv => TrialSlotHeld BY DEF LimitInv
<1> QED BY <1>1, LimitInvariant, PTL

=============================================================================
