------------------------- MODULE TeamRuntime_proofs -------------------------
(***************************************************************************)
(* Calls of relation tools exclude each other, for any runs, calls and     *)
(* relations, in any nesting, across recoveries, closings and crashes; and *)
(* whatever is written in the team file, a team that is not in use holds   *)
(* nothing open, and the lanes in sqlite are those of the team in use. The *)
(* tables of attempts and calls say how each ended, and an attempt they    *)
(* show as running is running, or of a run that was settled or lost.  The  *)
(* names of a team that was accepted are found, and its agents are shown   *)
(* the skills and tools they have and can use, when graphs are built one   *)
(* after the other and the skills on disk change.                          *)
(***************************************************************************)
EXTENDS TeamRuntime, FiniteSetTheorems, WellFoundedInduction, TLAPS

Keys == {Key[c] : c \in Calls}

\* The call that runs a child holds the lock of its thread.
InsideHolds == \A c \in Calls : Inside(c) => holder[Key[c]] = c

LockInv ==
  /\ at \in [Invocations -> Places]
  /\ holder \in [Keys -> Calls \union {Nobody}]
  /\ InsideHolds

LEMMA LockInit == RuntimeInit => LockInv
<1> SUFFICES ASSUME RuntimeInit PROVE LockInv
  OBVIOUS
<1>1. /\ at = [i \in Invocations |-> "idle"]
      /\ holder = [k \in Keys |-> Nobody]
  BY DEF RuntimeInit, CallsInit, Keys
<1>2. \A c \in Calls : c \in Invocations
  BY DEF Invocations
<1> QED
  BY <1>1, <1>2 DEF LockInv, InsideHolds, Inside, Places, Over

LEMMA LockExcludes == LockInv => OneChildAtATime
BY DEF LockInv, InsideHolds, OneChildAtATime

\* A step that leaves the locks alone, and lets no call in, keeps them.
LEMMA NoneEnters ==
  ASSUME LockInv, at' \in [Invocations -> Places], holder' = holder,
         \A c \in Calls : Inside(c)' => Inside(c)
  PROVE  LockInv'
BY DEF LockInv, InsideHolds

\* Where the invocations of other runs and calls are stays as it is.
LEMMA MovesOne ==
  ASSUME LockInv, NEW i \in Invocations, NEW to \in Places, Moves(i, to)
  PROVE  /\ at' \in [Invocations -> Places]
         /\ at'[i] = to
         /\ \A c \in Calls : c # i => (Inside(c)' <=> Inside(c))
BY DEF LockInv, Moves, Inside, Invocations

\* A run moves, or a call that stays where its lock is.
LEMMA MoveStaysInside ==
  ASSUME LockInv, NEW i \in Invocations, NEW to \in Places, Moves(i, to), holder' = holder,
         i \in Calls => (to \in {"thinking", "attempting", "tools", "answered", "raised"} => Inside(i))
  PROVE  LockInv'
<1>1. /\ at' \in [Invocations -> Places]
      /\ at'[i] = to
      /\ \A c \in Calls : c # i => (Inside(c)' <=> Inside(c))
  BY MovesOne
<1>2. \A c \in Calls : Inside(c)' => Inside(c)
  BY <1>1 DEF Inside
<1> QED
  BY <1>1, <1>2, NoneEnters

LEMMA ModelKeepsLocks ==
  ASSUME LockInv, NEW i \in Invocations,
         \/ StartAttempt(i) \/ AttemptAnswers(i) \/ ToolsEnd(i)
         \/ \E error \in Errors : AttemptFails(i, error)
  PROVE  LockInv'
<1> USE DEF Places, InThread, Over
<1>1. CASE StartAttempt(i)
  <2>1. Moves(i, "attempting") /\ Inside(i) /\ holder' = holder
    BY <1>1 DEF StartAttempt, Inside
  <2> QED
    BY <2>1, MoveStaysInside
<1>2. CASE AttemptAnswers(i)
  <2>1. Inside(i) /\ holder' = holder
    BY <1>2 DEF AttemptAnswers, Inside
  <2>2. CASE Moves(i, "answered")
    BY <2>1, <2>2, MoveStaysInside
  <2>3. ASSUME NEW asked \in SUBSET {c \in CallsOf(i) \intersect remains.calls : at[c] = "idle"},
               at' = [j \in Invocations |->
                        IF j = i THEN "tools" ELSE IF j \in asked THEN "asked" ELSE at[j]]
        PROVE  LockInv'
    <3>1. at' \in [Invocations -> Places]
      BY <2>3 DEF LockInv
    <3>2. \A c \in Calls : Inside(c)' => Inside(c)
      BY <2>1, <2>3 DEF Inside, Invocations
    <3> QED
      BY <2>1, <3>1, <3>2, NoneEnters
  <2> QED
    BY <1>2, <2>2, <2>3 DEF AttemptAnswers
<1>3. CASE ToolsEnd(i)
  <2>1. Inside(i) /\ holder' = holder
    BY <1>3 DEF ToolsEnd, Inside
  <2>2. CASE Moves(i, "thinking")
    BY <2>1, <2>2, MoveStaysInside
  <2>3. CASE at' = [j \in Invocations |->
                      IF j = i THEN "raised"
                      ELSE IF j \in CallsOf(i) /\ at[j] = "asked" THEN "dropped" ELSE at[j]]
    <3>1. at' \in [Invocations -> Places]
      BY <2>3 DEF LockInv
    <3>2. \A c \in Calls : Inside(c)' => Inside(c)
      BY <2>1, <2>3 DEF Inside, Invocations
    <3> QED
      BY <2>1, <3>1, <3>2, NoneEnters
  <2> QED
    BY <1>3, <2>2, <2>3 DEF ToolsEnd
<1>4. ASSUME NEW error \in Errors, AttemptFails(i, error) PROVE LockInv'
  <2>1. Inside(i) /\ holder' = holder /\ (Moves(i, "thinking") \/ Moves(i, "raised"))
    BY <1>4 DEF AttemptFails, Inside
  <2> QED
    BY <2>1, MoveStaysInside
<1> QED
  BY <1>1, <1>2, <1>3, <1>4

\* A run begins or ends; a call takes a thread, has recovered its store, or fails at once.
LEMMA OutsideKeepsLocks ==
  ASSUME LockInv,
         \/ \E r \in Runs : EndRun(r) \/ \E to \in {"thinking", "raised"} : StartRun(r, to)
         \/ \E c \in Calls : Resolve(c) \/ RaisesAtOnce(c) \/ Recover(c)
  PROVE  LockInv'
<1> USE DEF Places, InThread, Over
<1>1. ASSUME NEW r \in Runs, EndRun(r) PROVE LockInv'
  <2>1. /\ r \in Invocations /\ r \notin Calls /\ holder' = holder
        /\ Moves(r, "returned") \/ Moves(r, "failed")
    BY <1>1, CallsAssumption DEF EndRun, Invocations
  <2> QED
    BY <2>1, MoveStaysInside
<1>2. ASSUME NEW r \in Runs, NEW to \in {"thinking", "raised"}, StartRun(r, to) PROVE LockInv'
  <2>1. r \in Invocations /\ r \notin Calls /\ holder' = holder /\ Moves(r, to)
    BY <1>2, CallsAssumption DEF StartRun, Invocations
  <2> QED
    BY <2>1, MoveStaysInside
<1>3. ASSUME NEW c \in Calls, Resolve(c) \/ RaisesAtOnce(c) \/ Recover(c) PROVE LockInv'
  <2>1. /\ c \in Invocations /\ holder' = holder
        /\ Moves(c, "recovering") \/ Moves(c, "failed") \/ Moves(c, "waiting")
    BY <1>3 DEF Resolve, RaisesAtOnce, Recover, Invocations
  <2> QED
    BY <2>1, MoveStaysInside
<1> QED
  BY <1>1, <1>2, <1>3

LEMMA EnterTakesLock ==
  ASSUME LockInv, NEW c \in Calls, Enter(c)
  PROVE  LockInv'
<1>1. /\ c \in Invocations /\ Moves(c, "thinking") /\ Key[c] \in Keys
      /\ holder[Key[c]] = Nobody
      /\ holder' = [holder EXCEPT ![Key[c]] = c]
  BY DEF Enter, Blocked, Invocations, Keys
<1>2. /\ at' \in [Invocations -> Places]
      /\ at'[c] = "thinking"
      /\ \A d \in Calls : d # c => (Inside(d)' <=> Inside(d))
  BY <1>1, MovesOne DEF Places, InThread
<1>3. holder' \in [Keys -> Calls \union {Nobody}] /\ holder'[Key[c]] = c
  BY <1>1 DEF LockInv
<1>4. ASSUME NEW d \in Calls, d # c, Inside(d)' PROVE holder'[Key[d]] = d
  <2>1. holder[Key[d]] = d /\ Key[d] \in Keys
    BY <1>2, <1>4 DEF LockInv, InsideHolds, Keys
  <2>2. Key[d] # Key[c]
    BY <1>1, <2>1, CallsAssumption
  <2> QED
    BY <1>1, <2>1, <2>2 DEF LockInv
<1> QED
  BY <1>2, <1>3, <1>4 DEF LockInv, InsideHolds

LEMMA ReturnGivesLock ==
  ASSUME LockInv, NEW c \in Calls, Return(c)
  PROVE  LockInv'
<1>1. /\ c \in Invocations /\ Key[c] \in Keys /\ Inside(c)
      /\ Moves(c, "returned") \/ Moves(c, "failed")
      /\ holder' = [holder EXCEPT ![Key[c]] = Nobody]
  BY DEF Return, Released, Inside, Invocations, Keys
<1>2. /\ at' \in [Invocations -> Places]
      /\ at'[c] \in {"returned", "failed"}
      /\ \A d \in Calls : d # c => (Inside(d)' <=> Inside(d))
  BY <1>1, MovesOne DEF Places, Over
<1>3. holder' \in [Keys -> Calls \union {Nobody}]
  BY <1>1 DEF LockInv
<1>4. ASSUME NEW d \in Calls, Inside(d)' PROVE holder'[Key[d]] = d
  <2>1. d # c
    BY <1>2, <1>4 DEF Inside
  <2>2. holder[Key[d]] = d /\ holder[Key[c]] = c /\ Key[d] \in Keys
    BY <1>1, <1>2, <1>4, <2>1 DEF LockInv, InsideHolds, Keys
  <2> QED
    BY <1>1, <2>1, <2>2 DEF LockInv
<1> QED
  BY <1>2, <1>3, <1>4 DEF LockInv, InsideHolds

LEMMA EndsKeepLocks ==
  ASSUME LockInv, CallsCrash \/ CallsClosed
  PROVE  LockInv'
<1>1. CASE CallsCrash
  <2>1. at' = [i \in Invocations |-> IF at[i] \in Over THEN at[i] ELSE "lost"]
    BY <1>1 DEF CallsCrash
  <2>2. holder' = [k \in Keys |-> Nobody]
    BY <1>1 DEF CallsCrash, LockInv
  <2> QED
    BY <2>1, <2>2 DEF LockInv, InsideHolds, Inside, Invocations, Places, Over
<1>2. CASE CallsClosed
  <2>1. /\ at' = [i \in Invocations |->
                    CASE at[i] \in {"thinking", "attempting", "tools"} -> "stuck"
                      [] at[i] \in {"asked", "waiting"} -> "dropped"
                      [] OTHER -> at[i]]
        /\ holder' = holder
    BY <1>2 DEF CallsClosed
  <2>2. at' \in [Invocations -> Places]
    BY <2>1 DEF LockInv, Places, Over
  <2>3. \A c \in Calls : Inside(c)' => Inside(c)
    BY <2>1 DEF Inside, Invocations
  <2> QED
    BY <2>1, <2>2, <2>3, NoneEnters
<1> QED
  BY <1>1, <1>2

LEMMA LockStep ==
  ASSUME LockInv, [RuntimeNext]_runtimeVars
  PROVE  LockInv'
<1>1. CASE UNCHANGED <<at, holder>>
  BY <1>1 DEF LockInv, InsideHolds, Inside
<1>2. ASSUME NEW r \in Runs, RunStarts(r) PROVE LockInv'
  BY <1>2, OutsideKeepsLocks DEF RunStarts
<1>3. ASSUME NEW c \in Calls, CallRelation(c) PROVE LockInv'
  BY <1>3, OutsideKeepsLocks DEF CallRelation
<1>4. ASSUME NEW i \in Invocations, Computes(i) PROVE LockInv'
  BY <1>4, ModelKeepsLocks, OutsideKeepsLocks, EnterTakesLock, ReturnGivesLock
  DEF Computes, Works
<1>5. CASE Closes \/ Crash
  BY <1>5, EndsKeepLocks DEF Closes, Crash
<1>6. CASE Instantiates \/ OpensConversation \/ FilesChange \/ OtherNeedsGraph
  BY <1>1, <1>6
  DEF Instantiates, OpensConversation, CallsRecovered, FilesChange, OtherNeedsGraph, callVars
<1>7. CASE UNCHANGED runtimeVars
  BY <1>1, <1>7 DEF runtimeVars, callVars
<1> QED
  BY <1>2, <1>3, <1>4, <1>5, <1>6, <1>7 DEF RuntimeNext

\* However calls are nested and whichever runs make them, a thread of a child has one call
\* at a time (_logical_thread_lock of relation_tool.py), also when recoveries give runs up,
\* teams are closed with calls left behind, and processes die.
THEOREM OneChildAtATimeCorrect == RuntimeSpec => []OneChildAtATime
<1> QED
  BY LockInit, LockStep, LockExcludes, PTL DEF RuntimeSpec

----------------------------------------------------------------------------
(* The checkpointer and the lanes.                                          *)

\* What instantiate relies on before its try statement, and what closing leaves.
HandleInv ==
  /\ file \in Written
  /\ stage \in {"idle", "loaded"} => handle = {}
  /\ stage \in {"loaded", "opened"} => ManifestFailure(team) = NoFailure
  /\ LanesAreTheTeams

\* A name that is alike to one agent only is that agent's.
LEMMA CanonicalIsAlike ==
  ASSUME NEW ids, NEW name, Alike(Canonical(name, ids), ids) # {},
         \A a, b \in ids : Fold[a] = Fold[b] => a = b
  PROVE  Canonical(name, ids) \in ids
<1>1. CASE Cardinality(Alike(name, ids)) = 1
  <2>1. Alike(name, ids) # {}
    BY <1>1, FS_EmptySet
  <2> QED
    BY <1>1, <2>1 DEF Canonical, Alike
<1>2. CASE Cardinality(Alike(name, ids)) # 1
  <2>1. PICK a \in Alike(name, ids) : TRUE
    BY <1>2 DEF Canonical
  <2>2. Alike(name, ids) = {a}
    BY <2>1 DEF Alike
  <2> QED
    BY <1>2, <2>2, FS_Singleton
<1> QED
  BY <1>1, <1>2

\* The relations of a team that is valid lead to agents of the team (TeamValidator), so the
\* manifest can be built: its KeyError would be raised with the checkpointer open.
LEMMA ValidTeamsHaveManifests ==
  ASSUME NEW w \in Written, Valid(Definition(w))
  PROVE  ManifestFailure(Definition(w)) = NoFailure
<1> DEFINE t == Definition(w)
           ids == DOMAIN w.agents
<1>1. /\ t.agents = [a \in ids |-> Merged(w.agents[a])]
      /\ t.relations = [i \in DOMAIN w.relations |-> CanonicalRelation(w.relations[i], i, ids)]
  BY InstantiationAssumption DEF Definition
<1>2. DOMAIN t.agents = ids
  BY <1>1
<1>3. ASSUME NEW r \in ToSet(t.relations) PROVE r.to \in ids
  <2>1. PICK i \in DOMAIN w.relations : r = CanonicalRelation(w.relations[i], i, ids)
    BY <1>1 DEF ToSet
  <2>2. r.to = Canonical(w.relations[i].to, ids)
    BY <2>1, InstantiationAssumption DEF CanonicalRelation
  <2>3. Alike(r.to, ids) # {}
    BY <1>2 DEF Valid, RelationsValid
  <2>4. \A a, b \in ids : Fold[a] = Fold[b] => a = b
    BY <1>2 DEF Valid, AgentsValid
  <2> QED
    BY <2>2, <2>3, <2>4, CanonicalIsAlike
<1> QED
  BY <1>2, <1>3 DEF ManifestFailure, Check

LEMMA HandleStep ==
  ASSUME HandleInv, [RuntimeNext]_runtimeVars
  PROVE  HandleInv'
<1> USE DEF HandleInv, LanesAreTheTeams
<1>1. CASE UNCHANGED <<file, stage, team, handle, lanes>>
  BY <1>1
<1>2. ASSUME NEW a, AskGraph(a) PROVE UNCHANGED <<file, stage, team, handle, lanes>>
  BY <1>2 DEF AskGraph
<1>3. CASE Load
  BY <1>3, ValidTeamsHaveManifests DEF Load
<1>4. CASE OpenCheckpointer \/ CheckpointerFails
  BY <1>4 DEF OpenCheckpointer, CheckpointerFails
<1>5. CASE BuildFails \/ ConversationFails
  BY <1>5 DEF BuildFails, ConversationFails, Closed
<1>6. CASE Build
  BY <1>6 DEF Build, Persisted, ReplacedLanes
<1>7. CASE Closes
  BY <1>7 DEF Closes, CloseTeam, Closed
<1>8. CASE FilesChange
  BY <1>8 DEF FilesChange, EditFile, ChangeSkill
<1>9. CASE Crash
  BY <1>9 DEF Crash
<1>10. ASSUME NEW r \in Runs, RunStarts(r) PROVE UNCHANGED <<file, stage, team, handle, lanes>>
  BY <1>2, <1>10 DEF RunStarts, NeedsGraph, teamVars
<1>11. ASSUME NEW c \in Calls, CallRelation(c) PROVE UNCHANGED <<file, stage, team, handle, lanes>>
  BY <1>2, <1>11 DEF CallRelation, NeedsGraph, teamVars
<1>12. CASE OtherNeedsGraph
  BY <1>1, <1>2, <1>12 DEF OtherNeedsGraph
<1>13. ASSUME NEW i \in Invocations, Computes(i) PROVE UNCHANGED <<file, stage, team, handle, lanes>>
  BY <1>13 DEF Computes, teamVars
<1>14. CASE UNCHANGED runtimeVars
  BY <1>1, <1>14 DEF runtimeVars, teamVars
<1> QED
  BY <1>1, <1>3, <1>4, <1>5, <1>6, <1>7, <1>8, <1>9, <1>10, <1>11, <1>12, <1>13, <1>14
  DEF RuntimeNext, Instantiates, OpensConversation

LEMMA HandleInvariant == RuntimeSpec => []HandleInv
<1>1. RuntimeInit => HandleInv
  BY DEF RuntimeInit, InstantiationInit, HandleInv, LanesAreTheTeams
<1> QED
  BY <1>1, HandleStep, PTL DEF RuntimeSpec

\* Every way instantiate fails after it opened the checkpointer closes it, and so does the
\* end of a team (TeamInstanciator.instantiate, InstantiatedTeam.close), for any team file:
\* the one step that is outside of its try statement cannot fail for a team that is valid.
THEOREM FailuresReleaseCheckpointerCorrect == RuntimeSpec => []FailuresReleaseCheckpointer
<1>1. HandleInv => FailuresReleaseCheckpointer
  BY DEF HandleInv, FailuresReleaseCheckpointer
<1> QED
  BY <1>1, HandleInvariant, PTL

\* The lanes in the sqlite file are those of the team in use, for any edits of its file and
\* any failures to instantiate it (TeamRuntimeManifestStore.save).
THEOREM LanesAreTheTeamsCorrect == RuntimeSpec => []LanesAreTheTeams
<1>1. HandleInv => LanesAreTheTeams
  BY DEF HandleInv
<1> QED
  BY <1>1, HandleInvariant, PTL

----------------------------------------------------------------------------
(* What attempts and calls ended with.                                      *)

IsAttempt(attempt) ==
  /\ {"status", "outcome"} \subseteq DOMAIN attempt
  /\ attempt.status = "running" => attempt.outcome = "none"

AttemptTypes ==
  /\ DOMAIN attempts = Invocations
  /\ \A i \in Invocations : \E S : attempts[i] \in Seq(S)
  /\ \A i \in Invocations : \A n \in DOMAIN attempts[i] : IsAttempt(attempts[i][n])

\* What a recovery has listed had not ended, or ended since and is known to have raced it.
AttemptInv ==
  /\ AttemptTypes
  /\ DOMAIN listed = Calls
  /\ \A i \in Invocations : \A n \in DOMAIN attempts[i] :
       attempts[i][n].outcome # "none" /\ <<i, n>> \notin raced =>
         attempts[i][n].status = attempts[i][n].outcome
  /\ \A c \in Calls : \A p \in listed[c] : \E i \in Invocations : \E n \in DOMAIN attempts[i] :
       p = <<i, n>> /\ (attempts[i][n].outcome = "none" \/ p \in raced)

\* A call has an edge once it holds its lock.
EdgeInv ==
  /\ at \in [Invocations -> Places]
  /\ edges \in [Calls -> {"none", "running", "success", "failed"}]
  /\ \A c \in Calls :
       /\ at[c] \in {"idle", "asked", "recovering", "waiting"} => edges[c] = "none"
       /\ at[c] = "returned" => edges[c] = "success"
       /\ edges[c] # "none" /\ at[c] = "failed" => edges[c] = "failed"

\* A step that leaves the attempts alone, and lists those that run.
LEMMA AttemptsStay ==
  ASSUME AttemptInv, UNCHANGED <<attempts, raced>>, DOMAIN listed' = Calls,
         \A c \in Calls : listed'[c] \subseteq listed[c] \/ \E runs : listed'[c] = RunningAttempts(runs)
  PROVE  AttemptInv'
<1>1. ASSUME NEW c \in Calls, NEW p \in listed'[c]
      PROVE  \E i \in Invocations : \E n \in DOMAIN attempts[i] :
               p = <<i, n>> /\ (attempts[i][n].outcome = "none" \/ p \in raced)
  <2>1. CASE p \in listed[c]
    BY <2>1 DEF AttemptInv
  <2>2. ASSUME NEW runs, p \in RunningAttempts(runs)
        PROVE  \E i \in Invocations : \E n \in DOMAIN attempts[i] :
                 p = <<i, n>> /\ attempts[i][n].status = "running"
    BY <2>2 DEF RunningAttempts
  <2>3. ASSUME NEW i \in Invocations, NEW n \in DOMAIN attempts[i], attempts[i][n].status = "running"
        PROVE  attempts[i][n].outcome = "none"
    BY <2>3 DEF AttemptInv, AttemptTypes, IsAttempt
  <2> QED
    BY <2>1, <2>2, <2>3
<1> QED
  BY <1>1 DEF AttemptInv, AttemptTypes

\* Recovery fails attempts of which nobody knows, or will know, another outcome.
LEMMA RecoveryFails ==
  ASSUME AttemptInv, NEW these, attempts' = FailedAttempts(these), UNCHANGED raced,
         DOMAIN listed' = Calls, \A c \in Calls : listed'[c] \subseteq listed[c],
         \A i \in Invocations : \A n \in DOMAIN attempts[i] : <<i, n>> \in these =>
           attempts[i][n].outcome = "none" \/ <<i, n>> \in raced
  PROVE  AttemptInv'
<1> DEFINE failed(i, n) == [attempts[i][n] EXCEPT !.status = "failed"]
           next(i, n) == IF <<i, n>> \in these THEN failed(i, n) ELSE attempts[i][n]
<1>1. attempts' = [i \in Invocations |-> [n \in DOMAIN attempts[i] |-> next(i, n)]]
  BY DEF FailedAttempts
<1>2. ASSUME NEW i \in Invocations, NEW n \in DOMAIN attempts[i]
      PROVE  /\ IsAttempt(failed(i, n)) /\ failed(i, n).status = "failed"
             /\ failed(i, n).outcome = attempts[i][n].outcome
  BY DEF AttemptInv, AttemptTypes, IsAttempt
<1> HIDE DEF failed
<1>3. ASSUME NEW i \in Invocations
      PROVE  DOMAIN attempts'[i] = DOMAIN attempts[i] /\ \E S : attempts'[i] \in Seq(S)
  <2>1. PICK S : attempts[i] \in Seq(S)
    BY DEF AttemptInv, AttemptTypes
  <2>2. Len(attempts[i]) \in Nat /\ DOMAIN attempts[i] = 1 .. Len(attempts[i])
    BY <2>1
  <2>3. attempts'[i] = [n \in 1 .. Len(attempts[i]) |-> next(i, n)]
    BY <1>1, <2>2
  <2>4. attempts'[i] \in Seq(S \union {next(i, n) : n \in 1 .. Len(attempts[i])})
    BY <2>2, <2>3
  <2> QED
    BY <2>2, <2>3, <2>4
<1>4. AttemptTypes'
  BY <1>1, <1>2, <1>3 DEF AttemptInv, AttemptTypes
<1>5. ASSUME NEW i \in Invocations, NEW n \in DOMAIN attempts'[i],
             attempts'[i][n].outcome # "none", <<i, n>> \notin raced
      PROVE  attempts'[i][n].status = attempts'[i][n].outcome
  BY <1>1, <1>2, <1>3, <1>5 DEF AttemptInv
<1>6. \A i \in Invocations : \A n \in DOMAIN attempts[i] :
        attempts'[i][n].outcome = attempts[i][n].outcome
  BY <1>1, <1>2
<1>7. ASSUME NEW c \in Calls, NEW p \in listed'[c]
      PROVE  \E i \in Invocations : \E n \in DOMAIN attempts'[i] :
               p = <<i, n>> /\ (attempts'[i][n].outcome = "none" \/ p \in raced)
  BY <1>3, <1>6 DEF AttemptInv
<1> QED
  BY <1>4, <1>5, <1>7 DEF AttemptInv

LEMMA StartAttemptKeepsOutcomes ==
  ASSUME AttemptInv, NEW i \in Invocations, StartAttempt(i)
  PROVE  AttemptInv'
<1> DEFINE new == [number |-> count[Top[i]] + 1, status |-> "running", outcome |-> "none"]
<1>1. attempts' = [attempts EXCEPT ![i] = Append(attempts[i], new)] /\ UNCHANGED <<listed, raced>>
  BY DEF StartAttempt, Attempted
<1>2. IsAttempt(new) /\ new.outcome = "none"
  BY DEF IsAttempt
<1> HIDE DEF new
<1>3. PICK S : attempts[i] \in Seq(S)
  BY DEF AttemptInv, AttemptTypes
<1>4. attempts[i] \in Seq(S \union {new}) /\ new \in S \union {new}
  BY <1>3
<1>5. /\ Append(attempts[i], new) \in Seq(S \union {new})
      /\ DOMAIN attempts[i] = 1 .. Len(attempts[i]) /\ Len(attempts[i]) \in Nat
      /\ DOMAIN Append(attempts[i], new) = 1 .. Len(attempts[i]) + 1
      /\ \A n \in 1 .. Len(attempts[i]) : Append(attempts[i], new)[n] = attempts[i][n]
      /\ Append(attempts[i], new)[Len(attempts[i]) + 1] = new
  BY <1>4
<1>6. /\ attempts'[i] = Append(attempts[i], new)
      /\ \A j \in Invocations : j # i => attempts'[j] = attempts[j]
      /\ DOMAIN attempts' = Invocations
  BY <1>1 DEF AttemptInv, AttemptTypes
<1>7. \A n \in DOMAIN attempts'[i] :
        \/ n \in DOMAIN attempts[i] /\ attempts'[i][n] = attempts[i][n]
        \/ attempts'[i][n] = new
  BY <1>5, <1>6
<1>8. AttemptTypes'
  BY <1>2, <1>5, <1>6, <1>7 DEF AttemptInv, AttemptTypes
<1>9. ASSUME NEW j \in Invocations, NEW n \in DOMAIN attempts'[j],
             attempts'[j][n].outcome # "none", <<j, n>> \notin raced
      PROVE  attempts'[j][n].status = attempts'[j][n].outcome
  BY <1>2, <1>6, <1>7, <1>9 DEF AttemptInv
<1>10. \A j \in Invocations : \A n \in DOMAIN attempts[j] :
         n \in DOMAIN attempts'[j] /\ attempts'[j][n] = attempts[j][n]
  BY <1>5, <1>6
<1>11. ASSUME NEW c \in Calls, NEW p \in listed[c]
       PROVE  \E j \in Invocations : \E n \in DOMAIN attempts'[j] :
                p = <<j, n>> /\ (attempts'[j][n].outcome = "none" \/ p \in raced)
  BY <1>10, <1>11 DEF AttemptInv
<1> QED
  BY <1>1, <1>8, <1>9, <1>11 DEF AttemptInv

\* An attempt that ends is told apart by raced when a recovery has it listed.
LEMMA FinishKeepsOutcomes ==
  ASSUME AttemptInv, NEW i \in Invocations, NEW status, status # "running", Finish(i, status),
         UNCHANGED listed
  PROVE  AttemptInv'
<1> DEFINE last == Len(attempts[i])
           ended == [attempts[i][last] EXCEPT !.status = status, !.outcome = status]
<1>1. PICK S : attempts[i] \in Seq(S)
  BY DEF AttemptInv, AttemptTypes
<1>2. last \in Nat /\ DOMAIN attempts[i] = 1 .. last
  BY <1>1
<1>3. attempts' = [attempts EXCEPT ![i] = [attempts[i] EXCEPT ![last] = ended]]
  BY DEF Finish, Recorded
<1>4. last \in DOMAIN attempts[i] =>
        IsAttempt(ended) /\ ended.status = status /\ ended.outcome = status
  BY DEF AttemptInv, AttemptTypes, IsAttempt
<1> HIDE DEF last, ended
<1>5. [attempts[i] EXCEPT ![last] = ended] \in Seq(S \union {ended})
  <2>1. attempts[i] = [n \in 1 .. last |-> attempts[i][n]]
    BY <1>1 DEF last
  <2>2. [attempts[i] EXCEPT ![last] = ended]
          = [n \in 1 .. last |-> IF n = last THEN ended ELSE attempts[i][n]]
    BY <2>1
  <2>3. \A n \in 1 .. last : (IF n = last THEN ended ELSE attempts[i][n]) \in S \union {ended}
    BY <1>1, <1>2
  <2>4. [attempts[i] EXCEPT ![last] = ended] \in [1 .. last -> S \union {ended}]
    BY <2>2, <2>3
  <2>5. ASSUME NEW T, NEW f \in [1 .. last -> T] PROVE f \in Seq(T)
    BY <1>2
  <2> QED
    BY <2>4, <2>5
<1>6. /\ attempts'[i] = [attempts[i] EXCEPT ![last] = ended]
      /\ \A j \in Invocations : j # i => attempts'[j] = attempts[j]
      /\ DOMAIN attempts' = Invocations
  BY <1>3 DEF AttemptInv, AttemptTypes
<1>7. /\ DOMAIN attempts'[i] = DOMAIN attempts[i]
      /\ \A n \in DOMAIN attempts[i] :
           attempts'[i][n] = IF n = last THEN ended ELSE attempts[i][n]
  BY <1>6
<1>8. AttemptTypes'
  BY <1>4, <1>5, <1>6, <1>7 DEF AttemptInv, AttemptTypes
<1>9. raced \subseteq raced' /\ ((\E c \in Calls : <<i, last>> \in listed[c]) => <<i, last>> \in raced')
  BY DEF Finish, Current, last
<1>10. ASSUME NEW j \in Invocations, NEW n \in DOMAIN attempts'[j],
              attempts'[j][n].outcome # "none", <<j, n>> \notin raced'
       PROVE  attempts'[j][n].status = attempts'[j][n].outcome
  BY <1>4, <1>6, <1>7, <1>9, <1>10 DEF AttemptInv
<1>11. ASSUME NEW c \in Calls, NEW p \in listed[c]
       PROVE  \E j \in Invocations : \E n \in DOMAIN attempts'[j] :
                p = <<j, n>> /\ (attempts'[j][n].outcome = "none" \/ p \in raced')
  <2>1. PICK j \in Invocations : \E n \in DOMAIN attempts[j] :
          p = <<j, n>> /\ (attempts[j][n].outcome = "none" \/ p \in raced)
    BY <1>11 DEF AttemptInv
  <2>2. PICK n \in DOMAIN attempts[j] :
          p = <<j, n>> /\ (attempts[j][n].outcome = "none" \/ p \in raced)
    BY <2>1
  <2>3. n \in DOMAIN attempts'[j] /\ (attempts'[j][n] = attempts[j][n] \/ p \in raced')
    BY <1>6, <1>7, <1>9, <1>11, <2>2
  <2> QED
    BY <1>9, <2>2, <2>3
<1> QED
  BY <1>8, <1>10, <1>11 DEF AttemptInv

LEMMA ComputesKeepsOutcomes ==
  ASSUME AttemptInv, NEW i \in Invocations, Works(i)
  PROVE  AttemptInv'
<1>1. CASE StartAttempt(i)
  BY <1>1, StartAttemptKeepsOutcomes
<1>2. CASE AttemptAnswers(i)
  BY <1>2, FinishKeepsOutcomes DEF AttemptAnswers
<1>3. ASSUME NEW error \in Errors, AttemptFails(i, error) PROVE AttemptInv'
  BY <1>3, FinishKeepsOutcomes DEF AttemptFails
<1>4. CASE UNCHANGED <<attempts, raced, listed>>
  BY <1>4, AttemptsStay DEF AttemptInv
<1>5. CASE ToolsEnd(i) \/ (i \in Runs /\ EndRun(i)) \/ (i \in Calls /\ (Enter(i) \/ Return(i)))
  BY <1>4, <1>5 DEF ToolsEnd, EndRun, Enter, Return
<1>6. CASE i \in Calls /\ Recover(i)
  <2>1. /\ attempts' = FailedAttempts(listed[i]) /\ UNCHANGED raced
        /\ listed' = [listed EXCEPT ![i] = {}]
    BY <1>6 DEF Recover
  <2>2. DOMAIN listed' = Calls /\ \A c \in Calls : listed'[c] \subseteq listed[c]
    BY <2>1 DEF AttemptInv
  <2>3. ASSUME NEW j \in Invocations, NEW n \in DOMAIN attempts[j], <<j, n>> \in listed[i]
        PROVE  attempts[j][n].outcome = "none" \/ <<j, n>> \in raced
    BY <1>6, <2>3 DEF AttemptInv
  <2> QED
    BY <2>1, <2>2, <2>3, RecoveryFails
<1> QED
  BY <1>1, <1>2, <1>3, <1>5, <1>6 DEF Works

LEMMA ComputesKeepsEdges ==
  ASSUME EdgeInv, NEW i \in Invocations, Works(i)
  PROVE  EdgeInv'
<1> USE DEF Places, InThread, Over
<1>1. ASSUME NEW to \in Places, Moves(i, to), UNCHANGED edges, i \in Runs \/
               (to \notin {"idle", "asked", "recovering", "returned", "failed"}
                  /\ (to = "waiting" => at[i] = "recovering"))
      PROVE  EdgeInv'
  BY <1>1, CallsAssumption DEF EdgeInv, Moves, Invocations
<1>2. CASE StartAttempt(i)
  BY <1>1, <1>2 DEF StartAttempt
<1>3. ASSUME NEW error \in Errors, AttemptFails(i, error) PROVE EdgeInv'
  BY <1>1, <1>3 DEF AttemptFails
<1>4. CASE AttemptAnswers(i)
  <2>1. UNCHANGED edges
    BY <1>4 DEF AttemptAnswers
  <2>2. CASE Moves(i, "answered")
    BY <1>1, <2>1, <2>2
  <2>3. ASSUME NEW asked \in SUBSET {c \in CallsOf(i) \intersect remains.calls : at[c] = "idle"},
               at' = [j \in Invocations |->
                        IF j = i THEN "tools" ELSE IF j \in asked THEN "asked" ELSE at[j]]
        PROVE  EdgeInv'
    BY <2>1, <2>3 DEF EdgeInv, Invocations
  <2> QED
    BY <1>4, <2>2, <2>3 DEF AttemptAnswers
<1>5. CASE ToolsEnd(i)
  <2>1. UNCHANGED edges
    BY <1>5 DEF ToolsEnd
  <2>2. CASE Moves(i, "thinking")
    BY <1>1, <2>1, <2>2
  <2>3. CASE at' = [j \in Invocations |->
                      IF j = i THEN "raised"
                      ELSE IF j \in CallsOf(i) /\ at[j] = "asked" THEN "dropped" ELSE at[j]]
    BY <2>1, <2>3 DEF EdgeInv, Invocations
  <2> QED
    BY <1>5, <2>2, <2>3 DEF ToolsEnd
<1>6. CASE i \in Runs /\ EndRun(i)
  BY <1>1, <1>6 DEF EndRun
<1>7. CASE i \in Calls /\ Recover(i)
  BY <1>7 DEF Recover, EdgesFailed, EdgeInv, Moves, Invocations
<1>8. CASE i \in Calls /\ Enter(i)
  BY <1>8 DEF Enter, EdgeStarted, EdgeInv, Moves, Invocations
<1>9. CASE i \in Calls /\ Return(i)
  BY <1>9 DEF Return, EdgeFinished, EdgeInv, Moves, Invocations
<1> QED
  BY <1>2, <1>3, <1>4, <1>5, <1>6, <1>7, <1>8, <1>9 DEF Works

LEMMA CallsKeepOutcomes ==
  ASSUME AttemptInv, EdgeInv, NEW c \in Calls, CallRelation(c)
  PROVE  AttemptInv' /\ EdgeInv'
<1> USE DEF Places, InThread, Over
<1>1. c \in Invocations
  BY DEF Invocations
<1>2. CASE Resolve(c)
  <2>1. /\ UNCHANGED <<attempts, raced, edges>> /\ Moves(c, "recovering") /\ at[c] = "asked"
        /\ listed' = [listed EXCEPT ![c] = RunningAttempts(Interrupted)]
    BY <1>2 DEF Resolve
  <2>2. \A d \in Calls : listed'[d] \subseteq listed[d] \/ \E runs : listed'[d] = RunningAttempts(runs)
    BY <2>1 DEF AttemptInv
  <2>3. AttemptInv'
    BY <2>1, <2>2, AttemptsStay DEF AttemptInv
  <2>4. EdgeInv'
    BY <1>1, <2>1 DEF EdgeInv, Moves, Invocations
  <2> QED
    BY <2>3, <2>4
<1>3. CASE RaisesAtOnce(c)
  <2>1. UNCHANGED <<attempts, raced, listed, edges>> /\ Moves(c, "failed") /\ at[c] = "asked"
    BY <1>3 DEF RaisesAtOnce
  <2>2. AttemptInv'
    BY <2>1, AttemptsStay DEF AttemptInv
  <2>3. EdgeInv'
    BY <1>1, <2>1 DEF EdgeInv, Moves, Invocations
  <2> QED
    BY <2>2, <2>3
<1> QED
  BY <1>2, <1>3 DEF CallRelation

LEMMA EndsKeepOutcomes ==
  ASSUME AttemptInv, EdgeInv, CallsCrash \/ CallsClosed \/ CallsRecovered
  PROVE  AttemptInv' /\ EdgeInv'
<1> USE DEF Places, InThread, Over
<1>1. CASE CallsCrash
  <2>1. /\ UNCHANGED <<attempts, raced, edges>> /\ listed' = [c \in Calls |-> {}]
        /\ at' = [i \in Invocations |-> IF at[i] \in Over THEN at[i] ELSE "lost"]
    BY <1>1 DEF CallsCrash
  <2>2. AttemptInv'
    BY <2>1, AttemptsStay DEF AttemptInv
  <2>3. EdgeInv'
    BY <2>1 DEF EdgeInv, Invocations
  <2> QED
    BY <2>2, <2>3
<1>2. CASE CallsClosed
  <2>1. /\ UNCHANGED <<attempts, raced, listed, edges>>
        /\ at' = [i \in Invocations |->
                    CASE at[i] \in {"thinking", "attempting", "tools"} -> "stuck"
                      [] at[i] \in {"asked", "waiting"} -> "dropped"
                      [] OTHER -> at[i]]
    BY <1>2 DEF CallsClosed
  <2>2. AttemptInv'
    BY <2>1, AttemptsStay DEF AttemptInv
  <2>3. EdgeInv'
    BY <2>1 DEF EdgeInv, Invocations
  <2> QED
    BY <2>2, <2>3
<1>3. CASE CallsRecovered
  <2> DEFINE these == RunningAttempts(Interrupted)
  <2>1. attempts' = FailedAttempts(these) /\ UNCHANGED <<raced, listed, at>>
    BY <1>3 DEF CallsRecovered
  <2>2. ASSUME NEW i \in Invocations, NEW n \in DOMAIN attempts[i], <<i, n>> \in these
        PROVE  attempts[i][n].outcome = "none"
    <3>1. attempts[i][n].status = "running"
      BY <2>2 DEF RunningAttempts
    <3> QED
      BY <3>1 DEF AttemptInv, AttemptTypes, IsAttempt
  <2>3. DOMAIN listed' = Calls /\ \A c \in Calls : listed'[c] \subseteq listed[c]
    BY <2>1 DEF AttemptInv
  <2>4. AttemptInv'
    <3> HIDE DEF these
    <3> QED
      BY <2>1, <2>2, <2>3, RecoveryFails
  <2>5. PICK runs : edges' = [c \in Calls |->
                      IF edges[c] = "running" /\ Top[c] \in runs THEN "failed" ELSE edges[c]]
    BY <1>3 DEF CallsRecovered, EdgesFailed
  <2>6. EdgeInv'
    BY <2>1, <2>5 DEF EdgeInv
  <2> QED
    BY <2>4, <2>6
<1> QED
  BY <1>1, <1>2, <1>3

LEMMA OutcomesStep ==
  ASSUME AttemptInv, EdgeInv, [RuntimeNext]_runtimeVars
  PROVE  AttemptInv' /\ EdgeInv'
<1>1. CASE UNCHANGED <<at, attempts, listed, raced, edges>>
  <2>1. AttemptInv'
    BY <1>1, AttemptsStay DEF AttemptInv
  <2> QED
    BY <1>1, <2>1 DEF EdgeInv
<1>2. ASSUME NEW r \in Runs, RunStarts(r) PROVE AttemptInv' /\ EdgeInv'
  <2>1. UNCHANGED <<attempts, listed, raced, edges>> /\ \E to \in {"thinking", "raised"} : Moves(r, to)
    BY <1>2 DEF RunStarts, StartRun
  <2>2. AttemptInv'
    BY <2>1, AttemptsStay DEF AttemptInv
  <2>3. EdgeInv'
    BY <2>1, CallsAssumption DEF EdgeInv, Moves, Invocations, Places, InThread, Over
  <2> QED
    BY <2>2, <2>3
<1>3. ASSUME NEW c \in Calls, CallRelation(c) PROVE AttemptInv' /\ EdgeInv'
  BY <1>3, CallsKeepOutcomes
<1>4. ASSUME NEW i \in Invocations, Computes(i) PROVE AttemptInv' /\ EdgeInv'
  BY <1>4, ComputesKeepsOutcomes, ComputesKeepsEdges DEF Computes
<1>5. CASE Closes \/ Crash \/ OpensConversation
  BY <1>5, EndsKeepOutcomes DEF Closes, Crash, OpensConversation
<1>6. CASE Instantiates \/ FilesChange \/ OtherNeedsGraph
  BY <1>1, <1>6 DEF Instantiates, FilesChange, OtherNeedsGraph, callVars
<1>7. CASE UNCHANGED runtimeVars
  BY <1>1, <1>7 DEF runtimeVars, callVars
<1> QED
  BY <1>2, <1>3, <1>4, <1>5, <1>6, <1>7 DEF RuntimeNext

LEMMA OutcomesInit == RuntimeInit => AttemptInv /\ EdgeInv
<1> SUFFICES ASSUME RuntimeInit PROVE AttemptInv /\ EdgeInv
  OBVIOUS
<1>1. /\ at = [i \in Invocations |-> "idle"] /\ attempts = [i \in Invocations |-> <<>>]
      /\ edges = [c \in Calls |-> "none"] /\ listed = [c \in Calls |-> {}]
  BY DEF RuntimeInit, CallsInit
<1>2. <<>> \in Seq({}) /\ DOMAIN <<>> = {}
  OBVIOUS
<1>3. \A i \in Invocations : attempts[i] = <<>>
  BY <1>1
<1>4. AttemptInv
  BY <1>1, <1>2, <1>3 DEF AttemptInv, AttemptTypes
<1>5. EdgeInv
  BY <1>1 DEF EdgeInv, Places, InThread, Over, Invocations
<1> QED
  BY <1>4, <1>5

\* The table of attempts says how each ended and the table of edges how each call did, for any
\* nesting of calls and any errors, although recoveries give up runs at work
\* (record_model_attempt_finished, ToolCallEdgeRecorder, reconcile_incomplete_commits): but for
\* an attempt that ends between the reading and the writing of a recovery.
THEOREM OutcomesSurviveRecoveryCorrect == RuntimeSpec => []OutcomesSurviveRecovery
<1>1. AttemptInv /\ EdgeInv => OutcomesSurviveRecovery
  BY DEF AttemptInv, EdgeInv, OutcomesSurviveRecovery
<1> QED
  BY <1>1, OutcomesInit, OutcomesStep, PTL DEF RuntimeSpec

----------------------------------------------------------------------------
(* Attempts that are shown as running.                                      *)

\* Who works, for whom, and what the store says of the runs.
WorkInv ==
  /\ at \in [Invocations -> Places] /\ commit \in [Runs -> {"none", "pending", "committed", "orphaned"}]
  /\ delivered \in [Runs -> BOOLEAN]
  /\ \A i \in Invocations : at[i] # "idle" => at[Top[i]] # "idle"
  /\ \A c \in Calls : at[c] = "asked" => at[Caller[c]] = "tools"
  /\ \A i \in Invocations : at[i] \in InThread => commit[Top[i]] = "pending" \/ Top[i] \in outlived
  /\ \A c \in Calls : at[c] \in InThread /\ at[Top[c]] \in Over => Top[c] \in outlived
  /\ \A i \in Invocations : at[i] = "lost" => at[Top[i]] \in Over
  /\ \A r \in Runs : /\ commit[r] = "pending" => ~delivered[r] /\ at[r] # "idle"
                     /\ delivered[r] => at[r] # "idle"
  /\ stage # "ready" => \A i \in Invocations : at[i] \in Over \union {"stuck"}

LEMMA RunsOfCalls ==
  /\ \A i \in Invocations : Top[i] \in Runs
  /\ \A r \in Runs : Top[r] = r /\ r \in Invocations /\ r \notin Calls
  /\ \A c \in Calls : /\ Top[c] = Top[Caller[c]] /\ Caller[c] \in Invocations
                      /\ c \in Invocations /\ c \notin Runs
<1>1. Top \in [Invocations -> Runs] /\ RunOfCallers(Top)
  BY CallsAssumption DEF Top
<1> QED
  BY <1>1, CallsAssumption DEF RunOfCallers, Invocations

\* An invocation that works goes on, or a call that works ends.
LEMMA GoingOnKeepsWork ==
  ASSUME WorkInv, NEW i \in Invocations, NEW to, Moves(i, to),
         UNCHANGED <<stage, commit, delivered, outlived>>,
         at[i] \in InThread, to \in InThread \/ (i \in Calls /\ to \in {"returned", "failed"}),
         at[i] = "tools" => \A c \in CallsOf(i) : at[c] # "asked"
  PROVE  WorkInv'
<1> USE DEF Places, InThread, Over
<1>1. /\ at' \in [Invocations -> Places] /\ at'[i] = to
      /\ \A j \in Invocations : j # i => at'[j] = at[j]
  BY DEF WorkInv, Moves
<1>2. \A j \in Invocations : at'[j] # "idle" => at'[Top[j]] # "idle"
  BY <1>1, RunsOfCalls DEF WorkInv
<1>3. ASSUME NEW c \in Calls, at'[c] = "asked" PROVE at'[Caller[c]] = "tools"
  <2>1. c # i /\ at[c] = "asked" /\ at[Caller[c]] = "tools"
    BY <1>1, <1>3, RunsOfCalls DEF WorkInv
  <2>2. Caller[c] # i
    BY <2>1 DEF CallsOf
  <2> QED
    BY <1>1, <2>1, <2>2, RunsOfCalls
<1>4. \A j \in Invocations : at'[j] \in InThread => commit[Top[j]] = "pending" \/ Top[j] \in outlived
  BY <1>1 DEF WorkInv
<1>5. ASSUME NEW c \in Calls, at'[c] \in InThread, at'[Top[c]] \in Over PROVE Top[c] \in outlived
  <2>1. at[c] \in InThread
    BY <1>1, <1>5, RunsOfCalls
  <2>2. Top[c] # i
    BY <1>1, <1>5, RunsOfCalls
  <2> QED
    BY <1>1, <1>5, <2>1, <2>2, RunsOfCalls DEF WorkInv
<1>6. \A j \in Invocations : at'[j] = "lost" => at'[Top[j]] \in Over
  <2> SUFFICES ASSUME NEW j \in Invocations, at'[j] = "lost" PROVE at'[Top[j]] \in Over
    OBVIOUS
  <2>1. j # i /\ at[j] = "lost" /\ at[Top[j]] \in Over
    BY <1>1 DEF WorkInv
  <2> QED
    BY <1>1, <2>1, RunsOfCalls
<1>7. \A r \in Runs : at[r] # "idle" => at'[r] # "idle"
  BY <1>1, RunsOfCalls
<1>8. stage = "ready"
  BY DEF WorkInv
<1> QED
  BY <1>1, <1>2, <1>3, <1>4, <1>5, <1>6, <1>7, <1>8 DEF WorkInv

\* The answer of a model asks for calls.
LEMMA AskingKeepsWork ==
  ASSUME WorkInv, NEW i \in Invocations, at[i] = "attempting",
         NEW asked \in SUBSET {c \in CallsOf(i) : at[c] = "idle"},
         at' = [j \in Invocations |->
                  IF j = i THEN "tools" ELSE IF j \in asked THEN "asked" ELSE at[j]],
         UNCHANGED <<stage, commit, delivered, outlived>>
  PROVE  WorkInv'
<1> USE DEF Places, InThread, Over
<1>1. /\ at' \in [Invocations -> Places] /\ at'[i] = "tools"
      /\ \A j \in asked : j \in Calls /\ Caller[j] = i /\ at[j] = "idle" /\ at'[j] = "asked"
      /\ \A j \in Invocations : j # i /\ j \notin asked => at'[j] = at[j]
  BY RunsOfCalls DEF WorkInv, CallsOf
<1>2. ASSUME NEW j \in Invocations, at'[j] # "idle" PROVE at'[Top[j]] # "idle"
  <2>1. at[Top[j]] # "idle"
    <3>1. CASE j \in asked
      BY <1>1, <3>1, RunsOfCalls DEF WorkInv
    <3>2. CASE j \notin asked
      BY <1>1, <1>2, <3>2 DEF WorkInv
    <3> QED
      BY <3>1, <3>2
  <2> QED
    BY <1>1, <2>1, RunsOfCalls
<1>3. ASSUME NEW c \in Calls, at'[c] = "asked" PROVE at'[Caller[c]] = "tools"
  <2>1. CASE c \in asked
    BY <1>1, <2>1
  <2>2. CASE c \notin asked
    <3>1. at[c] = "asked" /\ at[Caller[c]] = "tools"
      BY <1>1, <1>3, <2>2, RunsOfCalls DEF WorkInv
    <3> QED
      BY <1>1, <3>1, RunsOfCalls
  <2> QED
    BY <2>1, <2>2
<1>4. \A j \in Invocations : at'[j] \in InThread => at[j] \in InThread
  BY <1>1
<1>5. \A r \in Runs : at'[r] \in Over => at[r] \in Over
  BY <1>1, RunsOfCalls
<1>6. ASSUME NEW j \in Invocations, at'[j] = "lost" PROVE at'[Top[j]] \in Over
  <2>1. at[j] = "lost" /\ at[Top[j]] \in Over
    BY <1>1, <1>6 DEF WorkInv
  <2> QED
    BY <1>1, <2>1, RunsOfCalls
<1>7. \A r \in Runs : at[r] # "idle" => at'[r] # "idle"
  BY <1>1, RunsOfCalls
<1>8. stage = "ready"
  BY DEF WorkInv
<1>9. \A c \in Calls : at'[c] \in InThread /\ at'[Top[c]] \in Over => Top[c] \in outlived
  BY <1>4, <1>5, RunsOfCalls DEF WorkInv
<1> QED
  BY <1>1, <1>2, <1>3, <1>4, <1>6, <1>7, <1>8, <1>9 DEF WorkInv

\* The tools of an invocation raise.
LEMMA RaisingKeepsWork ==
  ASSUME WorkInv, NEW i \in Invocations, at[i] = "tools",
         at' = [j \in Invocations |->
                  IF j = i THEN "raised"
                  ELSE IF j \in CallsOf(i) /\ at[j] = "asked" THEN "dropped" ELSE at[j]],
         UNCHANGED <<stage, commit, delivered, outlived>>
  PROVE  WorkInv'
<1> USE DEF Places, InThread, Over
<1>1. /\ at' \in [Invocations -> Places] /\ at'[i] = "raised"
      /\ \A j \in Invocations : \/ j = i
                                \/ at'[j] = at[j]
                                \/ j \in CallsOf(i) /\ at[j] = "asked" /\ at'[j] = "dropped"
  BY DEF WorkInv
<1>2. ASSUME NEW r \in Runs
      PROVE  (at[r] # "idle" => at'[r] # "idle") /\ (at'[r] \in Over <=> at[r] \in Over)
  <2>1. r \notin CallsOf(i)
    BY RunsOfCalls DEF CallsOf
  <2> QED
    BY <1>1, <2>1, RunsOfCalls
<1>3. ASSUME NEW j \in Invocations, at'[j] # "idle" PROVE at'[Top[j]] # "idle"
  BY <1>1, <1>2, <1>3, RunsOfCalls DEF WorkInv
<1>4. ASSUME NEW c \in Calls, at'[c] = "asked" PROVE at'[Caller[c]] = "tools"
  <2>1. at[c] = "asked" /\ at[Caller[c]] = "tools" /\ c \notin CallsOf(i)
    BY <1>1, <1>4, RunsOfCalls DEF WorkInv
  <2> QED
    BY <1>1, <2>1, RunsOfCalls DEF CallsOf
<1>5. \A j \in Invocations : at'[j] \in InThread => at[j] \in InThread
  BY <1>1
<1>6. ASSUME NEW j \in Invocations, at'[j] = "lost" PROVE at'[Top[j]] \in Over
  <2>1. at[j] = "lost" /\ at[Top[j]] \in Over
    BY <1>1, <1>6 DEF WorkInv
  <2> QED
    BY <1>2, <2>1, RunsOfCalls
<1>7. stage = "ready"
  BY DEF WorkInv
<1>8. \A c \in Calls : at'[c] \in InThread /\ at'[Top[c]] \in Over => Top[c] \in outlived
  BY <1>2, <1>5, RunsOfCalls DEF WorkInv
<1> QED
  BY <1>1, <1>2, <1>3, <1>4, <1>5, <1>6, <1>7, <1>8 DEF WorkInv

\* A run begins, or ends and may leave calls behind.
LEMMA RunsKeepWork ==
  ASSUME WorkInv, UNCHANGED stage, NEW r \in Runs,
         EndRun(r) \/ (stage = "ready" /\ \E to \in {"thinking", "raised"} : StartRun(r, to))
  PROVE  WorkInv'
<1> USE DEF Places, InThread, Over
<1>1. CASE EndRun(r)
  <2>1. PICK to \in {"returned", "failed"} : Moves(r, to)
    BY <1>1 DEF EndRun
  <2>2. /\ at[r] \in {"answered", "raised"} /\ delivered' = [delivered EXCEPT ![r] = TRUE]
        /\ commit' = [commit EXCEPT ![r] = IF @ = "orphaned" THEN @ ELSE "committed"]
        /\ outlived' = IF \E c \in ThreadsUsed : Top[c] = r THEN outlived \union {r} ELSE outlived
    BY <1>1 DEF EndRun
  <2>3. /\ at' \in [Invocations -> Places] /\ at'[r] = to
        /\ \A j \in Invocations : j # r => at'[j] = at[j]
    BY <2>1, RunsOfCalls DEF WorkInv, Moves
  <2>4. /\ delivered' \in [Runs -> BOOLEAN] /\ outlived \subseteq outlived'
        /\ commit' \in [Runs -> {"none", "pending", "committed", "orphaned"}]
        /\ \A q \in Runs : q # r => commit'[q] = commit[q] /\ delivered'[q] = delivered[q]
        /\ commit'[r] # "pending"
    BY <2>2 DEF WorkInv
  <2>5. ASSUME NEW j \in Invocations, at'[j] # "idle" PROVE at'[Top[j]] # "idle"
    BY <2>2, <2>3, <2>5, RunsOfCalls DEF WorkInv
  <2>6. ASSUME NEW c \in Calls, at'[c] = "asked" PROVE at'[Caller[c]] = "tools"
    <3>1. at[c] = "asked" /\ at[Caller[c]] = "tools"
      BY <2>3, <2>6, RunsOfCalls DEF WorkInv
    <3> QED
      BY <2>2, <2>3, <3>1, RunsOfCalls
  <2>7. ASSUME NEW c \in Calls, at[c] \in InThread, Top[c] = r PROVE r \in outlived'
    BY <2>2, <2>7 DEF ThreadsUsed
  <2>8. ASSUME NEW j \in Invocations, at'[j] \in InThread
        PROVE  commit'[Top[j]] = "pending" \/ Top[j] \in outlived'
    <3>1. j # r /\ at[j] \in InThread
      BY <2>3, <2>8
    <3>2. CASE Top[j] = r
      <4>1. j \in Calls
        BY <3>1, <3>2, RunsOfCalls DEF Invocations
      <4> QED
        BY <2>7, <3>1, <3>2, <4>1
    <3>3. CASE Top[j] # r
      BY <2>4, <3>1, <3>3, RunsOfCalls DEF WorkInv
    <3> QED
      BY <3>2, <3>3
  <2>9. ASSUME NEW c \in Calls, at'[c] \in InThread, at'[Top[c]] \in Over PROVE Top[c] \in outlived'
    <3>1. at[c] \in InThread
      BY <2>3, <2>9, RunsOfCalls
    <3>2. Top[c] # r => Top[c] \in outlived
      BY <2>3, <2>9, <3>1, RunsOfCalls DEF WorkInv
    <3> QED
      BY <2>4, <2>7, <3>1, <3>2
  <2>10. ASSUME NEW j \in Invocations, at'[j] = "lost" PROVE at'[Top[j]] \in Over
    <3>1. at[j] = "lost" /\ at[Top[j]] \in Over
      BY <2>3, <2>10 DEF WorkInv
    <3> QED
      BY <2>3, <3>1, RunsOfCalls
  <2>11. ASSUME NEW q \in Runs
         PROVE  /\ commit'[q] = "pending" => ~delivered'[q] /\ at'[q] # "idle"
                /\ delivered'[q] => at'[q] # "idle"
    BY <2>3, <2>4, RunsOfCalls DEF WorkInv
  <2>12. stage = "ready"
    BY <2>2, RunsOfCalls DEF WorkInv
  <2> QED
    BY <2>3, <2>4, <2>5, <2>6, <2>8, <2>9, <2>10, <2>11, <2>12 DEF WorkInv
<1>2. ASSUME stage = "ready", NEW to \in {"thinking", "raised"}, StartRun(r, to) PROVE WorkInv'
  <2>1. /\ at[r] = "idle" /\ Moves(r, to) /\ commit' = [commit EXCEPT ![r] = "pending"]
        /\ UNCHANGED <<delivered, outlived>>
    BY <1>2 DEF StartRun
  <2>2. /\ at' \in [Invocations -> Places] /\ at'[r] = to
        /\ \A j \in Invocations : j # r => at'[j] = at[j]
    BY <2>1, RunsOfCalls DEF WorkInv, Moves
  <2>3. /\ commit' \in [Runs -> {"none", "pending", "committed", "orphaned"}] /\ commit'[r] = "pending"
        /\ \A q \in Runs : q # r => commit'[q] = commit[q]
    BY <2>1 DEF WorkInv
  <2>4. ASSUME NEW j \in Invocations, Top[j] = r, at[j] # "idle" PROVE FALSE
    BY <2>1, <2>4 DEF WorkInv
  <2>5. ASSUME NEW j \in Invocations, at'[j] # "idle" PROVE at'[Top[j]] # "idle"
    BY <2>2, <2>5, RunsOfCalls DEF WorkInv
  <2>6. ASSUME NEW c \in Calls, at'[c] = "asked" PROVE at'[Caller[c]] = "tools"
    <3>1. at[c] = "asked" /\ at[Caller[c]] = "tools"
      BY <2>2, <2>6, RunsOfCalls DEF WorkInv
    <3> QED
      BY <2>1, <2>2, <3>1, RunsOfCalls
  <2>7. ASSUME NEW j \in Invocations, at'[j] \in InThread
        PROVE  commit'[Top[j]] = "pending" \/ Top[j] \in outlived
    BY <2>2, <2>3, <2>7, RunsOfCalls DEF WorkInv
  <2>8. ASSUME NEW c \in Calls, at'[c] \in InThread, at'[Top[c]] \in Over PROVE Top[c] \in outlived
    <3>1. at[c] \in InThread
      BY <2>2, <2>8, RunsOfCalls
    <3> QED
      BY <2>2, <2>8, <3>1, RunsOfCalls DEF WorkInv
  <2>9. ASSUME NEW j \in Invocations, at'[j] = "lost" PROVE at'[Top[j]] \in Over
    <3>1. at[j] = "lost" /\ at[Top[j]] \in Over /\ Top[j] # r
      BY <2>2, <2>4, <2>9 DEF WorkInv
    <3> QED
      BY <2>2, <3>1, RunsOfCalls
  <2>10. ASSUME NEW q \in Runs
         PROVE  /\ commit'[q] = "pending" => ~delivered[q] /\ at'[q] # "idle"
                /\ delivered[q] => at'[q] # "idle"
    <3>1. CASE q = r
      BY <2>1, <2>2, <3>1 DEF WorkInv
    <3>2. CASE q # r
      BY <2>2, <2>3, <3>2, RunsOfCalls DEF WorkInv
    <3> QED
      BY <3>1, <3>2
  <2> QED
    BY <1>2, <2>1, <2>2, <2>3, <2>5, <2>6, <2>7, <2>8, <2>9, <2>10 DEF WorkInv
<1> QED
  BY <1>1, <1>2

\* What a recovery makes of the runs.
LEMMA RecoveredRuns ==
  ASSUME WorkInv, RunsReconciled
  PROVE  /\ commit' \in [Runs -> {"none", "pending", "committed", "orphaned"}]
         /\ delivered' \in [Runs -> BOOLEAN]
         /\ \A r \in Runs :
              /\ commit'[r] # "pending"
              /\ commit[r] = "pending" => r \in Interrupted /\ at[r] # "idle"
              /\ commit[r] # "pending" => commit'[r] = commit[r]
              /\ delivered'[r] => at[r] # "idle"
<1>1. /\ commit' = [r \in Runs |-> IF commit[r] # "pending" THEN commit[r]
                                   ELSE IF HasDelivery(r) THEN "committed" ELSE "orphaned"]
      /\ delivered' = [r \in Runs |-> delivered[r] \/ r \in Interrupted]
  BY DEF RunsReconciled
<1>2. \A r \in Runs : delivered[r] \in BOOLEAN /\ (delivered[r] \/ r \in Interrupted) \in BOOLEAN
  BY DEF WorkInv
<1>3. delivered' \in [Runs -> BOOLEAN]
  BY <1>1, <1>2
<1>4. \A r \in Runs : commit[r] = "pending" => r \in Interrupted /\ at[r] # "idle"
  BY DEF WorkInv, Interrupted, HasDelivery
<1>5. \A r \in Runs : r \in Interrupted => commit[r] = "pending"
  BY DEF Interrupted
<1>6. \A r \in Runs : delivered'[r] => at[r] # "idle"
  BY <1>1, <1>4, <1>5 DEF WorkInv
<1>7. commit' \in [Runs -> {"none", "pending", "committed", "orphaned"}]
  BY <1>1 DEF WorkInv
<1>8. \A r \in Runs : commit'[r] # "pending" /\ (commit[r] # "pending" => commit'[r] = commit[r])
  BY <1>1
<1> QED
  BY <1>3, <1>4, <1>6, <1>7, <1>8

\* A call begins to recover the store, or fails at once.
LEMMA CallsKeepWork ==
  ASSUME WorkInv, UNCHANGED stage, stage = "ready", NEW c \in Calls, Resolve(c) \/ RaisesAtOnce(c)
  PROVE  WorkInv'
<1> USE DEF Places, InThread, Over
<1>1. PICK to \in {"recovering", "failed"} : Moves(c, to)
  BY DEF Resolve, RaisesAtOnce
<1>2. at[c] = "asked" /\ at[Caller[c]] = "tools"
  BY DEF Resolve, RaisesAtOnce, WorkInv
<1>3. /\ at' \in [Invocations -> Places] /\ at'[c] = to
      /\ \A j \in Invocations : j # c => at'[j] = at[j]
  BY <1>1, RunsOfCalls DEF WorkInv, Moves
<1>4. \/ UNCHANGED <<commit, delivered, outlived>>
      \/ RunsReconciled /\ outlived' = outlived \union Interrupted
  BY DEF Resolve, RaisesAtOnce
<1>5. /\ commit' \in [Runs -> {"none", "pending", "committed", "orphaned"}]
      /\ delivered' \in [Runs -> BOOLEAN] /\ outlived \subseteq outlived'
      /\ \A r \in Runs :
           /\ commit[r] = "pending" => commit'[r] = "pending" \/ r \in outlived'
           /\ commit'[r] = "pending" => ~delivered'[r] /\ at[r] # "idle"
           /\ delivered'[r] => at[r] # "idle"
  <2>1. CASE UNCHANGED <<commit, delivered, outlived>>
    BY <2>1 DEF WorkInv
  <2>2. CASE RunsReconciled /\ outlived' = outlived \union Interrupted
    BY <2>2, RecoveredRuns
  <2> QED
    BY <1>4, <2>1, <2>2
<1>6. at[c] # "idle" /\ Top[c] # c /\ Caller[c] # c
  BY <1>2, RunsOfCalls
<1>7. ASSUME NEW j \in Invocations, at'[j] # "idle" PROVE at'[Top[j]] # "idle"
  BY <1>2, <1>3, <1>7, RunsOfCalls DEF WorkInv
<1>8. ASSUME NEW d \in Calls, at'[d] = "asked" PROVE at'[Caller[d]] = "tools"
  <2>1. at[d] = "asked" /\ at[Caller[d]] = "tools"
    BY <1>3, <1>8, RunsOfCalls DEF WorkInv
  <2> QED
    BY <1>2, <1>3, <2>1, RunsOfCalls
<1>9. ASSUME NEW j \in Invocations, at'[j] \in InThread
      PROVE  commit'[Top[j]] = "pending" \/ Top[j] \in outlived'
  <2>1. commit[Top[j]] = "pending" \/ Top[j] \in outlived
    <3>1. CASE j = c
      <4>1. Caller[c] \in Invocations /\ at[Caller[c]] \in InThread /\ Top[c] = Top[Caller[c]]
        BY <1>2, RunsOfCalls
      <4> QED
        BY <3>1, <4>1 DEF WorkInv
    <3>2. CASE j # c
      BY <1>3, <1>9, <3>2 DEF WorkInv
    <3> QED
      BY <3>1, <3>2
  <2> QED
    BY <1>5, <2>1, RunsOfCalls
<1>10. ASSUME NEW d \in Calls, at'[d] \in InThread, at'[Top[d]] \in Over PROVE Top[d] \in outlived'
  <2>1. at[Top[d]] \in Over
    BY <1>3, <1>10, RunsOfCalls
  <2>2. Top[d] \in outlived
    <3>1. CASE d = c
      <4>1. Caller[c] \in Calls
        BY <1>2, <2>1, <3>1, RunsOfCalls DEF Invocations
      <4>2. at[Caller[c]] \in InThread /\ at[Top[Caller[c]]] \in Over
        BY <1>2, <2>1, <3>1, RunsOfCalls
      <4>3. Top[Caller[c]] \in outlived
        BY <4>1, <4>2 DEF WorkInv
      <4> QED
        BY <3>1, <4>3, RunsOfCalls
    <3>2. CASE d # c
      <4>1. at[d] \in InThread
        BY <1>3, <1>10, <3>2, RunsOfCalls
      <4> QED
        BY <2>1, <4>1 DEF WorkInv
    <3> QED
      BY <3>1, <3>2
  <2> QED
    BY <1>5, <2>2
<1>11. ASSUME NEW j \in Invocations, at'[j] = "lost" PROVE at'[Top[j]] \in Over
  <2>1. at[j] = "lost" /\ at[Top[j]] \in Over
    BY <1>3, <1>11 DEF WorkInv
  <2> QED
    BY <1>2, <1>3, <2>1, RunsOfCalls
<1>12. \A r \in Runs : at'[r] = at[r]
  BY <1>3, RunsOfCalls
<1> QED
  BY <1>3, <1>5, <1>7, <1>8, <1>9, <1>10, <1>11, <1>12 DEF WorkInv

\* The process dies, the team is closed, or the store is opened when nothing works.
LEMMA EndsKeepWork ==
  ASSUME WorkInv, CallsCrash \/ CallsClosed \/ (UNCHANGED at /\ stage = "opened" /\ CallsRecovered)
  PROVE  WorkInv'
<1> USE DEF Places, InThread, Over
<1>1. CASE CallsCrash
  <2>1. /\ at' = [i \in Invocations |-> IF at[i] \in Over THEN at[i] ELSE "lost"]
        /\ UNCHANGED <<commit, delivered, outlived>>
    BY <1>1 DEF CallsCrash
  <2>2. at' \in [Invocations -> Places] /\ \A i \in Invocations : at'[i] \in Over
    BY <2>1 DEF WorkInv
  <2>3. \A i \in Invocations : at'[i] = "idle" <=> at[i] = "idle"
    BY <2>1
  <2>4. \A c \in Calls : at'[c] \in Over /\ at'[c] # "asked" /\ at'[c] \notin InThread
    BY <2>2, RunsOfCalls
  <2>5. \A i \in Invocations : at'[i] \notin InThread /\ at'[Top[i]] \in Over
    BY <2>2, RunsOfCalls
  <2>6. \A i \in Invocations : at'[i] # "idle" => at'[Top[i]] # "idle"
    BY <2>3, RunsOfCalls DEF WorkInv
  <2>7. \A r \in Runs : at'[r] = "idle" <=> at[r] = "idle"
    BY <2>3, RunsOfCalls
  <2> QED
    BY <2>1, <2>2, <2>4, <2>5, <2>6, <2>7 DEF WorkInv
<1>2. CASE CallsClosed
  <2>1. /\ at' = [i \in Invocations |->
                    CASE at[i] \in {"thinking", "attempting", "tools"} -> "stuck"
                      [] at[i] \in {"asked", "waiting"} -> "dropped"
                      [] OTHER -> at[i]]
        /\ UNCHANGED <<commit, delivered, outlived>>
        /\ \A r \in Runs : at[r] \in Over
        /\ \A c \in Calls : at[c] \notin {"recovering", "answered", "raised"}
    BY <1>2 DEF CallsClosed
  <2>2. /\ at' \in [Invocations -> Places]
        /\ \A i \in Invocations : at[i] \in Over => at'[i] = at[i]
        /\ \A i \in Invocations : at'[i] # "asked" /\ (at'[i] = "idle" => at[i] = "idle")
        /\ \A i \in Invocations : at'[i] = "lost" => at[i] = "lost"
    BY <2>1 DEF WorkInv
  <2>3. \A i \in Invocations : at[i] \notin {"recovering", "answered", "raised"}
    BY <2>1 DEF Invocations
  <2>4. \A i \in Invocations : at'[i] \in Over \union {"stuck"}
    BY <2>1, <2>3 DEF WorkInv
  <2>5. \A r \in Runs : at'[r] = at[r] /\ at'[r] \in Over
    BY <2>1, <2>2, RunsOfCalls
  <2>6. \A i \in Invocations : at'[i] # "idle" => at'[Top[i]] # "idle"
    <3>1. \A i \in Invocations : at[i] = "idle" => at'[i] = "idle"
      BY <2>2
    <3> QED
      BY <2>5, <3>1, RunsOfCalls DEF WorkInv
  <2>7. /\ \A i \in Invocations : at'[i] \notin InThread /\ at'[Top[i]] \in Over
        /\ \A c \in Calls : at'[c] # "asked" /\ at'[c] \notin InThread
    BY <2>2, <2>4, <2>5, RunsOfCalls
  <2> QED
    BY <2>1, <2>2, <2>4, <2>5, <2>6, <2>7 DEF WorkInv
<1>3. CASE UNCHANGED at /\ stage = "opened" /\ CallsRecovered
  <2>1. RunsReconciled /\ UNCHANGED <<at, outlived>>
    BY <1>3 DEF CallsRecovered
  <2>2. \A i \in Invocations : at[i] \in Over \union {"stuck"}
    BY <1>3 DEF WorkInv
  <2>3. /\ \A i \in Invocations : at'[i] \notin InThread
        /\ \A c \in Calls : at'[c] \notin InThread
    BY <2>1, <2>2, RunsOfCalls
  <2>4. /\ commit' \in [Runs -> {"none", "pending", "committed", "orphaned"}]
        /\ delivered' \in [Runs -> BOOLEAN]
        /\ \A r \in Runs : commit'[r] # "pending" /\ (delivered'[r] => at[r] # "idle")
    BY <2>1, RecoveredRuns
  <2> QED
    BY <2>1, <2>2, <2>3, <2>4 DEF WorkInv
<1> QED
  BY <1>1, <1>2, <1>3

\* What the thread or the coroutine of an invocation does.
LEMMA ComputesKeepsWork ==
  ASSUME WorkInv, NEW i \in Invocations, Works(i), UNCHANGED stage
  PROVE  WorkInv'
<1> USE DEF InThread
<1>1. CASE StartAttempt(i)
  BY <1>1, GoingOnKeepsWork DEF StartAttempt
<1>2. CASE AttemptAnswers(i)
  <2>1. at[i] = "attempting" /\ UNCHANGED <<stage, commit, delivered, outlived>>
    BY <1>2 DEF AttemptAnswers
  <2>2. CASE Moves(i, "answered")
    BY <2>1, <2>2, GoingOnKeepsWork
  <2>3. ASSUME NEW asked \in SUBSET {c \in CallsOf(i) \intersect remains.calls : at[c] = "idle"},
               at' = [j \in Invocations |->
                        IF j = i THEN "tools" ELSE IF j \in asked THEN "asked" ELSE at[j]]
        PROVE  WorkInv'
    <3>1. asked \in SUBSET {c \in CallsOf(i) : at[c] = "idle"}
      OBVIOUS
    <3> QED
      BY <2>1, <2>3, <3>1, AskingKeepsWork
  <2> QED
    BY <1>2, <2>2, <2>3 DEF AttemptAnswers
<1>3. ASSUME NEW error \in Errors, AttemptFails(i, error) PROVE WorkInv'
  <2>1. /\ at[i] = "attempting" /\ UNCHANGED <<stage, commit, delivered, outlived>>
        /\ Moves(i, "thinking") \/ Moves(i, "raised")
    BY <1>3 DEF AttemptFails
  <2> QED
    BY <2>1, GoingOnKeepsWork
<1>4. CASE ToolsEnd(i)
  <2>1. at[i] = "tools" /\ UNCHANGED <<stage, commit, delivered, outlived>>
    BY <1>4 DEF ToolsEnd
  <2>2. CASE Moves(i, "thinking") /\ \A c \in CallsOf(i) : at[c] \in {"idle", "returned"}
    BY <2>1, <2>2, GoingOnKeepsWork
  <2>3. CASE at' = [j \in Invocations |->
                      IF j = i THEN "raised"
                      ELSE IF j \in CallsOf(i) /\ at[j] = "asked" THEN "dropped" ELSE at[j]]
    BY <2>1, <2>3, RaisingKeepsWork
  <2> QED
    BY <1>4, <2>2, <2>3 DEF ToolsEnd
<1>5. CASE i \in Runs /\ EndRun(i)
  BY <1>5, RunsKeepWork
<1>6. CASE i \in Calls /\ Recover(i)
  BY <1>6, GoingOnKeepsWork DEF Recover
<1>7. CASE i \in Calls /\ Enter(i)
  BY <1>7, GoingOnKeepsWork DEF Enter
<1>8. CASE i \in Calls /\ Return(i)
  <2>1. /\ at[i] \in {"answered", "raised"} /\ UNCHANGED <<stage, commit, delivered, outlived>>
        /\ Moves(i, "returned") \/ Moves(i, "failed")
    BY <1>8 DEF Return
  <2> QED
    BY <1>8, <2>1, GoingOnKeepsWork
<1> QED
  BY <1>1, <1>2, <1>3, <1>4, <1>5, <1>6, <1>7, <1>8 DEF Works

LEMMA WorkStep ==
  ASSUME WorkInv, [RuntimeNext]_runtimeVars
  PROVE  WorkInv'
<1>1. CASE UNCHANGED <<at, commit, delivered, outlived>> /\ (stage' # "ready" => stage # "ready")
  BY <1>1 DEF WorkInv
<1>2. ASSUME NEW r \in Runs, RunStarts(r) PROVE WorkInv'
  <2>1. UNCHANGED stage /\ stage = "ready" /\ \E to \in {"thinking", "raised"} : StartRun(r, to)
    BY <1>2 DEF RunStarts, NeedsGraph, AskGraph, teamVars
  <2> QED
    BY <2>1, RunsKeepWork
<1>3. ASSUME NEW c \in Calls, CallRelation(c) PROVE WorkInv'
  <2>1. UNCHANGED stage /\ stage = "ready" /\ (Resolve(c) \/ RaisesAtOnce(c))
    BY <1>3 DEF CallRelation, NeedsGraph, AskGraph, teamVars
  <2> QED
    BY <2>1, CallsKeepWork
<1>4. ASSUME NEW i \in Invocations, Computes(i) PROVE WorkInv'
  BY <1>4, ComputesKeepsWork DEF Computes, teamVars
<1>5. CASE Closes \/ Crash
  BY <1>5, EndsKeepWork DEF Closes, Crash
<1>6. CASE OpensConversation
  BY <1>6, EndsKeepWork DEF OpensConversation, CallsRecovered
<1>7. CASE Instantiates
  BY <1>1, <1>7
  DEF Instantiates, Load, OpenCheckpointer, CheckpointerFails, BuildFails, ConversationFails, Build, callVars
<1>8. CASE FilesChange \/ OtherNeedsGraph
  BY <1>1, <1>8 DEF FilesChange, EditFile, ChangeSkill, OtherNeedsGraph, AskGraph, callVars
<1>9. CASE UNCHANGED runtimeVars
  BY <1>1, <1>9 DEF runtimeVars, teamVars, callVars
<1> QED
  BY <1>2, <1>3, <1>4, <1>5, <1>6, <1>7, <1>8, <1>9 DEF RuntimeNext

\* Only the last attempt of an invocation can be running, while the invocation attempts, or
\* after the crash that cut it as long as its run is pending.
RunningInv ==
  \A i \in Invocations : \A n \in DOMAIN attempts[i] :
    attempts[i][n].status = "running" =>
      \/ Top[i] \in outlived
      \/ /\ n = Len(attempts[i])
         /\ at[i] = "attempting" \/ (at[i] = "lost" /\ commit[Top[i]] = "pending")

\* A step that leaves the attempts alone.
LEMMA AttemptsStayCut ==
  ASSUME RunningInv, UNCHANGED attempts, outlived \subseteq outlived',
         \A i \in Invocations : Top[i] \notin outlived' =>
           /\ at[i] = "attempting" =>
                at'[i] = "attempting" \/ (at'[i] = "lost" /\ commit'[Top[i]] = "pending")
           /\ at[i] = "lost" /\ commit[Top[i]] = "pending" =>
                at'[i] = "lost" /\ commit'[Top[i]] = "pending"
  PROVE  RunningInv'
BY DEF RunningInv

LEMMA StartAttemptIsRunning ==
  ASSUME AttemptInv, WorkInv, RunningInv, NEW i \in Invocations, StartAttempt(i)
  PROVE  RunningInv'
<1> DEFINE new == [number |-> count[Top[i]] + 1, status |-> "running", outcome |-> "none"]
<1>1. /\ attempts' = [attempts EXCEPT ![i] = Append(attempts[i], new)]
      /\ at[i] = "thinking" /\ at' = [at EXCEPT ![i] = "attempting"] /\ UNCHANGED <<commit, outlived>>
  BY DEF StartAttempt, Attempted, Moves
<1> HIDE DEF new
<1>2. PICK S : attempts[i] \in Seq(S)
  BY DEF AttemptInv, AttemptTypes
<1>3. attempts[i] \in Seq(S \union {new}) /\ new \in S \union {new}
  BY <1>2
<1>4. /\ DOMAIN attempts[i] = 1 .. Len(attempts[i]) /\ Len(attempts[i]) \in Nat
      /\ DOMAIN Append(attempts[i], new) = 1 .. Len(attempts[i]) + 1
      /\ Len(Append(attempts[i], new)) = Len(attempts[i]) + 1
      /\ \A n \in 1 .. Len(attempts[i]) : Append(attempts[i], new)[n] = attempts[i][n]
  BY <1>3
<1>5. /\ attempts'[i] = Append(attempts[i], new) /\ at'[i] = "attempting"
      /\ \A j \in Invocations : j # i => attempts'[j] = attempts[j] /\ at'[j] = at[j]
  BY <1>1 DEF AttemptInv, AttemptTypes, WorkInv
<1>6. ASSUME NEW n \in DOMAIN attempts'[i], attempts'[i][n].status = "running"
      PROVE  Top[i] \in outlived \/ n = Len(attempts'[i])
  <2>1. n \in DOMAIN attempts[i] /\ n # Len(attempts'[i]) => attempts[i][n].status = "running"
    BY <1>4, <1>5, <1>6
  <2>2. n \in DOMAIN attempts[i] \/ n = Len(attempts'[i])
    BY <1>4, <1>5, <1>6
  <2> QED
    BY <1>1, <2>1, <2>2 DEF RunningInv
<1> QED
  BY <1>1, <1>5, <1>6 DEF RunningInv

\* The attempt an invocation is in ends.
LEMMA FinishedIsNotRunning ==
  ASSUME AttemptInv, RunningInv, NEW i \in Invocations, NEW status, status # "running",
         at[i] = "attempting", Finish(i, status), UNCHANGED <<commit, outlived>>,
         \A j \in Invocations : j # i /\ at[j] \in {"attempting", "lost"} => at'[j] = at[j]
  PROVE  RunningInv'
<1> DEFINE last == Len(attempts[i])
           ended == [attempts[i][last] EXCEPT !.status = status, !.outcome = status]
<1>1. attempts' = [attempts EXCEPT ![i] = [attempts[i] EXCEPT ![last] = ended]]
  BY DEF Finish, Recorded
<1>2. last \in DOMAIN attempts[i] => ended.status = status
  BY DEF AttemptInv, AttemptTypes, IsAttempt
<1> HIDE DEF last, ended
<1>3. /\ attempts'[i] = [attempts[i] EXCEPT ![last] = ended]
      /\ \A j \in Invocations : j # i => attempts'[j] = attempts[j]
  BY <1>1 DEF AttemptInv, AttemptTypes
<1>4. /\ DOMAIN attempts'[i] = DOMAIN attempts[i]
      /\ \A n \in DOMAIN attempts[i] :
           attempts'[i][n] = IF n = last THEN ended ELSE attempts[i][n]
  BY <1>3
<1>5. ASSUME NEW n \in DOMAIN attempts'[i], attempts'[i][n].status = "running"
      PROVE  Top[i] \in outlived
  <2>1. n \in DOMAIN attempts[i] /\ n # last /\ attempts[i][n].status = "running"
    BY <1>2, <1>4, <1>5
  <2> QED
    BY <2>1 DEF RunningInv, last
<1>6. ASSUME NEW j \in Invocations, j # i, NEW n \in DOMAIN attempts'[j],
             attempts'[j][n].status = "running"
      PROVE  \/ Top[j] \in outlived
             \/ /\ n = Len(attempts'[j])
                /\ at'[j] = "attempting" \/ (at'[j] = "lost" /\ commit[Top[j]] = "pending")
  BY <1>3, <1>6 DEF RunningInv
<1> QED
  BY <1>5, <1>6 DEF RunningInv

\* Recovery only takes attempts out of those that run.
LEMMA FailedAreNotRunning ==
  ASSUME AttemptInv, RunningInv, NEW these, attempts' = FailedAttempts(these), UNCHANGED outlived,
         \A i \in Invocations : \A n \in DOMAIN attempts[i] :
           attempts[i][n].status = "running" /\ <<i, n>> \notin these /\ Top[i] \notin outlived =>
             at'[i] = at[i] /\ commit'[Top[i]] = commit[Top[i]]
  PROVE  RunningInv'
<1> DEFINE failed(i, n) == [attempts[i][n] EXCEPT !.status = "failed"]
           next(i, n) == IF <<i, n>> \in these THEN failed(i, n) ELSE attempts[i][n]
<1>1. attempts' = [i \in Invocations |-> [n \in DOMAIN attempts[i] |-> next(i, n)]]
  BY DEF FailedAttempts
<1>2. ASSUME NEW i \in Invocations, NEW n \in DOMAIN attempts[i] PROVE failed(i, n).status = "failed"
  BY DEF AttemptInv, AttemptTypes, IsAttempt
<1> HIDE DEF failed
<1>3. ASSUME NEW i \in Invocations
      PROVE  DOMAIN attempts'[i] = DOMAIN attempts[i] /\ Len(attempts'[i]) = Len(attempts[i])
  <2>1. PICK S : attempts[i] \in Seq(S)
    BY DEF AttemptInv, AttemptTypes
  <2>2. Len(attempts[i]) \in Nat /\ DOMAIN attempts[i] = 1 .. Len(attempts[i])
    BY <2>1
  <2>3. attempts'[i] = [n \in 1 .. Len(attempts[i]) |-> next(i, n)]
    BY <1>1, <2>2
  <2>4. attempts'[i] \in Seq(S \union {next(i, n) : n \in 1 .. Len(attempts[i])})
    BY <2>2, <2>3
  <2> QED
    BY <2>2, <2>3, <2>4
<1>4. ASSUME NEW i \in Invocations, NEW n \in DOMAIN attempts'[i], attempts'[i][n].status = "running",
             Top[i] \notin outlived
      PROVE  /\ n = Len(attempts'[i])
             /\ at'[i] = "attempting" \/ (at'[i] = "lost" /\ commit'[Top[i]] = "pending")
  <2>1. n \in DOMAIN attempts[i] /\ attempts[i][n].status = "running" /\ <<i, n>> \notin these
    BY <1>1, <1>2, <1>3, <1>4
  <2> QED
    BY <1>3, <1>4, <2>1 DEF RunningInv
<1> QED
  BY <1>4 DEF RunningInv

LEMMA ComputesKeepsRunning ==
  ASSUME AttemptInv, WorkInv, RunningInv, NEW i \in Invocations, Works(i)
  PROVE  RunningInv'
<1>1. CASE StartAttempt(i)
  BY <1>1, StartAttemptIsRunning
<1>2. CASE AttemptAnswers(i)
  <2>1. at[i] = "attempting" /\ Finish(i, "success") /\ UNCHANGED <<commit, outlived>>
    BY <1>2 DEF AttemptAnswers
  <2>2. CASE Moves(i, "answered")
    <3>1. \A j \in Invocations : j # i => at'[j] = at[j]
      BY <2>2 DEF Moves, WorkInv
    <3> QED
      BY <2>1, <3>1, FinishedIsNotRunning
  <2>3. ASSUME NEW asked \in SUBSET {c \in CallsOf(i) \intersect remains.calls : at[c] = "idle"},
               at' = [j \in Invocations |->
                        IF j = i THEN "tools" ELSE IF j \in asked THEN "asked" ELSE at[j]]
        PROVE  RunningInv'
    <3>1. \A j \in Invocations : j # i /\ at[j] \in {"attempting", "lost"} => at'[j] = at[j]
      BY <2>3
    <3> QED
      BY <2>1, <3>1, FinishedIsNotRunning
  <2> QED
    BY <1>2, <2>2, <2>3 DEF AttemptAnswers
<1>3. ASSUME NEW error \in Errors, AttemptFails(i, error) PROVE RunningInv'
  <2>1. PICK status \in {"retrying", "failed"} : Finish(i, status)
    BY <1>3 DEF AttemptFails
  <2>2. /\ at[i] = "attempting" /\ UNCHANGED <<commit, outlived>>
        /\ \A j \in Invocations : j # i => at'[j] = at[j]
    BY <1>3 DEF AttemptFails, Moves, WorkInv
  <2> QED
    BY <2>1, <2>2, FinishedIsNotRunning
<1>4. CASE ToolsEnd(i)
  <2>1. at[i] = "tools" /\ UNCHANGED <<attempts, commit, outlived>>
    BY <1>4 DEF ToolsEnd
  <2>2. \A j \in Invocations : at[j] \in {"attempting", "lost"} => at'[j] = at[j]
    BY <1>4 DEF ToolsEnd, Moves, WorkInv
  <2> QED
    BY <2>1, <2>2, AttemptsStayCut
<1>5. CASE i \in Runs /\ EndRun(i)
  <2>1. /\ at[i] \in {"answered", "raised"} /\ UNCHANGED attempts /\ outlived \subseteq outlived'
        /\ \A q \in Runs : q # i => commit'[q] = commit[q]
        /\ \A j \in Invocations : j # i => at'[j] = at[j]
    BY <1>5 DEF EndRun, Moves, WorkInv
  <2>2. ASSUME NEW j \in Invocations, at[j] = "lost", Top[j] = i PROVE FALSE
    BY <2>1, <2>2 DEF WorkInv, Over
  <2> QED
    BY <2>1, <2>2, AttemptsStayCut, RunsOfCalls
<1>6. CASE i \in Calls /\ Recover(i)
  <2>1. /\ at[i] = "recovering" /\ attempts' = FailedAttempts(listed[i])
        /\ UNCHANGED <<commit, outlived>> /\ \A j \in Invocations : j # i => at'[j] = at[j]
    BY <1>6 DEF Recover, Moves, WorkInv
  <2>2. ASSUME NEW j \in Invocations, NEW n \in DOMAIN attempts[j], attempts[j][n].status = "running",
               Top[j] \notin outlived
        PROVE  at'[j] = at[j] /\ commit'[Top[j]] = commit[Top[j]]
    BY <2>1, <2>2 DEF RunningInv
  <2> QED
    BY <2>1, <2>2, FailedAreNotRunning
<1>7. CASE i \in Calls /\ (Enter(i) \/ Return(i))
  <2>1. /\ at[i] \in {"waiting", "answered", "raised"} /\ UNCHANGED <<attempts, commit, outlived>>
        /\ \A j \in Invocations : j # i => at'[j] = at[j]
    BY <1>7 DEF Enter, Return, Moves, WorkInv
  <2> QED
    BY <2>1, AttemptsStayCut
<1> QED
  BY <1>1, <1>2, <1>3, <1>4, <1>5, <1>6, <1>7 DEF Works

\* Runs begin, calls take a thread, processes die and teams are closed and opened.
LEMMA OthersKeepRunning ==
  ASSUME AttemptInv, WorkInv, RunningInv,
         \/ \E r \in Runs : \E to \in {"thinking", "raised"} : StartRun(r, to)
         \/ \E c \in Calls : Resolve(c) \/ RaisesAtOnce(c)
         \/ CallsCrash \/ CallsClosed \/ (stage = "opened" /\ CallsRecovered)
  PROVE  RunningInv'
<1> USE DEF Over, InThread
<1>1. ASSUME NEW r \in Runs, NEW to \in {"thinking", "raised"}, StartRun(r, to) PROVE RunningInv'
  <2>1. /\ at[r] = "idle" /\ UNCHANGED <<attempts, outlived>> /\ commit'[r] = "pending"
        /\ \A q \in Runs : q # r => commit'[q] = commit[q]
        /\ \A j \in Invocations : j # r => at'[j] = at[j]
    BY <1>1 DEF StartRun, Moves, WorkInv
  <2> QED
    BY <2>1, AttemptsStayCut, RunsOfCalls
<1>2. ASSUME NEW c \in Calls, Resolve(c) PROVE RunningInv'
  <2>1. /\ at[c] = "asked" /\ UNCHANGED attempts /\ outlived' = outlived \union Interrupted
        /\ RunsReconciled /\ \A j \in Invocations : j # c => at'[j] = at[j]
    BY <1>2 DEF Resolve, Moves, WorkInv
  <2>2. \A r \in Runs : commit[r] = "pending" => r \in outlived'
    BY <2>1, RecoveredRuns
  <2> QED
    BY <2>1, <2>2, AttemptsStayCut, RunsOfCalls
<1>3. ASSUME NEW c \in Calls, RaisesAtOnce(c) PROVE RunningInv'
  <2>1. /\ at[c] = "asked" /\ UNCHANGED <<attempts, commit, outlived>>
        /\ \A j \in Invocations : j # c => at'[j] = at[j]
    BY <1>3 DEF RaisesAtOnce, Moves, WorkInv
  <2> QED
    BY <2>1, AttemptsStayCut
<1>4. CASE CallsCrash
  <2>1. /\ UNCHANGED <<attempts, commit, outlived>>
        /\ at' = [i \in Invocations |-> IF at[i] \in {"idle", "returned", "failed", "dropped", "lost"}
                                        THEN at[i] ELSE "lost"]
    BY <1>4 DEF CallsCrash
  <2>2. \A i \in Invocations : /\ at[i] = "attempting" => at'[i] = "lost"
                               /\ at[i] = "lost" => at'[i] = "lost"
    BY <2>1
  <2>3. \A i \in Invocations :
          at[i] = "attempting" => commit[Top[i]] = "pending" \/ Top[i] \in outlived
    BY DEF WorkInv
  <2> QED
    BY <2>1, <2>2, <2>3, AttemptsStayCut
<1>5. CASE CallsClosed
  <2>1. /\ UNCHANGED <<attempts, commit, outlived>> /\ \A r \in Runs : at[r] \in Over
        /\ at' = [i \in Invocations |->
                    CASE at[i] \in {"thinking", "attempting", "tools"} -> "stuck"
                      [] at[i] \in {"asked", "waiting"} -> "dropped"
                      [] OTHER -> at[i]]
    BY <1>5 DEF CallsClosed
  <2>2. ASSUME NEW i \in Invocations, at[i] = "attempting" PROVE Top[i] \in outlived
    <3>1. i \in Calls /\ at[Top[i]] \in Over
      BY <2>1, <2>2, RunsOfCalls DEF Invocations
    <3> QED
      BY <2>2, <3>1 DEF WorkInv
  <2>3. \A i \in Invocations : at[i] = "lost" => at'[i] = "lost"
    BY <2>1
  <2> QED
    BY <2>1, <2>2, <2>3, AttemptsStayCut
<1>6. CASE stage = "opened" /\ CallsRecovered
  <2>1. /\ UNCHANGED <<at, outlived>> /\ RunsReconciled
        /\ attempts' = FailedAttempts(RunningAttempts(Interrupted))
    BY <1>6 DEF CallsRecovered
  <2>2. ASSUME NEW i \in Invocations, NEW n \in DOMAIN attempts[i], attempts[i][n].status = "running",
               <<i, n>> \notin RunningAttempts(Interrupted), Top[i] \notin outlived
        PROVE  FALSE
    <3>1. at[i] # "attempting"
      BY <1>6 DEF WorkInv
    <3>2. commit[Top[i]] = "pending"
      BY <2>2, <3>1 DEF RunningInv
    <3>3. Top[i] \in Interrupted
      BY <2>1, <3>2, RecoveredRuns, RunsOfCalls
    <3> QED
      BY <2>2, <3>3 DEF RunningAttempts
  <2> QED
    BY <2>1, <2>2, FailedAreNotRunning
<1> QED
  BY <1>1, <1>2, <1>3, <1>4, <1>5, <1>6

LEMMA RunningStep ==
  ASSUME AttemptInv, WorkInv, RunningInv, [RuntimeNext]_runtimeVars
  PROVE  RunningInv'
<1>1. CASE UNCHANGED <<at, attempts, commit, outlived>>
  BY <1>1 DEF RunningInv
<1>2. ASSUME NEW r \in Runs, RunStarts(r) PROVE RunningInv'
  <2>1. \E to \in {"thinking", "raised"} : StartRun(r, to)
    BY <1>2 DEF RunStarts
  <2> QED
    BY <2>1, OthersKeepRunning
<1>3. ASSUME NEW c \in Calls, CallRelation(c) PROVE RunningInv'
  BY <1>3, OthersKeepRunning DEF CallRelation
<1>4. ASSUME NEW i \in Invocations, Computes(i) PROVE RunningInv'
  BY <1>4, ComputesKeepsRunning DEF Computes
<1>5. CASE Closes \/ Crash \/ OpensConversation
  BY <1>5, OthersKeepRunning DEF Closes, Crash, OpensConversation
<1>6. CASE Instantiates \/ FilesChange \/ OtherNeedsGraph
  BY <1>1, <1>6 DEF Instantiates, FilesChange, OtherNeedsGraph, callVars
<1>7. CASE UNCHANGED runtimeVars
  BY <1>1, <1>7 DEF runtimeVars, callVars
<1> QED
  BY <1>2, <1>3, <1>4, <1>5, <1>6, <1>7 DEF RuntimeNext

LEMMA WorkInit == RuntimeInit => WorkInv /\ RunningInv
<1> SUFFICES ASSUME RuntimeInit PROVE WorkInv /\ RunningInv
  OBVIOUS
<1>1. /\ at = [i \in Invocations |-> "idle"] /\ attempts = [i \in Invocations |-> <<>>]
      /\ commit = [r \in Runs |-> "none"] /\ delivered = [r \in Runs |-> FALSE]
  BY DEF RuntimeInit, CallsInit
<1>2. FALSE \in BOOLEAN
  OBVIOUS
<1>3. delivered \in [Runs -> BOOLEAN] /\ \A r \in Runs : ~delivered[r]
  BY <1>1, <1>2
<1>4. /\ at \in [Invocations -> Places] /\ \A i \in Invocations : at[i] = "idle"
      /\ \A c \in Calls : at[c] = "idle"
      /\ commit \in [Runs -> {"none", "pending", "committed", "orphaned"}]
      /\ \A r \in Runs : commit[r] = "none"
  BY <1>1, RunsOfCalls DEF Places, Over
<1>5. WorkInv
  BY <1>3, <1>4 DEF WorkInv, InThread, Over
<1>6. RunningInv
  BY <1>1 DEF RunningInv
<1> QED
  BY <1>5, <1>6

\* An attempt the store shows as running is, or its run was settled first, or a crash cut it
\* and the conversation was not opened since (docs/model-reliability-policy.md:309): for any
\* tree of calls, any errors and retries, and any crashes, closings and recoveries
\* (_fail_running_model_attempts_for_run, reconcile_incomplete_commits).
THEOREM RecoveryFailsAttemptsCorrect == RuntimeSpec => []RecoveryFailsAttempts
<1>1. RunningInv => RecoveryFailsAttempts
  BY DEF RunningInv, RecoveryFailsAttempts
<1> QED
  BY <1>1, OutcomesInit, OutcomesStep, WorkInit, WorkStep, RunningStep, PTL DEF RuntimeSpec

----------------------------------------------------------------------------
(* The first of several exceptions.                                         *)

LEMMA Smallest ==
  ASSUME NEW T \in SUBSET Nat, T # {}
  PROVE  \E x \in T : \A y \in T : x <= y
<1> DEFINE R == {p \in Nat \X Nat : p[1] < p[2]}
<1>1. IsWellFoundedOn(R, Nat)
  BY NatLessThanWellFounded DEF OpToRel
<1> HIDE DEF R
<1>2. PICK x \in T : \A y \in T : ~ (<<y, x>> \in R)
  BY <1>1, WFMin
<1>3. ASSUME NEW y \in T
      PROVE  x <= y
  <2>1. <<y, x>> \in Nat \X Nat /\ <<y, x>>[1] = y /\ <<y, x>>[2] = x
    OBVIOUS
  <2>2. ~(y < x)
    BY <1>2, <2>1 DEF R
  <2> QED
    BY <2>2
<1> QED
  BY <1>3

LEMMA Greatest ==
  ASSUME NEW n \in Nat, NEW T \in SUBSET (1 .. n), T # {}
  PROVE  \E x \in T : \A y \in T : y <= x
<1> DEFINE D == {n - x : x \in T}
<1>1. D \in SUBSET Nat /\ D # {}
  <2>1. PICK x \in T : TRUE
    OBVIOUS
  <2>2. n - x \in D
    BY <2>1
  <2>3. \A y \in T : n - y \in Nat
    OBVIOUS
  <2> QED
    BY <2>2, <2>3
<1>2. PICK d \in D : \A e \in D : d <= e
  BY <1>1, Smallest
<1>3. PICK x \in T : d = n - x
  BY <1>2
<1>4. ASSUME NEW y \in T PROVE y <= x
  <2>1. n - x <= n - y
    BY <1>2, <1>3
  <2> QED
    BY <2>1
<1> QED
  BY <1>4

\* The first exception is one of them.
LEMMA FirstFailureAmong ==
  ASSUME NEW failures, DOMAIN failures \subseteq Nat, NEW S, NoFailure \in S,
         \A i \in DOMAIN failures : failures[i] \in S
  PROVE  FirstFailure(failures) \in S
<1> DEFINE raised == {i \in DOMAIN failures : failures[i] # NoFailure}
<1>1. CASE raised = {}
  BY <1>1 DEF FirstFailure
<1>2. CASE raised # {}
  <2>1. \E i \in raised : \A j \in raised : i <= j
    BY <1>2, Smallest
  <2>2. (CHOOSE i \in raised : \A j \in raised : i <= j) \in raised
    BY <2>1
  <2>3. FirstFailure(failures) = failures[CHOOSE i \in raised : \A j \in raised : i <= j]
    BY <1>2 DEF FirstFailure
  <2> QED
    BY <2>2, <2>3
<1> QED
  BY <1>1, <1>2

LEMMA FirstOf ==
  ASSUME NEW S, NoFailure \in S, NEW x1 \in S, NEW x2 \in S
  PROVE  /\ FirstFailure(<<x1, x2>>) \in S
         /\ \A x3 \in S : FirstFailure(<<x1, x2, x3>>) \in S
         /\ \A x3, x4, x5 \in S : FirstFailure(<<x1, x2, x3, x4, x5>>) \in S
         /\ \A x3, x4, x5, x6, x7, x8, x9 \in S :
              FirstFailure(<<x1, x2, x3, x4, x5, x6, x7, x8, x9>>) \in S
<1>1. FirstFailure(<<x1, x2>>) \in S
  <2> DEFINE failures == <<x1, x2>>
  <2>1. DOMAIN failures \subseteq Nat /\ \A i \in DOMAIN failures : failures[i] \in S
    OBVIOUS
  <2> QED
    BY <2>1, FirstFailureAmong
<1>2. ASSUME NEW x3 \in S PROVE FirstFailure(<<x1, x2, x3>>) \in S
  <2> DEFINE failures == <<x1, x2, x3>>
  <2>1. DOMAIN failures \subseteq Nat /\ \A i \in DOMAIN failures : failures[i] \in S
    OBVIOUS
  <2> QED
    BY <2>1, FirstFailureAmong
<1>3. ASSUME NEW x3 \in S, NEW x4 \in S, NEW x5 \in S
      PROVE  FirstFailure(<<x1, x2, x3, x4, x5>>) \in S
  <2> DEFINE failures == <<x1, x2, x3, x4, x5>>
  <2>1. DOMAIN failures \subseteq Nat /\ \A i \in DOMAIN failures : failures[i] \in S
    OBVIOUS
  <2> QED
    BY <2>1, FirstFailureAmong
<1>4. ASSUME NEW x3 \in S, NEW x4 \in S, NEW x5 \in S, NEW x6 \in S, NEW x7 \in S, NEW x8 \in S,
             NEW x9 \in S
      PROVE  FirstFailure(<<x1, x2, x3, x4, x5, x6, x7, x8, x9>>) \in S
  <2> DEFINE failures == <<x1, x2, x3, x4, x5, x6, x7, x8, x9>>
  <2>1. DOMAIN failures \subseteq Nat /\ \A i \in DOMAIN failures : failures[i] \in S
    OBVIOUS
  <2> QED
    BY <2>1, FirstFailureAmong
<1> QED
  BY <1>1, <1>2, <1>3, <1>4

\* Without a first exception there is none.
LEMMA NoneFailed ==
  ASSUME NEW failures, DOMAIN failures \subseteq Nat, FirstFailure(failures) = NoFailure
  PROVE  \A i \in DOMAIN failures : failures[i] = NoFailure
<1> DEFINE raised == {i \in DOMAIN failures : failures[i] # NoFailure}
<1>1. SUFFICES ASSUME raised # {} PROVE FALSE
  OBVIOUS
<1>2. \E i \in raised : \A j \in raised : i <= j
  BY <1>1, Smallest
<1>3. (CHOOSE i \in raised : \A j \in raised : i <= j) \in raised
  BY <1>2
<1>4. FirstFailure(failures) = failures[CHOOSE i \in raised : \A j \in raised : i <= j]
  BY <1>1 DEF FirstFailure
<1> QED
  BY <1>3, <1>4

----------------------------------------------------------------------------
(* Teams that were loaded.                                                  *)

\* What the loader makes of a file it accepts.
Loaded(t) == \E w \in Written : t = Definition(w) /\ Valid(t)

\* Its parts have their types, and the agents it names are there.
TeamTypes(t) ==
  /\ t.order \in Seq(DOMAIN t.agents) /\ ToSet(t.order) = DOMAIN t.agents
  /\ \A a \in DOMAIN t.agents :
       DOMAIN t.agents[a].toolsets \subseteq Nat /\ ToSet(t.agents[a].toolsets) \subseteq DOMAIN t.toolsets
  /\ \A name \in DOMAIN t.toolsets :
       /\ DOMAIN t.toolsets[name] \subseteq Nat
       /\ \A ref \in ToSet(t.toolsets[name]) : ref.kind \in {"name", "custom", "mcp"}
  /\ DOMAIN t.relations \subseteq Nat
  /\ \A r \in ToSet(t.relations) : r.to \in DOMAIN t.agents
  /\ Entrypoint(t) \in DOMAIN t.agents
  /\ t.sources \in Seq(Roots)

LEMMA MergedTypes ==
  ASSUME NEW entry, WrittenAgent(entry)
  PROVE  /\ Merged(entry).toolsets \in Seq(STRING)
         /\ Merged(entry).participant = entry.participant
BY DEF WrittenAgent, Merged, Fields

LEMMA Members ==
  ASSUME NEW S, NEW q \in Seq(S)
  PROVE  DOMAIN q \subseteq Nat /\ \A x \in ToSet(q) : x \in S
BY DEF ToSet

LEMMA LoadedTypes ==
  ASSUME NEW t, Loaded(t)
  PROVE  TeamTypes(t)
<1>1. PICK w \in Written : t = Definition(w) /\ Valid(t)
  BY DEF Loaded
<1> DEFINE ids == DOMAIN w.agents
<1>2. /\ t.agents = [a \in ids |-> Merged(w.agents[a])]
      /\ t.relations = [i \in DOMAIN w.relations |-> CanonicalRelation(w.relations[i], i, ids)]
      /\ t.order = w.order /\ t.toolsets = w.toolsets /\ t.sources = w.sources
  BY <1>1, InstantiationAssumption DEF Definition
<1>3. DOMAIN t.agents = ids /\ DOMAIN t.relations = DOMAIN w.relations
  BY <1>2
<1>4. t.order \in Seq(DOMAIN t.agents) /\ ToSet(t.order) = DOMAIN t.agents /\ t.sources \in Seq(Roots)
  BY <1>2, <1>3, InstantiationAssumption
<1>5. ASSUME NEW a \in DOMAIN t.agents
      PROVE  DOMAIN t.agents[a].toolsets \subseteq Nat /\ ToSet(t.agents[a].toolsets) \subseteq DOMAIN t.toolsets
  <2>1. t.agents[a].toolsets \in Seq(STRING)
    BY <1>2, <1>3, MergedTypes, InstantiationAssumption
  <2>2. ToSet(t.agents[a].toolsets) \subseteq DOMAIN t.toolsets
    BY <1>1 DEF Valid, AgentsValid
  <2> QED
    BY <2>1, <2>2
<1>6. ASSUME NEW name \in DOMAIN t.toolsets
      PROVE  /\ DOMAIN t.toolsets[name] \subseteq Nat
             /\ \A ref \in ToSet(t.toolsets[name]) : ref.kind \in {"name", "custom", "mcp"}
  <2>1. t.toolsets[name] \in Seq([kind : {"name", "custom", "mcp"}, of : STRING])
    BY <1>2, InstantiationAssumption
  <2>2. /\ DOMAIN t.toolsets[name] \subseteq Nat
        /\ \A ref \in ToSet(t.toolsets[name]) : ref \in [kind : {"name", "custom", "mcp"}, of : STRING]
    BY <2>1, Members
  <2> QED
    BY <2>2
<1>7. DOMAIN t.relations \subseteq Nat
  BY <1>3, InstantiationAssumption
<1>8. \A r \in ToSet(t.relations) : r.to \in DOMAIN t.agents
  <2>1. ManifestFailure(t) = NoFailure
    BY <1>1, ValidTeamsHaveManifests
  <2> QED
    BY <2>1 DEF ManifestFailure, Check, NoFailure
<1>9. Entrypoint(t) \in DOMAIN t.agents
  <2>1. Cardinality({a \in DOMAIN t.agents : t.agents[a].entrypoint}) = 1
    BY <1>1 DEF Valid, AgentsValid
  <2>2. {a \in DOMAIN t.agents : t.agents[a].entrypoint} # {}
    BY <2>1, FS_EmptySet
  <2> QED
    BY <2>2 DEF Entrypoint
<1> QED
  BY <1>4, <1>5, <1>6, <1>7, <1>8, <1>9 DEF TeamTypes

----------------------------------------------------------------------------
(* Exceptions.                                                              *)

Explained == {NoFailure, "refused"}

\* Names of tools that are looked up and not there raise something of S.
KnownIn(t, S) ==
  /\ Explained \subseteq S /\ RowsFailure(t) \in S
  /\ \A a \in DOMAIN t.agents : IsLangchain(t, a) =>
       \A ref \in References(t, a) : ref.kind = "name" => BuiltinFailure(ref.of) \in S

LEMMA ChecksAreExplained ==
  ASSUME NEW holds
  PROVE  Check(holds, "refused") \in Explained
BY DEF Check, Explained

LEMMA ToolsFailureAmong ==
  ASSUME NEW t, TeamTypes(t), NEW a \in DOMAIN t.agents, NEW all \in BOOLEAN, NEW S,
         Explained \subseteq S,
         all => \A ref \in References(t, a) : ref.kind = "name" => BuiltinFailure(ref.of) \in S
  PROVE  ToolsFailure(t, a, all) \in S
<1> DEFINE names == t.agents[a].toolsets
<1>1. NoFailure \in S
  BY DEF Explained
<1>2. ASSUME NEW ref \in References(t, a), ref.kind \in {"name", "custom", "mcp"}
      PROVE  ReferenceFailure(t, ref, all) \in S
  <2>1. CASE ref.kind = "custom"
    BY <2>1, ChecksAreExplained DEF ReferenceFailure, CustomFailure
  <2>2. CASE ref.kind = "mcp"
    BY <2>2, ChecksAreExplained DEF ReferenceFailure, McpFailure
  <2>3. CASE ref.kind = "name"
    <3>1. ReferenceFailure(t, ref, all)
            = IF IncludesName(ref.of, all) THEN BuiltinFailure(ref.of) ELSE NoFailure
      BY <2>3 DEF ReferenceFailure
    <3>2. CASE all
      BY <1>1, <2>3, <3>1, <3>2
    <3>3. CASE ~all
      <4>1. IncludesName(ref.of, all) => BuiltinFailure(ref.of) = NoFailure
        BY <3>3 DEF IncludesName, SelfContained, BuiltinFailure, BuiltinTools, Check
      <4> QED
        BY <1>1, <3>1, <4>1
    <3> QED
      BY <3>2, <3>3
  <2> QED
    BY <1>2, <2>1, <2>2, <2>3
<1>3. ASSUME NEW i \in DOMAIN names
      PROVE  ToolsetFailure(t, names[i], all) \in S
  <2>1. names[i] \in ToSet(names) /\ names[i] \in DOMAIN t.toolsets
    BY DEF TeamTypes, ToSet
  <2> DEFINE refs == t.toolsets[names[i]]
             failures == [k \in DOMAIN refs |-> ReferenceFailure(t, refs[k], all)]
  <2>2. ASSUME NEW k \in DOMAIN refs PROVE ReferenceFailure(t, refs[k], all) \in S
    <3>1. refs[k] \in ToSet(refs)
      BY DEF ToSet
    <3>2. refs[k] \in References(t, a) /\ refs[k].kind \in {"name", "custom", "mcp"}
      BY <2>1, <3>1 DEF References, TeamTypes
    <3> QED
      BY <1>2, <3>2
  <2>3. DOMAIN failures \subseteq Nat /\ \A k \in DOMAIN failures : failures[k] \in S
    BY <2>1, <2>2 DEF TeamTypes
  <2>4. FirstFailure(failures) \in S
    BY <1>1, <2>3, FirstFailureAmong
  <2> QED
    BY <2>4 DEF ToolsetFailure
<1> DEFINE failures == [i \in DOMAIN names |-> ToolsetFailure(t, names[i], all)]
<1>4. DOMAIN failures \subseteq Nat /\ \A i \in DOMAIN failures : failures[i] \in S
  BY <1>3 DEF TeamTypes
<1>5. FirstFailure(failures) \in S
  BY <1>1, <1>4, FirstFailureAmong
<1> QED
  BY <1>5 DEF ToolsFailure

LEMMA ChecksOfSkills ==
  ASSUME NEW t, NEW a
  PROVE  /\ PermissionsFailure(t, a) \in Explained /\ ListedFailure(t, a) \in Explained
         /\ SkillsFailure(t, a) \in Explained /\ ModelFailure(t, a) \in Explained
         /\ \A names : UniqueNames(names) \in Explained
BY DEF PermissionsFailure, ListedFailure, SkillsFailure, ModelFailure, UniqueNames, Check, Explained

LEMMA RelationsAreKnown ==
  ASSUME NEW t, TeamTypes(t), NEW a
  PROVE  RelationToolsFailure(t, a) = NoFailure
BY DEF RelationToolsFailure, RelationsFrom, TeamTypes, Check

LEMMA SubagentFailureAmong ==
  ASSUME NEW t, TeamTypes(t), NEW a \in DOMAIN t.agents, NEW S, KnownIn(t, S)
  PROVE  SubagentFailure(t, a) \in S
<1>1. Explained \subseteq S /\ NoFailure \in S
  BY DEF KnownIn, Explained
<1>2. CASE IsLangchain(t, a)
  <2>1. ToolsFailure(t, a, TRUE) \in S
    BY <1>1, <1>2, ToolsFailureAmong DEF KnownIn
  <2>2. UniqueNames(Tools(t, a, TRUE)) \in S /\ ModelFailure(t, a) \in S
    BY <1>1, ChecksOfSkills
  <2>3. LangchainFailure(t, a) \in S
    BY <1>1, <2>1, <2>2, FirstOf DEF LangchainFailure
  <2> QED
    BY <1>2, <2>3 DEF SubagentFailure
<1>3. CASE ~IsLangchain(t, a)
  <2>1. ToolsFailure(t, a, FALSE) \in S
    BY <1>1, ToolsFailureAmong
  <2>2. RelationToolsFailure(t, a) \in S
    BY <1>1, RelationsAreKnown
  <2>3. /\ UniqueNames(Tools(t, a, FALSE) \o RelationTools(t, a)) \in S
        /\ PermissionsFailure(t, a) \in S /\ ListedFailure(t, a) \in S
    BY <1>1, ChecksOfSkills
  <2>4. SpecFailure(t, a) \in S
    BY <1>1, <2>1, <2>2, <2>3, FirstOf DEF SpecFailure
  <2> QED
    BY <1>3, <2>4 DEF SubagentFailure
<1> QED
  BY <1>2, <1>3

LEMMA GraphFailureAmong ==
  ASSUME NEW t, TeamTypes(t), NEW a \in DOMAIN t.agents, NEW S, KnownIn(t, S)
  PROVE  GraphFailure(t, a) \in S
<1>1. Explained \subseteq S /\ NoFailure \in S
  BY DEF KnownIn, Explained
<1>2. RelationToolsFailure(t, a) \in S
  BY <1>1, RelationsAreKnown
<1>3. SubagentsFailure(t, a) \in S
  <2> DEFINE failures == [i \in DOMAIN t.relations |->
                            IF t.relations[i] \in RelationsFrom(t, a, "subagent")
                              THEN SubagentFailure(t, t.relations[i].to) ELSE NoFailure]
  <2>1. ASSUME NEW i \in DOMAIN t.relations PROVE SubagentFailure(t, t.relations[i].to) \in S
    <3>1. t.relations[i].to \in DOMAIN t.agents
      BY DEF TeamTypes, ToSet
    <3> QED
      BY <3>1, SubagentFailureAmong
  <2>2. DOMAIN failures \subseteq Nat /\ \A i \in DOMAIN failures : failures[i] \in S
    BY <1>1, <2>1 DEF TeamTypes
  <2>3. FirstFailure(failures) \in S
    BY <1>1, <2>2, FirstFailureAmong
  <2> QED
    BY <2>3 DEF SubagentsFailure
<1>4. /\ ModelFailure(t, a) \in S /\ PermissionsFailure(t, a) \in S /\ ListedFailure(t, a) \in S
      /\ UniqueNames(Tools(t, a, FALSE) \o RelationTools(t, a)) \in S
  BY <1>1, ChecksOfSkills
<1>5. ToolsFailure(t, a, FALSE) \in S
  BY <1>1, ToolsFailureAmong
<1>6. BackendFailure(t) \in S
  <2> DEFINE failures == [i \in DOMAIN t.order |-> SkillsFailure(t, t.order[i])]
  <2>1. \A i \in DOMAIN failures : failures[i] \in S
    BY <1>1, ChecksOfSkills
  <2>2. DOMAIN failures \subseteq Nat
    BY DEF TeamTypes
  <2>3. FirstFailure(failures) \in S
    BY <1>1, <2>1, <2>2, FirstFailureAmong
  <2> QED
    BY <2>3 DEF BackendFailure
<1>7. Check(~t.agents[a].forgets, "refused") \in S
  BY <1>1, ChecksAreExplained
<1> QED
  BY <1>1, <1>2, <1>3, <1>4, <1>5, <1>6, <1>7, FirstOf DEF GraphFailure

LEMMA BuildFailureAmong ==
  ASSUME NEW t, TeamTypes(t), NEW S, KnownIn(t, S)
  PROVE  FirstFailure(<<ManifestFailure(t), BuildFailure(t)>>) \in S
<1>1. NoFailure \in S
  BY DEF KnownIn, Explained
<1>2. GraphFailure(t, Entrypoint(t)) \in S
  BY GraphFailureAmong DEF TeamTypes
<1>3. PersistFailure(t) \in S
  BY <1>1 DEF PersistFailure, KnownIn
<1>4. BuildFailure(t) \in S
  BY <1>1, <1>2, <1>3, FirstOf DEF BuildFailure
<1>5. ManifestFailure(t) \in S
  BY <1>1 DEF ManifestFailure, TeamTypes, Check
<1> QED
  BY <1>1, <1>4, <1>5, FirstOf

Exceptions == {NoFailure, "refused", "KeyError", "IntegrityError"}

\* Whether the names of a team are known decides which exceptions there can be.
LEMMA KnownNames ==
  ASSUME NEW t
  PROVE  KnownIn(t, Exceptions) /\ (NamesKnown(t) => KnownIn(t, Explained))
<1>1. RowsFailure(t) \in Exceptions /\ \A name : BuiltinFailure(name) \in Exceptions
  BY DEF RowsFailure, BuiltinFailure, Check, Exceptions
<1>2. \A name \in BuiltinTools : BuiltinFailure(name) = NoFailure
  BY DEF BuiltinFailure, Check
<1>3. NoFailure \in Explained /\ Explained \subseteq Exceptions
  BY DEF Explained, Exceptions
<1> QED
  BY <1>1, <1>2, <1>3 DEF KnownIn, NamesKnown
----------------------------------------------------------------------------
(* The team in use.                                                         *)

\* A team beyond "idle" is one the loader accepted, and only a team with a name that is not
\* known raises what the program does not explain.
TeamInv ==
  /\ file \in Written
  /\ DOMAIN disk \subseteq Roots /\ \A root \in DOMAIN disk : disk[root] \subseteq Skills
  /\ stage \in Stages
  /\ stage # "idle" => Loaded(team)
  /\ handle \in {{}, {"connection", "loop"}}
  /\ failure \in Exceptions
  /\ failure \notin Explained => Loaded(team) /\ ~NamesKnown(team)
  /\ stage # "ready" => DOMAIN graphs = {}
  /\ DOMAIN graphs \subseteq ToSet(team.order)

LEMMA AskedGraph ==
  ASSUME TeamInv, NEW a, stage = "ready" => a \in DOMAIN team.agents, AskGraph(a)
  PROVE  TeamInv'
<1>1. /\ stage = "ready" /\ Loaded(team) /\ TeamTypes(team) /\ a \in DOMAIN team.agents
      /\ UNCHANGED <<file, disk, stage, team, handle, lanes, left>>
  BY LoadedTypes DEF AskGraph, TeamInv
<1>2. a \in ToSet(team.order)
  BY <1>1 DEF TeamTypes
<1>3. CASE UNCHANGED failure /\ DOMAIN graphs' = DOMAIN graphs \union {a}
  BY <1>1, <1>2, <1>3 DEF TeamInv
<1>4. CASE failure' = GraphFailure(team, a) /\ UNCHANGED graphs
  <2>1. GraphFailure(team, a) \in Exceptions
    BY <1>1, GraphFailureAmong, KnownNames
  <2>2. NamesKnown(team) => GraphFailure(team, a) \in Explained
    BY <1>1, GraphFailureAmong, KnownNames
  <2> QED
    BY <1>1, <1>4, <2>1, <2>2 DEF TeamInv
<1> QED
  BY <1>3, <1>4 DEF AskGraph

LEMMA AskableAgents ==
  ASSUME TeamInv, stage = "ready"
  PROVE  Askable(team) \subseteq DOMAIN team.agents /\ Participants(team.agents) \subseteq DOMAIN team.agents
<1>1. TeamTypes(team)
  BY LoadedTypes DEF TeamInv
<1> QED
  BY <1>1 DEF Askable, TeamTypes, Participants

LEMMA InstantiatesKeepsTeam ==
  ASSUME TeamInv, Load \/ OpenCheckpointer \/ CheckpointerFails \/ BuildFails \/ ConversationFails
  PROVE  TeamInv'
<1> USE DEF Stages, Exceptions, Explained
<1>1. CASE Load
  <2>1. /\ UNCHANGED <<file, disk, graphs, handle>> /\ DOMAIN graphs = {}
        /\ \/ Loaded(team') /\ stage' = "loaded" /\ failure' = NoFailure
           \/ failure' = "refused" /\ UNCHANGED <<team, stage>>
    BY <1>1 DEF Load, TeamInv, Loaded
  <2> QED
    BY <2>1 DEF TeamInv
<1>2. CASE OpenCheckpointer \/ CheckpointerFails \/ ConversationFails
  BY <1>2 DEF OpenCheckpointer, CheckpointerFails, ConversationFails, Closed, TeamInv
<1>3. CASE BuildFails
  <2>1. /\ UNCHANGED <<file, disk, graphs, team>> /\ stage = "opened" /\ stage' = "idle"
        /\ failure' = FirstFailure(<<ManifestFailure(team), BuildFailure(team)>>)
        /\ handle' \in {{}, handle}
    BY <1>3 DEF BuildFails, Closed
  <2>2. Loaded(team) /\ TeamTypes(team)
    BY <2>1, LoadedTypes DEF TeamInv
  <2>3. failure' \in Exceptions /\ (NamesKnown(team) => failure' \in Explained)
    BY <2>1, <2>2, BuildFailureAmong, KnownNames
  <2> QED
    BY <2>1, <2>2, <2>3 DEF TeamInv
<1> QED
  BY <1>1, <1>2, <1>3

LEMMA TeamStep ==
  ASSUME TeamInv, [RuntimeNext]_runtimeVars
  PROVE  TeamInv'
<1>1. CASE UNCHANGED teamVars
  BY <1>1 DEF TeamInv, teamVars
<1>2. CASE Instantiates /\ ~Build
  BY <1>2, InstantiatesKeepsTeam DEF Instantiates
<1>3. CASE Build
  <2>1. /\ stage = "opened" /\ stage' = "ready" /\ UNCHANGED <<file, disk, team, handle, failure>>
        /\ DOMAIN graphs' = {Entrypoint(team)}
    BY <1>3 DEF Build
  <2>2. TeamTypes(team)
    BY <2>1, LoadedTypes DEF TeamInv
  <2> QED
    BY <2>1, <2>2 DEF TeamInv, TeamTypes, Stages
<1>4. CASE Closes \/ Crash
  <2>1. /\ stage' = "idle" /\ graphs' = <<>> /\ handle' = {} /\ UNCHANGED <<file, disk, team, failure>>
    BY <1>4 DEF Closes, CloseTeam, Closed, Crash
  <2> QED
    BY <2>1 DEF TeamInv, Stages
<1>5. CASE FilesChange
  <2>1. UNCHANGED <<stage, team, graphs, handle, failure>>
    BY <1>5 DEF FilesChange, EditFile, ChangeSkill
  <2>2. file' \in Written
    BY <1>5 DEF FilesChange, EditFile, ChangeSkill, TeamInv
  <2>3. DOMAIN disk' \subseteq Roots /\ \A root \in DOMAIN disk' : disk'[root] \subseteq Skills
    <3>1. CASE UNCHANGED disk
      BY <3>1 DEF TeamInv
    <3>2. CASE ChangeSkill
      BY <3>2 DEF ChangeSkill, TeamInv
    <3> QED
      BY <1>5, <3>1, <3>2 DEF FilesChange, EditFile
  <2> QED
    BY <2>1, <2>2, <2>3 DEF TeamInv
<1>6. CASE OtherNeedsGraph
  BY <1>6, AskedGraph, AskableAgents DEF OtherNeedsGraph
<1>7. ASSUME NEW r \in Runs, RunStarts(r) PROVE TeamInv'
  <2>1. AgentOf[r] \in DOMAIN team.agents
    BY <1>7, AskableAgents DEF RunStarts
  <2> QED
    BY <1>1, <1>7, <2>1, AskedGraph DEF RunStarts, NeedsGraph
<1>8. ASSUME NEW c \in Calls, CallRelation(c) PROVE TeamInv'
  <2>1. Target(c) \in Askable(team)
    BY <1>8 DEF CallRelation, Related, Target, Askable
  <2>2. Target(c) \in DOMAIN team.agents
    BY <1>8, <2>1, AskableAgents DEF CallRelation
  <2> QED
    BY <1>1, <1>8, <2>2, AskedGraph DEF CallRelation, NeedsGraph
<1>9. ASSUME NEW i \in Invocations, Computes(i) PROVE TeamInv'
  BY <1>1, <1>9 DEF Computes
<1>10. CASE UNCHANGED runtimeVars
  BY <1>1, <1>10 DEF runtimeVars
<1> QED
  BY <1>2, <1>3, <1>4, <1>5, <1>6, <1>7, <1>8, <1>9, <1>10
  DEF RuntimeNext, OpensConversation

LEMMA TeamInvariant == RuntimeSpec => []TeamInv
<1>1. RuntimeInit => TeamInv
  <2> SUFFICES ASSUME RuntimeInit PROVE TeamInv
    OBVIOUS
  <2>1. /\ file \in Written /\ disk \in Disks /\ stage = "idle" /\ handle = {} /\ failure = NoFailure
        /\ DOMAIN graphs = {}
    BY DEF RuntimeInit, InstantiationInit
  <2> QED
    BY <2>1, InstantiationAssumption DEF TeamInv, Stages, Exceptions, Explained
<1> QED
  BY <1>1, TeamStep, PTL DEF RuntimeSpec

\* The default targets of a team that is valid are participants.
LEMMA LoadedTargets ==
  ASSUME NEW t, Loaded(t), t.conversation
  PROVE  ToSet(t.targets) \subseteq Participants(t.agents)
<1>1. PICK w \in Written : t = Definition(w) /\ Valid(t)
  BY DEF Loaded
<1> DEFINE names == Participants(w.agents)
<1>2. /\ t.agents = [a \in DOMAIN w.agents |-> Merged(w.agents[a])]
      /\ t.targets = [i \in DOMAIN w.targets |-> Canonical(w.targets[i], names)]
  BY <1>1, InstantiationAssumption DEF Definition
<1>3. Participants(t.agents) = names
  <2>1. \A a \in DOMAIN w.agents : Merged(w.agents[a]).participant = w.agents[a].participant
    BY InstantiationAssumption, MergedTypes
  <2> QED
    BY <1>2, <2>1 DEF Participants
<1>4. ASSUME NEW target \in ToSet(t.targets) PROVE target \in names
  <2>1. PICK i \in DOMAIN w.targets : target = Canonical(w.targets[i], names)
    BY <1>2 DEF ToSet
  <2>2. Alike(target, names) # {}
    BY <1>1, <1>3 DEF Valid, ConversationValid
  <2>3. \A a, b \in names : Fold[a] = Fold[b] => a = b
    BY <1>1, <1>3 DEF Valid, AgentsValid, Participants
  <2> QED
    BY <2>1, <2>2, <2>3, CanonicalIsAlike
<1> QED
  BY <1>3, <1>4

\* A name is that of one participant of a team that is valid.
LEMMA LoadedNames ==
  ASSUME NEW t, Loaded(t), t.conversation, NEW name
  PROVE  Cardinality(MentionedBy(t, name)) <= 1
<1> DEFINE names == Participants(t.agents)
<1>1. Valid(t)
  BY DEF Loaded
<1>2. ASSUME NEW a \in MentionedBy(t, name), NEW b \in MentionedBy(t, name), a # b PROVE FALSE
  <2>1. /\ a \in names /\ b \in names
        /\ Fold[name] \in {Fold[a]} \union {Fold[alias] : alias \in ToSet(t.agents[a].aliases)}
        /\ Fold[name] \in {Fold[b]} \union {Fold[alias] : alias \in ToSet(t.agents[b].aliases)}
    BY DEF MentionedBy
  <2>2. Fold[a] # Fold[b]
    BY <1>1, <1>2, <2>1 DEF Valid, AgentsValid, Participants
  <2> DEFINE folded(c) == [i \in DOMAIN t.agents[c].aliases |-> Fold[t.agents[c].aliases[i]]]
  <2>3. \A c : ToSet(folded(c)) = {Fold[alias] : alias \in ToSet(t.agents[c].aliases)}
    BY DEF ToSet
  <2>4. /\ ToSet(folded(a)) \intersect (ToSet(folded(b)) \union {Fold[b]}) = {}
        /\ ToSet(folded(b)) \intersect (ToSet(folded(a)) \union {Fold[a]}) = {}
    BY <1>1, <1>2, <2>1 DEF Valid, ConversationValid, AliasesValid
  <2> QED
    BY <2>1, <2>2, <2>3, <2>4
<1>3. CASE MentionedBy(t, name) = {}
  BY <1>3, FS_EmptySet
<1>4. ASSUME NEW a \in MentionedBy(t, name) PROVE Cardinality(MentionedBy(t, name)) = 1
  <2>1. MentionedBy(t, name) = {a}
    BY <1>2
  <2> QED
    BY <2>1, FS_Singleton
<1> QED
  BY <1>3, <1>4

\* A team that TeamValidator accepts is used without a KeyError or an IntegrityError, unless
\* it has one of the names the loader does not look at, however its names are spelled; and a
\* name of a message or a default target is that of one participant: for any team file, any
\* names and any folding of them.
THEOREM AcceptedTeamsResolveCorrect == RuntimeSpec => []AcceptedTeamsResolve
<1>1. TeamInv => AcceptedTeamsResolve
  <2> SUFFICES ASSUME TeamInv PROVE AcceptedTeamsResolve
    OBVIOUS
  <2>1. NamesKnown(team) => failure \in {NoFailure, "refused"}
    BY DEF TeamInv, Explained
  <2>2. stage # "idle" => Loaded(team)
    BY DEF TeamInv
  <2> QED
    BY <2>1, <2>2, LoadedTargets, LoadedNames DEF AcceptedTeamsResolve
<1> QED
  BY <1>1, TeamInvariant, PTL

----------------------------------------------------------------------------
(* Skills and tools of agents.                                              *)

\* The skills a source gives on a disk.
GivenOn(d, source) ==
  IF source.root \notin DOMAIN d THEN {}
  ELSE IF source.whole THEN d[source.root] ELSE d[source.root] \intersect source.ids

\* What SelectedSkillsAreListed says of a member, for the disk the graph was built from and
\* for any later one.
MemberShows(t, graph, m) ==
  LET chosen == t.agents[m.agent].skills
  IN /\ chosen.mode = "only" =>
          \A p \in m.listed : ~graph.routes[p].whole /\ graph.routes[p].ids \subseteq chosen.ids
     /\ \A p \in m.listed : \A s \in GivenOn(graph.built, graph.routes[p]) : Readable(m, p, s)
     /\ chosen.mode = "only" /\ m.listed # {} =>
          \A s \in chosen.ids : \E p \in m.listed : s \in GivenOn(graph.built, graph.routes[p])

\* What VisibleToolsWork says of a member.
MemberWorks(t, a, graph, m) ==
  /\ m.visible \intersect (ReadTools \ {"read_file"}) # {} => m.reads.all
  /\ "read_file" \in m.visible =>
       \/ m.reads.all \/ m.reads.sources \union m.reads.skills # {}
       \/ \E s \in t.locked : s \notin graph.built["package"]
  /\ "execute" \in m.visible /\ m.agent = a => graph.shell
  /\ m.visible \intersect WriteTools # {} => m.writes

GraphInv ==
  \A a \in DOMAIN graphs : \A m \in graphs[a].members :
    /\ SlugsDistinct(team) => MemberShows(team, graphs[a], m)
    /\ MemberWorks(team, a, graphs[a], m)

LEMMA GivesNow ==
  ASSUME NEW source
  PROVE  Gives(source) = GivenOn(disk, source)
BY DEF Gives, GivenOn

\* The path of a selection tells its agent and its source.
LEMMA PathOfSelection ==
  ASSUME NEW a, NEW source, NEW n \in Nat, source.path = <<n>>
  PROVE  VirtualPath(a, source) = <<Slug[a], n>>
<1> DEFINE S == {Slug[a], n}
<1>1. <<Slug[a]>> \in Seq(S) /\ <<n>> \in Seq(S)
  OBVIOUS
<1> DEFINE path == <<Slug[a]>> \o <<n>>
<1>2. path \in Seq(S) /\ Len(path) = 2 /\ path[1] = Slug[a] /\ path[2] = n
  BY <1>1
<1> HIDE DEF path
<1>3. path = <<path[1], path[2]>>
  BY <1>2
<1> QED
  BY <1>2, <1>3 DEF VirtualPath, path

\* A source of an agent is one of the team's, as it is or with what the agent selects of it.
SourceOf(t, a, s, n) ==
  LET skills == t.agents[a].skills
      from   == Source(t, n)
  IN /\ n \in Nat /\ from \in TeamSources(t) /\ skills.mode # "none"
     /\ \/ skills.mode # "only" /\ s = from /\ s.path = <<n>>
        \/ /\ skills.mode = "only" /\ s = Selection(t, a, from) /\ s.path = <<Slug[a], n>>
           /\ Gives(from) \intersect skills.ids # {}

LEMMA TeamSourcesAre ==
  ASSUME NEW t, TeamTypes(t), NEW s \in TeamSources(t)
  PROVE  \E n \in Nat : /\ s = Source(t, n) /\ s.root \in DOMAIN disk
                        /\ n = 3 => t.locked # {}
<1> DEFINE found == {n \in 1 .. 4 + Len(t.sources) :
                       (n = 3 => t.locked # {}) /\ Root(t, n) \in DOMAIN disk}
<1>1. PICK n \in found : s = Source(t, n)
  BY DEF TeamSources
<1>2. n \in Nat /\ Source(t, n).root = Root(t, n)
  BY <1>1 DEF TeamTypes, Source
<1> QED
  BY <1>1, <1>2

LEMMA SourcesAre ==
  ASSUME NEW t, TeamTypes(t), NEW a, NEW s \in AgentSources(t, a)
  PROVE  \E n \in Nat : SourceOf(t, a, s, n)
<1> DEFINE skills == t.agents[a].skills
<1>1. CASE skills.mode = "none"
  BY <1>1 DEF AgentSources
<1>2. CASE skills.mode = "only"
  <2>1. PICK x \in TeamSources(t) : s = Selection(t, a, x) /\ Gives(x) \intersect skills.ids # {}
    BY <1>2 DEF AgentSources
  <2>2. PICK n \in Nat : x = Source(t, n)
    BY <2>1, TeamSourcesAre
  <2>3. x.path = <<n>>
    BY <2>2 DEF Source
  <2>4. s.path = <<Slug[a], n>>
    BY <2>1, <2>3, PathOfSelection DEF Selection
  <2>5. SourceOf(t, a, s, n)
    BY <1>2, <2>1, <2>2, <2>4 DEF SourceOf
  <2> QED
    BY <2>5
<1>3. CASE skills.mode \notin {"none", "only"}
  <2>1. s \in TeamSources(t)
    BY <1>3 DEF AgentSources
  <2>2. PICK n \in Nat : s = Source(t, n)
    BY <2>1, TeamSourcesAre
  <2>3. s.path = <<n>>
    BY <2>2 DEF Source
  <2>4. SourceOf(t, a, s, n)
    BY <1>3, <2>1, <2>2, <2>3 DEF SourceOf
  <2> QED
    BY <2>4
<1> QED
  BY <1>1, <1>2, <1>3

LEMMA PairsTell ==
  /\ \A x1, x2, y1, y2 : <<x1, x2>> = <<y1, y2>> => x1 = y1 /\ x2 = y2
  /\ \A x, y : <<x>> = <<y>> => x = y
<1>1. \A x1, x2 : <<x1, x2>>[1] = x1 /\ <<x1, x2>>[2] = x2
  OBVIOUS
<1>2. \A x : <<x>>[1] = x
  OBVIOUS
<1> QED
  BY <1>1, <1>2

\* Sources of one path are the same, also of two agents.
LEMMA PathsTell ==
  ASSUME NEW t, TeamTypes(t), SlugsDistinct(t), NEW a \in DOMAIN t.agents, NEW b \in DOMAIN t.agents,
         NEW s \in AgentSources(t, a), NEW r \in AgentSources(t, b), s.path = r.path
  PROVE  s = r
<1>1. PICK n \in Nat : SourceOf(t, a, s, n)
  BY SourcesAre
<1>2. PICK k \in Nat : SourceOf(t, b, r, k)
  BY SourcesAre
<1>3. CASE t.agents[a].skills.mode = "only" /\ t.agents[b].skills.mode = "only"
  <2>1. s.path = <<Slug[a], n>> /\ r.path = <<Slug[b], k>>
    BY <1>1, <1>2, <1>3 DEF SourceOf
  <2>2. Slug[a] = Slug[b] /\ n = k
    BY <2>1, PairsTell
  <2>3. a = b
    BY <2>2 DEF SlugsDistinct
  <2> QED
    BY <1>1, <1>2, <1>3, <2>2, <2>3 DEF SourceOf
<1>4. CASE t.agents[a].skills.mode # "only" /\ t.agents[b].skills.mode # "only"
  <2>1. s.path = <<n>> /\ r.path = <<k>>
    BY <1>1, <1>2, <1>4 DEF SourceOf
  <2>2. n = k
    BY <2>1, PairsTell
  <2> QED
    BY <1>1, <1>2, <1>4, <2>2 DEF SourceOf
<1>5. ASSUME NEW x, NEW n1 \in Nat, NEW n2 \in Nat, <<x, n1>> = <<n2>> PROVE FALSE
  <2>1. Len(<<x, n1>>) = 2 /\ Len(<<n2>>) = 1
    OBVIOUS
  <2> QED
    BY <1>5, <2>1
<1>6. CASE t.agents[a].skills.mode = "only" /\ t.agents[b].skills.mode # "only"
  BY <1>1, <1>2, <1>5, <1>6 DEF SourceOf
<1>7. CASE t.agents[a].skills.mode # "only" /\ t.agents[b].skills.mode = "only"
  BY <1>1, <1>2, <1>5, <1>7 DEF SourceOf
<1> QED
  BY <1>3, <1>4, <1>6, <1>7

\* The routes lead to the sources of every agent.
LEMMA RoutesLead ==
  ASSUME NEW t, TeamTypes(t), SlugsDistinct(t), NEW a \in DOMAIN t.agents, NEW s \in AgentSources(t, a)
  PROVE  Routes(t)[s.path] = s
<1> DEFINE path == s.path
<1>1. path \in Paths(t, a) /\ a \in ToSet(t.order)
  BY DEF Paths, TeamTypes
<1>2. PICK having : having = {i \in DOMAIN t.order : path \in Paths(t, t.order[i])}
  OBVIOUS
<1> DEFINE last == CHOOSE i \in having : \A j \in having : j <= i
<1>3. DOMAIN t.order = 1 .. Len(t.order) /\ Len(t.order) \in Nat
  BY DEF TeamTypes
<1>4. having \in SUBSET (1 .. Len(t.order)) /\ having # {}
  BY <1>1, <1>2, <1>3 DEF ToSet
<1>5. \E i \in having : \A j \in having : j <= i
  BY <1>3, <1>4, Greatest
<1>6. last \in having
  BY <1>5
<1>7. Routes(t)[path] = CHOOSE x \in AgentSources(t, t.order[last]) : x.path = path
  BY <1>1, <1>2 DEF Routes
<1> HIDE DEF last
<1>8. t.order[last] \in DOMAIN t.agents
  BY <1>2, <1>6 DEF TeamTypes
<1>9. \E x \in AgentSources(t, t.order[last]) : x.path = path
  BY <1>2, <1>6 DEF Paths
<1>10. \A x \in AgentSources(t, t.order[last]) : x.path = path => x = s
  BY <1>8, PathsTell
<1> QED
  BY <1>7, <1>9, <1>10

LEMMA MemberFields ==
  ASSUME NEW t, NEW b, NEW delegates, NEW told
  PROVE  LET m == Member(t, b, delegates, told)
         IN /\ m.agent = b /\ m.visible = Visible(t, b, delegates) /\ m.reads = Permissions(t, b)
            /\ m.writes = HasToolset(t, b, "write") /\ m.listed = told
BY DEF Member

\* An agent can read what its sources give, and what it selected is given.
LEMMA ShowsSelected ==
  ASSUME NEW t, TeamTypes(t), SlugsDistinct(t), NEW b \in DOMAIN t.agents, SkillsFailure(t, b) = NoFailure,
         NEW delegates, NEW told \in {Listed(t, b), {}}, NEW graph, graph.routes = Routes(t),
         graph.built = disk
  PROVE  MemberShows(t, graph, Member(t, b, delegates, told))
<1> DEFINE chosen == t.agents[b].skills
           m == Member(t, b, delegates, told)
<1>1. ASSUME NEW p \in told
      PROVE  \E s \in AgentSources(t, b) : s.path = p /\ graph.routes[p] = s
  BY <1>1, RoutesLead DEF Listed, Paths
<1>2. ASSUME chosen.mode = "only", NEW s \in AgentSources(t, b)
      PROVE  ~s.whole /\ s.ids \subseteq chosen.ids
  <2>1. PICK n \in Nat : SourceOf(t, b, s, n)
    BY SourcesAre
  <2>2. s = Selection(t, b, Source(t, n))
    BY <1>2, <2>1 DEF SourceOf
  <2> QED
    BY <2>2 DEF Selection
<1>3. ASSUME NEW s \in AgentSources(t, b), NEW x \in Gives(s)
      PROVE  Readable(m, s.path, x)
  <2>1. m.reads = Permissions(t, b)
    BY MemberFields
  <2>2. CASE HasToolset(t, b, "scoped_read_tools")
    BY <2>1, <2>2 DEF Permissions, Readable
  <2>3. CASE ~HasToolset(t, b, "scoped_read_tools") /\ s.whole
    <3>1. s.path \in m.reads.sources
      BY <2>1, <2>3 DEF Permissions
    <3> QED
      BY <3>1 DEF Readable
  <2>4. CASE ~HasToolset(t, b, "scoped_read_tools") /\ ~s.whole
    <3>1. m.reads.skills = UNION {{y.path} \X Gives(y) : y \in {z \in AgentSources(t, b) : ~z.whole}}
      BY <2>1, <2>4 DEF Permissions
    <3>2. <<s.path, x>> \in m.reads.skills
      BY <2>4, <3>1
    <3> QED
      BY <3>2 DEF Readable
  <2> QED
    BY <2>2, <2>3, <2>4
<1>4. ASSUME chosen.mode = "only", told # {}, NEW x \in chosen.ids
      PROVE  \E p \in told : x \in Gives(graph.routes[p])
  <2>1. told = Paths(t, b)
    BY <1>4 DEF Listed
  <2>2. Missing(t, b) = {}
    BY DEF SkillsFailure, Check, NoFailure
  <2>3. PICK y \in TeamSources(t) : x \in Gives(y)
    BY <1>4, <2>2 DEF Missing
  <2> DEFINE s == Selection(t, b, y)
  <2>4. s \in AgentSources(t, b)
    BY <1>4, <2>3 DEF AgentSources
  <2>5. x \in Gives(s)
    BY <1>4, <2>3 DEF Gives, Selection
  <2>6. s.path \in told /\ graph.routes[s.path] = s
    BY <2>1, <2>4, RoutesLead DEF Paths
  <2> QED
    BY <2>5, <2>6
<1>5. m.agent = b /\ m.listed = told
  BY MemberFields
<1> HIDE DEF m
<1>6. chosen.mode = "only" =>
        \A p \in m.listed : ~graph.routes[p].whole /\ graph.routes[p].ids \subseteq chosen.ids
  BY <1>1, <1>2, <1>5
<1>7. ASSUME NEW p \in m.listed, NEW x \in GivenOn(graph.built, graph.routes[p])
      PROVE  Readable(m, p, x)
  <2>1. PICK s \in AgentSources(t, b) : s.path = p /\ graph.routes[p] = s
    BY <1>1, <1>5
  <2>2. x \in Gives(s)
    BY <1>7, <2>1, GivesNow
  <2> QED
    BY <1>3, <2>1, <2>2
<1>8. ASSUME chosen.mode = "only", m.listed # {}, NEW x \in chosen.ids
      PROVE  \E p \in m.listed : x \in GivenOn(graph.built, graph.routes[p])
  <2>1. PICK p \in told : x \in Gives(graph.routes[p])
    BY <1>4, <1>5, <1>8
  <2>2. x \in GivenOn(graph.built, graph.routes[p])
    BY <2>1, GivesNow
  <2> QED
    BY <1>5, <2>2
<1>9. t.agents[m.agent].skills = chosen
  BY <1>5
<1> HIDE DEF chosen
<1>10. /\ t.agents[m.agent].skills.mode = "only" =>
            \A p \in m.listed :
              ~graph.routes[p].whole /\ graph.routes[p].ids \subseteq t.agents[m.agent].skills.ids
       /\ t.agents[m.agent].skills.mode = "only" /\ m.listed # {} =>
            \A x \in t.agents[m.agent].skills.ids :
              \E p \in m.listed : x \in GivenOn(graph.built, graph.routes[p])
  BY <1>6, <1>8, <1>9
<1>11. MemberShows(t, graph, m)
  BY <1>7, <1>10, Zenon DEF MemberShows
<1> QED
  BY <1>11 DEF m

LEMMA ToolsWork ==
  ASSUME NEW t, TeamTypes(t), NEW a, NEW b, NEW delegates, NEW told,
         NEW graph, graph.built = disk, graph.shell = RunsShell(t, a)
  PROVE  MemberWorks(t, a, graph, Member(t, b, delegates, told))
<1> DEFINE m == Member(t, b, delegates, told)
           reading == HasToolset(t, b, "scoped_read_tools")
<1>1. /\ m.agent = b /\ m.visible = Visible(t, b, delegates) /\ m.reads = Permissions(t, b)
      /\ m.writes = HasToolset(t, b, "write")
  BY MemberFields
<1> HIDE DEF m
<1>2. reading => m.reads.all
  BY <1>1 DEF Permissions
<1>3. m.visible \intersect (ReadTools \ {"read_file"}) # {} => reading
  BY <1>1 DEF Visible, ReadTools, WriteTools
<1>4. m.visible \intersect WriteTools # {} => m.writes
  BY <1>1 DEF Visible, ReadTools, WriteTools
<1>5. "execute" \in m.visible => RunsShell(t, b)
  BY <1>1 DEF Visible, ReadTools, WriteTools, ShellVisible
<1>6. ASSUME "read_file" \in m.visible, ~reading
      PROVE  \/ m.reads.sources \union m.reads.skills # {}
             \/ \E s \in t.locked : s \notin disk["package"]
  <2>1. PICK s \in AgentSources(t, b) : TRUE
    BY <1>1, <1>6 DEF Visible, WriteTools
  <2>2. CASE s.whole
    <3>1. s.path \in m.reads.sources
      BY <1>1, <1>6, <2>2 DEF Permissions
    <3> QED
      BY <3>1
  <2>3. CASE ~s.whole
    <3>1. m.reads.skills = UNION {{y.path} \X Gives(y) : y \in {z \in AgentSources(t, b) : ~z.whole}}
      BY <1>1, <1>6 DEF Permissions
    <3>2. ASSUME NEW x \in Gives(s) PROVE <<s.path, x>> \in m.reads.skills
      BY <2>3, <3>1
    <3>3. PICK n \in Nat : SourceOf(t, b, s, n)
      BY SourcesAre
    <3>4. CASE s = Selection(t, b, Source(t, n)) /\ Gives(Source(t, n)) \intersect t.agents[b].skills.ids # {}
      <4>1. Gives(s) # {}
        BY <3>4 DEF Gives, Selection
      <4>2. m.reads.skills # {}
        BY <3>2, <4>1
      <4> QED
        BY <4>2
    <3>5. CASE s = Source(t, n) /\ s \in TeamSources(t)
      <4>1. n = 3 /\ s.ids = t.locked /\ s.root = Root(t, 3)
        BY <2>3, <3>5 DEF Source
      <4>2. Root(t, 3) = "package"
        BY DEF Root
      <4>3. PICK k \in Nat : s = Source(t, k) /\ s.root \in DOMAIN disk /\ (k = 3 => t.locked # {})
        BY <3>5, TeamSourcesAre
      <4>4. t.locked # {} /\ "package" \in DOMAIN disk
        BY <2>3, <4>1, <4>2, <4>3 DEF Source
      <4>5. Gives(s) = disk["package"] \intersect t.locked
        BY <2>3, <4>1, <4>2, <4>4 DEF Gives
      <4>6. CASE Gives(s) = {}
        BY <4>4, <4>5, <4>6
      <4>7. CASE Gives(s) # {}
        <5>1. m.reads.skills # {}
          BY <3>2, <4>7
        <5> QED
          BY <5>1
      <4> QED
        BY <4>6, <4>7
    <3> QED
      BY <3>3, <3>4, <3>5 DEF SourceOf
  <2> QED
    BY <2>2, <2>3
<1>7. "execute" \in m.visible /\ m.agent = a => graph.shell
  BY <1>1, <1>5
<1>8. "read_file" \in m.visible =>
        \/ m.reads.all \/ m.reads.sources \union m.reads.skills # {}
        \/ \E s \in t.locked : s \notin graph.built["package"]
  BY <1>2, <1>6
<1>9. m.visible \intersect (ReadTools \ {"read_file"}) # {} => m.reads.all
  BY <1>2, <1>3
<1> QED
  BY <1>4, <1>7, <1>8, <1>9 DEF MemberWorks, m

LEMMA SkillsOfAllAgents ==
  ASSUME NEW t, TeamTypes(t), NEW a, GraphFailure(t, a) = NoFailure, NEW b \in DOMAIN t.agents
  PROVE  SkillsFailure(t, b) = NoFailure
<1>1. BackendFailure(t) = NoFailure
  <2> DEFINE failures ==
               <<RelationToolsFailure(t, a), SubagentsFailure(t, a), ModelFailure(t, a),
                 PermissionsFailure(t, a), ToolsFailure(t, a, FALSE),
                 UniqueNames(Tools(t, a, FALSE) \o RelationTools(t, a)), BackendFailure(t),
                 ListedFailure(t, a), Check(~t.agents[a].forgets, "refused")>>
  <2>1. FirstFailure(failures) = NoFailure
    BY DEF GraphFailure
  <2>2. DOMAIN failures = 1 .. 9 /\ failures[7] = BackendFailure(t)
    OBVIOUS
  <2>3. failures[7] = NoFailure
    BY <2>1, <2>2, NoneFailed
  <2> QED
    BY <2>2, <2>3
<1> DEFINE failures == [i \in DOMAIN t.order |-> SkillsFailure(t, t.order[i])]
<1>2. DOMAIN failures \subseteq Nat /\ FirstFailure(failures) = NoFailure
  BY <1>1 DEF BackendFailure, TeamTypes
<1>3. \A i \in DOMAIN failures : failures[i] = NoFailure
  BY <1>2, NoneFailed
<1>4. PICK i \in DOMAIN t.order : b = t.order[i]
  BY DEF TeamTypes, ToSet
<1> QED
  BY <1>3, <1>4

\* A graph that was built is right for the disk it was built from.
LEMMA BuiltGraph ==
  ASSUME NEW t, TeamTypes(t), NEW a \in DOMAIN t.agents, GraphFailure(t, a) = NoFailure,
         NEW m \in Graph(t, a).members
  PROVE  /\ SlugsDistinct(t) => MemberShows(t, Graph(t, a), m)
         /\ MemberWorks(t, a, Graph(t, a), m)
<1>1. /\ Graph(t, a).routes = Routes(t) /\ Graph(t, a).built = disk
      /\ Graph(t, a).shell = RunsShell(t, a)
  BY DEF Graph
<1>2. PICK b \in DOMAIN t.agents : \E delegates : \E told \in {Listed(t, b), {}} :
        m = Member(t, b, delegates, told)
  <2>1. Subagents(t, a) \subseteq DOMAIN t.agents
    BY DEF Subagents, RelationsFrom, TeamTypes
  <2>2. \/ m = Member(t, a, Delegates(t, a), Listed(t, a))
        \/ \E b \in Subagents(t, a) : m = Member(t, b, FALSE, Listed(t, b))
        \/ m = Member(t, a, FALSE, {})
    BY DEF Graph
  <2> QED
    BY <2>1, <2>2
<1>3. PICK delegates, told : m = Member(t, b, delegates, told) /\ told \in {Listed(t, b), {}}
  BY <1>2
<1>4. SkillsFailure(t, b) = NoFailure
  BY SkillsOfAllAgents
<1> DEFINE graph == Graph(t, a)
<1> HIDE DEF graph
<1>5. graph.routes = Routes(t) /\ graph.built = disk /\ graph.shell = RunsShell(t, a)
  BY <1>1 DEF graph
<1>6. SlugsDistinct(t) => MemberShows(t, graph, m)
  BY <1>3, <1>4, <1>5, ShowsSelected
<1>7. MemberWorks(t, a, graph, m)
  BY <1>3, <1>5, ToolsWork
<1> QED
  BY <1>6, <1>7 DEF graph

\* A graph is built when nothing of it fails, and no graph that was built changes.
LEMMA GraphsStay ==
  ASSUME TeamInv, GraphInv, UNCHANGED team,
         \A a \in DOMAIN graphs' :
           \/ a \in DOMAIN graphs /\ graphs'[a] = graphs[a]
           \/ /\ stage # "idle" /\ a \in DOMAIN team.agents /\ GraphFailure(team, a) = NoFailure
              /\ graphs'[a] = Graph(team, a)
  PROVE  GraphInv'
<1>1. ASSUME NEW a \in DOMAIN graphs', NEW m \in graphs'[a].members
      PROVE  /\ SlugsDistinct(team) => MemberShows(team, graphs'[a], m)
             /\ MemberWorks(team, a, graphs'[a], m)
  <2>1. CASE a \in DOMAIN graphs /\ graphs'[a] = graphs[a]
    BY <1>1, <2>1 DEF GraphInv
  <2>2. CASE /\ stage # "idle" /\ a \in DOMAIN team.agents /\ GraphFailure(team, a) = NoFailure
             /\ graphs'[a] = Graph(team, a)
    <3>1. TeamTypes(team)
      BY <2>2, LoadedTypes DEF TeamInv
    <3> QED
      BY <1>1, <2>2, <3>1, BuiltGraph
  <2> QED
    BY <2>1, <2>2
<1> QED
  BY <1>1 DEF GraphInv

LEMMA AskedGraphIsRight ==
  ASSUME TeamInv, GraphInv, NEW a, stage = "ready" => a \in DOMAIN team.agents, AskGraph(a)
  PROVE  GraphInv'
<1>1. stage = "ready" /\ UNCHANGED team
  BY DEF AskGraph
<1>2. CASE UNCHANGED graphs
  BY <1>1, <1>2, GraphsStay
<1>3. CASE /\ GraphFailure(team, a) = NoFailure
           /\ graphs' = [b \in DOMAIN graphs \union {a} |-> IF b = a THEN Graph(team, a) ELSE graphs[b]]
  BY <1>1, <1>3, GraphsStay
<1> QED
  BY <1>2, <1>3 DEF AskGraph

LEMMA GraphStep ==
  ASSUME TeamInv, GraphInv, [RuntimeNext]_runtimeVars
  PROVE  GraphInv'
<1>1. CASE UNCHANGED <<team, graphs>>
  BY <1>1, GraphsStay
<1>2. CASE DOMAIN graphs' = {}
  BY <1>2 DEF GraphInv
<1>3. CASE Load
  BY <1>2, <1>3 DEF Load, TeamInv
<1>4. CASE OpenCheckpointer \/ CheckpointerFails \/ BuildFails \/ ConversationFails \/ FilesChange
  BY <1>1, <1>4
  DEF OpenCheckpointer, CheckpointerFails, BuildFails, ConversationFails, FilesChange, EditFile, ChangeSkill
<1>5. CASE Build
  <2>1. /\ stage = "opened" /\ BuildFailure(team) = NoFailure /\ UNCHANGED team
        /\ graphs' = [a \in {Entrypoint(team)} |-> Graph(team, a)]
    BY <1>5 DEF Build
  <2>2. Entrypoint(team) \in DOMAIN team.agents
    BY <2>1, LoadedTypes DEF TeamInv, TeamTypes
  <2>3. GraphFailure(team, Entrypoint(team)) = NoFailure
    <3> DEFINE failures == <<GraphFailure(team, Entrypoint(team)), PersistFailure(team)>>
    <3>1. FirstFailure(failures) = NoFailure
      BY <2>1 DEF BuildFailure
    <3>2. DOMAIN failures = 1 .. 2 /\ failures[1] = GraphFailure(team, Entrypoint(team))
      OBVIOUS
    <3>3. failures[1] = NoFailure
      BY <3>1, <3>2, NoneFailed
    <3> QED
      BY <3>2, <3>3
  <2> QED
    BY <2>1, <2>2, <2>3, GraphsStay
<1>6. CASE Closes \/ Crash
  BY <1>2, <1>6 DEF Closes, CloseTeam, Crash
<1>7. CASE OtherNeedsGraph
  BY <1>7, AskedGraphIsRight, AskableAgents DEF OtherNeedsGraph
<1>8. ASSUME NEW r \in Runs, RunStarts(r) PROVE GraphInv'
  <2>1. AgentOf[r] \in DOMAIN team.agents
    BY <1>8, AskableAgents DEF RunStarts
  <2> QED
    BY <1>1, <1>8, <2>1, AskedGraphIsRight DEF RunStarts, NeedsGraph, teamVars
<1>9. ASSUME NEW c \in Calls, CallRelation(c) PROVE GraphInv'
  <2>1. Target(c) \in Askable(team)
    BY <1>9 DEF CallRelation, Related, Target, Askable
  <2>2. Target(c) \in DOMAIN team.agents
    BY <1>9, <2>1, AskableAgents DEF CallRelation
  <2> QED
    BY <1>1, <1>9, <2>2, AskedGraphIsRight DEF CallRelation, NeedsGraph, teamVars
<1>10. ASSUME NEW i \in Invocations, Computes(i) PROVE GraphInv'
  BY <1>1, <1>10 DEF Computes, teamVars
<1>11. CASE UNCHANGED runtimeVars
  BY <1>1, <1>11 DEF runtimeVars, teamVars
<1> QED
  BY <1>3, <1>4, <1>5, <1>6, <1>7, <1>8, <1>9, <1>10, <1>11
  DEF RuntimeNext, Instantiates, OpensConversation

LEMMA GraphInvariant == RuntimeSpec => []GraphInv
<1>1. RuntimeInit => GraphInv
  BY DEF RuntimeInit, InstantiationInit, GraphInv
<1> QED
  BY <1>1, GraphStep, TeamInvariant, PTL DEF RuntimeSpec

\* An agent is shown the skills it selected and no other, and can read what it is shown, for
\* any team whose slugs differ, any directories of skills, any changes of them and any order
\* in which graphs are built (SkillSourceResolver, BackendFactory, PermissionsFactory).
THEOREM SelectedSkillsAreListedCorrect == RuntimeSpec => []SelectedSkillsAreListed
<1>1. TeamInv /\ GraphInv => SelectedSkillsAreListed
  <2> SUFFICES ASSUME TeamInv, GraphInv, NEW a \in DOMAIN graphs, NEW m \in graphs[a].members,
                      SlugsDistinct(team)
               PROVE  LET chosen == team.agents[m.agent].skills
                          shown  == Shown(graphs[a], m)
                      IN /\ chosen.mode = "only" => \A pair \in shown : pair[2] \in chosen.ids
                         /\ graphs[a].built = disk =>
                              /\ \A pair \in shown : Readable(m, pair[1], pair[2])
                              /\ chosen.mode = "only" /\ m.listed # {} => {pair[2] : pair \in shown} = chosen.ids
    BY DEF SelectedSkillsAreListed
  <2> DEFINE chosen == team.agents[m.agent].skills
             graph == graphs[a]
             shown == Shown(graph, m)
  <2>1. MemberShows(team, graph, m)
    BY DEF GraphInv
  <2> HIDE DEF graph
  <2>2. /\ chosen.mode = "only" =>
             \A p \in m.listed : ~graph.routes[p].whole /\ graph.routes[p].ids \subseteq chosen.ids
        /\ \A p \in m.listed : \A s \in GivenOn(graph.built, graph.routes[p]) : Readable(m, p, s)
        /\ chosen.mode = "only" /\ m.listed # {} =>
             \A s \in chosen.ids : \E p \in m.listed : s \in GivenOn(graph.built, graph.routes[p])
    BY <2>1 DEF MemberShows
  <2>3. ASSUME NEW pair \in shown
        PROVE  /\ pair[1] \in m.listed /\ pair = <<pair[1], pair[2]>>
               /\ pair[2] \in GivenOn(disk, graph.routes[pair[1]])
    BY <2>3, GivesNow DEF Shown
  <2>4. ASSUME NEW p \in m.listed, NEW s \in GivenOn(disk, graph.routes[p])
        PROVE  \E pair \in shown : pair[2] = s
    <3>1. s \in Skills
      BY <2>4 DEF GivenOn, TeamInv
    <3>2. <<p, s>> \in shown /\ <<p, s>>[2] = s
      BY <2>4, <3>1, GivesNow DEF Shown
    <3> QED
      BY <3>2
  <2>5. ASSUME chosen.mode = "only", NEW p \in m.listed
        PROVE  GivenOn(disk, graph.routes[p]) \subseteq chosen.ids
    BY <2>2, <2>5 DEF GivenOn
  <2> HIDE DEF shown, chosen
  <2>6. chosen.mode = "only" => \A pair \in shown : pair[2] \in chosen.ids
    BY <2>3, <2>5
  <2>7. ASSUME graph.built = disk PROVE \A pair \in shown : Readable(m, pair[1], pair[2])
    BY <2>2, <2>3, <2>7
  <2>8. ASSUME graph.built = disk, chosen.mode = "only", m.listed # {}
        PROVE  {pair[2] : pair \in shown} = chosen.ids
    <3>1. \A s \in chosen.ids : \E pair \in shown : pair[2] = s
      BY <2>2, <2>4, <2>8
    <3> QED
      BY <2>6, <2>8, <3>1
  <2> QED
    BY <2>6, <2>7, <2>8 DEF shown, chosen, graph
<1> QED
  BY <1>1, TeamInvariant, GraphInvariant, PTL

\* A builtin tool a model sees does something, in every graph of any team: what
\* ToolVisibilityFactory shows is what PermissionsFactory and BackendFactory give.
THEOREM VisibleToolsWorkCorrect == RuntimeSpec => []VisibleToolsWork
<1>1. GraphInv => VisibleToolsWork
  BY DEF GraphInv, MemberWorks, VisibleToolsWork
<1> QED
  BY <1>1, GraphInvariant, PTL

----------------------------------------------------------------------------
(* Types of the calls.                                                      *)

\* A model call has tries left when it is made again.
TriesInv ==
  /\ tries \in [Invocations -> 0 .. MaxAttempts]
  /\ \A i \in Invocations :
       /\ at[i] \in {"idle", "asked", "recovering", "waiting", "tools"} => tries[i] = 0
       /\ at[i] = "thinking" => tries[i] < MaxAttempts

Attempt == [number  : Nat \ {0}, status : {"running", "success", "retrying", "failed"},
            outcome : {"none", "success", "retrying", "failed"}]

RecordsInv ==
  /\ count \in [Runs -> Nat]
  /\ \A i \in Invocations : \A n \in DOMAIN attempts[i] : attempts[i][n] \in Attempt

ListedInv ==
  /\ DOMAIN listed = Calls
  /\ \A c \in Calls : listed[c] # {} => at[c] = "recovering"

\* An invocation comes to a place where it has made no attempt, or it stays.
LEMMA TriesStay ==
  ASSUME TriesInv, UNCHANGED tries,
         \A i \in Invocations :
           \/ at'[i] = at[i]
           \/ at'[i] \notin {"idle", "asked", "recovering", "waiting", "tools", "thinking"}
           \/ at[i] \in {"idle", "asked", "recovering", "waiting", "tools"}
           \/ at'[i] = "thinking" /\ tries[i] < MaxAttempts
  PROVE  TriesInv'
BY CallsAssumption DEF TriesInv

LEMMA ComputesKeepsTries ==
  ASSUME WorkInv, TriesInv, NEW i \in Invocations, Works(i)
  PROVE  TriesInv'
<1> USE DEF InThread, Over
<1>1. CASE StartAttempt(i)
  <2>1. /\ at[i] = "thinking" /\ at' = [at EXCEPT ![i] = "attempting"]
        /\ tries' = [tries EXCEPT ![i] = tries[i] + 1]
    BY <1>1 DEF StartAttempt, Moves
  <2>2. tries[i] + 1 \in 0 .. MaxAttempts
    BY <2>1, CallsAssumption DEF TriesInv
  <2>3. /\ tries' \in [Invocations -> 0 .. MaxAttempts] /\ at'[i] = "attempting"
        /\ \A j \in Invocations : j # i => tries'[j] = tries[j] /\ at'[j] = at[j]
    BY <2>1, <2>2 DEF TriesInv, WorkInv
  <2> QED
    BY <2>3 DEF TriesInv
<1>2. CASE AttemptAnswers(i)
  <2>1. tries' = [tries EXCEPT ![i] = 0]
    BY <1>2 DEF AttemptAnswers
  <2>2. /\ tries' \in [Invocations -> 0 .. MaxAttempts] /\ tries'[i] = 0
        /\ \A j \in Invocations : j # i => tries'[j] = tries[j]
    BY <2>1, CallsAssumption DEF TriesInv
  <2>3. \A j \in Invocations : j # i => at'[j] = at[j] \/ (at[j] = "idle" /\ at'[j] = "asked")
    <3>1. CASE Moves(i, "answered")
      BY <3>1 DEF Moves, WorkInv
    <3>2. ASSUME NEW asked \in SUBSET {c \in CallsOf(i) \intersect remains.calls : at[c] = "idle"},
                 at' = [j \in Invocations |->
                          IF j = i THEN "tools" ELSE IF j \in asked THEN "asked" ELSE at[j]]
          PROVE  \A j \in Invocations : j # i => at'[j] = at[j] \/ (at[j] = "idle" /\ at'[j] = "asked")
      BY <3>2
    <3> QED
      BY <1>2, <3>1, <3>2 DEF AttemptAnswers
  <2> QED
    BY <2>2, <2>3, CallsAssumption DEF TriesInv
<1>3. ASSUME NEW error \in Errors, AttemptFails(i, error) PROVE TriesInv'
  <2>1. /\ UNCHANGED tries /\ \A j \in Invocations : j # i => at'[j] = at[j]
        /\ at'[i] = "raised" \/ (at'[i] = "thinking" /\ tries[i] < MaxAttempts)
    BY <1>3 DEF AttemptFails, Moves, TriesLeft, WorkInv
  <2> QED
    BY <2>1, TriesStay
<1>4. CASE ToolsEnd(i)
  <2>1. UNCHANGED tries /\ at[i] = "tools"
    BY <1>4 DEF ToolsEnd
  <2>2. \A j \in Invocations : j # i => at'[j] = at[j] \/ at'[j] = "dropped"
    BY <1>4 DEF ToolsEnd, Moves, WorkInv
  <2> QED
    BY <2>1, <2>2, TriesStay
<1>5. CASE \/ i \in Runs /\ EndRun(i)
           \/ i \in Calls /\ (Recover(i) \/ Enter(i) \/ Return(i))
  <2>1. /\ UNCHANGED tries /\ \A j \in Invocations : j # i => at'[j] = at[j]
        /\ at[i] \in {"recovering", "waiting"} \/ at'[i] \in {"returned", "failed"}
    BY <1>5 DEF EndRun, Recover, Enter, Return, Moves, WorkInv
  <2> QED
    BY <2>1, TriesStay
<1> QED
  BY <1>1, <1>2, <1>3, <1>4, <1>5 DEF Works

LEMMA TriesStep ==
  ASSUME WorkInv, TriesInv, [RuntimeNext]_runtimeVars
  PROVE  TriesInv'
<1> USE DEF InThread, Over
<1>1. CASE UNCHANGED <<at, tries>>
  BY <1>1 DEF TriesInv
<1>2. ASSUME NEW r \in Runs, RunStarts(r) PROVE TriesInv'
  <2>1. /\ UNCHANGED tries /\ at[r] = "idle" /\ \A j \in Invocations : j # r => at'[j] = at[j]
    BY <1>2 DEF RunStarts, StartRun, Moves, WorkInv
  <2> QED
    BY <2>1, TriesStay
<1>3. ASSUME NEW c \in Calls, CallRelation(c) PROVE TriesInv'
  <2>1. /\ UNCHANGED tries /\ at[c] = "asked" /\ \A j \in Invocations : j # c => at'[j] = at[j]
    BY <1>3 DEF CallRelation, Resolve, RaisesAtOnce, Moves, WorkInv
  <2> QED
    BY <2>1, TriesStay
<1>4. ASSUME NEW i \in Invocations, Computes(i) PROVE TriesInv'
  BY <1>4, ComputesKeepsTries DEF Computes
<1>5. CASE Closes
  <2>1. UNCHANGED tries /\ \A i \in Invocations : at'[i] \in {at[i], "stuck", "dropped"}
    BY <1>5 DEF Closes, CallsClosed
  <2> QED
    BY <2>1, TriesStay
<1>6. CASE Crash
  <2>1. UNCHANGED tries /\ \A i \in Invocations : at'[i] \in {at[i], "lost"}
    BY <1>6 DEF Crash, CallsCrash
  <2> QED
    BY <2>1, TriesStay
<1>7. CASE Instantiates \/ OpensConversation \/ FilesChange \/ OtherNeedsGraph
  BY <1>1, <1>7
  DEF Instantiates, OpensConversation, CallsRecovered, FilesChange, OtherNeedsGraph, callVars
<1>8. CASE UNCHANGED runtimeVars
  BY <1>1, <1>8 DEF runtimeVars, callVars
<1> QED
  BY <1>2, <1>3, <1>4, <1>5, <1>6, <1>7, <1>8 DEF RuntimeNext

LEMMA FinishKeepsRecords ==
  ASSUME AttemptInv, RecordsInv, NEW i \in Invocations,
         NEW status \in {"success", "retrying", "failed"}, Finish(i, status), UNCHANGED count
  PROVE  RecordsInv'
<1> DEFINE last == Len(attempts[i])
           ended == [attempts[i][last] EXCEPT !.status = status, !.outcome = status]
<1>1. attempts' = [attempts EXCEPT ![i] = [attempts[i] EXCEPT ![last] = ended]]
  BY DEF Finish, Recorded
<1>2. last \in DOMAIN attempts[i] => ended \in Attempt
  <2> SUFFICES ASSUME last \in DOMAIN attempts[i] PROVE ended \in Attempt
    OBVIOUS
  <2>1. attempts[i][last] \in Attempt
    BY DEF RecordsInv
  <2> QED
    BY <2>1 DEF Attempt
<1> HIDE DEF last, ended
<1>3. /\ attempts'[i] = [attempts[i] EXCEPT ![last] = ended]
      /\ \A j \in Invocations : j # i => attempts'[j] = attempts[j]
  BY <1>1 DEF AttemptInv, AttemptTypes
<1>4. ASSUME NEW n \in DOMAIN attempts'[i] PROVE attempts'[i][n] \in Attempt
  BY <1>2, <1>3, <1>4 DEF RecordsInv
<1> QED
  BY <1>3, <1>4 DEF RecordsInv

LEMMA FailedKeepsRecords ==
  ASSUME RecordsInv, NEW these, attempts' = FailedAttempts(these), UNCHANGED count
  PROVE  RecordsInv'
<1> DEFINE failed(i, n) == [attempts[i][n] EXCEPT !.status = "failed"]
<1>1. attempts' = [i \in Invocations |-> [n \in DOMAIN attempts[i] |->
                     IF <<i, n>> \in these THEN failed(i, n) ELSE attempts[i][n]]]
  BY DEF FailedAttempts
<1>2. ASSUME NEW i \in Invocations, NEW n \in DOMAIN attempts[i] PROVE failed(i, n) \in Attempt
  <2>1. attempts[i][n] \in Attempt
    BY DEF RecordsInv
  <2> QED
    BY <2>1 DEF Attempt
<1> HIDE DEF failed
<1> QED
  BY <1>1, <1>2 DEF RecordsInv

LEMMA StartAttemptKeepsRecords ==
  ASSUME AttemptInv, RecordsInv, NEW i \in Invocations, StartAttempt(i)
  PROVE  RecordsInv'
<1> DEFINE new == [number |-> count[Top[i]] + 1, status |-> "running", outcome |-> "none"]
<1>1. /\ attempts' = [attempts EXCEPT ![i] = Append(attempts[i], new)]
      /\ count' = [count EXCEPT ![Top[i]] = count[Top[i]] + 1]
  BY DEF StartAttempt, Attempted
<1>2. Top[i] \in Runs /\ count[Top[i]] \in Nat
  BY RunsOfCalls DEF RecordsInv
<1>3. new \in Attempt /\ count' \in [Runs -> Nat]
  BY <1>1, <1>2 DEF RecordsInv, Attempt
<1> HIDE DEF new
<1>4. attempts[i] \in Seq(Attempt)
  <2>1. PICK S : attempts[i] \in Seq(S)
    BY DEF AttemptInv, AttemptTypes
  <2>2. \A n \in DOMAIN attempts[i] : attempts[i][n] \in Attempt
    BY DEF RecordsInv
  <2> QED
    BY <2>1, <2>2
<1>5. \A n \in DOMAIN Append(attempts[i], new) : Append(attempts[i], new)[n] \in Attempt
  BY <1>3, <1>4
<1>6. /\ attempts'[i] = Append(attempts[i], new)
      /\ \A j \in Invocations : j # i => attempts'[j] = attempts[j]
  BY <1>1 DEF AttemptInv, AttemptTypes
<1> QED
  BY <1>3, <1>5, <1>6 DEF RecordsInv

LEMMA ComputesKeepsRecords ==
  ASSUME AttemptInv, RecordsInv, NEW i \in Invocations, Works(i)
  PROVE  RecordsInv'
<1>1. CASE StartAttempt(i)
  BY <1>1, StartAttemptKeepsRecords
<1>2. CASE AttemptAnswers(i)
  BY <1>2, FinishKeepsRecords DEF AttemptAnswers
<1>3. ASSUME NEW error \in Errors, AttemptFails(i, error) PROVE RecordsInv'
  BY <1>3, FinishKeepsRecords DEF AttemptFails
<1>4. CASE i \in Calls /\ Recover(i)
  BY <1>4, FailedKeepsRecords DEF Recover
<1>5. CASE \/ ToolsEnd(i) \/ (i \in Runs /\ EndRun(i))
           \/ i \in Calls /\ (Enter(i) \/ Return(i))
  BY <1>5 DEF ToolsEnd, EndRun, Enter, Return, RecordsInv
<1> QED
  BY <1>1, <1>2, <1>3, <1>4, <1>5 DEF Works

LEMMA RecordsStep ==
  ASSUME AttemptInv, RecordsInv, [RuntimeNext]_runtimeVars
  PROVE  RecordsInv'
<1>1. CASE UNCHANGED <<attempts, count>>
  BY <1>1 DEF RecordsInv
<1>2. ASSUME NEW i \in Invocations, Computes(i) PROVE RecordsInv'
  BY <1>2, ComputesKeepsRecords DEF Computes
<1>3. ASSUME NEW r \in Runs, RunStarts(r) PROVE RecordsInv'
  BY <1>1, <1>3 DEF RunStarts, StartRun
<1>4. ASSUME NEW c \in Calls, CallRelation(c) PROVE RecordsInv'
  BY <1>1, <1>4 DEF CallRelation, Resolve, RaisesAtOnce
<1>5. CASE Closes \/ Crash
  BY <1>1, <1>5 DEF Closes, Crash, CallsClosed, CallsCrash
<1>6. CASE OpensConversation
  BY <1>6, FailedKeepsRecords DEF OpensConversation, CallsRecovered
<1>7. CASE Instantiates \/ FilesChange \/ OtherNeedsGraph
  BY <1>1, <1>7 DEF Instantiates, FilesChange, OtherNeedsGraph, callVars
<1>8. CASE UNCHANGED runtimeVars
  BY <1>1, <1>8 DEF runtimeVars, callVars
<1> QED
  BY <1>2, <1>3, <1>4, <1>5, <1>6, <1>7, <1>8 DEF RuntimeNext

LEMMA ListedStays ==
  ASSUME ListedInv, UNCHANGED listed, \A c \in Calls : at[c] = "recovering" => at'[c] = "recovering"
  PROVE  ListedInv'
BY DEF ListedInv

LEMMA ComputesKeepsListed ==
  ASSUME WorkInv, ListedInv, NEW i \in Invocations, Works(i)
  PROVE  ListedInv'
<1> USE DEF InThread, Over, Invocations
<1>1. CASE i \in Calls /\ Recover(i)
  BY <1>1 DEF Recover, Moves, ListedInv, WorkInv
<1>2. CASE \/ StartAttempt(i) \/ \E error \in Errors : AttemptFails(i, error)
           \/ (i \in Runs /\ EndRun(i))
           \/ (i \in Calls /\ (Enter(i) \/ Return(i)))
  <2>1. UNCHANGED listed /\ at[i] # "recovering" /\ \A j \in Invocations : j # i => at'[j] = at[j]
    BY <1>2 DEF StartAttempt, AttemptFails, EndRun, Enter, Return, Moves, WorkInv
  <2> QED
    BY <2>1, ListedStays
<1>3. CASE AttemptAnswers(i)
  <2>1. UNCHANGED listed /\ at[i] = "attempting"
    BY <1>3 DEF AttemptAnswers
  <2>2. CASE Moves(i, "answered")
    BY <2>1, <2>2, ListedStays DEF Moves, WorkInv
  <2>3. ASSUME NEW asked \in SUBSET {c \in CallsOf(i) \intersect remains.calls : at[c] = "idle"},
               at' = [j \in Invocations |->
                        IF j = i THEN "tools" ELSE IF j \in asked THEN "asked" ELSE at[j]]
        PROVE  ListedInv'
    BY <2>1, <2>3, ListedStays
  <2> QED
    BY <1>3, <2>2, <2>3 DEF AttemptAnswers
<1>4. CASE ToolsEnd(i)
  <2>1. UNCHANGED listed /\ at[i] = "tools"
    BY <1>4 DEF ToolsEnd
  <2>2. \A j \in Invocations : at[j] = "recovering" => at'[j] = "recovering"
    <3>1. CASE Moves(i, "thinking")
      BY <2>1, <3>1 DEF Moves, WorkInv
    <3>2. CASE at' = [j \in Invocations |->
                        IF j = i THEN "raised"
                        ELSE IF j \in CallsOf(i) /\ at[j] = "asked" THEN "dropped" ELSE at[j]]
      BY <2>1, <3>2
    <3> QED
      BY <1>4, <3>1, <3>2 DEF ToolsEnd
  <2> QED
    BY <2>1, <2>2, ListedStays
<1> QED
  BY <1>1, <1>2, <1>3, <1>4 DEF Works

LEMMA ListedStep ==
  ASSUME WorkInv, ListedInv, [RuntimeNext]_runtimeVars
  PROVE  ListedInv'
<1> USE DEF InThread, Over, Invocations
<1>1. CASE UNCHANGED <<at, listed>>
  BY <1>1 DEF ListedInv
<1>2. ASSUME NEW r \in Runs, RunStarts(r) PROVE ListedInv'
  <2>1. UNCHANGED listed /\ \A c \in Calls : at'[c] = at[c]
    BY <1>2, RunsOfCalls DEF RunStarts, StartRun, Moves, WorkInv
  <2> QED
    BY <2>1, ListedStays
<1>3. ASSUME NEW c \in Calls, CallRelation(c) PROVE ListedInv'
  <2>1. CASE Resolve(c)
    BY <2>1 DEF Resolve, Moves, ListedInv, WorkInv
  <2>2. CASE RaisesAtOnce(c)
    BY <2>2, ListedStays DEF RaisesAtOnce, Moves, WorkInv
  <2> QED
    BY <1>3, <2>1, <2>2 DEF CallRelation
<1>4. ASSUME NEW i \in Invocations, Computes(i) PROVE ListedInv'
  BY <1>4, ComputesKeepsListed DEF Computes
<1>5. CASE Closes
  BY <1>5, ListedStays DEF Closes, CallsClosed
<1>6. CASE Crash
  BY <1>6 DEF Crash, CallsCrash, ListedInv
<1>7. CASE Instantiates \/ OpensConversation \/ FilesChange \/ OtherNeedsGraph
  BY <1>1, <1>7
  DEF Instantiates, OpensConversation, CallsRecovered, FilesChange, OtherNeedsGraph, callVars
<1>8. CASE UNCHANGED runtimeVars
  BY <1>1, <1>8 DEF runtimeVars, callVars
<1> QED
  BY <1>2, <1>3, <1>4, <1>5, <1>6, <1>7, <1>8 DEF RuntimeNext

LEMMA TypesInit == RuntimeInit => TriesInv /\ RecordsInv /\ ListedInv
<1> SUFFICES ASSUME RuntimeInit PROVE TriesInv /\ RecordsInv /\ ListedInv
  OBVIOUS
<1>1. /\ at = [i \in Invocations |-> "idle"] /\ attempts = [i \in Invocations |-> <<>>]
      /\ tries = [i \in Invocations |-> 0] /\ count = [r \in Runs |-> 0]
      /\ listed = [c \in Calls |-> {}]
  BY DEF RuntimeInit, CallsInit
<1>2. TriesInv
  BY <1>1, CallsAssumption DEF TriesInv
<1>3. RecordsInv
  BY <1>1 DEF RecordsInv
<1>4. ListedInv
  BY <1>1 DEF ListedInv
<1> QED
  BY <1>2, <1>3, <1>4

\* The types of the whole: among them, a model call is tried max_attempts times at most
\* (stop_after_attempt of ReliableChatModel), and a recovery that has listed attempts has its
\* call on the way.
THEOREM RuntimeTypeOKCorrect == RuntimeSpec => []RuntimeTypeOK
<1>1. TeamInv => InstantiationTypeOK
  BY DEF TeamInv, InstantiationTypeOK, Exceptions, Loaded
<1>2. LockInv /\ EdgeInv /\ WorkInv /\ TriesInv /\ RecordsInv /\ ListedInv => CallsTypeOK
  BY DEF LockInv, EdgeInv, WorkInv, TriesInv, RecordsInv, ListedInv, Attempt, CallsTypeOK, Keys
<1>3. InstantiationTypeOK /\ CallsTypeOK => RuntimeTypeOK
  BY DEF RuntimeTypeOK
<1> QED
  BY <1>1, <1>2, <1>3, TeamInvariant, LockInit, LockStep, OutcomesInit, OutcomesStep, WorkInit, WorkStep,
     TypesInit, TriesStep, RecordsStep, ListedStep, PTL DEF RuntimeSpec
=============================================================================
