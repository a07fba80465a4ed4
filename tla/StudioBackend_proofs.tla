------------------------- MODULE StudioBackend_proofs -------------------------
(***************************************************************************)
(* For any teams, conversations, messages, packages and terminals:         *)
(* a message that is sent again is in its conversation once, whatever      *)
(* conversations are opened, switched and reopened, whatever their threads *)
(* append and whenever the process restarts; a conversation that a process *)
(* opens once loses nothing, whatever is done with the others; a team that *)
(* needs trust is never one that was installed in part, and a package of   *)
(* the lock is as it was installed, wherever a command was cut; a terminal *)
(* is shown once and in order, whichever polls are lost or late; a page    *)
(* that resumes shows the last snapshot it missed; and the types.          *)
(***************************************************************************)
EXTENDS StudioBackend, FiniteSetTheorems, NaturalsInduction, WellFoundedInduction, TLAPS

IsTranscript(s) == \E S : s \in Seq(S)

\* RetriesAppendOnce of one transcript.
Once(s) ==
  \A i, j \in 1 .. Len(s) : s[i].message = s[j].message /\ s[i].message # Nothing => i = j

TranscriptInv ==
  /\ DOMAIN transcript = Conversations
  /\ \A c \in Conversations : IsTranscript(transcript[c]) /\ Once(transcript[c])

LEMMA AppendTranscript ==
  ASSUME NEW s, IsTranscript(s), NEW event
  PROVE  /\ IsTranscript(Append(s, event))
         /\ Len(Append(s, event)) = Len(s) + 1 /\ Len(s) \in Nat
         /\ \A i \in 1 .. Len(s) : Append(s, event)[i] = s[i]
         /\ Append(s, event)[Len(s) + 1] = event
<1>1. PICK S : s \in Seq(S)
  BY DEF IsTranscript
<1>2. s \in Seq(S \union {event}) /\ event \in S \union {event}
  BY <1>1
<1>3. Append(s, event) \in Seq(S \union {event})
  BY <1>2
<1> QED
  BY <1>2, <1>3 DEF IsTranscript

\* An event that has no client_message_id, or one no event has, can be appended.
LEMMA AppendOnce ==
  ASSUME NEW s, IsTranscript(s), Once(s), NEW event,
         event.message # Nothing => \A i \in 1 .. Len(s) : s[i].message # event.message
  PROVE  IsTranscript(Append(s, event)) /\ Once(Append(s, event))
BY AppendTranscript DEF Once

\* A step that appends such an event to one transcript at most.
LEMMA TranscriptGrows ==
  ASSUME TranscriptInv, NEW c, NEW event,
         event.message # Nothing /\ c \in Conversations =>
           \A i \in 1 .. Len(transcript[c]) : transcript[c][i].message # event.message,
         transcript' = [transcript EXCEPT ![c] = Append(@, event)]
  PROVE  TranscriptInv'
<1>1. DOMAIN transcript' = Conversations
  BY DEF TranscriptInv
<1>2. ASSUME NEW d \in Conversations PROVE IsTranscript(transcript'[d]) /\ Once(transcript'[d])
  <2>1. CASE d = c
    BY <2>1, AppendOnce DEF TranscriptInv
  <2>2. CASE d # c
    BY <2>2 DEF TranscriptInv
  <2> QED
    BY <2>1, <2>2
<1> QED
  BY <1>1, <1>2 DEF TranscriptInv

LEMMA HandlersAppendOnce ==
  ASSUME TranscriptInv, HandlerStep
  PROVE  TranscriptInv'
<1>1. ASSUME NEW c \in Conversations, ActivateTeam(c) \/ SwitchConversation(c) PROVE TranscriptInv'
  BY <1>1 DEF ActivateTeam, SwitchConversation, TranscriptInv
<1>2. ASSUME NEW c \in Conversations, NEW m \in Messages \union {Nothing}, CreateConversation(c, m)
      PROVE  TranscriptInv'
  <2> DEFINE first == [message |-> m, run |-> NoRun]
  <2>1. transcript' = [transcript EXCEPT ![c] = <<first>>]
    BY <1>2 DEF CreateConversation
  <2>2. IsTranscript(<<first>>) /\ Once(<<first>>)
    <3> HIDE DEF first
    <3>1. <<first>> \in Seq({first}) /\ Len(<<first>>) = 1
      OBVIOUS
    <3>2. IsTranscript(<<first>>)
      BY ONLY <3>1 DEF IsTranscript
    <3>3. ASSUME NEW i \in 1 .. Len(<<first>>), NEW j \in 1 .. Len(<<first>>) PROVE i = j
      BY <3>1
    <3> QED
      BY <3>2, <3>3 DEF Once
  <2> QED
    BY <2>1, <2>2 DEF TranscriptInv
<1>3. ASSUME NEW m \in Messages \union {Nothing}, AppendMessage(m) PROVE TranscriptInv'
  <2> DEFINE c == objects[active].conversation
             event == [message |-> m, run |-> NoRun]
  <2>1. /\ transcript' = [transcript EXCEPT ![c] = Append(@, event)]
        /\ ~Known(c, m)
    BY <1>3 DEF AppendMessage
  <2>2. event.message # Nothing =>
          \A i \in 1 .. Len(transcript[c]) : transcript[c][i].message # event.message
    BY <2>1 DEF Known
  <2> QED
    BY <2>1, <2>2, TranscriptGrows
<1> QED
  BY <1>1, <1>2, <1>3 DEF HandlerStep

LEMMA ThreadsAppendOnce ==
  ASSUME TranscriptInv, ThreadStep
  PROVE  TranscriptInv'
<1>1. CASE UNCHANGED transcript
  BY <1>1 DEF TranscriptInv
<1>2. ASSUME NEW o \in Objects, InsertsReply(o) PROVE TranscriptInv'
  <2> DEFINE c == objects[o].conversation
             event == [message |-> Nothing, run |-> objects[o].run]
  <2>1. transcript' = [transcript EXCEPT ![c] = Append(@, event)] \/ UNCHANGED transcript
    BY <1>2 DEF InsertsReply
  <2>2. event.message = Nothing
    OBVIOUS
  <2> QED
    BY <1>1, <2>1, <2>2, TranscriptGrows
<1>3. ASSUME NEW o \in Objects,
             Drains(o) \/ Reads(o) \/ StartsRun(o) \/ CompletesRun(o) \/ ReadsSeq(o)
      PROVE  UNCHANGED transcript
  BY <1>3 DEF Drains, Reads, StartsRun, CompletesRun, ReadsSeq
<1> QED
  BY <1>1, <1>2, <1>3 DEF ThreadStep

LEMMA TranscriptStep ==
  ASSUME TranscriptInv, [BackendNext]_backendVars
  PROVE  TranscriptInv'
<1>1. CASE UNCHANGED transcript
  BY <1>1 DEF TranscriptInv
<1>2. CASE Activation \/ Request
  <2>1. HandlerStep
    BY <1>2 DEF Activation, Request, HandlerStep
  <2> QED
    BY <2>1, HandlersAppendOnce
<1>3. CASE TeamWorks
  BY <1>3, ThreadsAppendOnce DEF TeamWorks
<1>4. CASE Stream \/ Terminal \/ CommandLine
  BY <1>1, <1>4 DEF Stream, Terminal, CommandLine, sessionVars
<1>5. CASE Restart
  BY <1>1, <1>5 DEF Restart, SessionRestarts
<1>6. CASE UNCHANGED backendVars
  BY <1>1, <1>6 DEF backendVars, sessionVars
<1> QED
  BY <1>2, <1>3, <1>4, <1>5, <1>6 DEF BackendNext

\* append_message looks its client_message_id up before it appends, and no other event has
\* one: a retry after a lost answer, after a switch of conversations or after a restart
\* never adds the message again (StudioApiController._event_for_client_message_id).
THEOREM RetriesAppendOnceCorrect == BackendSpec => []RetriesAppendOnce
<1>1. BackendInit => TranscriptInv
  <2>1. IsTranscript(<<>>) /\ Once(<<>>)
    BY DEF IsTranscript, Once
  <2> QED
    BY <2>1 DEF BackendInit, SessionInit, TranscriptInv
<1>2. TranscriptInv => RetriesAppendOnce
  BY DEF TranscriptInv, Once, RetriesAppendOnce
<1> QED
  BY <1>1, <1>2, TranscriptStep, PTL DEF BackendSpec

----------------------------------------------------------------------------
(* Packages.                                                                *)

\* What an entry of the lock file vouches for was installed in full.
EntriesComplete == \A p \in DOMAIN lock : <<p, lock[p].integrity>> \in complete

PackageInv == EntriesComplete /\ RiskyTeamsAreComplete

LEMMA InstantiateVerifies ==
  ASSUME PackageInv, NEW p \in Packages, Instantiate(p)
  PROVE  PackageInv'
<1>1. PICK owner \in Owners(p), risky \in BOOLEAN :
        /\ risky => Verified(owner)
        /\ instance' = [package |-> owner, content |-> tree[p], risky |-> risky]
  BY DEF Instantiate
<1>2. owner \in DOMAIN lock /\ p \in Within(owner)
  BY DEF Owners
<1>3. UNCHANGED <<lock, complete>>
  BY DEF Instantiate
<1>4. ASSUME risky PROVE \E c \in complete :
        c[1] = owner /\ \E q \in Within(c[1]) : c[2][q] = tree[p]
  <2>1. lock[owner].integrity = [q \in Within(owner) |-> tree[q]]
    BY <1>1, <1>4 DEF Verified, HashOf
  <2>2. <<owner, lock[owner].integrity>> \in complete
    BY <1>2 DEF PackageInv, EntriesComplete
  <2> QED
    BY <1>2, <2>1, <2>2
<1> QED
  BY <1>1, <1>3, <1>4 DEF PackageInv, EntriesComplete, RiskyTeamsAreComplete

LEMMA CommandsKeepPackages ==
  ASSUME PackageInv, PackagesNext
  PROVE  PackageInv'
<1> USE DEF PackageInv, EntriesComplete, RiskyTeamsAreComplete
<1>1. CASE UNCHANGED <<lock, complete, instance>>
  BY <1>1
<1>2. CASE InstallCommand \/ UpdateCommand \/ UpdatesNext \/ UpdateGivesUp
  BY <1>1, <1>2 DEF InstallCommand, UpdateCommand, UpdatesNext, UpdateGivesUp
<1>3. CASE RemovesTree \/ CopiesTree \/ RemovesSkill \/ CopiesSkill
  BY <1>1, <1>3 DEF RemovesTree, CopiesTree, RemovesSkill, CopiesSkill
<1>4. CASE InstallOpensLock \/ UninstallCommand \/ UninstallOpensLock
  BY <1>1, <1>4 DEF InstallOpensLock, UninstallCommand, UninstallOpensLock
<1>5. CASE InstallWritesLock
  <2> DEFINE p == command.package
             entry == EntryOf(p, command.release)
  <2>1. /\ lock' = [q \in DOMAIN lock \union {p} |-> IF q = p THEN entry ELSE lock[q]]
        /\ complete' = complete \union {<<p, entry.integrity>>}
        /\ UNCHANGED instance
    BY <1>5 DEF InstallWritesLock, WritesLock
  <2> QED
    BY <2>1
<1>6. CASE UninstallWritesLock \/ DeleteLock
  BY <1>6 DEF UninstallWritesLock, WritesLock, DeleteLock
<1>7. CASE RemovesPackage \/ RemovesUnusedSkill \/ UninstallEnds
  BY <1>1, <1>7 DEF RemovesPackage, RemovesUnusedSkill, UninstallEnds
<1>8. CASE CutCommand \/ TrustCommand \/ TrustCut
  BY <1>1, <1>8 DEF CutCommand, TrustCommand, TrustCut
<1> QED
  BY <1>2, <1>3, <1>4, <1>5, <1>6, <1>7, <1>8, InstantiateVerifies DEF PackagesNext

LEMMA PackageStep ==
  ASSUME PackageInv, [BackendNext]_backendVars
  PROVE  PackageInv'
<1>1. CASE UNCHANGED packageVars
  BY <1>1 DEF packageVars, PackageInv, EntriesComplete, RiskyTeamsAreComplete
<1>2. CASE Activation
  <2>1. PICK c \in Conversations : Loads(TeamOf[c])
    BY <1>2 DEF Activation
  <2>2. TeamOf[c] \in Teams
    BY SessionAssumption
  <2>3. PackageOfTeam[TeamOf[c]] # Nobody => PackageOfTeam[TeamOf[c]] \in Packages
    BY <2>2, BackendAssumption
  <2> QED
    BY <1>1, <2>1, <2>3, InstantiateVerifies DEF Loads
<1>3. CASE CommandLine
  BY <1>3, CommandsKeepPackages DEF CommandLine
<1>4. CASE Request \/ TeamWorks \/ Stream \/ Terminal \/ Restart
  BY <1>1, <1>4 DEF Request, TeamWorks, Stream, Terminal, Restart
<1>5. CASE UNCHANGED backendVars
  BY <1>1, <1>5 DEF backendVars
<1> QED
  BY <1>2, <1>3, <1>4, <1>5 DEF BackendNext

\* A team with executable surfaces runs out of a package only when what is on disk is what an
\* install wrote to the lock file at its end (TeamInstanciator._enforce_package_trust): no
\* command, cut or not, and no package inside or around its own makes it another content.
THEOREM RiskyTeamsAreCompleteCorrect == BackendSpec => []RiskyTeamsAreComplete
<1>1. BackendInit => PackageInv
  BY DEF BackendInit, PackagesInit, PackageInv, EntriesComplete, RiskyTeamsAreComplete
<1>2. PackageInv => RiskyTeamsAreComplete
  BY DEF PackageInv
<1> QED
  BY <1>1, <1>2, PackageStep, PTL DEF BackendSpec

----------------------------------------------------------------------------
(* What is installed stays as its entry says.                               *)

Pcs == {"idle", "next", "remove", "copy", "skills", "skill", "locking", "unlock", "unlocking",
        "rmtree", "rmskills"}

CommandRecords ==
  [pc : Pcs, package : Packages \union {Nobody}, release : Releases \union {None},
   left : SUBSET Skills, begun : SUBSET (Packages \union Skills), rest : SUBSET Packages]

PackageTypes ==
  /\ tree \in [Packages -> Contents]
  /\ skill \in [Skills -> Commits \union {None, Torn}]
  /\ DOMAIN lock \subseteq Packages
  /\ command \in CommandRecords

Installing == command.pc \in {"remove", "copy", "skills", "skill", "locking"}

\* What the entry will say of skills the install under way has no more to replace, and what
\* other entries say of them, is so; what else it may break is recorded.
InstallInv ==
  LET needed == SkillsIn(SkillsOf[command.release])
  IN /\ command.release \in Releases
     /\ command.package = PackageOf[command.release]
     /\ ~Conflict(command.release)
     /\ command.left \subseteq needed
     /\ command.begun \subseteq {command.package} \union needed
     /\ \A s \in needed \ command.left : skill[s] = SkillsOf[command.release][s]
     /\ command.pc = "locking" => command.left = {}
     /\ command.pc # "remove" =>
          command.package \in command.begun /\ Overlapping(command.package) \subseteq damaged

CommandInv ==
  /\ Installing => InstallInv
  /\ ~Installing \/ command.pc = "remove" => command.begun = {}
  /\ command.pc \in {"unlock", "unlocking"} => command.package \in Packages
  /\ command.pc \in {"rmtree", "rmskills"} => command.package \in Packages \ DOMAIN lock

IntactInv == PackageTypes /\ CommandInv /\ LockedPackagesIntact

\* Packages that are replaced or removed change the contents of those around and inside them.
LEMMA TreeChangesOverlap ==
  ASSUME NEW p \in Packages, NEW q \in Packages, q # p, q \notin Overlapping(p),
         NEW new, NEW old, \A x \in Packages \ Within(p) : new[x] = old[x]
  PROVE  HashOf(new, q) = HashOf(old, q)
<1>1. \A x \in Within(q) : x \in Packages /\ x \notin Within(p)
  BY PackagesAssumption DEF Within, Overlapping
<1> QED
  BY <1>1 DEF HashOf

LEMMA TreeWithoutInside ==
  ASSUME PackageTypes, NEW p \in Packages
  PROVE  /\ TreeWithout(p) \in [Packages -> Contents]
         /\ \A x \in Packages \ Within(p) : TreeWithout(p)[x] = tree[x]
BY DEF PackageTypes, TreeWithout, Within, Contents

\* A step that changes neither what is on disk nor what entries say, and settles nothing.
LEMMA IntactStays ==
  ASSUME LockedPackagesIntact, UNCHANGED <<tree, skill, lock>>,
         \A x \in Packages \union Skills : Settled(x)' => Settled(x),
         DOMAIN lock \subseteq Packages
  PROVE  LockedPackagesIntact'
<1>1. \A p \in DOMAIN lock : \A s \in SkillsIn(lock[p].skills) : s \in Skills
  BY DEF SkillsIn
<1> QED
  BY <1>1 DEF LockedPackagesIntact, HashOf, SkillsIn

LEMMA StartsKeepIntact ==
  ASSUME IntactInv, NEW r \in Releases, NEW rest \in SUBSET Packages, StartsInstall(r, rest),
         ~Installing, UNCHANGED <<tree, skill, lock, damaged>>
  PROVE  IntactInv'
<1>1. command' = [pc |-> "remove", package |-> PackageOf[r], release |-> r,
                  left |-> SkillsIn(SkillsOf[r]), begun |-> {}, rest |-> rest]
  BY DEF StartsInstall
<1>2. SkillsIn(SkillsOf[r]) \subseteq Skills /\ PackageOf[r] \in Packages
  BY PackagesAssumption DEF SkillsIn
<1>3. PackageTypes'
  BY <1>1, <1>2 DEF IntactInv, PackageTypes, CommandRecords, Pcs
<1>4. ~Conflict(r)' /\ ~Conflict(r)
  BY DEF StartsInstall, Conflict
<1>5. CommandInv'
  BY <1>1, <1>4 DEF CommandInv, InstallInv, Installing
<1>6. LockedPackagesIntact'
  <2>1. \A x \in Packages \union Skills : Settled(x)' => Settled(x)
    BY <1>1 DEF IntactInv, CommandInv, Settled
  <2> QED
    BY <2>1, IntactStays DEF IntactInv, PackageTypes
<1> QED
  BY <1>3, <1>5, <1>6 DEF IntactInv

\* What the steps of an install change of their command.
LEMMA CommandFields ==
  ASSUME PackageTypes, NEW pc \in Pcs, NEW begun \in SUBSET (Packages \union Skills),
         NEW left \in SUBSET Skills,
         command' = [command EXCEPT !.pc = pc, !.begun = begun, !.left = left]
  PROVE  /\ command' \in CommandRecords
         /\ command'.pc = pc /\ command'.begun = begun /\ command'.left = left
         /\ command'.package = command.package /\ command'.release = command.release
BY DEF PackageTypes, CommandRecords

\* A command begins, is refused or ends, or goes on to a step that has changed nothing yet.
LEMMA TurnsKeepIntact ==
  ASSUME IntactInv, UNCHANGED <<tree, skill, lock, damaged>>, command.begun = {},
         command'.begun = {}, PackageTypes', ~Installing',
         command'.pc \in {"unlock", "unlocking"} => command'.package \in Packages,
         command'.pc \notin {"rmtree", "rmskills"}
  PROVE  IntactInv'
<1>1. CommandInv'
  BY DEF CommandInv, Installing
<1>2. \A x \in Packages \union Skills : Settled(x)' => Settled(x)
  BY DEF Settled
<1>3. LockedPackagesIntact'
  BY <1>2, IntactStays DEF IntactInv, PackageTypes
<1> QED
  BY <1>1, <1>3 DEF IntactInv

LEMMA CommandsStartIntact ==
  ASSUME IntactInv,
         \/ InstallCommand \/ UpdateCommand \/ UpdatesNext \/ UpdateGivesUp
         \/ UninstallCommand \/ UninstallOpensLock \/ UninstallEnds
  PROVE  IntactInv'
<1> USE DEF At, Goes
<1>1. CASE InstallCommand
  <2>1. PICK r \in Releases : StartsInstall(r, {})
    BY <1>1 DEF InstallCommand
  <2>2. ~Installing /\ UNCHANGED <<tree, skill, lock, damaged>>
    BY <1>1 DEF InstallCommand, Installing
  <2> QED
    BY <2>1, <2>2, StartsKeepIntact
<1>2. CASE UpdatesNext
  <2>1. PICK p \in command.rest : \E r \in {q \in Releases : PackageOf[q] = p} :
          StartsInstall(r, command.rest \ {p})
    BY <1>2 DEF UpdatesNext
  <2>2. ~Installing /\ UNCHANGED <<tree, skill, lock, damaged>>
    BY <1>2 DEF UpdatesNext, Installing
  <2>3. command.rest \ {p} \in SUBSET Packages
    BY DEF IntactInv, PackageTypes, CommandRecords
  <2> QED
    BY <2>1, <2>2, <2>3, StartsKeepIntact
<1>3. CASE UpdateCommand
  <2>1. PICK ps \in SUBSET Packages : command' = [Idle EXCEPT !.pc = "next", !.rest = ps]
    BY <1>3 DEF UpdateCommand, IntactInv, PackageTypes
  <2>2. command' = [pc |-> "next", package |-> Nobody, release |-> None, left |-> {},
                    begun |-> {}, rest |-> ps]
    BY <2>1 DEF Idle
  <2>3. UNCHANGED <<tree, skill, lock, damaged>> /\ command.begun = {}
    BY <1>3 DEF UpdateCommand, IntactInv, CommandInv, Installing
  <2>4. PackageTypes' /\ ~Installing'
    BY <2>2, <2>3 DEF IntactInv, PackageTypes, CommandRecords, Pcs, Installing
  <2> QED
    BY <2>2, <2>3, <2>4, TurnsKeepIntact
<1>4. CASE UpdateGivesUp \/ UninstallEnds
  <2>1. command' = [pc |-> "idle", package |-> Nobody, release |-> None, left |-> {},
                    begun |-> {}, rest |-> {}]
    BY <1>4 DEF UpdateGivesUp, UninstallEnds, Idle
  <2>2. UNCHANGED <<tree, skill, lock, damaged>> /\ command.begun = {}
    BY <1>4 DEF UpdateGivesUp, UninstallEnds, IntactInv, CommandInv, Installing
  <2>3. PackageTypes' /\ ~Installing'
    BY <2>1, <2>2 DEF IntactInv, PackageTypes, CommandRecords, Pcs, Installing
  <2> QED
    BY <2>1, <2>2, <2>3, TurnsKeepIntact
<1>5. CASE UninstallCommand
  <2>1. PICK p \in DOMAIN lock :
          command' = [Idle EXCEPT !.pc = "unlock", !.package = p, !.left = SkillsIn(lock[p].skills)]
    BY <1>5 DEF UninstallCommand
  <2>2. command' = [pc |-> "unlock", package |-> p, release |-> None,
                    left |-> SkillsIn(lock[p].skills), begun |-> {}, rest |-> {}]
    BY <2>1 DEF Idle
  <2>3. UNCHANGED <<tree, skill, lock, damaged>> /\ command.begun = {}
    BY <1>5 DEF UninstallCommand, IntactInv, CommandInv, Installing
  <2>4. p \in Packages /\ SkillsIn(lock[p].skills) \subseteq Skills
    BY DEF IntactInv, PackageTypes, SkillsIn
  <2>5. PackageTypes' /\ ~Installing'
    BY <2>2, <2>3, <2>4 DEF IntactInv, PackageTypes, CommandRecords, Pcs, Installing
  <2> QED
    BY <2>2, <2>3, <2>4, <2>5, TurnsKeepIntact
<1>6. CASE UninstallOpensLock
  <2>1. command.pc = "unlock" /\ command' = [command EXCEPT !.pc = "unlocking"]
    BY <1>6 DEF UninstallOpensLock, OpensLock
  <2>2. UNCHANGED <<tree, skill, lock, damaged>> /\ command.begun = {} /\ command.package \in Packages
    BY <1>6, <2>1 DEF UninstallOpensLock, IntactInv, CommandInv, Installing
  <2>3. /\ PackageTypes' /\ ~Installing'
        /\ command'.pc = "unlocking" /\ command'.begun = {} /\ command'.package \in Packages
    BY <2>1, <2>2 DEF IntactInv, PackageTypes, CommandRecords, Pcs, Installing
  <2> QED
    BY <2>2, <2>3, TurnsKeepIntact
<1> QED
  BY <1>1, <1>2, <1>3, <1>4, <1>5, <1>6

\* The package under way is replaced: what is around and inside it has been given up.
LEMMA TreesKeepIntact ==
  ASSUME IntactInv, RemovesTree \/ CopiesTree
  PROVE  IntactInv'
<1> DEFINE p == command.package
<1> USE DEF At, Goes
<1>1. Installing /\ InstallInv /\ p \in Packages /\ command.release \in Releases
  BY PackagesAssumption
  DEF IntactInv, CommandInv, Installing, InstallInv, RemovesTree, CopiesTree
<1>2. UNCHANGED <<skill, lock>>
  BY DEF RemovesTree, CopiesTree
<1>3. /\ p \in command'.begun /\ command'.begun \subseteq {p} \union command.begun
      /\ Overlapping(p) \subseteq damaged' /\ damaged \subseteq damaged'
      /\ command'.package = p /\ command'.release = command.release /\ command'.left = command.left
      /\ command'.pc \in {"copy", "skills"}
      /\ command'.begun = command.begun \/ (command'.begun = {p} /\ command.begun = {})
      /\ command' \in CommandRecords
  <2>1. CASE RemovesTree
    <3>1. /\ command' = [command EXCEPT !.pc = "copy", !.begun = {p}]
          /\ damaged' = damaged \union Overlapping(p) /\ command.begun = {}
      BY <2>1 DEF RemovesTree, IntactInv, CommandInv
    <3>2. command' = [command EXCEPT !.pc = "copy", !.begun = {p}, !.left = command.left]
      BY <3>1 DEF IntactInv, PackageTypes, CommandRecords
    <3>3. /\ "copy" \in Pcs /\ {p} \in SUBSET (Packages \union Skills)
          /\ command.left \in SUBSET Skills
      BY <1>1 DEF Pcs, IntactInv, PackageTypes, CommandRecords
    <3>4. /\ command' \in CommandRecords
          /\ command'.pc = "copy" /\ command'.begun = {p} /\ command'.left = command.left
          /\ command'.package = p /\ command'.release = command.release
      BY <3>2, <3>3, CommandFields DEF IntactInv
    <3> QED
      BY <3>1, <3>4
  <2>2. CASE CopiesTree
    <3>1. /\ command' = [command EXCEPT !.pc = "skills"] /\ UNCHANGED damaged
          /\ p \in command.begun /\ Overlapping(p) \subseteq damaged
      BY <1>1, <2>2 DEF CopiesTree, InstallInv
    <3>2. command' = [command EXCEPT !.pc = "skills", !.begun = command.begun, !.left = command.left]
      BY <3>1 DEF IntactInv, PackageTypes, CommandRecords
    <3>3. /\ "skills" \in Pcs /\ command.begun \in SUBSET (Packages \union Skills)
          /\ command.left \in SUBSET Skills
      BY DEF Pcs, IntactInv, PackageTypes, CommandRecords
    <3>4. /\ command' \in CommandRecords
          /\ command'.pc = "skills" /\ command'.begun = command.begun /\ command'.left = command.left
          /\ command'.package = p /\ command'.release = command.release
      BY <3>2, <3>3, CommandFields DEF IntactInv
    <3> QED
      BY <3>1, <3>4
  <2> QED
    BY <2>1, <2>2
<1>4. /\ tree' \in [Packages -> Contents]
      /\ \A x \in Packages \ Within(p) : tree'[x] = tree[x]
  <2>1. CASE RemovesTree
    BY <1>1, <2>1, TreeWithoutInside DEF RemovesTree, IntactInv
  <2>2. CASE CopiesTree
    BY <1>1, <2>2 DEF CopiesTree, IntactInv, PackageTypes, Contents, Within
  <2> QED
    BY <2>1, <2>2
<1>5. PackageTypes'
  BY <1>2, <1>3, <1>4 DEF IntactInv, PackageTypes
<1>6. CommandInv'
  <2>1. Conflict(command.release)' = Conflict(command.release)
    BY <1>2, <1>3 DEF Conflict
  <2> QED
    BY <1>1, <1>2, <1>3, <2>1 DEF CommandInv, InstallInv, Installing
<1>7. LockedPackagesIntact'
  <2>1. \A x \in Packages \union Skills : Settled(x)' => Settled(x)
    BY <1>3 DEF Settled
  <2>2. ASSUME NEW q \in DOMAIN lock, Settled(q)' PROVE HashOf(tree', q) = lock[q].integrity
    <3>1. q \in Packages /\ q # p /\ q \notin Overlapping(p)
      BY <1>3, <2>2 DEF Settled, IntactInv, PackageTypes
    <3>2. HashOf(tree', q) = HashOf(tree, q)
      BY <1>1, <1>4, <3>1, TreeChangesOverlap
    <3> QED
      BY <2>1, <2>2, <3>1, <3>2 DEF IntactInv, LockedPackagesIntact
  <2>3. ASSUME NEW q \in DOMAIN lock, NEW s \in SkillsIn(lock[q].skills), Settled(s)'
        PROVE  skill'[s] = lock[q].skills[s]
    BY <1>2, <2>1, <2>3 DEF IntactInv, LockedPackagesIntact, SkillsIn
  <2> QED
    BY <1>2, <2>2, <2>3 DEF LockedPackagesIntact, HashOf
<1> QED
  BY <1>5, <1>6, <1>7 DEF IntactInv

\* A skill is replaced that the install under way has begun to replace.
LEMMA SkillsKeepIntact ==
  ASSUME IntactInv, RemovesSkill \/ CopiesSkill
  PROVE  IntactInv'
<1> USE DEF At
<1>1. Installing /\ InstallInv /\ command.release \in Releases
  BY DEF IntactInv, CommandInv, Installing, InstallInv, RemovesSkill, CopiesSkill
<1>2. UNCHANGED <<tree, lock, damaged>>
  BY DEF RemovesSkill, CopiesSkill
<1>3. PICK s \in command.left :
        /\ \E content \in {Torn, SkillsOf[command.release][s]} : skill' = [skill EXCEPT ![s] = content]
        /\ \/ command' = [command EXCEPT !.pc = "skill", !.begun = @ \union {s}]
           \/ /\ s \in command.begun
              /\ skill' = [skill EXCEPT ![s] = SkillsOf[command.release][s]]
              /\ command' = [command EXCEPT !.pc = "skills", !.left = @ \ {s}]
  <2>1. CASE RemovesSkill
    BY <2>1 DEF RemovesSkill
  <2>2. CASE CopiesSkill
    <3>1. PICK s \in command.left \cap command.begun :
            /\ skill' = [skill EXCEPT ![s] = SkillsOf[command.release][s]]
            /\ command' = [command EXCEPT !.pc = "skills", !.left = @ \ {s}]
      BY <2>2 DEF CopiesSkill
    <3> QED
      BY <3>1
  <2> QED
    BY <2>1, <2>2
<1>4. s \in Skills /\ s \in SkillsIn(SkillsOf[command.release])
  BY <1>1 DEF InstallInv, IntactInv, PackageTypes, CommandRecords
<1>5. SkillsOf[command.release][s] \in Commits
  BY <1>1, <1>4, PackagesAssumption DEF SkillsIn
<1>6. /\ command'.pc \in {"skill", "skills"}
      /\ s \in command'.begun /\ command'.begun = command.begun \union {s}
      /\ command'.left \subseteq command.left
      /\ \/ command'.left = command.left
         \/ /\ command'.left = command.left \ {s}
            /\ skill'[s] = SkillsOf[command.release][s]
      /\ command'.package = command.package /\ command'.release = command.release
      /\ command' \in CommandRecords
  <2>1. PICK pc \in {"skill", "skills"}, left \in {command.left, command.left \ {s}} :
          /\ command' = [command EXCEPT !.pc = pc, !.begun = command.begun \union {s}, !.left = left]
          /\ left # command.left => skill' = [skill EXCEPT ![s] = SkillsOf[command.release][s]]
    <3>1. CASE command' = [command EXCEPT !.pc = "skill", !.begun = @ \union {s}]
      <4>1. command' = [command EXCEPT !.pc = "skill", !.begun = command.begun \union {s},
                                       !.left = command.left]
        BY <3>1 DEF IntactInv, PackageTypes, CommandRecords
      <4> QED
        BY <4>1
    <3>2. CASE /\ s \in command.begun
               /\ skill' = [skill EXCEPT ![s] = SkillsOf[command.release][s]]
               /\ command' = [command EXCEPT !.pc = "skills", !.left = @ \ {s}]
      <4>1. command' = [command EXCEPT !.pc = "skills", !.begun = command.begun \union {s},
                                       !.left = command.left \ {s}]
        <5>1. command.begun \union {s} = command.begun
          BY <3>2
        <5> QED
          BY <3>2, <5>1 DEF IntactInv, PackageTypes, CommandRecords
      <4> QED
        BY <3>2, <4>1
    <3> QED
      BY <1>3, <3>1, <3>2
  <2>2. /\ pc \in Pcs /\ command.begun \union {s} \in SUBSET (Packages \union Skills)
        /\ left \in SUBSET Skills
    BY <1>4 DEF Pcs, IntactInv, PackageTypes, CommandRecords
  <2>3. /\ command' \in CommandRecords
        /\ command'.pc = pc /\ command'.begun = command.begun \union {s} /\ command'.left = left
        /\ command'.package = command.package /\ command'.release = command.release
    BY <2>1, <2>2, CommandFields DEF IntactInv
  <2>4. left # command.left => skill'[s] = SkillsOf[command.release][s]
    BY <1>4, <2>1 DEF IntactInv, PackageTypes
  <2> QED
    BY <2>3, <2>4
<1>7. \A x \in Skills \ {s} : skill'[x] = skill[x]
  BY <1>3 DEF IntactInv, PackageTypes
<1>8. PackageTypes'
  <2>1. skill' \in [Skills -> Commits \union {None, Torn}]
    BY <1>3, <1>5 DEF IntactInv, PackageTypes
  <2> QED
    BY <1>2, <1>6, <2>1 DEF IntactInv, PackageTypes
<1>9. CommandInv'
  <2>1. Conflict(command.release)' = Conflict(command.release)
    BY <1>2, <1>6 DEF Conflict
  <2>2. \A x \in SkillsIn(SkillsOf[command.release]) \ command'.left :
          skill'[x] = SkillsOf[command.release][x]
    BY <1>1, <1>6, <1>7 DEF InstallInv, SkillsIn
  <2>3. command.pc \in {"skills", "skill"}
    BY DEF RemovesSkill, CopiesSkill
  <2> QED
    BY <1>1, <1>2, <1>4, <1>6, <2>1, <2>2, <2>3 DEF CommandInv, InstallInv, Installing
<1>10. LockedPackagesIntact'
  <2>1. \A x \in Packages \union Skills : Settled(x)' => Settled(x) /\ x # s
    BY <1>2, <1>6 DEF Settled
  <2> QED
    BY <1>2, <1>7, <2>1 DEF IntactInv, PackageTypes, LockedPackagesIntact, HashOf, SkillsIn
<1> QED
  BY <1>8, <1>9, <1>10 DEF IntactInv

LEMMA InstallOpensKeepsIntact ==
  ASSUME IntactInv, InstallOpensLock
  PROVE  IntactInv'
<1>1. /\ command.pc = "skills" /\ command.left = {} /\ command' = [command EXCEPT !.pc = "locking"]
      /\ UNCHANGED <<tree, skill, lock, damaged>>
  BY DEF InstallOpensLock, OpensLock, At, Goes
<1>2. /\ command'.pc = "locking" /\ command'.begun = command.begun /\ command'.left = command.left
      /\ command'.package = command.package /\ command'.release = command.release
      /\ PackageTypes'
  BY <1>1 DEF IntactInv, PackageTypes, CommandRecords, Pcs
<1>3. Conflict(command.release)' = Conflict(command.release)
  BY <1>1, <1>2 DEF Conflict
<1>4. CommandInv'
  BY <1>1, <1>2, <1>3 DEF IntactInv, CommandInv, InstallInv, Installing
<1>5. \A x \in Packages \union Skills : Settled(x)' => Settled(x)
  BY <1>1, <1>2 DEF Settled
<1> QED
  BY <1>1, <1>2, <1>4, <1>5, IntactStays DEF IntactInv, PackageTypes

\* The last step of an install settles what it replaced: its entry says what is on disk, and
\* so do those of the packages that share its skills, for there was no conflict.
LEMMA InstallEndsIntact ==
  ASSUME IntactInv, InstallWritesLock
  PROVE  IntactInv'
<1> DEFINE p == command.package
           r == command.release
           entry == EntryOf(p, r)
<1>1. Installing /\ InstallInv /\ p \in Packages /\ r \in Releases /\ command.left = {}
  BY PackagesAssumption
  DEF IntactInv, CommandInv, Installing, InstallInv, InstallWritesLock, WritesLock, At
<1>2. /\ lock' = [q \in DOMAIN lock \union {p} |-> IF q = p THEN entry ELSE lock[q]]
      /\ UNCHANGED <<tree, skill>> /\ damaged' = damaged \ command.begun
  BY DEF InstallWritesLock, WritesLock
<1>3. command'.begun = {} /\ command'.pc \in {"idle", "next"} /\ PackageTypes'
  <2>1. command' = [pc |-> "idle", package |-> Nobody, release |-> None, left |-> {},
                    begun |-> {}, rest |-> {}]
        \/ command' = [pc |-> "next", package |-> Nobody, release |-> None, left |-> {},
                       begun |-> {}, rest |-> command.rest]
    BY DEF InstallWritesLock, Idle
  <2> QED
    BY <1>1, <1>2, <2>1 DEF IntactInv, PackageTypes, CommandRecords, Pcs
<1>4. CommandInv'
  BY <1>3 DEF CommandInv, Installing
<1>5. \A x : Settled(x)' => Settled(x) \/ x \in command.begun
  BY <1>2, <1>3 DEF Settled
<1>6. ASSUME NEW q \in DOMAIN lock', Settled(q)' PROVE HashOf(tree, q) = lock'[q].integrity
  <2>1. CASE q = p
    BY <1>2, <2>1 DEF EntryOf
  <2>2. CASE q # p
    <3>1. q \notin command.begun
      BY <1>1, <1>2, <1>6, <2>2, PackagesAssumption
      DEF InstallInv, IntactInv, PackageTypes, SkillsIn
    <3> QED
      BY <1>2, <1>5, <1>6, <2>2, <3>1 DEF IntactInv, LockedPackagesIntact
  <2> QED
    BY <2>1, <2>2
<1>7. ASSUME NEW q \in DOMAIN lock', NEW s \in SkillsIn(lock'[q].skills), Settled(s)'
      PROVE  skill[s] = lock'[q].skills[s]
  <2>1. CASE q = p
    BY <1>1, <1>2, <2>1 DEF EntryOf, InstallInv
  <2>2. CASE q # p /\ s \notin command.begun
    BY <1>2, <1>5, <1>7, <2>2 DEF IntactInv, LockedPackagesIntact
  <2>3. CASE q # p /\ s \in command.begun
    <3>1. s \in Skills /\ lock[q].skills[s] # None /\ q \in DOMAIN lock \ {PackageOf[r]}
      BY <1>1, <1>2, <1>7, <2>3 DEF SkillsIn, InstallInv
    <3>2. s \in SkillsIn(SkillsOf[r])
      BY <1>1, <2>3, <3>1, PackagesAssumption DEF InstallInv
    <3>3. lock[q].skills[s] = SkillsOf[r][s]
      BY <1>1, <3>1, <3>2 DEF InstallInv, Conflict
    <3> QED
      BY <1>1, <1>2, <2>3, <3>2, <3>3 DEF InstallInv
  <2> QED
    BY <2>1, <2>2, <2>3
<1>8. LockedPackagesIntact'
  BY <1>2, <1>6, <1>7, SMTT(30) DEF LockedPackagesIntact, HashOf
<1> QED
  BY <1>3, <1>4, <1>8 DEF IntactInv

\* uninstall takes the entry away first; then nothing says what its directory holds.
LEMMA UninstallKeepsIntact ==
  ASSUME IntactInv, UninstallWritesLock \/ RemovesPackage
  PROVE  IntactInv'
<1> DEFINE p == command.package
<1> USE DEF At, Goes
<1>1. p \in Packages /\ ~Installing /\ command.begun = {} /\ UNCHANGED skill
  BY DEF IntactInv, CommandInv, Installing, UninstallWritesLock, WritesLock, RemovesPackage
<1>2. \A pc \in Pcs : command' = [command EXCEPT !.pc = pc] =>
        /\ command' \in CommandRecords
        /\ command'.pc = pc /\ command'.package = p /\ command'.begun = {}
  BY <1>1 DEF IntactInv, PackageTypes, CommandRecords
<1>3. CASE UninstallWritesLock
  <2>1. /\ lock' = [q \in DOMAIN lock \ {p} |-> lock[q]] /\ UNCHANGED <<tree, damaged>>
        /\ command' = [command EXCEPT !.pc = "rmtree"]
    BY <1>3 DEF UninstallWritesLock, WritesLock
  <2>2. command' \in CommandRecords /\ command'.pc = "rmtree" /\ command'.package = p /\ command'.begun = {}
    BY <1>2, <2>1 DEF Pcs
  <2>3. PackageTypes' /\ CommandInv'
    BY <1>1, <2>1, <2>2 DEF IntactInv, PackageTypes, CommandInv, Installing
  <2>4. LockedPackagesIntact'
    BY <1>1, <2>1, <2>2 DEF IntactInv, LockedPackagesIntact, Settled, HashOf, SkillsIn
  <2> QED
    BY <2>3, <2>4 DEF IntactInv
<1>4. CASE RemovesPackage
  <2>1. /\ tree' = [TreeWithout(p) EXCEPT ![p] = None] /\ damaged' = damaged \union Overlapping(p)
        /\ command' = [command EXCEPT !.pc = "rmskills"] /\ UNCHANGED lock
        /\ p \notin DOMAIN lock
    BY <1>4 DEF RemovesPackage, IntactInv, CommandInv
  <2>2. command' \in CommandRecords /\ command'.pc = "rmskills" /\ command'.package = p /\ command'.begun = {}
    BY <1>2, <2>1 DEF Pcs
  <2>3. tree' \in [Packages -> Contents] /\ \A x \in Packages \ Within(p) : tree'[x] = tree[x]
    BY <1>1, <2>1, TreeWithoutInside DEF IntactInv, Contents, Within
  <2>4. PackageTypes' /\ CommandInv'
    BY <1>1, <2>1, <2>2, <2>3 DEF IntactInv, PackageTypes, CommandInv, Installing
  <2>5. ASSUME NEW q \in DOMAIN lock, Settled(q)' PROVE HashOf(tree', q) = lock[q].integrity
    <3>1. q \in Packages /\ q # p /\ q \notin Overlapping(p) /\ Settled(q)
      BY <1>1, <2>1, <2>2, <2>5 DEF Settled, IntactInv, PackageTypes
    <3> QED
      BY <1>1, <2>3, <3>1, TreeChangesOverlap DEF IntactInv, LockedPackagesIntact
  <2>6. LockedPackagesIntact'
    BY <1>1, <2>1, <2>2, <2>5 DEF IntactInv, LockedPackagesIntact, Settled, HashOf, SkillsIn
  <2> QED
    BY <2>4, <2>6 DEF IntactInv
<1> QED
  BY <1>3, <1>4

\* A skill goes that no entry left asks for.
LEMMA UnusedSkillsKeepIntact ==
  ASSUME IntactInv, RemovesUnusedSkill
  PROVE  IntactInv'
<1>1. PICK s \in command.left :
        /\ skill' = [skill EXCEPT ![s] = IF InUse(s) THEN @ ELSE None]
        /\ command' = [command EXCEPT !.left = @ \ {s}]
        /\ command.pc = "rmskills" /\ UNCHANGED <<tree, lock, damaged>>
  BY DEF RemovesUnusedSkill, At
<1>2. command.begun = {} /\ command.package \in Packages \ DOMAIN lock
  BY <1>1 DEF IntactInv, CommandInv, Installing
<1>3. /\ command' \in CommandRecords /\ command'.pc = "rmskills"
      /\ command'.package = command.package /\ command'.begun = {}
  BY <1>1, <1>2 DEF IntactInv, PackageTypes, CommandRecords
<1>4. skill' \in [Skills -> Commits \union {None, Torn}]
  BY <1>1 DEF IntactInv, PackageTypes
<1>5. PackageTypes' /\ CommandInv'
  BY <1>1, <1>2, <1>3, <1>4 DEF IntactInv, PackageTypes, CommandInv, Installing
<1>6. \A q \in DOMAIN lock : \A x \in SkillsIn(lock[q].skills) : skill'[x] = skill[x]
  BY <1>1 DEF IntactInv, PackageTypes, SkillsIn, InUse
<1>7. LockedPackagesIntact'
  BY <1>1, <1>2, <1>3, <1>6 DEF IntactInv, LockedPackagesIntact, Settled, HashOf, SkillsIn
<1> QED
  BY <1>5, <1>7 DEF IntactInv

\* What a command had begun to replace when it was cut is recorded as damaged.
LEMMA CutKeepsIntact ==
  ASSUME IntactInv, CutCommand
  PROVE  IntactInv'
<1> DEFINE p == command.package
<1>1. /\ UNCHANGED <<skill, lock>>
      /\ command' = [pc |-> "idle", package |-> Nobody, release |-> None, left |-> {},
                     begun |-> {}, rest |-> {}]
      /\ damaged \union command.begun \subseteq damaged'
  BY DEF CutCommand, Idle
<1>2. \A x : Settled(x)' => Settled(x)
  BY <1>1 DEF Settled
<1>3. CASE UNCHANGED tree
  <2>1. PackageTypes' /\ CommandInv'
    BY <1>1, <1>3 DEF IntactInv, PackageTypes, CommandRecords, Pcs, CommandInv, Installing
  <2>2. LockedPackagesIntact'
    BY <1>1, <1>2, <1>3 DEF IntactInv, LockedPackagesIntact, HashOf, SkillsIn
  <2> QED
    BY <2>1, <2>2 DEF IntactInv
<1>4. CASE command.pc = "rmtree" /\ tree' = TreeWithout(p)
  <2>1. p \in Packages \ DOMAIN lock /\ Overlapping(p) \subseteq damaged'
    BY <1>4 DEF IntactInv, CommandInv, CutCommand, At
  <2>2. tree' \in [Packages -> Contents] /\ \A x \in Packages \ Within(p) : tree'[x] = tree[x]
    BY <1>4, <2>1, TreeWithoutInside DEF IntactInv
  <2>3. PackageTypes' /\ CommandInv'
    BY <1>1, <2>2 DEF IntactInv, PackageTypes, CommandRecords, Pcs, CommandInv, Installing
  <2>4. ASSUME NEW q \in DOMAIN lock, Settled(q)' PROVE HashOf(tree', q) = lock[q].integrity
    <3>1. q \in Packages /\ q # p /\ q \notin Overlapping(p) /\ Settled(q)
      BY <1>2, <2>1, <2>4 DEF Settled, IntactInv, PackageTypes
    <3> QED
      BY <2>1, <2>2, <3>1, TreeChangesOverlap DEF IntactInv, LockedPackagesIntact
  <2>5. LockedPackagesIntact'
    BY <1>1, <1>2, <2>4 DEF IntactInv, LockedPackagesIntact, HashOf, SkillsIn
  <2> QED
    BY <2>3, <2>5 DEF IntactInv
<1> QED
  BY <1>3, <1>4 DEF CutCommand, At

LEMMA IntactUnchanged ==
  ASSUME IntactInv, UNCHANGED <<tree, skill, lock, command, damaged>>
  PROVE  IntactInv'
<1>1. PackageTypes' /\ CommandInv'
  BY DEF IntactInv, PackageTypes, CommandInv, Installing, InstallInv, Conflict
<1>2. LockedPackagesIntact'
  BY DEF IntactInv, LockedPackagesIntact, Settled, HashOf
<1> QED
  BY <1>1, <1>2 DEF IntactInv

LEMMA CommandsKeepIntact ==
  ASSUME IntactInv, PackagesNext
  PROVE  IntactInv'
<1>1. CASE DeleteLock
  <2>1. /\ command.pc = "idle" /\ lock' = [p \in {} |-> None]
        /\ UNCHANGED <<tree, skill, command, damaged>>
    BY <1>1 DEF DeleteLock, At
  <2>2. PackageTypes' /\ CommandInv'
    BY <2>1 DEF IntactInv, PackageTypes, CommandInv, Installing
  <2> QED
    BY <2>1, <2>2 DEF IntactInv, LockedPackagesIntact
<1>2. CASE TrustCommand \/ TrustCut \/ \E p \in Packages : Instantiate(p)
  BY <1>2, IntactUnchanged DEF TrustCommand, TrustCut, Instantiate
<1> QED
  BY <1>1, <1>2, CommandsStartIntact, TreesKeepIntact, SkillsKeepIntact, InstallOpensKeepsIntact,
     InstallEndsIntact, UninstallKeepsIntact, UnusedSkillsKeepIntact, CutKeepsIntact
  DEF PackagesNext

LEMMA IntactStep ==
  ASSUME IntactInv, [BackendNext]_backendVars
  PROVE  IntactInv'
<1>1. CASE UNCHANGED packageVars
  BY <1>1, IntactUnchanged DEF packageVars
<1>2. CASE Activation
  <2>1. PICK c \in Conversations : Loads(TeamOf[c])
    BY <1>2 DEF Activation
  <2>2. CASE UNCHANGED <<tree, skill, lock, command, damaged>>
    BY <2>2, IntactUnchanged
  <2> QED
    BY <1>1, <2>1, <2>2 DEF Loads, Instantiate
<1>3. CASE CommandLine
  BY <1>3, CommandsKeepIntact DEF CommandLine
<1>4. CASE Request \/ TeamWorks \/ Stream \/ Terminal \/ Restart
  BY <1>1, <1>4 DEF Request, TeamWorks, Stream, Terminal, Restart
<1>5. CASE UNCHANGED backendVars
  BY <1>1, <1>5 DEF backendVars
<1> QED
  BY <1>2, <1>3, <1>4, <1>5 DEF BackendNext

LEMMA IntactHolds == BackendSpec => []IntactInv
<1>1. BackendInit => IntactInv
  <2> SUFFICES ASSUME BackendInit PROVE IntactInv
    OBVIOUS
  <2>1. PackagesInit
    BY DEF BackendInit
  <2>2. PackageTypes
    BY <2>1 DEF PackagesInit, PackageTypes, CommandRecords, Pcs, Idle, Contents
  <2>3. CommandInv /\ LockedPackagesIntact
    BY <2>1 DEF PackagesInit, CommandInv, Installing, Idle, LockedPackagesIntact
  <2> QED
    BY <2>2, <2>3 DEF IntactInv
<1> QED
  BY <1>1, IntactStep, PTL DEF BackendSpec

\* The directory of a locked package holds what its entry was hashed from and the skills it
\* depends on are on disk as its entry says (install, update and uninstall of the package
\* manager), for any packages that lie in one another and share skills, wherever commands are
\* cut, but for what a command that was cut or a package inside or around it changed since.
THEOREM LockedPackagesIntactCorrect == BackendSpec => []LockedPackagesIntact
<1>1. IntactInv => LockedPackagesIntact
  BY DEF IntactInv
<1> QED
  BY <1>1, IntactHolds, PTL

----------------------------------------------------------------------------
(* The conversations of a process.                                          *)

SessionPcs == {"idle", "reading", "starting", "invoking", "replying", "inserting"}

ObjectRecords ==
  [conversation : Conversations, draining : BOOLEAN, pc : SessionPcs, run : Nat,
   low : Nat, snapshot : Nat, seq : Nat]

SessionEvents == [message : Messages \union {Nothing}, run : Nat]

SessionRuns ==
  [low : Nat, advanced : BOOLEAN, snapshot : Nat, commit : {"pending", "committed", "orphaned"}]

\* The events and runs of a conversation never get fewer, so what names them is checked
\* against their number.
SessionTypes ==
  /\ objects \in Seq(ObjectRecords)
  /\ transcript \in [Conversations -> Seq(SessionEvents)]
  /\ records \in [Conversations -> Seq(SessionRuns)]
  /\ delivery \in [Conversations -> DeliveryStates(Nat, Nat)]
  /\ \A o \in Objects : objects[o].snapshot <= Len(transcript[objects[o].conversation])
  /\ SessionTypeOK

LEMMA SessionSizes ==
  ASSUME SessionTypes
  PROVE  /\ Len(objects) \in Nat
         /\ \A o \in Objects : objects[o] \in ObjectRecords
         /\ \A c \in Conversations :
              /\ Len(transcript[c]) \in Nat /\ Len(records[c]) \in Nat
              /\ transcript[c] \in Seq(SessionEvents) /\ records[c] \in Seq(SessionRuns)
              /\ \A r \in 1 .. Len(records[c]) : records[c][r] \in SessionRuns
              /\ \A i \in 1 .. Len(transcript[c]) : transcript[c][i] \in SessionEvents
BY DEF SessionTypes, Objects

\* What the operations of the store make of a delivery record, whose cursor never goes back.
LEMMA DeliveriesType ==
  ASSUME NEW m \in Nat, NEW n \in Nat, NEW s \in DeliveryStates(0 .. m, 0 .. n),
         NEW seq \in 0 .. m, NEW run, NEW delivered \in BOOLEAN
  PROVE  /\ Enqueue(s, seq) \in DeliveryStates(0 .. m, 0 .. n)
         /\ run \in 0 .. n => MarkRunStarted(s, run, seq) \in DeliveryStates(0 .. m, 0 .. n)
         /\ CompleteRun(s, run, seq, delivered) \in DeliveryStates(0 .. m, 0 .. n)
         /\ ReleaseRun(s, run) \in DeliveryStates(0 .. m, 0 .. n)
<1> USE DEF DeliveryStates
<1>1. Later(seq, s.queuedAfter) \in 0 .. m /\ Later(seq, s.lastDelivered) \in 0 .. m
  BY DEF Later
<1>2. KeepsQueue(s, seq) \in BOOLEAN /\ NoSeq \in 0 .. m /\ NoRun \in 0 .. n
  BY DEF KeepsQueue, NoSeq, NoRun
<1>3. Enqueue(s, seq) \in DeliveryStates(0 .. m, 0 .. n)
  BY <1>1 DEF Enqueue
<1>4. run \in 0 .. n => MarkRunStarted(s, run, seq) \in DeliveryStates(0 .. m, 0 .. n)
  BY <1>2 DEF MarkRunStarted
<1>5. CompleteRun(s, run, seq, delivered) \in DeliveryStates(0 .. m, 0 .. n)
  BY <1>1, <1>2 DEF CompleteRun
<1>6. ReleaseRun(s, run) \in DeliveryStates(0 .. m, 0 .. n)
  BY <1>2 DEF ReleaseRun
<1> QED
  BY <1>3, <1>4, <1>5, <1>6

LEMMA CursorsOf ==
  ASSUME NEW s \in DeliveryStates(Nat, Nat), NEW seq \in Nat, NEW run, NEW delivered \in BOOLEAN
  PROVE  /\ Enqueue(s, seq).lastDelivered = s.lastDelivered
         /\ MarkRunStarted(s, run, seq).lastDelivered = s.lastDelivered
         /\ ReleaseRun(s, run).lastDelivered = s.lastDelivered
         /\ CompleteRun(s, run, seq, delivered).lastDelivered =
              IF OwnsRun(s, run) /\ delivered THEN Later(seq, s.lastDelivered) ELSE s.lastDelivered
BY DEF DeliveryStates, Enqueue, MarkRunStarted, ReleaseRun, CompleteRun

\* The objects that opening the conversations cs adds.
SameObject(x, y) ==
  /\ x.conversation = y.conversation /\ x.pc = y.pc /\ x.run = y.run
  /\ x.low = y.low /\ x.snapshot = y.snapshot /\ x.seq = y.seq

AddsObjects(cs) ==
  /\ objects' \in Seq(ObjectRecords)
  /\ Len(objects') = Len(objects) + Len(cs)
  /\ \A o \in Objects : SameObject(objects'[o], objects[o])
  /\ \A i \in 1 .. Len(cs) : SameObject(objects'[Len(objects) + i], NewObject(cs[i]))

LEMMA NewObjectType ==
  ASSUME NEW c \in Conversations
  PROVE  NewObject(c) \in ObjectRecords
BY DEF NewObject, ObjectRecords, SessionPcs, NoRun

\* No conversation is opened twice at a time.
Few(cs) ==
  /\ cs \in Seq(Conversations) /\ Len(cs) \in 0 .. 2
  /\ \A i, j \in 1 .. Len(cs) : cs[i] = cs[j] => i = j
  /\ cs = <<>> <=> Len(cs) = 0

LEMMA FewOpened ==
  ASSUME NEW b \in Conversations, NEW c \in Conversations, b # c
  PROVE  Few(Append(<<b>>, c)) /\ Append(<<b>>, c) # <<>>
BY DEF Few

LEMMA OneOpened ==
  ASSUME NEW c \in Conversations
  PROVE  Few(<<>>) /\ Few(<<c>>) /\ <<c>> # <<>> /\ Few(Append(<<>>, c))
BY DEF Few

LEMMA ConcatIs ==
  ASSUME NEW S, NEW s \in Seq(S), NEW t \in Seq(S)
  PROVE  /\ s \o t \in Seq(S) /\ Len(s) \in Nat /\ Len(t) \in Nat
         /\ Len(s \o t) = Len(s) + Len(t)
         /\ \A i \in 1 .. Len(s) : (s \o t)[i] = s[i]
         /\ \A i \in 1 .. Len(t) : (s \o t)[Len(s) + i] = t[i]
OBVIOUS

LEMMA DrainingIs ==
  ASSUME NEW line \in Seq(ObjectRecords), NEW at,
         NEW now, now = [line EXCEPT ![at].draining = TRUE]
  PROVE  /\ now \in Seq(ObjectRecords) /\ Len(now) = Len(line)
         /\ \A o \in 1 .. Len(line) : SameObject(now[o], line[o])
<1>1. Len(line) \in Nat /\ line \in [1 .. Len(line) -> ObjectRecords]
  OBVIOUS
<1>2. DOMAIN now = 1 .. Len(line)
  BY <1>1
<1>3. \A o \in 1 .. Len(line) : now[o] \in ObjectRecords /\ SameObject(now[o], line[o])
  BY <1>1 DEF ObjectRecords, SameObject
<1>4. now \in [1 .. Len(line) -> ObjectRecords]
  BY <1>2, <1>3
<1>5. now \in Seq(ObjectRecords) /\ Len(now) = Len(line)
  BY ONLY <1>1, <1>4
<1> QED
  BY <1>3, <1>5

LEMMA ActivatesAdds ==
  ASSUME SessionTypes, NEW c \in Conversations, Activates(c)
  PROVE  /\ Few(Opens(c))
         /\ AddsObjects(Opens(c))
         /\ teams' \in [Teams -> 0 .. Len(objects')] /\ active' \in 0 .. Len(objects')
<1> DEFINE t   == TeamOf[c]
           cs  == Opens(c)
           new == [i \in 1 .. Len(cs) |-> NewObject(cs[i])]
           at  == IF cs = <<>> THEN teams[t] ELSE Len(objects) + Len(new)
<1>1. t \in Teams /\ Base[t] \in Conversations
  BY SessionAssumption
<1>2. /\ cs \in Seq(Conversations) /\ Len(cs) \in 0 .. 2
      /\ \A i, j \in 1 .. Len(cs) : cs[i] = cs[j] => i = j
      /\ cs = <<>> <=> Len(cs) = 0
      /\ teams[t] = NoObject => cs # <<>>
  <2>1. \/ cs = <<>> /\ teams[t] # NoObject
        \/ cs = <<Base[t]>>
        \/ cs = Append(<<>>, c) /\ teams[t] # NoObject
        \/ cs = Append(<<Base[t]>>, c) /\ Base[t] # c
    BY DEF Opens
  <2>2. Few(cs) /\ (teams[t] = NoObject => cs # <<>>)
    BY <1>1, <2>1, FewOpened, OneOpened
  <2> QED
    BY <2>2 DEF Few
<1>3. /\ objects' = [objects \o new EXCEPT ![at].draining = TRUE]
      /\ teams'   = [teams EXCEPT ![t] = IF @ = NoObject THEN Len(objects) + 1 ELSE @]
      /\ active'  = at
  BY DEF Activates
<1> HIDE DEF cs, t
<1>4. /\ new \in Seq(ObjectRecords) /\ Len(new) = Len(cs)
      /\ \A i \in 1 .. Len(cs) : new[i] = NewObject(cs[i])
  <2>1. \A i \in 1 .. Len(cs) : NewObject(cs[i]) \in ObjectRecords
    BY <1>2, NewObjectType
  <2> QED
    BY <1>2, <2>1
<1> HIDE DEF new
<1> DEFINE line == objects \o new
<1>5. /\ line \in Seq(ObjectRecords) /\ Len(line) = Len(objects) + Len(cs)
      /\ \A o \in 1 .. Len(objects) : line[o] = objects[o]
      /\ \A i \in 1 .. Len(cs) : line[Len(objects) + i] = new[i]
  <2>1. objects \in Seq(ObjectRecords)
    BY DEF SessionTypes
  <2>2. new \in Seq(ObjectRecords)
    BY <1>4
  <2>3. /\ line \in Seq(ObjectRecords) /\ Len(line) = Len(objects) + Len(new)
        /\ \A i \in 1 .. Len(objects) : line[i] = objects[i]
        /\ \A i \in 1 .. Len(new) : line[Len(objects) + i] = new[i]
    BY ONLY <2>1, <2>2, ConcatIs
  <2> QED
    BY <1>4, <2>3
<1>6. /\ objects' \in Seq(ObjectRecords) /\ Len(objects') = Len(line)
      /\ \A o \in 1 .. Len(line) : SameObject(objects'[o], line[o])
  <2> HIDE DEF at
  <2>1. objects' = [line EXCEPT ![at].draining = TRUE]
    BY <1>3
  <2>2. line \in Seq(ObjectRecords)
    BY <1>5
  <2> HIDE DEF line
  <2> DEFINE now == objects'
  <2>3. now = [line EXCEPT ![at].draining = TRUE]
    BY <2>1
  <2> HIDE DEF now
  <2>4. /\ now \in Seq(ObjectRecords) /\ Len(now) = Len(line)
        /\ \A o \in 1 .. Len(line) : SameObject(now[o], line[o])
    BY <2>2, <2>3, DrainingIs
  <2> QED
    BY <2>4 DEF now, line
<1>7. AddsObjects(cs)
  <2>1. Len(objects) \in Nat /\ Len(cs) \in Nat
    BY <1>2, SessionSizes
  <2>2. ASSUME NEW o \in Objects PROVE SameObject(objects'[o], objects[o])
    BY <1>5, <1>6, <2>1 DEF Objects
  <2>3. ASSUME NEW i \in 1 .. Len(cs)
        PROVE  SameObject(objects'[Len(objects) + i], NewObject(cs[i]))
    <3>1. Len(objects) + i \in 1 .. Len(line)
      BY <1>5, <2>1
    <3>2. line[Len(objects) + i] = NewObject(cs[i])
      BY <1>4, <1>5
    <3> QED
      BY <1>6, <3>1, <3>2
  <2> QED
    BY <1>5, <1>6, <2>2, <2>3 DEF AddsObjects
<1>8. /\ teams \in [Teams -> 0 .. Len(objects)] /\ Len(objects) \in Nat
      /\ Len(objects') = Len(objects) + Len(cs)
  BY <1>7, SessionSizes DEF SessionTypes, SessionTypeOK, AddsObjects
<1>9. at \in 0 .. Len(objects')
  BY <1>1, <1>2, <1>4, <1>8
<1>10. teams' \in [Teams -> 0 .. Len(objects')]
  <2>1. teams[t] = NoObject => Len(objects) + 1 \in 0 .. Len(objects')
    BY <1>2, <1>8
  <2> QED
    BY <1>1, <1>3, <1>8, <2>1
<1> QED
  BY <1>2, <1>3, <1>7, <1>9, <1>10 DEF cs, Few

\* What holds of a conversation that a process opened once and never cut at work: one object
\* runs it, from the cursor on, its last run is the only one under way, and its object is the
\* only one to append to its transcript while it has the number of a reply.
Alone(c) ==
  \A o, p \in Objects : objects[o].conversation = c /\ objects[p].conversation = c => o = p

ObjectAtWork(o, c) ==
  /\ objects[o].pc = "starting" => objects[o].low = delivery[c].lastDelivered
  /\ objects[o].pc = "invoking" =>
       /\ objects[o].run = Len(records[c]) /\ objects[o].run # NoRun
       /\ records[c][objects[o].run].snapshot = objects[o].snapshot
  /\ objects[o].pc = "inserting" => objects[o].seq = Len(transcript[c]) + 1

RunAccounted(c, r) ==
  /\ records[c][r].commit # "orphaned"
  /\ records[c][r].commit = "pending" =>
       \E o \in Objects : objects[o].conversation = c /\ objects[o].pc = "invoking"
                          /\ objects[o].run = r
  /\ records[c][r].advanced =>
       /\ records[c][r].snapshot <= delivery[c].lastDelivered
       /\ \/ \E o \in Objects : /\ objects[o].conversation = c /\ objects[o].run = r
                                /\ objects[o].pc \in {"replying", "inserting"}
          \/ \E i \in 1 .. Len(transcript[c]) : transcript[c][i].run = r
       /\ \A q \in 1 .. Len(records[c]) : r < q => records[c][r].snapshot <= records[c][q].low

Undisturbed(c) ==
  /\ Alone(c)
  /\ \A o \in Objects : objects[o].conversation = c => ObjectAtWork(o, c)
  /\ \A r \in 1 .. Len(records[c]) : RunAccounted(c, r)

SessionInv == SessionTypes /\ \A c \in Conversations \ disturbed : Undisturbed(c)

\* What a step does elsewhere, or before a run starts, leaves a conversation undisturbed.
LEMMA ElsewhereKeeps ==
  ASSUME SessionTypes, NEW c \in Conversations, Undisturbed(c), Alone(c)',
         \A o \in Objects' : objects'[o].conversation = c =>
           \/ objects'[o].pc \in {"idle", "reading"}
           \/ objects'[o].pc = "starting" /\ objects'[o].low = delivery[c].lastDelivered
           \/ o \in Objects /\ SameObject(objects'[o], objects[o]),
         \A o \in Objects :
           objects[o].conversation = c /\ objects[o].pc \in {"invoking", "replying", "inserting"} =>
             o \in Objects' /\ SameObject(objects'[o], objects[o]),
         records'[c] = records[c], delivery'[c].lastDelivered = delivery[c].lastDelivered,
         Len(transcript'[c]) >= Len(transcript[c]), Len(transcript'[c]) \in Nat,
         \A i \in 1 .. Len(transcript[c]) : transcript'[c][i] = transcript[c][i],
         \/ Len(transcript'[c]) = Len(transcript[c])
         \/ \A o \in Objects : objects[o].conversation = c => objects[o].pc # "inserting"
  PROVE  Undisturbed(c)'
<1>1. ASSUME NEW o \in Objects', objects'[o].conversation = c PROVE ObjectAtWork(o, c)'
  <2>1. CASE objects'[o].pc \in {"idle", "reading"}
    BY <2>1 DEF ObjectAtWork
  <2>2. CASE objects'[o].pc = "starting" /\ objects'[o].low = delivery[c].lastDelivered
    BY <2>2 DEF ObjectAtWork
  <2>3. CASE o \in Objects /\ SameObject(objects'[o], objects[o])
    <3>1. ObjectAtWork(o, c)
      BY <1>1, <2>3 DEF Undisturbed, SameObject
    <3> QED
      BY <1>1, <2>3, <3>1 DEF ObjectAtWork, SameObject
  <2> QED
    BY <1>1, <2>1, <2>2, <2>3
<1>2. ASSUME NEW r \in 1 .. Len(records[c]) PROVE RunAccounted(c, r)'
  <2>1. RunAccounted(c, r)
    BY DEF Undisturbed
  <2>2. ASSUME NEW o \in Objects, objects[o].conversation = c,
               objects[o].pc \in {"invoking", "replying", "inserting"}
        PROVE  /\ o \in Objects' /\ objects'[o].conversation = c
               /\ objects'[o].pc = objects[o].pc /\ objects'[o].run = objects[o].run
    BY <2>2 DEF SameObject
  <2>3. \A i \in 1 .. Len(transcript[c]) :
          i \in 1 .. Len(transcript'[c]) /\ transcript'[c][i].run = transcript[c][i].run
    BY SessionSizes
  <2> QED
    BY <2>1, <2>2, <2>3 DEF RunAccounted
<1> QED
  BY <1>1, <1>2 DEF Undisturbed

LEMMA OpeningKeeps ==
  ASSUME SessionInv, NEW cs, Few(cs), AddsObjects(cs), Reconcile({cs[i] : i \in 1 .. Len(cs)}),
         NEW c \in Conversations \ disturbed',
         delivery'[c].lastDelivered = delivery[c].lastDelivered,
         Len(transcript'[c]) >= Len(transcript[c]), Len(transcript'[c]) \in Nat,
         \A i \in 1 .. Len(transcript[c]) : transcript'[c][i] = transcript[c][i],
         Len(transcript'[c]) = Len(transcript[c]) \/ \A o \in Objects : objects[o].conversation # c
  PROVE  Undisturbed(c)'
<1> DEFINE fresh == {cs[i] : i \in 1 .. Len(cs)}
<1>1. /\ records' = [d \in Conversations |-> [r \in 1 .. Len(records[d]) |->
                      IF Reconciles(fresh, d) /\ Pending(d, r)
                        THEN [records[d][r] EXCEPT !.commit = "orphaned"] ELSE records[d][r]]]
      /\ disturbed' = disturbed \union
           {d \in fresh : \E o \in Objects : objects[o].conversation = d}
  BY DEF Reconcile
<1>2. /\ Undisturbed(c) /\ SessionTypes
      /\ c \in fresh => \A o \in Objects : objects[o].conversation # c
  BY <1>1 DEF SessionInv
<1>3. Len(objects) \in Nat /\ Len(cs) \in Nat /\ Len(objects') = Len(objects) + Len(cs)
  BY <1>2, SessionSizes DEF AddsObjects, Few
<1>4. ASSUME NEW o \in Objects', o \notin Objects
      PROVE  /\ o - Len(objects) \in 1 .. Len(cs)
             /\ objects'[o].conversation = cs[o - Len(objects)]
             /\ objects'[o].conversation \in fresh
  <2>1. o - Len(objects) \in 1 .. Len(cs) /\ o = Len(objects) + (o - Len(objects))
    BY <1>3, <1>4 DEF Objects
  <2>2. SameObject(objects'[o], NewObject(cs[o - Len(objects)]))
    BY <2>1 DEF AddsObjects
  <2> QED
    BY <2>1, <2>2 DEF SameObject, NewObject
<1>11. ASSUME NEW o \in Objects', o \notin Objects PROVE objects'[o].pc = "idle"
  <2>1. o - Len(objects) \in 1 .. Len(cs) /\ o = Len(objects) + (o - Len(objects))
    BY <1>3, <1>11 DEF Objects
  <2>2. SameObject(objects'[o], NewObject(cs[o - Len(objects)]))
    BY <2>1 DEF AddsObjects
  <2> QED
    BY <2>2 DEF SameObject, NewObject
<1>5. ASSUME NEW o \in Objects
      PROVE  o \in Objects' /\ SameObject(objects'[o], objects[o])
  BY <1>3 DEF Objects, AddsObjects
<1>6. Alone(c)'
  <2> SUFFICES ASSUME NEW o \in Objects', NEW p \in Objects', objects'[o].conversation = c,
                      objects'[p].conversation = c
               PROVE  o = p
    BY DEF Alone
  <2>1. CASE o \in Objects /\ p \in Objects
    BY <1>2, <1>5, <2>1 DEF Undisturbed, Alone, SameObject
  <2>2. CASE o \notin Objects /\ p \notin Objects
    <3>1. o - Len(objects) = p - Len(objects)
      BY <1>4, <2>2 DEF Few
    <3> QED
      BY <1>3, <3>1 DEF Objects
  <2>3. CASE o \in Objects /\ p \notin Objects
    BY <1>2, <1>4, <1>5, <2>3 DEF SameObject
  <2>4. CASE o \notin Objects /\ p \in Objects
    BY <1>2, <1>4, <1>5, <2>4 DEF SameObject
  <2> QED
    BY <2>1, <2>2, <2>3, <2>4
<1>7. records'[c] = records[c]
  <2>1. ASSUME NEW r \in 1 .. Len(records[c]), Reconciles(fresh, c) PROVE ~Pending(c, r)
    BY <1>2, <2>1 DEF Reconciles, Pending, Undisturbed, RunAccounted
  <2>2. records'[c] = [r \in 1 .. Len(records[c]) |-> records[c][r]]
    BY <1>1, <2>1
  <2>3. records[c] \in Seq(SessionRuns)
    BY <1>2, SessionSizes
  <2>4. records[c] = [r \in 1 .. Len(records[c]) |-> records[c][r]]
    BY <2>3
  <2> QED
    BY <2>2, <2>4
<1>8. \A o \in Objects' : objects'[o].conversation = c =>
        \/ objects'[o].pc \in {"idle", "reading"}
        \/ objects'[o].pc = "starting" /\ objects'[o].low = delivery[c].lastDelivered
        \/ o \in Objects /\ SameObject(objects'[o], objects[o])
  BY <1>5, <1>11
<1>9. \A o \in Objects :
        objects[o].conversation = c /\ objects[o].pc \in {"invoking", "replying", "inserting"} =>
          o \in Objects' /\ SameObject(objects'[o], objects[o])
  BY <1>5
<1>10. \/ Len(transcript'[c]) = Len(transcript[c])
       \/ \A o \in Objects : objects[o].conversation = c => objects[o].pc # "inserting"
  OBVIOUS
<1> QED
  BY <1>2, <1>6, <1>7, <1>8, <1>9, <1>10, ElsewhereKeeps

\* Reconciling keeps the number of records and what they read.
LEMMA ReconcileTypes ==
  ASSUME SessionTypes, NEW fresh \in SUBSET Conversations, Reconcile(fresh)
  PROVE  /\ records' \in [Conversations -> Seq(SessionRuns)]
         /\ disturbed' \subseteq Conversations
         /\ \A c \in Conversations :
              /\ Len(records'[c]) = Len(records[c])
              /\ \A r \in 1 .. Len(records[c]) : records'[c][r].snapshot = records[c][r].snapshot
<1>1. /\ records' = [d \in Conversations |-> [r \in 1 .. Len(records[d]) |->
                      IF Reconciles(fresh, d) /\ Pending(d, r)
                        THEN [records[d][r] EXCEPT !.commit = "orphaned"] ELSE records[d][r]]]
      /\ disturbed' = disturbed \union
           {d \in fresh : \E o \in Objects : objects[o].conversation = d}
  BY DEF Reconcile
<1>2. ASSUME NEW c \in Conversations
      PROVE  /\ records'[c] \in Seq(SessionRuns) /\ Len(records'[c]) = Len(records[c])
             /\ \A r \in 1 .. Len(records[c]) : records'[c][r].snapshot = records[c][r].snapshot
  <2> DEFINE n == Len(records[c])
             Given(r) == IF Reconciles(fresh, c) /\ Pending(c, r)
                           THEN [records[c][r] EXCEPT !.commit = "orphaned"] ELSE records[c][r]
  <2>1. n \in Nat /\ \A r \in 1 .. n : records[c][r] \in SessionRuns
    BY SessionSizes
  <2>2. \A r \in 1 .. n : Given(r) \in SessionRuns /\ Given(r).snapshot = records[c][r].snapshot
    BY <2>1 DEF SessionRuns
  <2>3. records'[c] = [r \in 1 .. n |-> Given(r)]
    BY <1>1
  <2> HIDE DEF Given, n
  <2>4. [r \in 1 .. n |-> Given(r)] \in Seq(SessionRuns) /\ Len([r \in 1 .. n |-> Given(r)]) = n
    BY <2>1, <2>2
  <2> QED
    BY <2>2, <2>3, <2>4 DEF n
<1>3. records' \in [Conversations -> Seq(SessionRuns)]
  BY <1>1, <1>2
<1>4. disturbed' \subseteq Conversations
  BY <1>1 DEF SessionTypes, SessionTypeOK
<1> QED
  BY <1>2, <1>3, <1>4

LEMMA OpeningTypes ==
  ASSUME SessionTypes, NEW cs, Few(cs), AddsObjects(cs), Reconcile({cs[i] : i \in 1 .. Len(cs)}),
         teams' \in [Teams -> 0 .. Len(objects')], active' \in 0 .. Len(objects'),
         transcript' \in [Conversations -> Seq(SessionEvents)],
         delivery' \in [Conversations -> DeliveryStates(Nat, Nat)],
         \A c \in Conversations :
           /\ Len(transcript'[c]) >= Len(transcript[c])
           /\ delivery'[c] \in DeliveryStates(0 .. Len(transcript'[c]), 0 .. Len(records[c]))
  PROVE  SessionTypes'
<1> DEFINE fresh == {cs[i] : i \in 1 .. Len(cs)}
<1>1. Len(cs) \in Nat /\ \A i \in 1 .. Len(cs) : cs[i] \in Conversations
  BY DEF Few
<1>2. fresh \subseteq Conversations /\ Reconcile(fresh)
  BY <1>1
<1> HIDE DEF fresh
<1>3. /\ records' \in [Conversations -> Seq(SessionRuns)]
      /\ disturbed' \subseteq Conversations
      /\ \A c \in Conversations :
           /\ Len(records'[c]) = Len(records[c])
           /\ \A r \in 1 .. Len(records[c]) : records'[c][r].snapshot = records[c][r].snapshot
  BY <1>2, ReconcileTypes
<1>4. \A c \in Conversations :
        /\ Len(transcript[c]) \in Nat /\ Len(records[c]) \in Nat /\ Len(transcript'[c]) \in Nat
        /\ Len(transcript[c]) <= Len(transcript'[c])
  BY SessionSizes
<1>5. objects' \in Seq(ObjectRecords) /\ Len(objects) \in Nat
      /\ Len(objects') = Len(objects) + Len(cs)
  BY SessionSizes DEF AddsObjects
<1>6. ASSUME NEW o \in Objects'
      PROVE  LET x == objects'[o]
             IN  /\ x.conversation \in Conversations
                 /\ x.run \in 0 .. Len(records'[x.conversation])
                 /\ x.snapshot <= Len(transcript'[x.conversation])
  <2>1. CASE o \in Objects
    <3>1. /\ SameObject(objects'[o], objects[o])
          /\ objects[o].conversation \in Conversations
          /\ objects[o].run \in 0 .. Len(records[objects[o].conversation])
          /\ objects[o].snapshot <= Len(transcript[objects[o].conversation])
          /\ objects[o].snapshot \in Nat
      BY <2>1, SessionSizes DEF AddsObjects, SessionTypes, SessionTypeOK, ObjectRecords
    <3> QED
      BY <1>3, <1>4, <3>1 DEF SameObject
  <2>2. CASE o \notin Objects
    <3>1. o - Len(objects) \in 1 .. Len(cs) /\ o = Len(objects) + (o - Len(objects))
      BY <1>1, <1>5, <2>2 DEF Objects
    <3>2. SameObject(objects'[o], NewObject(cs[o - Len(objects)]))
      BY <3>1 DEF AddsObjects
    <3>3. /\ objects'[o].conversation \in Conversations
          /\ objects'[o].run = 0 /\ objects'[o].snapshot = 0
      BY <1>1, <3>1, <3>2 DEF SameObject, NewObject, NoRun
    <3> QED
      BY <1>3, <1>4, <3>3
  <2> QED
    BY <2>1, <2>2
<1>7. ASSUME NEW c \in Conversations
      PROVE  /\ delivery'[c] \in DeliveryStates(0 .. Len(transcript'[c]), 0 .. Len(records'[c]))
             /\ \A r \in 1 .. Len(records'[c]) : records'[c][r].snapshot <= Len(transcript'[c])
  <2>1. \A r \in 1 .. Len(records[c]) :
          records[c][r].snapshot \in Nat /\ records[c][r].snapshot <= Len(transcript[c])
    BY SessionSizes DEF SessionTypes, SessionTypeOK, SessionRuns
  <2>2. delivery'[c] \in DeliveryStates(0 .. Len(transcript'[c]), 0 .. Len(records'[c]))
    BY <1>3
  <2>3. ASSUME NEW r \in 1 .. Len(records[c])
        PROVE  records'[c][r].snapshot <= Len(transcript'[c])
    <3>1. records'[c][r].snapshot = records[c][r].snapshot
      BY <1>3
    <3> QED
      BY <1>4, <2>1, <3>1
  <2> QED
    BY <1>3, <2>2, <2>3
<1>8. SessionTypeOK'
  BY <1>3, <1>6, <1>7 DEF SessionTypeOK
<1> QED
  BY <1>3, <1>5, <1>6, <1>8 DEF SessionTypes

LEMMA ReleasedKeeps ==
  ASSUME SessionTypes, NEW fresh, NEW c \in Conversations
  PROVE  /\ Released(fresh, c) \in DeliveryStates(0 .. Len(transcript[c]), 0 .. Len(records[c]))
         /\ Released(fresh, c) \in DeliveryStates(Nat, Nat)
         /\ Released(fresh, c).lastDelivered = delivery[c].lastDelivered
<1>1. /\ Len(transcript[c]) \in Nat /\ Len(records[c]) \in Nat
      /\ delivery[c] \in DeliveryStates(0 .. Len(transcript[c]), 0 .. Len(records[c]))
      /\ delivery[c] \in DeliveryStates(Nat, Nat)
  BY SessionSizes DEF SessionTypes, SessionTypeOK
<1>2. \A run : /\ ReleaseRun(delivery[c], run) \in DeliveryStates(0 .. Len(transcript[c]), 0 .. Len(records[c]))
               /\ ReleaseRun(delivery[c], run).lastDelivered = delivery[c].lastDelivered
  <2> TAKE run
  <2>1. 0 \in 0 .. Len(transcript[c]) /\ TRUE \in BOOLEAN
    BY <1>1
  <2> QED
    BY <1>1, <2>1, DeliveriesType, CursorsOf
<1>3. DeliveryStates(0 .. Len(transcript[c]), 0 .. Len(records[c])) \subseteq DeliveryStates(Nat, Nat)
  BY <1>1 DEF DeliveryStates
<1> QED
  BY <1>1, <1>2, <1>3 DEF Released

\* The messages of a conversation that is opened stay, or it gets its first one.
LEMMA OpeningStep ==
  ASSUME SessionInv, NEW cs, Few(cs), AddsObjects(cs), Reconcile({cs[i] : i \in 1 .. Len(cs)}),
         teams' \in [Teams -> 0 .. Len(objects')], active' \in 0 .. Len(objects'),
         transcript' \in [Conversations -> Seq(SessionEvents)],
         delivery' \in [Conversations -> DeliveryStates(Nat, Nat)],
         \A c \in Conversations :
           /\ \/ transcript'[c] = transcript[c]
              \/ transcript[c] = <<>> /\ \A o \in Objects : objects[o].conversation # c
           /\ delivery'[c].lastDelivered = delivery[c].lastDelivered
           /\ delivery'[c] \in DeliveryStates(0 .. Len(transcript'[c]), 0 .. Len(records[c]))
  PROVE  SessionInv'
<1>1. SessionTypes
  BY DEF SessionInv
<1>2. ASSUME NEW c \in Conversations
      PROVE  /\ Len(transcript'[c]) \in Nat /\ Len(transcript'[c]) >= Len(transcript[c])
             /\ \A i \in 1 .. Len(transcript[c]) : transcript'[c][i] = transcript[c][i]
             /\ \/ Len(transcript'[c]) = Len(transcript[c])
                \/ \A o \in Objects : objects[o].conversation # c
  <2>1. Len(transcript[c]) \in Nat /\ Len(transcript'[c]) \in Nat
    BY <1>1, SessionSizes
  <2>2. CASE transcript'[c] = transcript[c]
    BY <2>1, <2>2
  <2>3. CASE transcript[c] = <<>> /\ \A o \in Objects : objects[o].conversation # c
    BY <2>1, <2>3
  <2> QED
    BY <2>2, <2>3
<1>3. SessionTypes'
  BY <1>1, <1>2, OpeningTypes
<1>4. ASSUME NEW c \in Conversations \ disturbed' PROVE Undisturbed(c)'
  BY <1>2, <1>4, OpeningKeeps
<1> QED
  BY <1>3, <1>4 DEF SessionInv

LEMMA ActivateKeeps ==
  ASSUME SessionInv, NEW c \in Conversations, ActivateTeam(c)
  PROVE  SessionInv'
<1> DEFINE cs == Opens(c)
<1>1. SessionTypes /\ Activates(c)
  BY DEF SessionInv, ActivateTeam
<1>2. /\ Few(cs) /\ AddsObjects(cs)
      /\ teams' \in [Teams -> 0 .. Len(objects')] /\ active' \in 0 .. Len(objects')
  BY <1>1, ActivatesAdds
<1>3. Reconcile({cs[i] : i \in 1 .. Len(cs)})
  BY <1>1 DEF Activates
<1>4. transcript' = transcript /\ transcript \in [Conversations -> Seq(SessionEvents)]
  BY <1>1 DEF SessionTypes, ActivateTeam
<1>5. delivery' = [d \in Conversations |-> Released(OpenedBy(c), d)]
  BY DEF ActivateTeam
<1>6. ASSUME NEW d \in Conversations
      PROVE  /\ delivery'[d] \in DeliveryStates(0 .. Len(transcript'[d]), 0 .. Len(records[d]))
             /\ delivery'[d] \in DeliveryStates(Nat, Nat)
             /\ delivery'[d].lastDelivered = delivery[d].lastDelivered
  BY <1>1, <1>4, <1>5, ReleasedKeeps
<1>7. delivery' \in [Conversations -> DeliveryStates(Nat, Nat)]
  BY <1>5, <1>6
<1> HIDE DEF cs
<1> QED
  BY <1>2, <1>3, <1>4, <1>6, <1>7, OpeningStep

LEMMA SwitchKeeps ==
  ASSUME SessionInv, NEW c \in Conversations, SwitchConversation(c)
  PROVE  SessionInv'
<1> DEFINE cs == <<c>>
<1>1. SessionTypes
  BY DEF SessionInv
<1>2. Few(cs) /\ Len(cs) = 1 /\ cs[1] = c
  BY OneOpened
<1>3. /\ objects' = Append(objects, NewObject(c)) /\ active' = Len(objects) + 1
      /\ UNCHANGED <<teams, transcript>> /\ Reconcile({c})
      /\ delivery' = [d \in Conversations |-> Released({c}, d)]
  BY DEF SwitchConversation
<1>4. /\ Len(objects) \in Nat /\ objects' \in Seq(ObjectRecords)
      /\ Len(objects') = Len(objects) + 1 /\ objects'[Len(objects) + 1] = NewObject(c)
      /\ \A o \in 1 .. Len(objects) : objects'[o] = objects[o]
  <2>1. objects \in Seq(ObjectRecords) /\ NewObject(c) \in ObjectRecords
    BY <1>1, NewObjectType DEF SessionTypes
  <2> QED
    BY <1>3, <2>1
<1>5. AddsObjects(cs)
  BY <1>2, <1>4 DEF AddsObjects, SameObject, Objects
<1>6. {cs[i] : i \in 1 .. Len(cs)} = {c}
  BY <1>2
<1>7. teams' \in [Teams -> 0 .. Len(objects')] /\ active' \in 0 .. Len(objects')
  BY <1>1, <1>3, <1>4 DEF SessionTypes, SessionTypeOK
<1>8. transcript' = transcript /\ transcript \in [Conversations -> Seq(SessionEvents)]
  BY <1>1, <1>3 DEF SessionTypes
<1>9. ASSUME NEW d \in Conversations
      PROVE  /\ delivery'[d] \in DeliveryStates(0 .. Len(transcript'[d]), 0 .. Len(records[d]))
             /\ delivery'[d] \in DeliveryStates(Nat, Nat)
             /\ delivery'[d].lastDelivered = delivery[d].lastDelivered
  BY <1>1, <1>3, <1>8, ReleasedKeeps
<1>10. delivery' \in [Conversations -> DeliveryStates(Nat, Nat)]
  BY <1>3, <1>9
<1>11. Reconcile({cs[i] : i \in 1 .. Len(cs)})
  BY <1>3, <1>6
<1> HIDE DEF cs
<1> QED
  BY <1>2, <1>5, <1>7, <1>8, <1>9, <1>10, <1>11, OpeningStep

LEMMA CreateKeeps ==
  ASSUME SessionInv, NEW c \in Conversations, NEW m \in Messages \union {Nothing},
         CreateConversation(c, m)
  PROVE  SessionInv'
<1> DEFINE cs    == Opens(c)
           first == <<[message |-> m, run |-> NoRun]>>
<1>1. /\ SessionTypes /\ Activates(c) /\ transcript[c] = <<>>
      /\ \A o \in Objects : objects[o].conversation # c
      /\ transcript' = [transcript EXCEPT ![c] = first]
  BY DEF SessionInv, CreateConversation
<1>2. /\ Few(cs) /\ AddsObjects(cs)
      /\ teams' \in [Teams -> 0 .. Len(objects')] /\ active' \in 0 .. Len(objects')
  BY <1>1, ActivatesAdds
<1>3. Reconcile({cs[i] : i \in 1 .. Len(cs)})
  BY <1>1 DEF Activates
<1>4. first \in Seq(SessionEvents) /\ Len(first) = 1
  <2>1. [message |-> m, run |-> NoRun] \in SessionEvents
    BY DEF SessionEvents, NoRun
  <2> QED
    BY <2>1
<1> HIDE DEF first
<1>5. /\ transcript' \in [Conversations -> Seq(SessionEvents)]
      /\ transcript'[c] = first /\ \A d \in Conversations : d # c => transcript'[d] = transcript[d]
  BY <1>1, <1>4 DEF SessionTypes
<1>6. PICK addressed \in BOOLEAN :
        delivery' = [d \in Conversations |->
                       IF d = c THEN IF addressed THEN Enqueue(delivery[c], 1) ELSE delivery[c]
                       ELSE Released(OpenedBy(c), d)]
  BY DEF CreateConversation
<1>7. ASSUME NEW d \in Conversations
      PROVE  /\ delivery'[d] \in DeliveryStates(0 .. Len(transcript'[d]), 0 .. Len(records[d]))
             /\ delivery'[d].lastDelivered = delivery[d].lastDelivered
  <2>1. CASE d # c
    BY <1>1, <1>5, <1>6, <2>1, ReleasedKeeps
  <2>2. CASE d = c
    <3>1. /\ Len(transcript[c]) = 0 /\ Len(records[c]) \in Nat
          /\ delivery[c] \in DeliveryStates(0 .. 0, 0 .. Len(records[c]))
          /\ delivery[c] \in DeliveryStates(Nat, Nat)
      BY <1>1, SessionSizes DEF SessionTypes, SessionTypeOK
    <3>2. delivery[c] \in DeliveryStates(0 .. 1, 0 .. Len(records[c]))
      BY <3>1 DEF DeliveryStates
    <3>3. Enqueue(delivery[c], 1) \in DeliveryStates(0 .. 1, 0 .. Len(records[c]))
      <4>1. 1 \in Nat /\ 1 \in 0 .. 1 /\ TRUE \in BOOLEAN /\ Len(records[c]) \in Nat
        BY <3>1
      <4> QED
        BY <3>2, <4>1, DeliveriesType
    <3>4. Enqueue(delivery[c], 1).lastDelivered = delivery[c].lastDelivered
      BY <3>1, CursorsOf
    <3> QED
      BY <1>4, <1>5, <1>6, <2>2, <3>2, <3>3, <3>4
  <2> QED
    BY <2>1, <2>2
<1>8. delivery' \in [Conversations -> DeliveryStates(Nat, Nat)]
  <2>1. ASSUME NEW d \in Conversations PROVE delivery'[d] \in DeliveryStates(Nat, Nat)
    <3>1. Len(transcript'[d]) \in Nat /\ Len(records[d]) \in Nat
      BY <1>1, <1>5, SessionSizes
    <3> QED
      BY <1>7, <3>1 DEF DeliveryStates
  <2>2. DOMAIN delivery' = Conversations /\ delivery' = [d \in Conversations |-> delivery'[d]]
    BY <1>6
  <2> QED
    BY <2>1, <2>2
<1>9. ASSUME NEW d \in Conversations
      PROVE  \/ transcript'[d] = transcript[d]
             \/ transcript[d] = <<>> /\ \A o \in Objects : objects[o].conversation # d
  BY <1>1, <1>5
<1> HIDE DEF cs
<1> QED
  BY <1>2, <1>3, <1>5, <1>7, <1>8, <1>9, OpeningStep

\* A step that one object's thread, or a message to it, makes in its conversation.
WorkStep(o, c) ==
  /\ c = objects[o].conversation
  /\ objects' \in Seq(ObjectRecords) /\ Len(objects') = Len(objects)
  /\ \A p \in Objects : p # o => objects'[p] = objects[p]
  /\ objects'[o].conversation = c /\ objects'[o].run \in 0 .. Len(records'[c])
  /\ objects'[o].snapshot <= Len(transcript'[c])
  /\ UNCHANGED <<teams, active, disturbed>>
  /\ transcript' \in [Conversations -> Seq(SessionEvents)]
  /\ records' \in [Conversations -> Seq(SessionRuns)]
  /\ delivery' \in [Conversations -> DeliveryStates(Nat, Nat)]
  /\ \A d \in Conversations : d # c =>
       transcript'[d] = transcript[d] /\ records'[d] = records[d] /\ delivery'[d] = delivery[d]
  /\ Len(transcript'[c]) >= Len(transcript[c]) /\ Len(records'[c]) >= Len(records[c])
  /\ delivery'[c] \in DeliveryStates(0 .. Len(transcript'[c]), 0 .. Len(records'[c]))
  /\ \A r \in 1 .. Len(records'[c]) : records'[c][r].snapshot <= Len(transcript'[c])
  /\ c \notin disturbed => Undisturbed(c)'

LEMMA WorkKeeps ==
  ASSUME SessionInv, NEW o \in Objects, NEW c, WorkStep(o, c)
  PROVE  SessionInv'
<1> USE DEF WorkStep
<1>1. /\ SessionTypes /\ Len(objects) \in Nat /\ c \in Conversations /\ Objects' = Objects
      /\ Len(transcript[c]) \in Nat /\ Len(records[c]) \in Nat
      /\ Len(transcript'[c]) \in Nat /\ Len(records'[c]) \in Nat
  <2>1. SessionTypes
    BY DEF SessionInv
  <2>2. /\ transcript \in [Conversations -> Seq(SessionEvents)]
        /\ records \in [Conversations -> Seq(SessionRuns)] /\ objects \in Seq(ObjectRecords)
    BY ONLY <2>1 DEF SessionTypes, SessionTypeOK
  <2>3. objects[o] \in ObjectRecords
    BY <2>2 DEF Objects
  <2>4. c \in Conversations
    BY <2>3 DEF ObjectRecords
  <2> QED
    BY <2>1, <2>2, <2>4 DEF Objects
<1>2. ASSUME NEW p \in Objects
      PROVE  LET x == objects'[p]
             IN  /\ x.conversation = objects[p].conversation
                 /\ x.conversation \in Conversations
                 /\ x.run \in 0 .. Len(records'[x.conversation])
                 /\ x.snapshot <= Len(transcript'[x.conversation])
  <2>1. CASE p = o
    BY <1>1, <2>1
  <2>2. CASE p # o
    <3>1. /\ objects'[p] = objects[p] /\ objects[p].conversation \in Conversations
          /\ objects[p].run \in 0 .. Len(records[objects[p].conversation])
          /\ objects[p].snapshot <= Len(transcript[objects[p].conversation])
          /\ objects[p].snapshot \in Nat
      BY <1>1, <2>2, SessionSizes DEF SessionTypes, SessionTypeOK, ObjectRecords
    <3>2. CASE objects[p].conversation = c
      <4>1. objects[p].run \in 0 .. Len(records'[c]) /\ objects[p].snapshot <= Len(transcript'[c])
        <5>1. /\ objects[p].run \in 0 .. Len(records[c]) /\ objects[p].snapshot \in Nat
              /\ objects[p].snapshot <= Len(transcript[c])
          BY ONLY <3>1, <3>2
        <5>2. /\ Len(records[c]) <= Len(records'[c]) /\ Len(transcript[c]) <= Len(transcript'[c])
              /\ Len(records[c]) \in Nat /\ Len(records'[c]) \in Nat
              /\ Len(transcript[c]) \in Nat /\ Len(transcript'[c]) \in Nat
          BY <1>1
        <5> QED
          BY ONLY <5>1, <5>2
      <4>2. objects'[p] = objects[p]
        BY ONLY <3>1
      <4> QED
        BY ONLY <1>1, <3>2, <4>1, <4>2
    <3>3. CASE objects[p].conversation # c
      BY <3>1, <3>3
    <3> QED
      BY <3>2, <3>3
  <2> QED
    BY <2>1, <2>2
<1>3. ASSUME NEW d \in Conversations
      PROVE  /\ delivery'[d] \in DeliveryStates(0 .. Len(transcript'[d]), 0 .. Len(records'[d]))
             /\ \A r \in 1 .. Len(records'[d]) : records'[d][r].snapshot <= Len(transcript'[d])
  <2>1. CASE d = c
    BY <2>1
  <2>2. CASE d # c
    BY <1>1, <2>2 DEF SessionTypes, SessionTypeOK
  <2> QED
    BY <2>1, <2>2
<1>4. SessionTypes'
  <2>1. SessionTypeOK'
    BY <1>1, <1>2, <1>3 DEF SessionTypes, SessionTypeOK
  <2> QED
    BY <1>1, <1>2, <2>1 DEF SessionTypes
<1>5. ASSUME NEW d \in Conversations \ disturbed', d # c PROVE Undisturbed(d)'
  <2>1. Undisturbed(d)
    BY <1>5 DEF SessionInv
  <2>2. \A p \in Objects : objects[p].conversation = d \/ objects'[p].conversation = d =>
          objects'[p] = objects[p]
    BY <1>2, <1>5
  <2>3. Alone(d)'
    <3> SUFFICES ASSUME NEW p \in Objects, NEW q \in Objects, objects'[p].conversation = d,
                        objects'[q].conversation = d
                 PROVE  p = q
      BY <1>1 DEF Alone
    <3>1. objects[p].conversation = d /\ objects[q].conversation = d
      BY <1>2
    <3> QED
      BY <2>1, <3>1 DEF Undisturbed, Alone
  <2>4. \A p \in Objects' : objects'[p].conversation = d =>
          \/ objects'[p].pc \in {"idle", "reading"}
          \/ objects'[p].pc = "starting" /\ objects'[p].low = delivery[d].lastDelivered
          \/ p \in Objects /\ SameObject(objects'[p], objects[p])
    BY <1>1, <2>2 DEF SameObject
  <2>6. \A p \in Objects :
          objects[p].conversation = d /\ objects[p].pc \in {"invoking", "replying", "inserting"} =>
            p \in Objects' /\ SameObject(objects'[p], objects[p])
    BY <1>1, <2>2 DEF SameObject
  <2>5. /\ transcript'[d] = transcript[d] /\ records'[d] = records[d] /\ delivery'[d] = delivery[d]
        /\ Len(transcript[d]) \in Nat
    BY <1>1, <1>5, SessionSizes
  <2> QED
    <3>1. /\ Len(transcript'[d]) = Len(transcript[d]) /\ Len(transcript'[d]) \in Nat
          /\ Len(transcript'[d]) >= Len(transcript[d])
          /\ \A i \in 1 .. Len(transcript[d]) : transcript'[d][i] = transcript[d][i]
          /\ records'[d] = records[d] /\ delivery'[d].lastDelivered = delivery[d].lastDelivered
      BY <2>5
    <3> QED
      BY <1>1, <2>1, <2>3, <2>4, <2>6, <3>1, ElsewhereKeeps
<1> QED
  BY <1>1, <1>4, <1>5 DEF SessionInv

LEMMA ObjectChanges ==
  ASSUME SessionTypes, NEW o \in Objects, NEW x \in ObjectRecords,
         objects' = [objects EXCEPT ![o] = x]
  PROVE  /\ objects' \in Seq(ObjectRecords) /\ Len(objects') = Len(objects) /\ Objects' = Objects
         /\ objects'[o] = x
         /\ \A p \in Objects : p # o => objects'[p] = objects[p]
<1>1. objects \in Seq(ObjectRecords) /\ Len(objects) \in Nat /\ o \in 1 .. Len(objects)
  BY SessionSizes DEF SessionTypes, Objects
<1>2. objects \in [1 .. Len(objects) -> ObjectRecords]
  BY <1>1
<1>3. objects' \in [1 .. Len(objects) -> ObjectRecords]
  BY <1>1, <1>2
<1>4. objects' \in Seq(ObjectRecords) /\ Len(objects') = Len(objects)
  BY ONLY <1>1, <1>3
<1> QED
  BY <1>1, <1>2, <1>4 DEF Objects

\* What the object itself does before its run starts, and what is appended to its transcript
\* while it does not append.
LEMMA QuietKeeps ==
  ASSUME SessionInv, NEW o \in Objects, NEW c, c = objects[o].conversation,
         NEW x \in ObjectRecords, objects' = [objects EXCEPT ![o] = x],
         x.conversation = c, x.run = objects[o].run, x.snapshot <= Len(transcript'[c]),
         \/ x.pc \in {"idle", "reading"} /\ objects[o].pc \in {"idle", "reading"}
         \/ x.pc = "starting" /\ objects[o].pc = "reading" /\ x.low = delivery[c].lastDelivered
         \/ SameObject(x, objects[o]),
         UNCHANGED <<teams, active, records, disturbed>>,
         \/ UNCHANGED transcript
         \/ /\ objects[o].pc # "inserting"
            /\ \E event \in SessionEvents : transcript' = [transcript EXCEPT ![c] = Append(@, event)],
         NEW s, delivery' = [delivery EXCEPT ![c] = s],
         s \in DeliveryStates(0 .. Len(transcript'[c]), 0 .. Len(records[c])),
         s.lastDelivered = delivery[c].lastDelivered
  PROVE  SessionInv'
<1>1. /\ SessionTypes /\ c \in Conversations
      /\ Len(transcript[c]) \in Nat /\ Len(records[c]) \in Nat
      /\ transcript \in [Conversations -> Seq(SessionEvents)]
      /\ records \in [Conversations -> Seq(SessionRuns)]
      /\ delivery \in [Conversations -> DeliveryStates(Nat, Nat)]
      /\ objects[o].run \in 0 .. Len(records[c])
      /\ \A r \in 1 .. Len(records[c]) :
           records[c][r].snapshot <= Len(transcript[c]) /\ records[c][r].snapshot \in Nat
  <2>1. SessionTypes
    BY DEF SessionInv
  <2> QED
    BY <2>1, SessionSizes DEF SessionTypes, SessionTypeOK, SessionRuns
<1>2. /\ objects' \in Seq(ObjectRecords) /\ Len(objects') = Len(objects) /\ Objects' = Objects
      /\ objects'[o] = x /\ \A p \in Objects : p # o => objects'[p] = objects[p]
  BY <1>1, ObjectChanges
<1>3. /\ transcript' \in [Conversations -> Seq(SessionEvents)]
      /\ \A d \in Conversations : d # c => transcript'[d] = transcript[d]
      /\ Len(transcript'[c]) \in Nat /\ Len(transcript'[c]) >= Len(transcript[c])
      /\ \A i \in 1 .. Len(transcript[c]) : transcript'[c][i] = transcript[c][i]
      /\ Len(transcript'[c]) = Len(transcript[c]) \/ objects[o].pc # "inserting"
  <2>1. CASE UNCHANGED transcript
    BY <1>1, <2>1
  <2>2. CASE /\ objects[o].pc # "inserting"
             /\ \E event \in SessionEvents : transcript' = [transcript EXCEPT ![c] = Append(@, event)]
    <3>1. PICK event \in SessionEvents : transcript' = [transcript EXCEPT ![c] = Append(@, event)]
      BY <2>2
    <3>2. /\ Append(transcript[c], event) \in Seq(SessionEvents)
          /\ Len(Append(transcript[c], event)) = Len(transcript[c]) + 1
          /\ \A i \in 1 .. Len(transcript[c]) : Append(transcript[c], event)[i] = transcript[c][i]
      <4>1. transcript[c] \in Seq(SessionEvents)
        BY <1>1
      <4> QED
        BY <4>1
    <3>3. transcript'[c] = Append(transcript[c], event)
      BY <1>1, <3>1
    <3>4. transcript' \in [Conversations -> Seq(SessionEvents)]
          /\ \A d \in Conversations : d # c => transcript'[d] = transcript[d]
      BY <1>1, <3>1, <3>2
    <3>5. /\ Len(transcript'[c]) = Len(transcript[c]) + 1
          /\ \A i \in 1 .. Len(transcript[c]) : transcript'[c][i] = transcript[c][i]
      BY <3>2, <3>3
    <3>6. Len(transcript'[c]) \in Nat /\ Len(transcript'[c]) >= Len(transcript[c])
      BY <1>1, <3>5
    <3> QED
      BY <2>2, <3>4, <3>5, <3>6
  <2> QED
    BY <2>1, <2>2
<1>4. /\ delivery'[c] = s /\ \A d \in Conversations : d # c => delivery'[d] = delivery[d]
      /\ delivery' \in [Conversations -> DeliveryStates(Nat, Nat)]
  <2>1. s \in DeliveryStates(Nat, Nat)
    BY <1>1, <1>3 DEF DeliveryStates
  <2> QED
    BY <1>1, <2>1
<1>5. ASSUME c \notin disturbed PROVE Undisturbed(c)'
  <2>1. Undisturbed(c)
    BY <1>1, <1>5 DEF SessionInv
  <2>2. \A p \in Objects : objects'[p].conversation = c => objects[p].conversation = c
    BY <1>2
  <2>3. Alone(c)'
    BY <1>2, <2>1, <2>2 DEF Undisturbed, Alone
  <2>4. \A p \in Objects' : objects'[p].conversation = c =>
          \/ objects'[p].pc \in {"idle", "reading"}
          \/ objects'[p].pc = "starting" /\ objects'[p].low = delivery[c].lastDelivered
          \/ p \in Objects /\ SameObject(objects'[p], objects[p])
    BY <1>2 DEF SameObject
  <2>5. \A p \in Objects :
          objects[p].conversation = c /\ objects[p].pc \in {"invoking", "replying", "inserting"} =>
            p \in Objects' /\ SameObject(objects'[p], objects[p])
    BY <1>2 DEF SameObject
  <2>6. \/ Len(transcript'[c]) = Len(transcript[c])
        \/ \A p \in Objects : objects[p].conversation = c => objects[p].pc # "inserting"
    BY <1>3, <2>1 DEF Undisturbed, Alone
  <2>7. records'[c] = records[c] /\ delivery'[c].lastDelivered = delivery[c].lastDelivered
    BY <1>4
  <2> QED
    BY <1>1, <1>3, <2>1, <2>3, <2>4, <2>5, <2>6, <2>7, ElsewhereKeeps
<1>6. \A r \in 1 .. Len(records'[c]) : records'[c][r].snapshot <= Len(transcript'[c])
  BY <1>1, <1>3
<1>7. /\ records' \in [Conversations -> Seq(SessionRuns)] /\ Len(records'[c]) >= Len(records[c])
      /\ \A d \in Conversations : records'[d] = records[d]
      /\ objects'[o].run \in 0 .. Len(records'[c]) /\ objects'[o].conversation = c
      /\ objects'[o].snapshot <= Len(transcript'[c])
      /\ delivery'[c] \in DeliveryStates(0 .. Len(transcript'[c]), 0 .. Len(records'[c]))
  BY <1>1, <1>2, <1>4
<1>8. \A d \in Conversations : d # c =>
        /\ transcript'[d] = transcript[d] /\ records'[d] = records[d]
        /\ delivery'[d] = delivery[d]
  BY <1>3, <1>4
<1>w. WorkStep(o, c)
  BY <1>2, <1>3, <1>4, <1>5, <1>6, <1>7, <1>8 DEF WorkStep
<1> QED
  BY ONLY SessionInv, o \in Objects, <1>w, WorkKeeps

LEMMA AppendKeeps ==
  ASSUME SessionInv, NEW m \in Messages \union {Nothing}, AppendMessage(m)
  PROVE  SessionInv'
<1> DEFINE o     == active
           c     == objects[active].conversation
           event == [message |-> m, run |-> NoRun]
           e     == Len(transcript[c]) + 1
<1>1. /\ SessionTypes /\ o \in Objects /\ c \in Conversations /\ objects[o] \in ObjectRecords
      /\ objects[o].snapshot <= Len(transcript[c]) /\ objects[o].snapshot \in Nat
      /\ transcript[c] \in Seq(SessionEvents) /\ Len(transcript[c]) \in Nat
      /\ Len(records[c]) \in Nat
      /\ delivery \in [Conversations -> DeliveryStates(Nat, Nat)]
      /\ delivery[c] \in DeliveryStates(0 .. Len(transcript[c]), 0 .. Len(records[c]))
  <2>1. SessionTypes /\ active # NoObject
    BY DEF SessionInv, AppendMessage
  <2>2. o \in Objects
    BY <2>1, SessionSizes DEF SessionTypes, SessionTypeOK, Objects, NoObject
  <2>3. objects[o] \in ObjectRecords
    BY <2>1, <2>2, SessionSizes
  <2> QED
    BY <2>1, <2>2, <2>3, SessionSizes DEF SessionTypes, SessionTypeOK, ObjectRecords
<1>2. event \in SessionEvents
  BY DEF SessionEvents, NoRun
<1>3. /\ objects[o].pc # "inserting"
      /\ transcript' = [transcript EXCEPT ![c] = Append(@, event)]
      /\ UNCHANGED <<teams, active, records, disturbed>>
  BY DEF AppendMessage
<1>4. PICK addressed \in BOOLEAN :
        /\ delivery' = IF addressed THEN [delivery EXCEPT ![c] = Enqueue(@, e)] ELSE delivery
        /\ objects' = [objects EXCEPT ![active].draining = @ \/ addressed]
  BY DEF AppendMessage
<1> DEFINE s == IF addressed THEN Enqueue(delivery[c], e) ELSE delivery[c]
           x == [objects[o] EXCEPT !.draining = @ \/ addressed]
<1>5. objects' = [objects EXCEPT ![o] = x] /\ delivery' = [delivery EXCEPT ![c] = s]
  BY <1>1, <1>4
<1>6. x \in ObjectRecords /\ SameObject(x, objects[o])
  BY <1>1 DEF ObjectRecords, SameObject
<1>7. Len(transcript'[c]) = e /\ e \in 0 .. e /\ e \in Nat
  <2>1. transcript \in [Conversations -> Seq(SessionEvents)]
    BY <1>1 DEF SessionTypes
  <2>2. transcript'[c] = Append(transcript[c], event)
    BY <1>1, <1>3, <2>1
  <2> QED
    BY <1>1, <1>2, <2>2
<1>8. delivery[c] \in DeliveryStates(0 .. e, 0 .. Len(records[c]))
      /\ delivery[c] \in DeliveryStates(Nat, Nat)
  BY <1>1, <1>7 DEF DeliveryStates
<1>9. s \in DeliveryStates(0 .. e, 0 .. Len(records[c]))
  <2>1. TRUE \in BOOLEAN
    OBVIOUS
  <2>2. Enqueue(delivery[c], e) \in DeliveryStates(0 .. e, 0 .. Len(records[c]))
    BY <1>1, <1>7, <1>8, <2>1, DeliveriesType
  <2> QED
    BY <1>8, <2>2
<1>10. s.lastDelivered = delivery[c].lastDelivered
  <2>1. TRUE \in BOOLEAN
    OBVIOUS
  <2> QED
    BY <1>7, <1>8, <2>1, CursorsOf
<1>11. /\ x.conversation = c /\ x.run = objects[o].run /\ x.snapshot <= Len(transcript'[c])
  BY <1>1, <1>6, <1>7 DEF SameObject
<1> HIDE DEF x, s, event
<1> QED
  BY <1>1, <1>2, <1>3, <1>5, <1>6, <1>7, <1>9, <1>10, <1>11, QuietKeeps

LEMMA DrainsKeeps ==
  ASSUME SessionInv, NEW o \in Objects, Drains(o)
  PROVE  SessionInv'
<1> DEFINE c == objects[o].conversation
           x == IF PendingIdle(delivery[c]) THEN [objects[o] EXCEPT !.pc = "reading"]
                ELSE [objects[o] EXCEPT !.draining = FALSE]
<1>1. /\ SessionTypes /\ c \in Conversations /\ objects[o] \in ObjectRecords
      /\ objects[o].snapshot <= Len(transcript[c])
      /\ delivery \in [Conversations -> DeliveryStates(Nat, Nat)]
      /\ delivery[c] \in DeliveryStates(0 .. Len(transcript[c]), 0 .. Len(records[c]))
  <2>1. SessionTypes
    BY DEF SessionInv
  <2> QED
    BY <2>1, SessionSizes DEF SessionTypes, SessionTypeOK
<1>2. /\ objects[o].pc = "idle" /\ objects' = [objects EXCEPT ![o] = x]
      /\ delivery' = [delivery EXCEPT ![c] = delivery[c]]
      /\ UNCHANGED <<teams, active, records, disturbed>> /\ UNCHANGED transcript
  BY <1>1 DEF Drains
<1>3. /\ x \in ObjectRecords /\ x.conversation = c /\ x.run = objects[o].run
      /\ x.snapshot = objects[o].snapshot /\ x.pc \in {"idle", "reading"}
  BY <1>1, <1>2 DEF ObjectRecords, SessionPcs
<1> HIDE DEF x
<1> QED
  BY <1>1, <1>2, <1>3, QuietKeeps

LEMMA UndeliveredKeeps ==
  ASSUME NEW m \in Nat, NEW n \in Nat, NEW s \in DeliveryStates(0 .. m, 0 .. n), NEW run
  PROVE  /\ CompleteRun(s, run, s.lastDelivered, FALSE) \in DeliveryStates(0 .. m, 0 .. n)
         /\ CompleteRun(s, run, s.lastDelivered, FALSE).lastDelivered = s.lastDelivered
<1>1. KeepsQueue(s, s.lastDelivered) \in BOOLEAN /\ NoSeq \in 0 .. m /\ NoRun \in 0 .. n
  BY DEF DeliveryStates, KeepsQueue, NoSeq, NoRun
<1> QED
  BY <1>1 DEF DeliveryStates, CompleteRun

LEMMA ReadsKeeps ==
  ASSUME SessionInv, NEW o \in Objects, Reads(o)
  PROVE  SessionInv'
<1> DEFINE c   == objects[o].conversation
           d   == delivery[c]
           new == Len(transcript[c]) > d.lastDelivered
           x   == [objects[o] EXCEPT !.pc = IF new THEN "starting" ELSE "idle",
                                     !.low = d.lastDelivered, !.snapshot = Len(transcript[c])]
           run == IF d.currentRun = NoRun THEN BlankRun ELSE d.currentRun
           s   == IF new THEN d ELSE CompleteRun(d, run, d.lastDelivered, FALSE)
<1>1. /\ SessionTypes /\ c \in Conversations /\ objects[o] \in ObjectRecords
      /\ Len(transcript[c]) \in Nat /\ Len(records[c]) \in Nat
      /\ delivery \in [Conversations -> DeliveryStates(Nat, Nat)]
      /\ d \in DeliveryStates(0 .. Len(transcript[c]), 0 .. Len(records[c]))
      /\ d \in DeliveryStates(Nat, Nat)
      /\ d.lastDelivered \in 0 .. Len(transcript[c]) /\ d.lastDelivered \in Nat
  <2>1. SessionTypes
    BY DEF SessionInv
  <2> QED
    BY <2>1, SessionSizes DEF SessionTypes, SessionTypeOK, DeliveryStates
<1>2. /\ objects[o].pc = "reading" /\ objects' = [objects EXCEPT ![o] = x]
      /\ delivery' = [delivery EXCEPT ![c] = s]
      /\ UNCHANGED <<teams, active, records, disturbed>> /\ UNCHANGED transcript
  BY <1>1 DEF Reads
<1>3. /\ x \in ObjectRecords /\ x.conversation = c /\ x.run = objects[o].run
      /\ x.snapshot = Len(transcript[c])
      /\ x.pc = "idle" \/ (x.pc = "starting" /\ x.low = d.lastDelivered)
  BY <1>1, <1>2 DEF ObjectRecords, SessionPcs
<1>4. s \in DeliveryStates(0 .. Len(transcript[c]), 0 .. Len(records[c]))
      /\ s.lastDelivered = d.lastDelivered
  <2> DEFINE done == CompleteRun(d, run, d.lastDelivered, FALSE)
  <2>1. /\ done \in DeliveryStates(0 .. Len(transcript[c]), 0 .. Len(records[c]))
        /\ done.lastDelivered = d.lastDelivered
    <3> PICK e, m, n, any : e = d /\ m = Len(transcript[c]) /\ n = Len(records[c]) /\ any = run
      OBVIOUS
    <3>1. m \in Nat /\ n \in Nat /\ e \in DeliveryStates(0 .. m, 0 .. n)
      BY <1>1
    <3>2. /\ CompleteRun(e, any, e.lastDelivered, FALSE) \in DeliveryStates(0 .. m, 0 .. n)
          /\ CompleteRun(e, any, e.lastDelivered, FALSE).lastDelivered = e.lastDelivered
      BY ONLY <3>1, UndeliveredKeeps
    <3> QED
      BY <3>2
  <2> QED
    BY <1>1, <2>1
<1>5. x.snapshot <= Len(transcript'[c]) /\ transcript' = transcript
  BY <1>1, <1>2, <1>3
<1> HIDE DEF x, s
<1> QED
  BY <1>1, <1>2, <1>3, <1>4, <1>5, QuietKeeps

LEMMA StartsKeeps ==
  ASSUME SessionInv, NEW o \in Objects, StartsRun(o)
  PROVE  SessionInv'
<1>0. PICK c, r : c = objects[o].conversation /\ r = Len(records[c]) + 1
  OBVIOUS
<1> DEFINE run == [low |-> objects[o].low, advanced |-> FALSE,
                   snapshot |-> objects[o].snapshot, commit |-> "pending"]
           x == [objects[o] EXCEPT !.pc = "invoking", !.run = r]
           s == MarkRunStarted(delivery[c], r, objects[o].snapshot)
<1>1. /\ SessionTypes /\ c \in Conversations /\ objects[o] \in ObjectRecords
      /\ objects[o].snapshot \in 0 .. Len(transcript[c]) /\ objects[o].snapshot \in Nat
      /\ Len(transcript[c]) \in Nat /\ Len(records[c]) \in Nat
      /\ records[c] \in Seq(SessionRuns)
      /\ delivery \in [Conversations -> DeliveryStates(Nat, Nat)]
      /\ delivery[c] \in DeliveryStates(0 .. Len(transcript[c]), 0 .. Len(records[c]))
  <2>1. SessionTypes /\ objects[o] \in ObjectRecords
    BY SessionSizes DEF SessionInv
  <2>2. c \in Conversations /\ objects[o].snapshot <= Len(transcript[c])
    BY <1>0, <2>1 DEF SessionTypes, SessionTypeOK
  <2>3. Len(transcript[c]) \in Nat /\ Len(records[c]) \in Nat /\ records[c] \in Seq(SessionRuns)
    BY <2>1, <2>2, SessionSizes
  <2>4. objects[o].snapshot \in Nat
    BY <2>1 DEF ObjectRecords
  <2> QED
    BY <2>1, <2>2, <2>3, <2>4 DEF SessionTypes, SessionTypeOK
<1>2. /\ objects[o].pc = "starting" /\ objects' = [objects EXCEPT ![o] = x]
      /\ records' = [records EXCEPT ![c] = Append(records[c], run)]
      /\ delivery' = [delivery EXCEPT ![c] = s]
      /\ UNCHANGED <<teams, active, disturbed>> /\ UNCHANGED transcript
  BY <1>0, <1>1 DEF StartsRun
<1>3. /\ x \in ObjectRecords /\ x.conversation = c /\ x.run = r /\ x.pc = "invoking"
      /\ x.snapshot = objects[o].snapshot /\ r \in Nat /\ r # NoRun
  <2>1. r \in Nat /\ r # NoRun
    BY <1>0, <1>1 DEF NoRun
  <2> QED
    BY <1>0, <1>1, <2>1 DEF ObjectRecords, SessionPcs
<1>4. run \in SessionRuns
  BY <1>1 DEF SessionRuns, ObjectRecords
<1>5. /\ records' \in [Conversations -> Seq(SessionRuns)]
      /\ records'[c] = Append(records[c], run)
      /\ \A d \in Conversations : d # c => records'[d] = records[d]
  BY <1>1, <1>2, <1>4 DEF SessionTypes
<1>6. /\ Len(records'[c]) = r /\ records'[c][r] = run
      /\ \A q \in 1 .. Len(records[c]) : records'[c][q] = records[c][q]
  BY <1>0, <1>1, <1>4, <1>5
<1>7. /\ s \in DeliveryStates(0 .. Len(transcript[c]), 0 .. r)
      /\ s.lastDelivered = delivery[c].lastDelivered
  <2>1. TRUE \in BOOLEAN /\ r \in 0 .. r
    BY <1>3
  <2>2. /\ delivery[c] \in DeliveryStates(0 .. Len(transcript[c]), 0 .. r)
        /\ delivery[c] \in DeliveryStates(Nat, Nat)
    BY <1>0, <1>1 DEF DeliveryStates
  <2>3. s \in DeliveryStates(0 .. Len(transcript[c]), 0 .. r)
    BY <1>1, <1>3, <2>1, <2>2, DeliveriesType
  <2>4. s.lastDelivered = delivery[c].lastDelivered
    <3>1. delivery[c] \in DeliveryStates(Nat, Nat) /\ objects[o].snapshot \in Nat /\ TRUE \in BOOLEAN
      BY ONLY <1>1, <2>1, <2>2
    <3>2. MarkRunStarted(delivery[c], r, objects[o].snapshot).lastDelivered
            = delivery[c].lastDelivered
      BY ONLY <3>1, CursorsOf
    <3> QED
      BY ONLY <3>2
  <2> QED
    BY <2>3, <2>4
<1>8. /\ delivery'[c] = s /\ \A d \in Conversations : d # c => delivery'[d] = delivery[d]
      /\ delivery' \in [Conversations -> DeliveryStates(Nat, Nat)]
  <2>1. s \in DeliveryStates(Nat, Nat)
    BY <1>1, <1>3, <1>7 DEF DeliveryStates
  <2> QED
    BY <1>1, <1>2, <2>1
<1> HIDE DEF x, s, run
<1>9. /\ objects' \in Seq(ObjectRecords) /\ Len(objects') = Len(objects) /\ Objects' = Objects
      /\ objects'[o] = x /\ \A p \in Objects : p # o => objects'[p] = objects[p]
  BY <1>1, <1>2, <1>3, ObjectChanges
<1>10. ASSUME c \notin disturbed PROVE Undisturbed(c)'
  <2>1. Undisturbed(c) /\ \A p \in Objects : objects[p].conversation = c => p = o
    BY <1>0, <1>1, <1>10 DEF SessionInv, Undisturbed, Alone
  <2>2. /\ Alone(c)' /\ \A p \in Objects' : objects'[p].conversation = c => p = o
    <3>1. ASSUME NEW p \in Objects', objects'[p].conversation = c PROVE p = o
      <4>1. p # o => objects'[p] = objects[p] /\ p \in Objects
        BY <1>9, <3>1
      <4> QED
        BY <2>1, <3>1, <4>1
    <3> QED
      BY <3>1 DEF Alone
  <2>3. /\ run.low = delivery[c].lastDelivered /\ run.commit = "pending"
        /\ run.snapshot = objects[o].snapshot /\ ~run.advanced
    BY <1>0, <1>2, <2>1 DEF Undisturbed, ObjectAtWork, run
  <2>4. ObjectAtWork(o, c)'
    BY <1>3, <1>6, <1>9, <2>3 DEF ObjectAtWork
  <2>5. RunAccounted(c, r)'
    <3>1. o \in Objects' /\ objects'[o].conversation = c /\ objects'[o].pc = "invoking"
          /\ objects'[o].run = r
      BY <1>3, <1>9
    <3> QED
      BY <1>6, <2>3, <3>1 DEF RunAccounted
  <2>6. ASSUME NEW q \in 1 .. Len(records[c]) PROVE RunAccounted(c, q)'
    <3>1. RunAccounted(c, q) /\ records'[c][q] = records[c][q]
      BY <1>6, <2>1 DEF Undisturbed
    <3>2. records[c][q].commit # "pending"
      BY <1>2, <2>1, <3>1 DEF RunAccounted
    <3>3. records[c][q].advanced => \E i \in 1 .. Len(transcript[c]) : transcript[c][i].run = q
      BY <1>2, <2>1, <3>1 DEF RunAccounted
    <3>4. ASSUME records[c][q].advanced, NEW n \in 1 .. Len(records'[c]), q < n
          PROVE  records[c][q].snapshot <= records'[c][n].low
      <4>1. CASE n = r
        BY <1>6, <2>3, <3>1, <3>4, <4>1 DEF RunAccounted
      <4>2. CASE n # r
        <5>1. n \in 1 .. Len(records[c])
          BY <1>0, <1>1, <1>6, <4>2
        <5> QED
          BY <1>6, <3>1, <3>4, <5>1 DEF RunAccounted
      <4> QED
        BY <4>1, <4>2
    <3>5. records[c][q].advanced => records[c][q].snapshot <= delivery'[c].lastDelivered
      BY <1>7, <1>8, <3>1 DEF RunAccounted
    <3>6. transcript' = transcript
      BY <1>2
    <3> QED
      BY <3>1, <3>2, <3>3, <3>4, <3>5, <3>6 DEF RunAccounted
  <2>7. \A q \in 1 .. Len(records'[c]) : RunAccounted(c, q)'
    BY <1>0, <1>1, <1>6, <2>5, <2>6
  <2> QED
    BY <2>2, <2>4, <2>7 DEF Undisturbed
<1>11. /\ Len(records'[c]) >= Len(records[c]) /\ objects'[o].conversation = c
       /\ objects'[o].run \in 0 .. Len(records'[c])
       /\ objects'[o].snapshot <= Len(transcript'[c]) /\ Len(transcript'[c]) >= Len(transcript[c])
       /\ transcript' \in [Conversations -> Seq(SessionEvents)]
       /\ delivery'[c] \in DeliveryStates(0 .. Len(transcript'[c]), 0 .. Len(records'[c]))
  BY <1>0, <1>1, <1>2, <1>3, <1>6, <1>7, <1>8, <1>9 DEF SessionTypes
<1>12. \A q \in 1 .. Len(records'[c]) : records'[c][q].snapshot <= Len(transcript'[c])
  <2>1. records'[c][r].snapshot <= Len(transcript'[c])
    BY <1>1, <1>2, <1>6 DEF run
  <2>2. \A q \in 1 .. Len(records[c]) : records'[c][q].snapshot <= Len(transcript'[c])
    BY <1>1, <1>2, <1>6 DEF SessionTypes, SessionTypeOK
  <2> QED
    BY <1>0, <1>1, <1>6, <2>1, <2>2
<1>13. \A d \in Conversations : d # c =>
         /\ transcript'[d] = transcript[d] /\ records'[d] = records[d]
         /\ delivery'[d] = delivery[d]
  BY <1>2, <1>5, <1>8
<1>w. WorkStep(o, c)
  BY <1>0, <1>2, <1>5, <1>8, <1>9, <1>10, <1>11, <1>12, <1>13 DEF WorkStep
<1> QED
  BY ONLY SessionInv, o \in Objects, <1>w, WorkKeeps

\* The types of an object's snapshot and run and of what they are bounded by.
WorkerTyped(o, c) ==
  /\ SessionTypes /\ c \in Conversations /\ objects[o] \in ObjectRecords
  /\ objects[o].snapshot \in 0 .. Len(transcript[c]) /\ objects[o].snapshot \in Nat
  /\ objects[o].run \in 0 .. Len(records[c]) /\ objects[o].run \in Nat
  /\ Len(transcript[c]) \in Nat /\ Len(records[c]) \in Nat
  /\ records \in [Conversations -> Seq(SessionRuns)] /\ records[c] \in Seq(SessionRuns)
  /\ transcript \in [Conversations -> Seq(SessionEvents)]
  /\ transcript[c] \in Seq(SessionEvents)
  /\ delivery \in [Conversations -> DeliveryStates(Nat, Nat)]
  /\ delivery[c] \in DeliveryStates(0 .. Len(transcript[c]), 0 .. Len(records[c]))
  /\ delivery[c] \in DeliveryStates(Nat, Nat) /\ delivery[c].lastDelivered \in Nat
  /\ \A r \in 1 .. Len(records[c]) :
       records[c][r].snapshot <= Len(transcript[c]) /\ records[c][r].snapshot \in Nat

LEMMA WorkerTypes ==
  ASSUME SessionInv, NEW o \in Objects, NEW c, c = objects[o].conversation
  PROVE  WorkerTyped(o, c)
<1>1. SessionTypes /\ objects[o] \in ObjectRecords
  BY SessionSizes DEF SessionInv
<1>2. /\ c \in Conversations /\ objects[o].snapshot <= Len(transcript[c])
      /\ objects[o].run \in 0 .. Len(records[c])
  BY <1>1 DEF SessionTypes, SessionTypeOK
<1>3. /\ Len(transcript[c]) \in Nat /\ Len(records[c]) \in Nat
      /\ transcript[c] \in Seq(SessionEvents) /\ records[c] \in Seq(SessionRuns)
      /\ \A r \in 1 .. Len(records[c]) : records[c][r] \in SessionRuns
  BY <1>1, <1>2, SessionSizes
<1>4. objects[o].snapshot \in Nat /\ objects[o].run \in Nat
  BY <1>1 DEF ObjectRecords
<1>5. \A r \in 1 .. Len(records[c]) :
        records[c][r].snapshot <= Len(transcript[c]) /\ records[c][r].snapshot \in Nat
  BY <1>1, <1>2, <1>3 DEF SessionTypes, SessionTypeOK, SessionRuns
<1>6. /\ delivery \in [Conversations -> DeliveryStates(Nat, Nat)]
      /\ delivery[c] \in DeliveryStates(0 .. Len(transcript[c]), 0 .. Len(records[c]))
      /\ records \in [Conversations -> Seq(SessionRuns)]
      /\ transcript \in [Conversations -> Seq(SessionEvents)]
  BY <1>1, <1>2 DEF SessionTypes, SessionTypeOK
<1>7. delivery[c] \in DeliveryStates(Nat, Nat) /\ delivery[c].lastDelivered \in Nat
  BY <1>2, <1>6 DEF DeliveryStates
<1> QED
  BY <1>1, <1>2, <1>3, <1>4, <1>5, <1>6, <1>7 DEF WorkerTyped

\* The one thread of an undisturbed conversation that makes a step.
LEMMA OnlyWorker ==
  ASSUME SessionInv, NEW o \in Objects, NEW c \in Conversations \ disturbed,
         c = objects[o].conversation, NEW x \in ObjectRecords, x.conversation = c,
         objects' = [objects EXCEPT ![o] = x]
  PROVE  /\ Undisturbed(c) /\ ObjectAtWork(o, c)
         /\ \A p \in Objects : objects[p].conversation = c => p = o
         /\ Alone(c)' /\ \A p \in Objects' : objects'[p].conversation = c => p = o
<1>1. /\ Undisturbed(c) /\ ObjectAtWork(o, c)
      /\ \A p \in Objects : objects[p].conversation = c => p = o
  BY DEF SessionInv, Undisturbed, Alone
<1>2. Objects' = Objects /\ \A p \in Objects : p # o => objects'[p] = objects[p]
  BY ObjectChanges DEF SessionInv
<1>3. ASSUME NEW p \in Objects', objects'[p].conversation = c PROVE p = o
  BY <1>1, <1>2, <1>3
<1> QED
  BY <1>1, <1>3 DEF Alone

Completed(line, r, a) ==
  [line EXCEPT ![r].advanced = a, ![r].commit = IF @ = "orphaned" THEN @ ELSE "committed"]

LEMMA CompletedIs ==
  ASSUME NEW line \in Seq(SessionRuns), NEW r, NEW a \in BOOLEAN,
         NEW now, now = Completed(line, r, a)
  PROVE  /\ now \in Seq(SessionRuns) /\ Len(now) = Len(line)
         /\ \A q \in 1 .. Len(line) : /\ now[q].low = line[q].low
                                      /\ now[q].snapshot = line[q].snapshot
                                      /\ q # r => now[q] = line[q]
         /\ r \in 1 .. Len(line) =>
              /\ now[r].advanced = a
              /\ now[r].commit = IF line[r].commit = "orphaned" THEN "orphaned" ELSE "committed"
<1>1. Len(line) \in Nat /\ line \in [1 .. Len(line) -> SessionRuns]
  OBVIOUS
<1>2. now = [q \in 1 .. Len(line) |-> now[q]]
  BY <1>1 DEF Completed
<1>3. \A q \in 1 .. Len(line) : /\ now[q] \in SessionRuns
                                /\ now[q].low = line[q].low /\ now[q].snapshot = line[q].snapshot
                                /\ q # r => now[q] = line[q]
  <2> SUFFICES ASSUME NEW q \in 1 .. Len(line)
               PROVE  /\ now[q] \in SessionRuns
                      /\ now[q].low = line[q].low /\ now[q].snapshot = line[q].snapshot
                      /\ q # r => now[q] = line[q]
    OBVIOUS
  <2>1. line[q] \in SessionRuns
    BY <1>1
  <2>2. CASE q # r
    BY <1>1, <2>1, <2>2 DEF Completed
  <2>3. CASE q = r
    <3>1. now[q] = [line[q] EXCEPT
                     !.advanced = a, !.commit = IF @ = "orphaned" THEN @ ELSE "committed"]
      BY <1>1, <2>3 DEF Completed
    <3> QED
      BY <2>1, <2>3, <3>1 DEF SessionRuns
  <2> QED
    BY <2>2, <2>3
<1>4. now \in [1 .. Len(line) -> SessionRuns]
  BY <1>2, <1>3
<1>5. now \in Seq(SessionRuns) /\ Len(now) = Len(line)
  BY ONLY <1>1, <1>4
<1>6. r \in 1 .. Len(line) =>
        /\ now[r].advanced = a
        /\ now[r].commit = IF line[r].commit = "orphaned" THEN "orphaned" ELSE "committed"
  BY <1>1 DEF SessionRuns, Completed
<1> QED
  BY <1>3, <1>5, <1>6

LEMMA CompletesKeeps ==
  ASSUME SessionInv, NEW o \in Objects, CompletesRun(o)
  PROVE  SessionInv'
<1>0. PICK c, r, e : c = objects[o].conversation /\ r = objects[o].run /\ e = objects[o].snapshot
  OBVIOUS
<1> DEFINE x == [objects[o] EXCEPT !.pc = IF OwnsRun(delivery[c], r) THEN "replying" ELSE "idle"]
<1>s. PICK s : s = CompleteRun(delivery[c], r, e, TRUE)
  OBVIOUS
<1> DEFINE a == s.lastDelivered > delivery[c].lastDelivered
<1>1. /\ SessionTypes /\ c \in Conversations /\ objects[o] \in ObjectRecords
      /\ e \in 0 .. Len(transcript[c]) /\ e \in Nat /\ r \in 0 .. Len(records[c])
      /\ Len(transcript[c]) \in Nat /\ Len(records[c]) \in Nat
      /\ records \in [Conversations -> Seq(SessionRuns)] /\ records[c] \in Seq(SessionRuns)
      /\ transcript \in [Conversations -> Seq(SessionEvents)]
      /\ delivery \in [Conversations -> DeliveryStates(Nat, Nat)]
      /\ delivery[c] \in DeliveryStates(0 .. Len(transcript[c]), 0 .. Len(records[c]))
      /\ delivery[c] \in DeliveryStates(Nat, Nat) /\ delivery[c].lastDelivered \in Nat
      /\ \A q \in 1 .. Len(records[c]) :
           records[c][q].snapshot <= Len(transcript[c]) /\ records[c][q].snapshot \in Nat
  <2>1. WorkerTyped(o, c)
    BY <1>0, WorkerTypes
  <2> QED
    BY <1>0, <2>1 DEF WorkerTyped
<1>2. /\ objects[o].pc = "invoking" /\ delivery' = [delivery EXCEPT ![c] = s]
      /\ objects' = [objects EXCEPT ![o] = x]
      /\ UNCHANGED <<teams, active, disturbed>> /\ UNCHANGED transcript
  BY <1>0, <1>1, <1>s DEF CompletesRun
<1>3. /\ x \in ObjectRecords /\ x.conversation = c /\ x.run = r /\ x.snapshot = e
      /\ x.pc = IF OwnsRun(delivery[c], r) THEN "replying" ELSE "idle"
  BY <1>0, <1>1 DEF ObjectRecords, SessionPcs
<1>4. /\ s \in DeliveryStates(0 .. Len(transcript[c]), 0 .. Len(records[c]))
      /\ s.lastDelivered = IF OwnsRun(delivery[c], r) THEN Later(e, delivery[c].lastDelivered)
                           ELSE delivery[c].lastDelivered
  <2> PICK d, m, n, yes : /\ d = delivery[c] /\ m = Len(transcript[c]) /\ n = Len(records[c])
                          /\ yes = TRUE
    OBVIOUS
  <2>1. /\ d \in DeliveryStates(0 .. m, 0 .. n) /\ m \in Nat /\ n \in Nat
        /\ e \in 0 .. m /\ yes \in BOOLEAN
    BY <1>1
  <2>2. CompleteRun(d, r, e, yes) \in DeliveryStates(0 .. m, 0 .. n)
    BY ONLY <2>1, DeliveriesType
  <2>3. d \in DeliveryStates(Nat, Nat) /\ e \in Nat /\ yes \in BOOLEAN
    BY <1>1
  <2>4. CompleteRun(d, r, e, yes).lastDelivered =
          IF OwnsRun(d, r) /\ yes THEN Later(e, d.lastDelivered) ELSE d.lastDelivered
    BY ONLY <2>3, CursorsOf
  <2>5. CompleteRun(d, r, e, yes) = s
    BY <1>s
  <2> QED
    BY <2>2, <2>4, <2>5
<1>5. /\ delivery'[c] = s /\ \A d \in Conversations : d # c => delivery'[d] = delivery[d]
      /\ delivery' \in [Conversations -> DeliveryStates(Nat, Nat)]
  <2>1. s \in DeliveryStates(Nat, Nat)
    BY <1>1, <1>4 DEF DeliveryStates
  <2> QED
    BY <1>1, <1>2, <2>1
<1>6. records' = [records EXCEPT
        ![c][r].advanced = a, ![c][r].commit = IF @ = "orphaned" THEN @ ELSE "committed"]
  <2>1. records' = [records EXCEPT
          ![c][r].advanced = s.lastDelivered > delivery[c].lastDelivered,
          ![c][r].commit = IF @ = "orphaned" THEN @ ELSE "committed"]
    BY <1>0, <1>5 DEF CompletesRun
  <2> QED
    BY ONLY <2>1
<1>7. a \in BOOLEAN /\ (a => OwnsRun(delivery[c], r) /\ s.lastDelivered = e)
      /\ s.lastDelivered >= delivery[c].lastDelivered /\ s.lastDelivered \in Nat
  BY <1>1, <1>4 DEF Later
<1> HIDE DEF a, x
<1>8. /\ records' \in [Conversations -> Seq(SessionRuns)]
      /\ \A d \in Conversations : d # c => records'[d] = records[d]
      /\ Len(records'[c]) = Len(records[c])
      /\ \A q \in 1 .. Len(records[c]) : /\ records'[c][q].low = records[c][q].low
                                         /\ records'[c][q].snapshot = records[c][q].snapshot
                                         /\ q # r => records'[c][q] = records[c][q]
      /\ r \in 1 .. Len(records[c]) =>
           /\ records'[c][r].advanced = a
           /\ records'[c][r].commit = IF records[c][r].commit = "orphaned" THEN "orphaned"
                                      ELSE "committed"
  <2> PICK line, now : line = records[c] /\ now = records'[c]
    OBVIOUS
  <2>1. now = Completed(line, r, a)
    BY <1>1, <1>6 DEF Completed
  <2>2. line \in Seq(SessionRuns) /\ a \in BOOLEAN
    BY <1>1, <1>7
  <2>3. /\ now \in Seq(SessionRuns) /\ Len(now) = Len(line)
        /\ \A q \in 1 .. Len(line) : /\ now[q].low = line[q].low
                                     /\ now[q].snapshot = line[q].snapshot
                                     /\ q # r => now[q] = line[q]
        /\ r \in 1 .. Len(line) =>
             /\ now[r].advanced = a
             /\ now[r].commit = IF line[r].commit = "orphaned" THEN "orphaned" ELSE "committed"
    BY ONLY <2>1, <2>2, CompletedIs
  <2>4. DOMAIN records' = Conversations /\ \A d \in Conversations : d # c => records'[d] = records[d]
    BY <1>1, <1>6
  <2>5. records' = [d \in Conversations |-> records'[d]]
    BY <1>1, <1>6
  <2>6. \A d \in Conversations : records'[d] \in Seq(SessionRuns)
    BY <1>1, <2>3, <2>4
  <2>7. records' \in [Conversations -> Seq(SessionRuns)]
    BY ONLY <2>5, <2>6
  <2> QED
    BY <2>3, <2>4, <2>7
<1>9. /\ objects' \in Seq(ObjectRecords) /\ Len(objects') = Len(objects) /\ Objects' = Objects
      /\ objects'[o] = x /\ \A p \in Objects : p # o => objects'[p] = objects[p]
  BY <1>1, <1>2, <1>3, ObjectChanges
<1>10. ASSUME c \notin disturbed PROVE Undisturbed(c)'
  <2>1. /\ Undisturbed(c) /\ ObjectAtWork(o, c)
        /\ \A p \in Objects : objects[p].conversation = c => p = o
        /\ Alone(c)' /\ \A p \in Objects' : objects'[p].conversation = c => p = o
    BY <1>0, <1>1, <1>2, <1>3, <1>10, OnlyWorker
  <2>2. ObjectAtWork(o, c)'
    BY <1>3, <1>9 DEF ObjectAtWork
  <2>3. r = Len(records[c]) /\ r \in 1 .. Len(records[c]) /\ records[c][r].snapshot = e
    BY <1>0, <1>1, <1>2, <2>1 DEF ObjectAtWork, NoRun
  <2>4. RunAccounted(c, r)'
    <3>1. records'[c][r].commit = "committed"
      BY <1>8, <2>1, <2>3 DEF Undisturbed, RunAccounted
    <3>2. ~\E q \in 1 .. Len(records'[c]) : r < q
      BY <1>1, <1>8, <2>3
    <3>3. a => /\ o \in Objects' /\ objects'[o].conversation = c /\ objects'[o].run = r
               /\ objects'[o].pc = "replying"
      BY <1>3, <1>7, <1>9
    <3>4. /\ records'[c][r].advanced = a
          /\ a => records'[c][r].snapshot <= delivery'[c].lastDelivered
      BY <1>1, <1>5, <1>7, <1>8, <2>3
    <3> QED
      BY <3>1, <3>2, <3>3, <3>4 DEF RunAccounted
  <2>5. ASSUME NEW q \in 1 .. Len(records[c]), q # r PROVE RunAccounted(c, q)'
    <3>1. RunAccounted(c, q) /\ records'[c][q] = records[c][q]
      BY <1>8, <2>1, <2>5 DEF Undisturbed
    <3>2. records[c][q].commit # "pending"
      BY <1>0, <2>1, <2>5, <3>1 DEF RunAccounted
    <3>3. records[c][q].advanced => \E i \in 1 .. Len(transcript[c]) : transcript[c][i].run = q
      BY <1>2, <2>1, <3>1 DEF RunAccounted
    <3>4. records[c][q].advanced => records[c][q].snapshot <= delivery'[c].lastDelivered
      BY <1>1, <1>5, <1>7, <3>1 DEF RunAccounted
    <3>5. records[c][q].advanced =>
            \A n \in 1 .. Len(records'[c]) : q < n => records[c][q].snapshot <= records'[c][n].low
      BY <1>8, <3>1 DEF RunAccounted
    <3>6. transcript' = transcript
      BY <1>2
    <3> QED
      BY <3>1, <3>2, <3>3, <3>4, <3>5, <3>6 DEF RunAccounted
  <2>6. \A q \in 1 .. Len(records'[c]) : RunAccounted(c, q)'
    BY <1>8, <2>4, <2>5
  <2> QED
    BY <2>1, <2>2, <2>6 DEF Undisturbed
<1>11. /\ Len(records'[c]) >= Len(records[c]) /\ objects'[o].conversation = c
       /\ objects'[o].run \in 0 .. Len(records'[c])
       /\ objects'[o].snapshot <= Len(transcript'[c]) /\ Len(transcript'[c]) >= Len(transcript[c])
       /\ transcript' \in [Conversations -> Seq(SessionEvents)]
       /\ delivery'[c] \in DeliveryStates(0 .. Len(transcript'[c]), 0 .. Len(records'[c]))
  BY <1>1, <1>2, <1>3, <1>4, <1>5, <1>8, <1>9
<1>12. \A q \in 1 .. Len(records'[c]) : records'[c][q].snapshot <= Len(transcript'[c])
  BY <1>1, <1>2, <1>8
<1>13. \A d \in Conversations : d # c =>
         /\ transcript'[d] = transcript[d] /\ records'[d] = records[d]
         /\ delivery'[d] = delivery[d]
  BY <1>2, <1>5, <1>8
<1>w. WorkStep(o, c)
  BY <1>0, <1>2, <1>5, <1>8, <1>9, <1>10, <1>11, <1>12, <1>13 DEF WorkStep
<1> QED
  BY ONLY SessionInv, o \in Objects, <1>w, WorkKeeps

LEMMA ReadsSeqKeeps ==
  ASSUME SessionInv, NEW o \in Objects, ReadsSeq(o)
  PROVE  SessionInv'
<1>0. PICK c, e : c = objects[o].conversation /\ e = Len(transcript[c]) + 1
  OBVIOUS
<1> DEFINE x == [objects[o] EXCEPT !.pc = "inserting", !.seq = e]
<1>1. /\ SessionTypes /\ c \in Conversations /\ objects[o] \in ObjectRecords
      /\ objects[o].snapshot <= Len(transcript[c]) /\ objects[o].run \in 0 .. Len(records[c])
      /\ Len(transcript[c]) \in Nat /\ Len(records[c]) \in Nat
      /\ records \in [Conversations -> Seq(SessionRuns)]
      /\ transcript \in [Conversations -> Seq(SessionEvents)]
      /\ delivery \in [Conversations -> DeliveryStates(Nat, Nat)]
      /\ delivery[c] \in DeliveryStates(0 .. Len(transcript[c]), 0 .. Len(records[c]))
      /\ \A q \in 1 .. Len(records[c]) : records[c][q].snapshot <= Len(transcript[c])
  <2>1. WorkerTyped(o, c)
    BY <1>0, WorkerTypes
  <2> QED
    BY <1>0, <2>1 DEF WorkerTyped
<1>2. /\ objects[o].pc = "replying" /\ objects' = [objects EXCEPT ![o] = x]
      /\ UNCHANGED <<teams, active, disturbed>>
      /\ transcript' = transcript /\ records' = records /\ delivery' = delivery
  BY <1>0, <1>1 DEF ReadsSeq
<1>3. /\ x \in ObjectRecords /\ x.conversation = c /\ x.run = objects[o].run
      /\ x.snapshot = objects[o].snapshot /\ x.pc = "inserting" /\ x.seq = e
  <2>1. e \in Nat
    BY <1>0, <1>1
  <2> QED
    BY <1>0, <1>1, <2>1 DEF ObjectRecords, SessionPcs
<1> HIDE DEF x
<1>4. /\ objects' \in Seq(ObjectRecords) /\ Len(objects') = Len(objects) /\ Objects' = Objects
      /\ objects'[o] = x /\ \A p \in Objects : p # o => objects'[p] = objects[p]
  BY <1>1, <1>2, <1>3, ObjectChanges
<1>5. ASSUME c \notin disturbed PROVE Undisturbed(c)'
  <2>1. /\ Undisturbed(c)
        /\ \A p \in Objects : objects[p].conversation = c => p = o
        /\ Alone(c)' /\ \A p \in Objects' : objects'[p].conversation = c => p = o
    BY <1>0, <1>1, <1>2, <1>3, <1>5, OnlyWorker
  <2>2. ObjectAtWork(o, c)'
    BY <1>0, <1>2, <1>3, <1>4 DEF ObjectAtWork
  <2>3. ASSUME NEW q \in 1 .. Len(records[c]) PROVE RunAccounted(c, q)'
    <3>1. RunAccounted(c, q)
      BY <2>1 DEF Undisturbed
    <3>2. records[c][q].commit # "pending"
      BY <1>2, <2>1, <3>1 DEF RunAccounted
    <3>3. ASSUME NEW p \in Objects, objects[p].conversation = c, objects[p].run = q
          PROVE  /\ p \in Objects' /\ objects'[p].conversation = c /\ objects'[p].run = q
                 /\ objects'[p].pc = "inserting"
      BY <1>3, <1>4, <2>1, <3>3
    <3> QED
      BY <1>2, <3>1, <3>2, <3>3 DEF RunAccounted
  <2> QED
    BY <1>2, <2>1, <2>2, <2>3 DEF Undisturbed
<1>6. /\ objects'[o].conversation = c
      /\ objects'[o].run \in 0 .. Len(records'[c])
      /\ objects'[o].snapshot <= Len(transcript'[c])
  BY <1>1, <1>2, <1>3, <1>4
<1>7. Len(records'[c]) >= Len(records[c]) /\ Len(transcript'[c]) >= Len(transcript[c])
  BY <1>1, <1>2
<1>8. /\ records' \in [Conversations -> Seq(SessionRuns)]
      /\ transcript' \in [Conversations -> Seq(SessionEvents)]
      /\ delivery' \in [Conversations -> DeliveryStates(Nat, Nat)]
      /\ delivery'[c] \in DeliveryStates(0 .. Len(transcript'[c]), 0 .. Len(records'[c]))
      /\ \A q \in 1 .. Len(records'[c]) : records'[c][q].snapshot <= Len(transcript'[c])
      /\ \A d \in Conversations : d # c =>
           /\ transcript'[d] = transcript[d] /\ records'[d] = records[d]
           /\ delivery'[d] = delivery[d]
  BY <1>1, <1>2
<1>w. WorkStep(o, c)
  BY <1>0, <1>2, <1>4, <1>5, <1>6, <1>7, <1>8 DEF WorkStep
<1> QED
  BY ONLY SessionInv, o \in Objects, <1>w, WorkKeeps

LEMMA InsertsKeeps ==
  ASSUME SessionInv, NEW o \in Objects, InsertsReply(o)
  PROVE  SessionInv'
<1>0. PICK c, r, event : /\ c = objects[o].conversation /\ r = objects[o].run
                         /\ event = [message |-> Nothing, run |-> r]
  OBVIOUS
<1> DEFINE x == [objects[o] EXCEPT !.pc = "idle"]
<1>1. /\ SessionTypes /\ c \in Conversations /\ objects[o] \in ObjectRecords
      /\ objects[o].snapshot <= Len(transcript[c]) /\ objects[o].snapshot \in Nat
      /\ r \in 0 .. Len(records[c]) /\ r \in Nat
      /\ Len(transcript[c]) \in Nat /\ Len(records[c]) \in Nat
      /\ records \in [Conversations -> Seq(SessionRuns)]
      /\ transcript \in [Conversations -> Seq(SessionEvents)]
      /\ transcript[c] \in Seq(SessionEvents)
      /\ delivery \in [Conversations -> DeliveryStates(Nat, Nat)]
      /\ delivery[c] \in DeliveryStates(0 .. Len(transcript[c]), 0 .. Len(records[c]))
      /\ \A q \in 1 .. Len(records[c]) :
           records[c][q].snapshot <= Len(transcript[c]) /\ records[c][q].snapshot \in Nat
  <2>1. WorkerTyped(o, c)
    BY <1>0, WorkerTypes
  <2> QED
    BY <1>0, <2>1 DEF WorkerTyped
<1>2. /\ objects[o].pc = "inserting" /\ objects' = [objects EXCEPT ![o] = x]
      /\ UNCHANGED <<teams, active, disturbed>>
      /\ records' = records /\ delivery' = delivery
      /\ transcript' = IF objects[o].seq = Len(transcript[c]) + 1
                         THEN [transcript EXCEPT ![c] = Append(@, event)] ELSE transcript
  BY <1>0, <1>1 DEF InsertsReply
<1>3. /\ x \in ObjectRecords /\ x.conversation = c /\ x.run = r
      /\ x.snapshot = objects[o].snapshot /\ x.pc = "idle"
  BY <1>0, <1>1 DEF ObjectRecords, SessionPcs
<1> HIDE DEF x
<1>4. /\ objects' \in Seq(ObjectRecords) /\ Len(objects') = Len(objects) /\ Objects' = Objects
      /\ objects'[o] = x /\ \A p \in Objects : p # o => objects'[p] = objects[p]
  BY <1>1, <1>2, <1>3, ObjectChanges
<1>5. /\ event \in SessionEvents /\ event.run = r
  BY <1>0, <1>1 DEF SessionEvents
<1>6. /\ Append(transcript[c], event) \in Seq(SessionEvents)
      /\ Len(Append(transcript[c], event)) = Len(transcript[c]) + 1
      /\ Append(transcript[c], event)[Len(transcript[c]) + 1] = event
      /\ \A i \in 1 .. Len(transcript[c]) : Append(transcript[c], event)[i] = transcript[c][i]
  <2>1. transcript[c] \in Seq(SessionEvents) /\ event \in SessionEvents
    BY <1>1, <1>5
  <2> QED
    BY ONLY <2>1
<1>7. /\ transcript' \in [Conversations -> Seq(SessionEvents)]
      /\ \A d \in Conversations : d # c => transcript'[d] = transcript[d]
      /\ transcript'[c] = transcript[c] \/ transcript'[c] = Append(transcript[c], event)
      /\ objects[o].seq = Len(transcript[c]) + 1 => transcript'[c] = Append(transcript[c], event)
  BY <1>1, <1>2, <1>6
<1>8. /\ Len(transcript'[c]) \in Nat /\ Len(transcript'[c]) >= Len(transcript[c])
      /\ \A i \in 1 .. Len(transcript[c]) :
           i \in 1 .. Len(transcript'[c]) /\ transcript'[c][i] = transcript[c][i]
  BY <1>1, <1>6, <1>7
<1>9. ASSUME c \notin disturbed PROVE Undisturbed(c)'
  <2>1. /\ Undisturbed(c) /\ ObjectAtWork(o, c)
        /\ \A p \in Objects : objects[p].conversation = c => p = o
        /\ Alone(c)' /\ \A p \in Objects' : objects'[p].conversation = c => p = o
    BY <1>0, <1>1, <1>2, <1>3, <1>9, OnlyWorker
  <2>2. ObjectAtWork(o, c)'
    BY <1>3, <1>4 DEF ObjectAtWork
  <2>3. /\ Len(transcript[c]) + 1 \in 1 .. Len(transcript'[c])
        /\ transcript'[c][Len(transcript[c]) + 1].run = r
    <3>1. transcript'[c] = Append(transcript[c], event)
      BY <1>2, <1>7, <2>1 DEF ObjectAtWork
    <3> QED
      BY <1>1, <1>5, <1>6, <3>1
  <2>4. ASSUME NEW q \in 1 .. Len(records[c]) PROVE RunAccounted(c, q)'
    <3>1. RunAccounted(c, q)
      BY <2>1 DEF Undisturbed
    <3>2. records[c][q].commit # "pending"
      BY <1>2, <2>1, <3>1 DEF RunAccounted
    <3>3. records[c][q].advanced => \E i \in 1 .. Len(transcript'[c]) : transcript'[c][i].run = q
      <4>1. ASSUME records[c][q].advanced, NEW p \in Objects, objects[p].conversation = c,
                   objects[p].run = q
            PROVE  r = q
        BY <1>0, <2>1, <4>1
      <4>2. ASSUME NEW i \in 1 .. Len(transcript[c]), transcript[c][i].run = q
            PROVE  i \in 1 .. Len(transcript'[c]) /\ transcript'[c][i].run = q
        BY <1>8, <4>2
      <4> QED
        BY <2>3, <3>1, <4>1, <4>2 DEF RunAccounted
    <3> QED
      BY <1>2, <3>1, <3>2, <3>3 DEF RunAccounted
  <2> QED
    BY <1>2, <2>1, <2>2, <2>4 DEF Undisturbed
<1>10. /\ objects'[o].conversation = c
       /\ objects'[o].run \in 0 .. Len(records'[c])
       /\ objects'[o].snapshot <= Len(transcript'[c])
       /\ Len(records'[c]) >= Len(records[c])
  BY <1>1, <1>2, <1>3, <1>4, <1>8
<1>11. delivery'[c] \in DeliveryStates(0 .. Len(transcript'[c]), 0 .. Len(records'[c]))
  BY <1>1, <1>2, <1>8 DEF DeliveryStates
<1>12. /\ records' \in [Conversations -> Seq(SessionRuns)]
       /\ delivery' \in [Conversations -> DeliveryStates(Nat, Nat)]
       /\ \A q \in 1 .. Len(records'[c]) : records'[c][q].snapshot <= Len(transcript'[c])
       /\ \A d \in Conversations : d # c =>
            /\ transcript'[d] = transcript[d] /\ records'[d] = records[d]
            /\ delivery'[d] = delivery[d]
  BY <1>1, <1>2, <1>7, <1>8
<1>w. WorkStep(o, c)
  BY <1>0, <1>2, <1>4, <1>7, <1>8, <1>9, <1>10, <1>11, <1>12 DEF WorkStep
<1> QED
  BY ONLY SessionInv, o \in Objects, <1>w, WorkKeeps

\* A process that ends leaves the runs of the conversations it had at work to the next one.
LEMMA RestartKeeps ==
  ASSUME SessionInv, SessionRestarts
  PROVE  SessionInv'
<1>1. /\ SessionTypes /\ teams' = [t \in Teams |-> NoObject] /\ objects' = <<>>
      /\ active' = NoObject /\ disturbed' = disturbed \union {c \in Conversations : Busy(c)}
      /\ transcript' = transcript /\ delivery' = delivery /\ records' = records
  BY DEF SessionInv, SessionRestarts
<1>2. Objects' = {} /\ Len(objects') = 0 /\ objects' \in Seq(ObjectRecords)
  BY <1>1 DEF Objects
<1>3. SessionTypes'
  <2>1. /\ teams' \in [Teams -> 0 .. Len(objects')] /\ active' \in 0 .. Len(objects')
        /\ disturbed' \subseteq Conversations
    BY <1>1, <1>2 DEF SessionTypes, SessionTypeOK, NoObject
  <2> QED
    BY <1>1, <1>2, <2>1 DEF SessionTypes, SessionTypeOK
<1>4. ASSUME NEW c \in Conversations \ disturbed' PROVE Undisturbed(c)'
  <2>1. Undisturbed(c) /\ \A o \in Objects : objects[o].conversation = c => objects[o].pc = "idle"
    BY <1>1, <1>4 DEF SessionInv, Busy
  <2>2. ASSUME NEW r \in 1 .. Len(records[c]) PROVE RunAccounted(c, r)'
    <3>1. RunAccounted(c, r)
      BY <2>1 DEF Undisturbed
    <3>2. records[c][r].commit # "pending"
      BY <2>1, <3>1 DEF RunAccounted
    <3>3. records[c][r].advanced => \E i \in 1 .. Len(transcript[c]) : transcript[c][i].run = r
      BY <2>1, <3>1 DEF RunAccounted
    <3> QED
      BY <1>1, <3>1, <3>2, <3>3 DEF RunAccounted
  <2> QED
    BY <1>1, <1>2, <2>2 DEF Undisturbed, Alone
<1> QED
  BY <1>3, <1>4 DEF SessionInv

LEMMA SessionUnchanged ==
  ASSUME SessionInv, UNCHANGED sessionVars
  PROVE  SessionInv'
<1>1. /\ teams' = teams /\ objects' = objects /\ active' = active /\ transcript' = transcript
      /\ delivery' = delivery /\ records' = records /\ disturbed' = disturbed
  BY DEF sessionVars
<1>2. SessionTypes'
  BY <1>1 DEF SessionInv, SessionTypes, SessionTypeOK, Objects
<1>3. ASSUME NEW c \in Conversations \ disturbed PROVE Undisturbed(c)'
  <2>1. Undisturbed(c)
    BY DEF SessionInv
  <2>2. Objects' = Objects /\ Alone(c)'
    BY <1>1, <2>1 DEF Undisturbed, Alone, Objects
  <2>3. \A o \in Objects : ObjectAtWork(o, c) => ObjectAtWork(o, c)'
    BY <1>1 DEF ObjectAtWork
  <2>4. \A r \in 1 .. Len(records[c]) : RunAccounted(c, r) => RunAccounted(c, r)'
    BY <1>1, <2>2 DEF RunAccounted
  <2> QED
    BY <1>1, <2>1, <2>2, <2>3, <2>4 DEF Undisturbed
<1> QED
  BY <1>1, <1>2, <1>3 DEF SessionInv

LEMMA SessionStarts ==
  ASSUME SessionInit
  PROVE  SessionInv
<1>1. /\ teams = [t \in Teams |-> NoObject] /\ objects = <<>> /\ active = NoObject
      /\ transcript = [c \in Conversations |-> <<>>]
      /\ delivery = [c \in Conversations |-> NewDeliveryState]
      /\ records = [c \in Conversations |-> <<>>] /\ disturbed = {}
  BY DEF SessionInit
<1>2. Objects = {} /\ Len(objects) = 0 /\ objects \in Seq(ObjectRecords)
  BY <1>1 DEF Objects
<1>3. NewDeliveryState \in DeliveryStates(0 .. 0, 0 .. 0)
      /\ NewDeliveryState \in DeliveryStates(Nat, Nat)
  BY DEF NewDeliveryState, DeliveryStates, NoSeq, NoRun
<1>4. \A c \in Conversations : Len(transcript[c]) = 0 /\ Len(records[c]) = 0
  BY <1>1
<1>5. transcript \in [Conversations -> Seq(SessionEvents)]
      /\ records \in [Conversations -> Seq(SessionRuns)]
  BY <1>1
<1>6. SessionTypes
  BY <1>1, <1>2, <1>3, <1>4, <1>5 DEF SessionTypes, SessionTypeOK, NoObject
<1>7. \A c \in Conversations : Undisturbed(c)
  BY <1>2, <1>4 DEF Undisturbed, Alone
<1> QED
  BY <1>6, <1>7 DEF SessionInv

LEMMA SessionStep ==
  ASSUME SessionInv, [BackendNext]_backendVars
  PROVE  SessionInv'
<1>1. CASE Activation
  <2>1. PICK c \in Conversations :
          ActivateTeam(c) \/ \E m \in Messages \union {Nothing} : CreateConversation(c, m)
    BY <1>1 DEF Activation
  <2> QED
    BY <2>1, ActivateKeeps, CreateKeeps
<1>2. CASE Request
  <2>1. \/ \E c \in Conversations : SwitchConversation(c)
        \/ \E m \in Messages \union {Nothing} : AppendMessage(m)
    BY <1>2 DEF Request
  <2> QED
    BY <2>1, SwitchKeeps, AppendKeeps
<1>3. CASE TeamWorks
  <2>1. PICK o \in Objects : \/ Drains(o) \/ Reads(o) \/ StartsRun(o) \/ CompletesRun(o)
                             \/ ReadsSeq(o) \/ InsertsReply(o)
    BY <1>3 DEF TeamWorks, ThreadStep
  <2> QED
    BY <2>1, DrainsKeeps, ReadsKeeps, StartsKeeps, CompletesKeeps, ReadsSeqKeeps, InsertsKeeps
<1>4. CASE Restart
  BY <1>4, RestartKeeps DEF Restart
<1>5. CASE UNCHANGED sessionVars
  BY <1>5, SessionUnchanged
<1> QED
  BY <1>1, <1>2, <1>3, <1>4, <1>5
     DEF BackendNext, backendVars, Stream, Terminal, CommandLine

LEMMA SessionHolds == BackendSpec => []SessionInv
<1>1. BackendInit => SessionInv
  BY SessionStarts DEF BackendInit
<1>2. SessionInv /\ [BackendNext]_backendVars => SessionInv'
  BY SessionStep
<1> QED
  BY <1>1, <1>2, PTL DEF BackendSpec

\* Whatever users and threads do with other conversations of the process, and whatever other
\* objects write to the one file, a conversation that a process opens once and finishes its
\* work on loses nothing: reconciliation gives up no run of it, two runs never answer one
\* event, and a run that moved the cursor has its reply in or is about to append it.  It needs
\* no assumption on how many teams, conversations, objects or restarts there are.
THEOREM OnlyReopeningDisturbsCorrect == BackendSpec => []OnlyReopeningDisturbs
<1>1. SessionInv => OnlyReopeningDisturbs
  <2> SUFFICES ASSUME SessionInv, NEW c \in Conversations \ disturbed
               PROVE  /\ \A r \in 1 .. Len(records[c]) :
                           /\ records[c][r].commit # "orphaned"
                           /\ records[c][r].advanced =>
                                \/ \E o \in Objects :
                                     /\ objects[o].conversation = c /\ objects[o].run = r
                                     /\ objects[o].pc \in {"replying", "inserting"}
                                \/ \E i \in 1 .. Len(transcript[c]) : transcript[c][i].run = r
                      /\ \A r, q \in 1 .. Len(records[c]) :
                           r < q /\ records[c][r].advanced /\ records[c][q].advanced =>
                             records[c][r].snapshot <= records[c][q].low
    BY DEF OnlyReopeningDisturbs
  <2>1. \A r \in 1 .. Len(records[c]) : RunAccounted(c, r)
    BY DEF SessionInv, Undisturbed
  <2> QED
    BY <2>1 DEF RunAccounted
<1> QED
  BY <1>1, SessionHolds, PTL

----------------------------------------------------------------------------
(* What a selection returns.                                                *)

LEMMA LeastNumber ==
  ASSUME NEW T \in SUBSET Nat, T # {}
  PROVE  \E x \in T : \A y \in T : x <= y
<1> DEFINE R == {p \in Nat \X Nat : p[1] < p[2]}
<1>1. IsWellFoundedOn(R, Nat)
  BY NatLessThanWellFounded DEF OpToRel
<1> HIDE DEF R
<1>2. PICK x \in T : \A y \in T : ~ (<<y, x>> \in R)
  BY <1>1, WFMin
<1>3. ASSUME NEW y \in T
      PROVE  x <= y
  <2>1. <<y, x>> \in Nat \X Nat /\ <<y, x>>[1] = y /\ <<y, x>>[2] = x
    OBVIOUS
  <2>2. ~(y < x)
    BY <1>2, <2>1 DEF R
  <2> QED
    BY <2>2
<1> QED
  BY <1>2, <1>3

\* The sequence e lists the places I from the first to the last.
Lists(e, I) ==
  /\ e \in Seq(Nat)
  /\ \A a \in 1 .. Len(e) : e[a] \in I
  /\ \A i \in I : \E a \in 1 .. Len(e) : e[a] = i
  /\ \A a, b \in 1 .. Len(e) : a < b => e[a] < e[b]

Upto(I, m) == {i \in I : i <= m}

Listed(I) == \E e : Lists(e, I)

LEMMA UptoIs ==
  ASSUME NEW n \in Nat, NEW I \in SUBSET (1 .. n)
  PROVE  /\ Upto(I, 0) = {} /\ Upto(I, n) = I
         /\ \A m \in 1 .. n : /\ Upto(I, m) = Upto(I, m - 1) \union (IF m \in I THEN {m} ELSE {})
                               /\ \A i \in Upto(I, m - 1) : i < m
<1>1. \A i \in I : i \in 1 .. n /\ i \in Nat /\ i >= 1 /\ i <= n
  OBVIOUS
<1>2. Upto(I, 0) = {} /\ Upto(I, n) = I
  <2>1. ASSUME NEW i \in Upto(I, 0) PROVE FALSE
    BY <1>1, <2>1 DEF Upto
  <2>2. \A i : i \in Upto(I, n) <=> i \in I
    BY <1>1 DEF Upto
  <2> QED
    BY <2>1, <2>2
<1>3. ASSUME NEW m \in 1 .. n, NEW i \in I
      PROVE  i <= m <=> (i <= m - 1 \/ i = m)
  BY <1>1
<1>4. ASSUME NEW m \in 1 .. n PROVE \A i \in Upto(I, m - 1) : i < m
  BY <1>1 DEF Upto
<1>5. ASSUME NEW m \in 1 .. n
      PROVE  Upto(I, m) = Upto(I, m - 1) \union (IF m \in I THEN {m} ELSE {})
  <2>1. \A i : i \in Upto(I, m) <=> i \in Upto(I, m - 1) \/ (i \in I /\ i = m)
    BY <1>3 DEF Upto
  <2> QED
    BY <2>1
<1> QED
  BY <1>2, <1>4, <1>5

LEMMA ListExtends ==
  ASSUME NEW J \in SUBSET Nat, NEW m \in Nat, \A i \in J : i < m, NEW e, Lists(e, J)
  PROVE  Lists(Append(e, m), J \union {m})
<1> DEFINE f == Append(e, m)
<1>1. e \in Seq(Nat) /\ Len(e) \in Nat
  BY DEF Lists
<1>2. /\ f \in Seq(Nat) /\ Len(f) = Len(e) + 1 /\ f[Len(e) + 1] = m
      /\ \A a \in 1 .. Len(e) : f[a] = e[a]
  BY <1>1
<1> HIDE DEF f
<1>3. \A a \in 1 .. Len(f) : a = Len(e) + 1 \/ a \in 1 .. Len(e)
  BY <1>1, <1>2
<1>4. \A a \in 1 .. Len(f) : f[a] \in J \union {m}
  BY <1>2, <1>3 DEF Lists
<1>5. Len(e) + 1 \in 1 .. Len(f) /\ \A a \in 1 .. Len(e) : a \in 1 .. Len(f)
  BY <1>1, <1>2
<1>6. ASSUME NEW i \in J \union {m} PROVE \E a \in 1 .. Len(f) : f[a] = i
  <2>1. CASE i = m
    BY <1>2, <1>5, <2>1
  <2>2. CASE i \in J
    <3>1. PICK a \in 1 .. Len(e) : e[a] = i
      BY <2>2 DEF Lists
    <3> QED
      BY <1>2, <1>5, <3>1
  <2> QED
    BY <2>1, <2>2
<1>7. ASSUME NEW a \in 1 .. Len(f), NEW b \in 1 .. Len(f), a < b PROVE f[a] < f[b]
  <2>1. a \in 1 .. Len(e)
    BY <1>1, <1>2, <1>7
  <2>2. CASE b = Len(e) + 1
    BY <1>2, <2>1, <2>2 DEF Lists
  <2>3. CASE b \in 1 .. Len(e)
    BY <1>2, <1>7, <2>1, <2>3 DEF Lists
  <2> QED
    BY <1>3, <2>2, <2>3
<1>8. Lists(f, J \union {m})
  BY <1>2, <1>4, <1>6, <1>7 DEF Lists
<1> QED
  BY <1>8 DEF f

LEMMA ListExists ==
  ASSUME NEW n \in Nat, NEW I \in SUBSET (1 .. n)
  PROVE  Listed(I)
<1> DEFINE T == {m \in 0 .. n : ~Listed(Upto(I, m))}
<1>1. SUFFICES ASSUME T # {} PROVE FALSE
  BY UptoIs
<1>2. T \in SUBSET Nat /\ \A m \in 0 .. n : m \in T <=> ~Listed(Upto(I, m))
  OBVIOUS
<1> HIDE DEF T
<1>3. PICK m \in T : \A k \in T : m <= k
  BY <1>1, <1>2, LeastNumber
<1>4. m \in 0 .. n
  <2> USE DEF T
  <2> QED
    OBVIOUS
<1>5. CASE m = 0
  <2>1. Lists(<<>>, {})
    <3>1. <<>> \in Seq(Nat) /\ Len(<<>>) = 0
      OBVIOUS
    <3> QED
      BY <3>1 DEF Lists
  <2>2. Listed({})
    BY <2>1 DEF Listed
  <2>3. Upto(I, 0) = {}
    BY UptoIs
  <2> QED
    BY <1>2, <1>3, <1>4, <1>5, <2>2, <2>3
<1>6. CASE m # 0
  <2>1. m \in 1 .. n /\ m - 1 \in 0 .. n /\ m - 1 \notin T
    BY <1>3, <1>4, <1>6
  <2>2. PICK e : Lists(e, Upto(I, m - 1))
    BY <1>2, <2>1 DEF Listed
  <2>3. /\ Upto(I, m) = Upto(I, m - 1) \union (IF m \in I THEN {m} ELSE {})
        /\ \A i \in Upto(I, m - 1) : i < m
    BY <2>1, UptoIs
  <2>4. Upto(I, m - 1) \in SUBSET Nat
    <3>1. ASSUME NEW i \in Upto(I, m - 1) PROVE i \in Nat
      <4>1. i \in I /\ I \in SUBSET (1 .. n)
        BY DEF Upto
      <4> QED
        BY <4>1
    <3> QED
      BY <3>1
  <2>5. m \in I => Lists(Append(e, m), Upto(I, m))
    BY <2>1, <2>2, <2>3, <2>4, ListExtends
  <2>6. m \notin I => Lists(e, Upto(I, m))
    BY <2>2, <2>3
  <2> QED
    BY <1>2, <1>4, <2>5, <2>6 DEF Listed
<1> QED
  BY <1>5, <1>6

LEMMA ListedBefore ==
  ASSUME NEW I, NEW e, Lists(e, I), NEW m \in 0 .. Len(e)
  PROVE  /\ Cardinality({e[a] : a \in 1 .. m}) = m
         /\ IsFiniteSet({e[a] : a \in 1 .. m})
<1> DEFINE T == {e[a] : a \in 1 .. m}
           f == [a \in 1 .. m |-> e[a]]
<1>1. Len(e) \in Nat /\ m \in Nat /\ \A a \in 1 .. m : a \in 1 .. Len(e) /\ e[a] \in Nat
  BY DEF Lists
<1>2. IsFiniteSet(1 .. m) /\ Cardinality(1 .. m) = m
  BY <1>1, FS_Interval
<1>3. f \in Bijection(1 .. m, T)
  <2>1. \A a, b \in 1 .. m : e[a] = e[b] => a = b
    BY <1>1 DEF Lists
  <2>2. f \in [1 .. m -> T] /\ \A t \in T : \E a \in 1 .. m : f[a] = t
    OBVIOUS
  <2> QED
    BY <2>1, <2>2 DEF Bijection, Injection, Surjection, IsInjective
<1>4. ExistsBijection(1 .. m, T)
  BY <1>3 DEF ExistsBijection
<1> HIDE DEF T
<1>5. IsFiniteSet(T) /\ Cardinality(T) = m
  BY <1>2, <1>4, FS_Bijection
<1> QED
  BY <1>5 DEF T

\* A selection has the elements of the places, in the order of the places.
LEMMA SelectedIs ==
  ASSUME NEW s, NEW I, NEW e, Lists(e, I)
  PROVE  Selected(s, I) = [a \in 1 .. Len(e) |-> s[e[a]]]
<1>1. Len(e) \in Nat /\ \A a \in 1 .. Len(e) : e[a] \in Nat /\ e[a] \in I
  BY DEF Lists
<1>2. Cardinality(I) = Len(e)
  <2>1. I = {e[a] : a \in 1 .. Len(e)}
    BY DEF Lists
  <2> QED
    BY <1>1, <2>1, ListedBefore
<1>3. ASSUME NEW a \in 1 .. Len(e)
      PROVE  Cardinality({j \in I : j < e[a]}) = a - 1
  <2>1. {j \in I : j < e[a]} = {e[b] : b \in 1 .. a - 1}
    <3>1. ASSUME NEW j \in I, j < e[a] PROVE \E b \in 1 .. a - 1 : j = e[b]
      <4>1. PICK b \in 1 .. Len(e) : e[b] = j
        BY DEF Lists
      <4>2. b < a
        BY <1>1, <3>1, <4>1 DEF Lists
      <4> QED
        BY <1>1, <4>1, <4>2
    <3>2. ASSUME NEW b \in 1 .. a - 1 PROVE e[b] \in I /\ e[b] < e[a]
      <4>1. b \in 1 .. Len(e) /\ b < a
        BY <1>1
      <4> QED
        BY <4>1 DEF Lists
    <3> QED
      BY <3>1, <3>2
  <2>2. a - 1 \in 0 .. Len(e)
    BY <1>1
  <2> QED
    BY <2>1, <2>2, ListedBefore
<1>4. ASSUME NEW a \in 1 .. Len(e) PROVE Place(I, a) = e[a]
  <2>1. e[a] \in I /\ Cardinality({j \in I : j < e[a]}) = a - 1
    BY <1>1, <1>3
  <2>2. ASSUME NEW i \in I, Cardinality({j \in I : j < i}) = a - 1 PROVE i = e[a]
    <3>1. PICK b \in 1 .. Len(e) : e[b] = i
      BY DEF Lists
    <3>2. b - 1 = a - 1
      BY <1>3, <2>2, <3>1
    <3> QED
      BY <1>1, <3>1, <3>2
  <2> QED
    BY <2>1, <2>2 DEF Place
<1> QED
  BY <1>2, <1>4 DEF Selected

----------------------------------------------------------------------------
(* The terminal.                                                            *)

\* The chunks n + 1 to m of a terminal: chunk i is the part i - 1 that its shell printed.
ChunksOf(n, m) == [i \in 1 .. m - n |-> [cursor |-> n + i, part |-> n + i - 1]]

Shells == [alive : BOOLEAN, held : BOOLEAN, reader : BOOLEAN, printed : Nat, pipe : Seq(Nat)]

Views == [status : {"none", "running", "terminated"}, cursor : Nat,
          output : Seq([cursor : Nat, part : Nat])]

\* What is read and what is in the pipe goes on where the chunks end, and nothing comes after
\* the end; a shell whose reader has ended prints no more.
PrintsInOrder ==
  /\ shell \in Shells /\ unread \in Seq(Nat)
  /\ \E n \in Nat : chunks = ChunksOf(0, n) /\ n <= shell.printed + 1
  /\ \A i \in 1 .. Len(unread) :
       \/ unread[i] = Ended /\ i = Len(unread) /\ ~shell.reader
       \/ unread[i] # Ended /\ unread[i] = Len(chunks) - 1 + i /\ unread[i] <= shell.printed
  /\ shell.reader =>
       /\ Len(chunks) >= 1
       /\ shell.printed = Len(chunks) + Len(unread) + Len(shell.pipe) - 1
       /\ \A i \in 1 .. Len(shell.pipe) : shell.pipe[i] = Len(chunks) + Len(unread) - 1 + i
  /\ ~shell.reader => ~shell.alive /\ shell.pipe = <<>>

\* An answer has the chunks between the cursor it was asked with and its own.
AnswersInOrder ==
  /\ view \in Views /\ view.cursor <= Len(chunks)
  /\ view.output = ChunksOf(0, view.cursor)
  /\ \A poll \in polls :
       /\ poll.from \in Nat /\ poll.cursor \in Nat
       /\ poll.from <= poll.cursor /\ poll.cursor <= Len(chunks)
       /\ poll.status \in {"running", "terminated"}
       /\ poll.output = ChunksOf(poll.from, poll.cursor)

TerminalInv == PrintsInOrder /\ AnswersInOrder

LEMMA FunctionIsSeq ==
  ASSUME NEW S, NEW k \in Nat, NEW f \in [1 .. k -> S]
  PROVE  f \in Seq(S) /\ Len(f) = k
OBVIOUS

LEMMA AppendIs ==
  ASSUME NEW S, NEW s \in Seq(S), NEW z \in S
  PROVE  /\ Append(s, z) \in Seq(S) /\ Len(Append(s, z)) = Len(s) + 1
         /\ Append(s, z)[Len(s) + 1] = z
         /\ \A i \in 1 .. Len(s) : Append(s, z)[i] = s[i]
OBVIOUS

LEMMA TailIs ==
  ASSUME NEW S, NEW s \in Seq(S), s # <<>>
  PROVE  /\ Len(s) \in Nat /\ Len(s) >= 1 /\ Head(s) = s[1]
         /\ Tail(s) \in Seq(S) /\ Len(Tail(s)) = Len(s) - 1
         /\ \A i \in 1 .. Len(s) - 1 : Tail(s)[i] = s[i + 1]
OBVIOUS

LEMMA ChunksAre ==
  ASSUME NEW n \in Nat, NEW m \in Nat, n <= m
  PROVE  /\ ChunksOf(n, m) \in Seq([cursor : Nat, part : Nat]) /\ Len(ChunksOf(n, m)) = m - n
         /\ \A i \in 1 .. m - n : ChunksOf(n, m)[i] = [cursor |-> n + i, part |-> n + i - 1]
         /\ n = m => ChunksOf(n, m) = <<>>
<1>1. PICK k \in Nat : k = m - n
  OBVIOUS
<1>2. ASSUME NEW i \in 1 .. k PROVE [cursor |-> n + i, part |-> n + i - 1] \in [cursor : Nat, part : Nat]
  <2>1. n + i \in Nat /\ n + i - 1 \in Nat
    OBVIOUS
  <2> QED
    BY <2>1
<1>3. ChunksOf(n, m) \in [1 .. k -> [cursor : Nat, part : Nat]]
  BY <1>1, <1>2 DEF ChunksOf
<1>4. ChunksOf(n, m) \in Seq([cursor : Nat, part : Nat]) /\ Len(ChunksOf(n, m)) = k
  BY <1>3, FunctionIsSeq
<1>5. n = m => ChunksOf(n, m) = <<>>
  BY <1>1, <1>4
<1> QED
  BY <1>1, <1>4, <1>5 DEF ChunksOf

LEMMA ChunksGoOn ==
  ASSUME NEW n \in Nat, NEW m \in Nat, n <= m,
         NEW line, line = ChunksOf(0, n) \o ChunksOf(n, m)
  PROVE  line = ChunksOf(0, m)
<1> DEFINE C == [cursor : Nat, part : Nat]
<1>1. PICK k \in Nat : k = m - n /\ m = n + k
  OBVIOUS
<1>2. /\ ChunksOf(0, n) \in Seq(C) /\ Len(ChunksOf(0, n)) = n
      /\ \A i \in 1 .. n : ChunksOf(0, n)[i] = [cursor |-> i, part |-> i - 1]
  <2>1. 0 \in Nat /\ 0 <= n /\ n - 0 = n /\ \A i \in 1 .. n : 0 + i = i
    OBVIOUS
  <2>2. /\ ChunksOf(0, n) \in Seq(C) /\ Len(ChunksOf(0, n)) = n - 0
        /\ \A i \in 1 .. n - 0 : ChunksOf(0, n)[i] = [cursor |-> 0 + i, part |-> 0 + i - 1]
    BY ONLY <2>1, n \in Nat, ChunksAre
  <2> QED
    BY <2>1, <2>2
<1>3. /\ ChunksOf(n, m) \in Seq(C) /\ Len(ChunksOf(n, m)) = k
      /\ \A i \in 1 .. k : ChunksOf(n, m)[i] = [cursor |-> n + i, part |-> n + i - 1]
  BY <1>1, ChunksAre
<1> HIDE DEF C
<1>4. /\ line \in Seq(C) /\ Len(line) = n + k
      /\ \A i \in 1 .. n : line[i] = ChunksOf(0, n)[i]
      /\ \A i \in 1 .. k : line[n + i] = ChunksOf(n, m)[i]
  <2> PICK s, t : s = ChunksOf(0, n) /\ t = ChunksOf(n, m)
    OBVIOUS
  <2>1. s \in Seq(C) /\ t \in Seq(C) /\ Len(s) = n /\ Len(t) = k
    BY <1>2, <1>3
  <2>2. /\ s \o t \in Seq(C) /\ Len(s \o t) = Len(s) + Len(t)
        /\ \A i \in 1 .. Len(s) : (s \o t)[i] = s[i]
        /\ \A i \in 1 .. Len(t) : (s \o t)[Len(s) + i] = t[i]
    <3>1. \A S : s \in Seq(S) /\ t \in Seq(S) =>
            /\ s \o t \in Seq(S) /\ Len(s \o t) = Len(s) + Len(t)
            /\ \A i \in 1 .. Len(s) : (s \o t)[i] = s[i]
            /\ \A i \in 1 .. Len(t) : (s \o t)[Len(s) + i] = t[i]
      <4>1. ASSUME NEW S, s \in Seq(S), t \in Seq(S)
            PROVE  /\ s \o t \in Seq(S) /\ Len(s \o t) = Len(s) + Len(t)
                   /\ \A i \in 1 .. Len(s) : (s \o t)[i] = s[i]
                   /\ \A i \in 1 .. Len(t) : (s \o t)[Len(s) + i] = t[i]
        BY ONLY <4>1, SMTT(30)
      <4> QED
        BY ONLY <4>1
    <3> QED
      BY ONLY <2>1, <3>1
  <2> QED
    BY <2>1, <2>2
<1>5. ASSUME NEW i \in 1 .. m PROVE line[i] = [cursor |-> i, part |-> i - 1]
  <2>1. CASE i \in 1 .. n
    BY <1>2, <1>4, <2>1
  <2>2. CASE i \notin 1 .. n
    <3>1. PICK j \in 1 .. k : n + j = i
      <4>1. i - n \in 1 .. k /\ n + (i - n) = i
        BY <1>1, <2>2
      <4> QED
        BY <4>1
    <3>2. line[n + j] = ChunksOf(n, m)[j]
      BY ONLY <1>4, j \in 1 .. k
    <3>3. ChunksOf(n, m)[j] = [cursor |-> n + j, part |-> n + j - 1]
      BY ONLY <1>3, j \in 1 .. k
    <3>4. line[n + j] = [cursor |-> n + j, part |-> n + j - 1]
      BY ONLY <3>2, <3>3
    <3> QED
      BY ONLY <3>1, <3>4
  <2> QED
    BY <2>1, <2>2
<1>6. line = [i \in 1 .. m |-> line[i]]
  BY <1>1, <1>4
<1>7. m - 0 = m /\ \A i \in 1 .. m : 0 + i = i
  OBVIOUS
<1> QED
  BY <1>5, <1>6, <1>7 DEF ChunksOf

LEMMA ChunksGiven ==
  ASSUME PrintsInOrder
  PROVE  /\ Len(chunks) \in Nat /\ Len(unread) \in Nat /\ shell.printed \in Nat
         /\ Len(chunks) <= shell.printed + 1
         /\ chunks = ChunksOf(0, Len(chunks))
<1>1. PICK n \in Nat : chunks = ChunksOf(0, n) /\ n <= shell.printed + 1
  BY DEF PrintsInOrder
<1>2. 0 \in Nat /\ 0 <= n /\ n - 0 = n
  OBVIOUS
<1>3. Len(ChunksOf(0, n)) = n - 0
  BY ONLY <1>2, n \in Nat, ChunksAre
<1>4. Len(chunks) = n
  BY <1>1, <1>2, <1>3
<1>5. Len(unread) \in Nat /\ shell.printed \in Nat
  BY DEF PrintsInOrder, Shells
<1> QED
  BY <1>1, <1>4, <1>5

\* The part that a poll takes from the queue is the one up to the end, which is all of it
\* while the shell is read.
LEMMA PartsReadIs ==
  ASSUME PrintsInOrder
  PROVE  /\ PartsRead \in 0 .. Len(unread)
         /\ \A i \in 1 .. PartsRead : unread[i] = Len(chunks) - 1 + i /\ unread[i] <= shell.printed
         /\ shell.reader => PartsRead = Len(unread)
<1> DEFINE Stops(n) == /\ \A i \in 1 .. n : unread[i] # Ended
                       /\ n < Len(unread) => unread[n + 1] = Ended
<1>1. Len(unread) \in Nat
  BY ChunksGiven
<1>2. \A i \in 1 .. Len(unread) :
        \/ unread[i] = Ended /\ i = Len(unread) /\ ~shell.reader
        \/ unread[i] # Ended /\ unread[i] = Len(chunks) - 1 + i /\ unread[i] <= shell.printed
  BY DEF PrintsInOrder
<1>3. \E n \in 0 .. Len(unread) : Stops(n)
  <2>1. CASE Len(unread) > 0 /\ unread[Len(unread)] = Ended
    <3>1. Len(unread) - 1 \in 0 .. Len(unread) /\ Len(unread) - 1 + 1 = Len(unread)
      BY <1>1, <2>1
    <3>2. ASSUME NEW i \in 1 .. Len(unread) - 1 PROVE unread[i] # Ended
      <4>1. i \in 1 .. Len(unread) /\ i # Len(unread)
        BY <1>1
      <4> QED
        BY <1>2, <4>1
    <3>3. Stops(Len(unread) - 1)
      BY <2>1, <3>1, <3>2
    <3> QED
      BY <3>1, <3>3
  <2>2. CASE ~(Len(unread) > 0 /\ unread[Len(unread)] = Ended)
    <3>1. Len(unread) \in 0 .. Len(unread)
      BY <1>1
    <3>2. ASSUME NEW i \in 1 .. Len(unread) PROVE unread[i] # Ended
      BY <1>1, <1>2, <2>2
    <3>3. Stops(Len(unread))
      BY <1>1, <3>2
    <3> QED
      BY <3>1, <3>3
  <2> QED
    BY <2>1, <2>2
<1>4. PartsRead \in 0 .. Len(unread) /\ Stops(PartsRead)
  <2>1. PartsRead = CHOOSE n \in 0 .. Len(unread) : Stops(n)
    BY DEF PartsRead
  <2> HIDE DEF Stops
  <2> QED
    BY <1>3, <2>1
<1>5. \A i \in 1 .. PartsRead : i \in 1 .. Len(unread)
  BY <1>1, <1>4
<1>6. ASSUME shell.reader PROVE PartsRead = Len(unread)
  <2>1. ASSUME PartsRead < Len(unread) PROVE FALSE
    <3>1. PartsRead + 1 \in 1 .. Len(unread)
      BY <1>1, <1>4, <2>1
    <3> QED
      BY <1>2, <1>4, <1>6, <2>1, <3>1
  <2> QED
    BY <1>1, <1>4, <2>1
<1> QED
  BY <1>2, <1>4, <1>5, <1>6

\* What was read becomes the next chunks.
LEMMA DrainedIs ==
  ASSUME PrintsInOrder
  PROVE  \E m \in Nat : /\ Drained = ChunksOf(0, m)
                        /\ Len(chunks) <= m /\ m <= shell.printed + 1
                        /\ shell.reader => m = Len(chunks) + Len(unread)
<1>1. PICK c \in Nat, r \in Nat : c = Len(chunks) /\ r = PartsRead
  BY ChunksGiven, PartsReadIs
<1>2. /\ r <= Len(unread) /\ (shell.reader => r = Len(unread))
      /\ \A i \in 1 .. r : unread[i] = c + i - 1 /\ unread[i] <= shell.printed
  <2>1. PartsRead \in 0 .. Len(unread)
    BY PartsReadIs
  <2>2. \A i \in 1 .. PartsRead : unread[i] = Len(chunks) - 1 + i /\ unread[i] <= shell.printed
    BY PartsReadIs
  <2>3. shell.reader => PartsRead = Len(unread)
    BY PartsReadIs
  <2>4. \A i \in 1 .. r : c - 1 + i = c + i - 1
    BY <1>1
  <2> QED
    BY <1>1, <2>1, <2>2, <2>3, <2>4, ChunksGiven
<1>3. Drained = ChunksOf(0, c) \o ChunksOf(c, c + r)
  <2>1. (c + r) - c = r
    OBVIOUS
  <2>2. [i \in 1 .. r |-> [cursor |-> c + i, part |-> unread[i]]] = ChunksOf(c, c + r)
    BY <1>2, <2>1 DEF ChunksOf
  <2>3. Drained = chunks \o [i \in 1 .. r |-> [cursor |-> c + i, part |-> unread[i]]]
    BY <1>1 DEF Drained
  <2> QED
    BY <1>1, <2>2, <2>3, ChunksGiven
<1>4. Drained = ChunksOf(0, c + r)
  <2>1. c + r \in Nat /\ c <= c + r
    OBVIOUS
  <2> QED
    BY ONLY <1>3, <2>1, c \in Nat, ChunksGoOn
<1>5. c + r <= shell.printed + 1
  <2>1. CASE r = 0
    BY <1>1, <2>1, ChunksGiven
  <2>2. CASE r # 0
    <3>1. r \in 1 .. r
      BY <2>2
    <3> QED
      BY <1>2, <3>1, ChunksGiven
  <2> QED
    BY <2>1, <2>2
<1>6. c + r \in Nat /\ c <= c + r /\ (shell.reader => c + r = Len(chunks) + Len(unread))
  BY <1>1, <1>2
<1> QED
  BY <1>1, <1>4, <1>5, <1>6

\* The chunks that are due after cursor c.
LEMMA DueIs ==
  ASSUME NEW c \in Nat, NEW m \in Nat, c <= m, NEW line, line = ChunksOf(0, m)
  PROVE  /\ Len(line) = m
         /\ Selected(line, {i \in 1 .. Len(line) : Due(line[i], c)}) = ChunksOf(c, m)
<1>1. PICK k \in Nat : k = m - c /\ m = c + k
  OBVIOUS
<1>2. Len(line) = m /\ \A i \in 1 .. m : line[i] = [cursor |-> i, part |-> i - 1]
  <2>1. 0 \in Nat /\ 0 <= m /\ m - 0 = m /\ \A i \in 1 .. m : 0 + i = i
    OBVIOUS
  <2>2. /\ Len(ChunksOf(0, m)) = m - 0
        /\ \A i \in 1 .. m - 0 : ChunksOf(0, m)[i] = [cursor |-> 0 + i, part |-> 0 + i - 1]
    BY ONLY <2>1, m \in Nat, ChunksAre
  <2> QED
    BY <2>1, <2>2
<1>3. PICK I : I = {i \in 1 .. Len(line) : Due(line[i], c)}
  OBVIOUS
<1>4. \A i : i \in I <=> i \in 1 .. m /\ i > c
  <2>1. \A i : i \in I <=> i \in 1 .. m /\ Due(line[i], c)
    <3>1. Len(line) = m
      BY <1>2
    <3>2. I = {i \in 1 .. m : Due(line[i], c)}
      BY ONLY <1>3, <3>1
    <3> QED
      BY ONLY <3>2, Zenon
  <2>2. ASSUME NEW i \in 1 .. m PROVE Due(line[i], c) <=> i > c
    <3>1. line[i] = [cursor |-> i, part |-> i - 1]
      BY ONLY <1>2, i \in 1 .. m
    <3>2. line[i].cursor = i
      BY ONLY <3>1
    <3> QED
      BY ONLY <3>2, i \in 1 .. m, m \in Nat, c \in Nat DEF Due
  <2> QED
    BY <2>1, <2>2
<1>5. PICK e : e = [a \in 1 .. k |-> c + a]
  OBVIOUS
<1>6. e \in Seq(Nat) /\ Len(e) = k /\ \A a \in 1 .. k : e[a] = c + a
  <2>1. e \in [1 .. k -> Nat]
    BY <1>5
  <2> QED
    BY <1>5, <2>1, FunctionIsSeq
<1>7. Lists(e, I)
  <2>1. ASSUME NEW a \in 1 .. k PROVE c + a \in I
    BY <1>1, <1>4
  <2>2. ASSUME NEW i \in I PROVE \E a \in 1 .. k : e[a] = i
    <3>1. i - c \in 1 .. k /\ c + (i - c) = i
      BY <1>1, <1>4, <2>2
    <3> QED
      BY <1>6, <3>1
  <2>3. ASSUME NEW a \in 1 .. k, NEW b \in 1 .. k, a < b PROVE e[a] < e[b]
    BY <1>6, <2>3
  <2> QED
    BY <1>6, <2>1, <2>2, <2>3 DEF Lists
<1>8. Selected(line, I) = [a \in 1 .. k |-> line[e[a]]]
  <2>1. Selected(line, I) = [a \in 1 .. Len(e) |-> line[e[a]]]
    BY ONLY <1>7, SelectedIs
  <2> QED
    BY <1>6, <2>1
<1>9. ASSUME NEW a \in 1 .. k PROVE line[e[a]] = [cursor |-> c + a, part |-> c + a - 1]
  <2>1. c + a \in 1 .. m
    BY <1>1
  <2> QED
    BY <1>2, <1>6, <2>1
<1> QED
  BY <1>1, <1>2, <1>3, <1>8, <1>9 DEF ChunksOf

LEMMA AnswersKept ==
  ASSUME TerminalInv, Len(chunks') \in Nat, Len(chunks) <= Len(chunks'),
         view' = view, polls' \subseteq polls
  PROVE  AnswersInOrder'
<1>1. AnswersInOrder /\ Len(chunks) \in Nat /\ view.cursor \in Nat
  BY ChunksGiven DEF TerminalInv, AnswersInOrder, Views
<1>2. view'.cursor <= Len(chunks')
  BY <1>1 DEF AnswersInOrder
<1>3. ASSUME NEW poll \in polls' PROVE poll.cursor <= Len(chunks') /\ poll \in polls
  BY <1>1 DEF AnswersInOrder
<1> QED
  BY <1>1, <1>2, <1>3 DEF AnswersInOrder

LEMMA PrintsUnchanged ==
  ASSUME PrintsInOrder, shell' = shell, unread' = unread, chunks' = chunks
  PROVE  PrintsInOrder'
BY DEF PrintsInOrder

LEMMA ForgottenKeeps ==
  ASSUME TerminalInv, TerminalForgotten
  PROVE  TerminalInv'
<1>1. /\ shell' = [shell EXCEPT !.held = FALSE] /\ shell \in Shells
      /\ UNCHANGED <<unread, chunks, polls, view, opened>>
  BY DEF TerminalForgotten, TerminalInv, PrintsInOrder
<1>2. /\ shell' \in Shells /\ shell'.alive = shell.alive /\ shell'.reader = shell.reader
      /\ shell'.printed = shell.printed /\ shell'.pipe = shell.pipe
  BY <1>1 DEF Shells
<1>3. PrintsInOrder'
  BY <1>1, <1>2 DEF TerminalInv, PrintsInOrder
<1> QED
  BY <1>1, <1>3, AnswersKept, ChunksGiven DEF TerminalInv

LEMMA TerminalUnchanged ==
  ASSUME TerminalInv, UNCHANGED terminalVars
  PROVE  TerminalInv'
BY DEF TerminalInv, PrintsInOrder, AnswersInOrder, terminalVars

LEMMA FirstChunks ==
  ChunksOf(0, 0) = <<>> /\ ChunksOf(0, 1) = <<Started>>
<1>1. 0 \in Nat /\ 1 \in Nat /\ 0 <= 0 /\ 0 <= 1 /\ 1 - 0 = 1 /\ 0 + 1 = 1 /\ 1 - 1 = 0
  OBVIOUS
<1>2. ChunksOf(0, 0) = <<>>
  BY ONLY <1>1, ChunksAre
<1>3. /\ ChunksOf(0, 1) \in Seq([cursor : Nat, part : Nat]) /\ Len(ChunksOf(0, 1)) = 1 - 0
      /\ \A i \in 1 .. 1 - 0 : ChunksOf(0, 1)[i] = [cursor |-> 0 + i, part |-> 0 + i - 1]
  BY ONLY <1>1, ChunksAre
<1>4. Len(ChunksOf(0, 1)) = 1 /\ ChunksOf(0, 1)[1] = [cursor |-> 1, part |-> 0]
  <2>1. 1 \in 1 .. 1 - 0
    OBVIOUS
  <2> QED
    BY <1>1, <1>3, <2>1
<1> QED
  BY <1>2, <1>3, <1>4 DEF Started

LEMMA TerminalStarts ==
  ASSUME TerminalInit
  PROVE  TerminalInv
<1>1. /\ shell = NoShell /\ unread = <<>> /\ chunks = <<>> /\ polls = {}
      /\ view = [status |-> "none", cursor |-> 0, output |-> <<>>]
  BY DEF TerminalInit
<1>2. NoShell \in Shells /\ ~NoShell.reader /\ ~NoShell.alive /\ NoShell.pipe = <<>>
      /\ NoShell.printed = 0
  <2>1. FALSE \in BOOLEAN /\ 0 \in Nat /\ <<>> \in Seq(Nat)
    OBVIOUS
  <2> QED
    BY <2>1 DEF NoShell, Shells
<1>3. Len(unread) = 0 /\ unread \in Seq(Nat) /\ Len(chunks) = 0
  BY <1>1
<1>4. 0 \in Nat /\ chunks = ChunksOf(0, 0) /\ 0 <= shell.printed + 1
  BY <1>1, <1>2, FirstChunks
<1>5. PrintsInOrder
  BY <1>1, <1>2, <1>3, <1>4 DEF PrintsInOrder
<1>6. view \in Views /\ view.cursor = 0 /\ view.output = <<>>
  BY <1>1 DEF Views
<1> QED
  BY <1>1, <1>3, <1>5, <1>6, FirstChunks DEF TerminalInv, AnswersInOrder

LEMMA OpenKeeps ==
  ASSUME TerminalInv, OpensTerminal
  PROVE  TerminalInv'
<1>1. /\ shell' = [NoShell EXCEPT !.alive = TRUE, !.held = TRUE, !.reader = TRUE]
      /\ unread' = <<>> /\ chunks' = <<Started>> /\ polls' = {}
      /\ view' = [status |-> "running", cursor |-> 0, output |-> <<>>]
  BY DEF OpensTerminal
<1>2. shell' \in Shells /\ shell'.reader /\ shell'.pipe = <<>> /\ shell'.printed = 0
  <2>1. TRUE \in BOOLEAN /\ 0 \in Nat /\ <<>> \in Seq(Nat)
    OBVIOUS
  <2>2. shell' = [alive |-> TRUE, held |-> TRUE, reader |-> TRUE, printed |-> 0, pipe |-> <<>>]
    BY <1>1 DEF NoShell
  <2> QED
    BY <2>1, <2>2 DEF Shells
<1>3. Len(unread') = 0 /\ unread' \in Seq(Nat) /\ Len(chunks') = 1 /\ Len(shell'.pipe) = 0
  BY <1>1, <1>2
<1>4. 1 \in Nat /\ chunks' = ChunksOf(0, 1) /\ 1 <= shell'.printed + 1
  BY <1>1, <1>2, FirstChunks
<1>5. PrintsInOrder'
  BY <1>2, <1>3, <1>4 DEF PrintsInOrder
<1>6. view' \in Views /\ view'.cursor = 0 /\ view'.output = <<>>
  BY <1>1 DEF Views
<1> QED
  BY <1>1, <1>3, <1>5, <1>6, FirstChunks DEF TerminalInv, AnswersInOrder

LEMMA PrintKeeps ==
  ASSUME TerminalInv, ShellPrints
  PROVE  TerminalInv'
<1>1. /\ PrintsInOrder /\ shell \in Shells /\ shell.alive
      /\ shell' = [shell EXCEPT !.printed = @ + 1, !.pipe = Append(@, shell.printed + 1)]
      /\ unread' = unread /\ chunks' = chunks /\ polls' = polls /\ view' = view
  BY DEF TerminalInv, PrintsInOrder, ShellPrints
<1>2. PICK p \in Nat, q \in Seq(Nat) : p = shell.printed /\ q = shell.pipe
  BY <1>1 DEF Shells
<1>3. PICK a \in Seq(Nat) :
        /\ a = Append(q, p + 1) /\ Len(a) = Len(q) + 1
        /\ a[Len(q) + 1] = p + 1 /\ \A i \in 1 .. Len(q) : a[i] = q[i]
  <2>1. PICK z \in Nat : z = p + 1
    BY <1>2
  <2>2. /\ Append(q, z) \in Seq(Nat) /\ Len(Append(q, z)) = Len(q) + 1
        /\ Append(q, z)[Len(q) + 1] = z /\ \A i \in 1 .. Len(q) : Append(q, z)[i] = q[i]
    BY ONLY q \in Seq(Nat), z \in Nat
  <2> QED
    BY <2>1, <2>2
<1>4. /\ shell' \in Shells /\ shell'.alive = shell.alive /\ shell'.reader = shell.reader
      /\ shell'.printed = p + 1 /\ shell'.pipe = a
  <2>1. shell' = [shell EXCEPT !.printed = p + 1, !.pipe = a] /\ p + 1 \in Nat
    BY <1>1, <1>2, <1>3
  <2> QED
    BY <1>1, <2>1 DEF Shells
<1>5. shell.reader /\ Len(chunks) >= 1 /\ p = Len(chunks) + Len(unread) + Len(q) - 1
      /\ \A i \in 1 .. Len(q) : q[i] = Len(chunks) + Len(unread) - 1 + i
  BY <1>1, <1>2 DEF PrintsInOrder
<1>6. Len(chunks) \in Nat /\ Len(unread) \in Nat /\ Len(q) \in Nat
  BY <1>1, <1>2, ChunksGiven
<1>7. /\ p + 1 = Len(chunks) + Len(unread) + Len(a) - 1
      /\ \A i \in 1 .. Len(a) : a[i] = Len(chunks) + Len(unread) - 1 + i
  <2>1. ASSUME NEW i \in 1 .. Len(a), i # Len(q) + 1 PROVE i \in 1 .. Len(q)
    BY <1>3, <1>6, <2>1
  <2> QED
    BY <1>3, <1>5, <1>6, <2>1
<1>8. \A i \in 1 .. Len(unread) :
        \/ unread[i] = Ended /\ i = Len(unread) /\ ~shell.reader
        \/ unread[i] # Ended /\ unread[i] = Len(chunks) - 1 + i /\ unread[i] <= shell.printed
  BY <1>1 DEF PrintsInOrder
<1>9. ASSUME NEW n \in Nat, n <= p PROVE n <= p + 1
  BY <1>2, <1>9
<1>10. ASSUME NEW i \in 1 .. Len(unread)
       PROVE  unread[i] # Ended /\ unread[i] = Len(chunks) - 1 + i /\ unread[i] <= p + 1
  <2>1. /\ unread[i] # Ended /\ unread[i] = Len(chunks) - 1 + i /\ unread[i] <= p
    BY <1>2, <1>5, <1>8
  <2>2. unread[i] \in Nat
    BY <1>1 DEF PrintsInOrder
  <2> QED
    BY <1>9, <2>1, <2>2
<1>11. Len(chunks) \in Nat /\ chunks = ChunksOf(0, Len(chunks)) /\ Len(chunks) <= p + 1 + 1
  <2>1. Len(chunks) <= p + 1 /\ chunks = ChunksOf(0, Len(chunks))
    BY <1>1, <1>2, ChunksGiven
  <2> QED
    BY <1>2, <1>6, <2>1
<1>12. PrintsInOrder'
  BY <1>1, <1>4, <1>5, <1>7, <1>10, <1>11 DEF PrintsInOrder
<1> QED
  BY <1>1, <1>6, <1>12, AnswersKept DEF TerminalInv

LEMMA ExitKeeps ==
  ASSUME TerminalInv, ShellExits
  PROVE  TerminalInv'
<1>1. /\ PrintsInOrder /\ shell \in Shells /\ shell' = [shell EXCEPT !.alive = FALSE]
      /\ unread' = unread /\ chunks' = chunks /\ polls' = polls /\ view' = view
  BY DEF TerminalInv, PrintsInOrder, ShellExits
<1>2. /\ shell' \in Shells /\ shell'.alive = FALSE /\ shell'.reader = shell.reader
      /\ shell'.printed = shell.printed /\ shell'.pipe = shell.pipe
  BY <1>1 DEF Shells
<1>3. PrintsInOrder'
  BY <1>1, <1>2 DEF PrintsInOrder
<1> QED
  BY <1>1, <1>3, AnswersKept, ChunksGiven DEF TerminalInv

LEMMA ReadKeeps ==
  ASSUME TerminalInv, ReaderReads
  PROVE  TerminalInv'
<1>1. /\ PrintsInOrder /\ shell \in Shells /\ unread \in Seq(Nat) /\ shell.pipe \in Seq(Nat)
      /\ chunks' = chunks /\ polls' = polls /\ view' = view
      /\ shell.reader /\ (shell.pipe # <<>> \/ ~shell.alive)
  BY DEF TerminalInv, PrintsInOrder, ReaderReads, Shells
<1>2. PICK c \in Nat, u \in Nat, l \in Nat, p \in Nat :
        /\ c = Len(chunks) /\ u = Len(unread) /\ l = Len(shell.pipe) /\ p = shell.printed
        /\ chunks = ChunksOf(0, c) /\ c <= p + 1
  BY <1>1, ChunksGiven
<1>3. /\ c >= 1 /\ p = c + u + l - 1
      /\ \A i \in 1 .. l : shell.pipe[i] = c + u - 1 + i
  BY <1>1, <1>2 DEF PrintsInOrder
<1>4. \A i \in 1 .. u : unread[i] # Ended /\ unread[i] = c - 1 + i /\ unread[i] <= p
  BY <1>1, <1>2 DEF PrintsInOrder
<1>5. ASSUME NEW z \in Nat
      PROVE  /\ Append(unread, z) \in Seq(Nat) /\ Len(Append(unread, z)) = u + 1
             /\ Append(unread, z)[u + 1] = z
             /\ \A i \in 1 .. u : Append(unread, z)[i] = unread[i]
  <2>1. /\ Append(unread, z) \in Seq(Nat) /\ Len(Append(unread, z)) = Len(unread) + 1
        /\ Append(unread, z)[Len(unread) + 1] = z
        /\ \A i \in 1 .. Len(unread) : Append(unread, z)[i] = unread[i]
    BY ONLY <1>1, <1>5, AppendIs
  <2> QED
    BY <1>2, <2>1
<1>6. CASE shell.pipe # <<>>
  <2>1. l >= 1 /\ 1 \in 1 .. l
    BY <1>1, <1>2, <1>6
  <2>2. PICK z \in Nat : z = Head(shell.pipe) /\ z = c + u
    <3>1. Head(shell.pipe) = shell.pipe[1]
      BY <1>1, <1>6
    <3>2. shell.pipe[1] = c + u - 1 + 1
      BY <1>3, <2>1
    <3> QED
      BY <3>1, <3>2
  <2>3. PICK q \in Seq(Nat) : /\ q = Tail(shell.pipe) /\ Len(q) = l - 1
                              /\ \A i \in 1 .. Len(q) : q[i] = shell.pipe[i + 1]
    <3>1. shell.pipe \in Seq(Nat) /\ shell.pipe # <<>>
      BY <1>1, <1>6
    <3>2. /\ Tail(shell.pipe) \in Seq(Nat) /\ Len(Tail(shell.pipe)) = Len(shell.pipe) - 1
          /\ \A i \in 1 .. Len(shell.pipe) - 1 : Tail(shell.pipe)[i] = shell.pipe[i + 1]
      BY ONLY <3>1, TailIs
    <3> QED
      BY <1>2, <3>2
  <2>4. /\ unread' = Append(unread, z)
        /\ shell' = [shell EXCEPT !.pipe = q]
    BY <1>6, <2>2, <2>3 DEF ReaderReads
  <2>5. /\ shell' \in Shells /\ shell'.alive = shell.alive /\ shell'.reader = shell.reader
        /\ shell'.printed = p /\ shell'.pipe = q
    BY <1>1, <1>2, <2>3, <2>4 DEF Shells
  <2>6. /\ unread' \in Seq(Nat) /\ Len(unread') = u + 1 /\ unread'[u + 1] = z
        /\ \A i \in 1 .. u : unread'[i] = unread[i]
    BY <1>5, <2>4
  <2>7. ASSUME NEW i \in 1 .. Len(unread')
        PROVE  unread'[i] # Ended /\ unread'[i] = c - 1 + i /\ unread'[i] <= p
    <3>1. CASE i \in 1 .. u
      BY <1>4, <2>6, <3>1
    <3>2. CASE i \notin 1 .. u
      <4>1. i = u + 1
        BY <1>2, <2>6, <3>2
      <4>2. c + u # 0 /\ c + u = c - 1 + (u + 1) /\ c + u <= p
        BY <1>3, <2>1
      <4> QED
        BY <2>2, <2>6, <4>1, <4>2 DEF Ended
    <3> QED
      BY <3>1, <3>2
  <2>8. /\ p = c + (u + 1) + Len(q) - 1
        /\ \A i \in 1 .. Len(q) : q[i] = c + (u + 1) - 1 + i
    <3>1. ASSUME NEW i \in 1 .. Len(q) PROVE q[i] = c + (u + 1) - 1 + i
      <4>1. i + 1 \in 1 .. l
        BY <2>1, <2>3
      <4>2. q[i] = shell.pipe[i + 1] /\ shell.pipe[i + 1] = c + u - 1 + (i + 1)
        BY ONLY <1>3, <2>3, <4>1, i \in 1 .. Len(q)
      <4>3. c + u - 1 + (i + 1) = c + (u + 1) - 1 + i
        OBVIOUS
      <4> QED
        BY ONLY <4>2, <4>3
    <3>2. p = c + (u + 1) + Len(q) - 1
      <4>1. p = c + u + l - 1 /\ Len(q) = l - 1
        BY ONLY <1>3, <2>3
      <4> QED
        BY ONLY <4>1, c \in Nat, u \in Nat, l \in Nat
    <3> QED
      BY <3>1, <3>2
  <2>9. Len(chunks') = c /\ c \in Nat /\ chunks' = ChunksOf(0, c)
    BY <1>1, <1>2
  <2> QED
    <3>1. shell'.reader /\ shell'.printed = p /\ c <= p + 1
      BY <1>1, <1>2, <2>5
    <3>2. PrintsInOrder'
      <4>1. \E n \in Nat : chunks' = ChunksOf(0, n) /\ n <= shell'.printed + 1
        BY <2>9, <3>1
      <4>2. \A i \in 1 .. Len(unread') :
              unread'[i] # Ended /\ unread'[i] = Len(chunks') - 1 + i /\ unread'[i] <= shell'.printed
        BY <2>7, <2>9, <3>1
      <4>3. /\ Len(chunks') >= 1
            /\ shell'.printed = Len(chunks') + Len(unread') + Len(shell'.pipe) - 1
            /\ \A i \in 1 .. Len(shell'.pipe) : shell'.pipe[i] = Len(chunks') + Len(unread') - 1 + i
        BY <1>3, <2>5, <2>6, <2>8, <2>9
      <4>4. shell' \in Shells /\ unread' \in Seq(Nat)
        BY <2>5, <2>6
      <4> QED
        BY ONLY <3>1, <4>1, <4>2, <4>3, <4>4 DEF PrintsInOrder
    <3>3. Len(chunks') \in Nat /\ Len(chunks) <= Len(chunks')
      <4>1. Len(chunks') = c /\ Len(chunks) = c
        BY ONLY <1>2, <2>9
      <4> QED
        BY ONLY <4>1, c \in Nat
    <3> QED
      BY <1>1, <3>2, <3>3, AnswersKept DEF TerminalInv
<1>7. CASE shell.pipe = <<>>
  <2>1. /\ unread' = Append(unread, Ended) /\ shell' = [shell EXCEPT !.reader = FALSE]
        /\ ~shell.alive /\ l = 0
    BY <1>1, <1>2, <1>7 DEF ReaderReads
  <2>2. /\ shell' \in Shells /\ ~shell'.alive /\ ~shell'.reader
        /\ shell'.printed = p /\ shell'.pipe = <<>>
    BY <1>1, <1>2, <1>7, <2>1 DEF Shells
  <2>3. Ended \in Nat
    BY DEF Ended
  <2>4. /\ unread' \in Seq(Nat) /\ Len(unread') = u + 1 /\ unread'[u + 1] = Ended
        /\ \A i \in 1 .. u : unread'[i] = unread[i]
    BY <1>5, <2>1, <2>3
  <2>5. ASSUME NEW i \in 1 .. Len(unread')
        PROVE  \/ unread'[i] = Ended /\ i = Len(unread')
               \/ unread'[i] # Ended /\ unread'[i] = c - 1 + i /\ unread'[i] <= p
    <3>1. CASE i \in 1 .. u
      BY <1>4, <2>4, <3>1
    <3>2. CASE i \notin 1 .. u
      <4>1. i = u + 1
        BY <1>2, <2>4, <3>2
      <4> QED
        BY <2>4, <4>1
    <3> QED
      BY <3>1, <3>2
  <2>6. Len(chunks') = c /\ c \in Nat /\ chunks' = ChunksOf(0, c)
    BY <1>1, <1>2
  <2> QED
    <3>1. shell'.printed = p /\ c <= p + 1
      BY <1>2, <2>2
    <3>2. PrintsInOrder'
      <4>1. \E n \in Nat : chunks' = ChunksOf(0, n) /\ n <= shell'.printed + 1
        BY <2>6, <3>1
      <4>2. \A i \in 1 .. Len(unread') :
              \/ unread'[i] = Ended /\ i = Len(unread') /\ ~shell'.reader
              \/ /\ unread'[i] # Ended
                 /\ unread'[i] = Len(chunks') - 1 + i /\ unread'[i] <= shell'.printed
        BY <2>2, <2>5, <2>6, <3>1
      <4>3. shell' \in Shells /\ unread' \in Seq(Nat)
        BY <2>2, <2>4
      <4> QED
        BY ONLY <2>2, <4>1, <4>2, <4>3 DEF PrintsInOrder
    <3>3. Len(chunks') \in Nat /\ Len(chunks) <= Len(chunks')
      <4>1. Len(chunks') = c /\ Len(chunks) = c
        BY ONLY <1>2, <2>6
      <4> QED
        BY ONLY <4>1, c \in Nat
    <3> QED
      BY <1>1, <3>2, <3>3, AnswersKept DEF TerminalInv
<1> QED
  BY <1>6, <1>7

\* A poll and the end of a terminal number what the reader has read.
LEMMA DrainKeeps ==
  ASSUME TerminalInv, chunks' = Drained, unread' = <<>>,
         shell' \in Shells, shell'.printed = shell.printed,
         \/ shell'.reader = shell.reader /\ shell'.alive = shell.alive /\ shell'.pipe = shell.pipe
         \/ ~shell'.reader /\ ~shell'.alive /\ shell'.pipe = <<>>
  PROVE  /\ PrintsInOrder' /\ Len(chunks') \in Nat /\ Len(chunks) <= Len(chunks')
         /\ chunks' = ChunksOf(0, Len(chunks'))
<1>1. PrintsInOrder
  BY DEF TerminalInv
<1>2. PICK m \in Nat, c \in Nat, u \in Nat, p \in Nat :
        /\ c = Len(chunks) /\ u = Len(unread) /\ p = shell.printed
        /\ chunks' = ChunksOf(0, m) /\ c <= m /\ m <= p + 1
        /\ shell.reader => m = c + u
  BY <1>1, DrainedIs, ChunksGiven
<1>3. Len(chunks') = m
  <2>1. 0 \in Nat /\ 0 <= m /\ m - 0 = m
    OBVIOUS
  <2>2. Len(ChunksOf(0, m)) = m - 0
    BY ONLY <2>1, m \in Nat, ChunksAre
  <2>3. chunks' = ChunksOf(0, m)
    BY <1>2
  <2> QED
    BY ONLY <2>1, <2>2, <2>3
<1>4. unread' \in Seq(Nat) /\ Len(unread') = 0
  OBVIOUS
<1>5. \E n \in Nat : chunks' = ChunksOf(0, n) /\ n <= shell'.printed + 1
  BY <1>2
<1>6. ASSUME shell'.reader
      PROVE  /\ Len(chunks') >= 1
             /\ shell'.printed = Len(chunks') + Len(unread') + Len(shell'.pipe) - 1
             /\ \A i \in 1 .. Len(shell'.pipe) : shell'.pipe[i] = Len(chunks') + Len(unread') - 1 + i
  <2>1. shell.reader /\ shell'.pipe = shell.pipe
    BY <1>6
  <2>2. PICK l \in Nat, q \in Seq(Nat) : q = shell.pipe /\ l = Len(q)
    BY <1>1 DEF PrintsInOrder, Shells
  <2>3. c >= 1 /\ p = c + u + l - 1 /\ \A i \in 1 .. l : q[i] = c + u - 1 + i
    BY <1>1, <1>2, <2>1, <2>2 DEF PrintsInOrder
  <2>4. m = c + u
    BY <1>2, <2>1
  <2>5. m >= 1 /\ p = m + 0 + l - 1
    BY ONLY <2>3, <2>4, c \in Nat, u \in Nat, l \in Nat
  <2>6. ASSUME NEW i \in 1 .. l PROVE q[i] = m + 0 - 1 + i
    <3>1. q[i] = c + u - 1 + i
      BY ONLY <2>3, <2>6
    <3> QED
      BY ONLY <3>1, <2>4, <2>6, c \in Nat, u \in Nat
  <2>7. shell'.pipe = q /\ shell'.printed = p
    BY <1>2, <2>1, <2>2
  <2> QED
    BY ONLY <1>3, <1>4, <2>2, <2>5, <2>6, <2>7
<1>7. ~shell'.reader => ~shell'.alive /\ shell'.pipe = <<>>
  BY <1>1 DEF PrintsInOrder
<1>8. \A i \in 1 .. Len(unread') : FALSE
  BY <1>4
<1>9. PrintsInOrder'
  BY ONLY <1>4, <1>5, <1>6, <1>7, <1>8, shell' \in Shells DEF PrintsInOrder
<1> QED
  BY <1>2, <1>3, <1>9

LEMMA PollsKeeps ==
  ASSUME TerminalInv, Polls
  PROVE  TerminalInv'
<1>1. /\ shell \in Shells /\ shell' = shell /\ view' = view /\ view \in Views
      /\ chunks' = Drained /\ unread' = <<>>
  BY DEF TerminalInv, PrintsInOrder, AnswersInOrder, Polls
<1>2. /\ PrintsInOrder' /\ Len(chunks') \in Nat /\ Len(chunks) <= Len(chunks')
      /\ chunks' = ChunksOf(0, Len(chunks'))
  BY <1>1, DrainKeeps
<1>3. PICK m \in Nat, from \in Nat :
        m = Len(chunks') /\ from = view.cursor /\ from <= m /\ chunks' = ChunksOf(0, m)
  <2>1. view.cursor \in Nat /\ view.cursor <= Len(chunks) /\ Len(chunks) \in Nat
    BY <1>1, ChunksGiven DEF TerminalInv, AnswersInOrder, Views
  <2>2. view.cursor <= Len(chunks')
    BY <1>2, <2>1
  <2> QED
    BY <1>2, <2>1, <2>2
<1> PICK line : line = chunks'
  OBVIOUS
<1>4. PICK status \in {"running", IF shell.alive THEN "running" ELSE "terminated"} :
        polls' = polls \union
          {[from |-> view.cursor, cursor |-> Len(chunks'), status |-> status,
            output |-> Selected(chunks', {i \in 1 .. Len(chunks') : Due(chunks'[i], view.cursor)})]}
  BY DEF Polls
<1>5. status \in {"running", "terminated"}
  BY <1>4
<1>6. Selected(line, {i \in 1 .. Len(line) : Due(line[i], from)}) = ChunksOf(from, m)
  <2>1. line = ChunksOf(0, m) /\ from <= m
    BY <1>3
  <2> QED
    BY ONLY <2>1, from \in Nat, m \in Nat, DueIs
<1>7. PICK answer : /\ answer = [from |-> from, cursor |-> m, status |-> status,
                                 output |-> ChunksOf(from, m)]
                    /\ polls' = polls \union {answer}
  <2>1. Selected(chunks', {i \in 1 .. Len(chunks') : Due(chunks'[i], view.cursor)}) = ChunksOf(from, m)
    BY <1>3, <1>6
  <2> QED
    BY <1>3, <1>4, <2>1
<1>8. /\ answer.from = from /\ answer.cursor = m /\ answer.status = status
      /\ answer.output = ChunksOf(from, m)
  BY ONLY <1>7
<1>9. ASSUME NEW poll \in polls'
      PROVE  /\ poll.from \in Nat /\ poll.cursor \in Nat
             /\ poll.from <= poll.cursor /\ poll.cursor <= Len(chunks')
             /\ poll.status \in {"running", "terminated"}
             /\ poll.output = ChunksOf(poll.from, poll.cursor)
  <2>1. CASE poll \in polls
    <3>1. /\ poll.from \in Nat /\ poll.cursor \in Nat
          /\ poll.from <= poll.cursor /\ poll.cursor <= Len(chunks)
          /\ poll.status \in {"running", "terminated"}
          /\ poll.output = ChunksOf(poll.from, poll.cursor)
      BY <2>1 DEF TerminalInv, AnswersInOrder
    <3>2. Len(chunks) \in Nat
      BY ChunksGiven DEF TerminalInv
    <3> QED
      BY <1>2, <3>1, <3>2
  <2>2. CASE poll = answer
    BY ONLY <1>3, <1>5, <1>8, <2>2, m \in Nat, from \in Nat
  <2> QED
    BY <1>7, <2>1, <2>2
<1>10. view'.output = ChunksOf(0, view'.cursor) /\ view'.cursor <= Len(chunks')
  BY <1>1, <1>3 DEF TerminalInv, AnswersInOrder
<1>11. AnswersInOrder'
  BY ONLY <1>1, <1>9, <1>10 DEF AnswersInOrder
<1> QED
  BY <1>2, <1>11 DEF TerminalInv

LEMMA AnswerKeeps ==
  ASSUME TerminalInv, PollAnswered
  PROVE  TerminalInv'
<1>1. PICK poll \in polls :
        /\ polls' = polls \ {poll}
        /\ view' = IF view.status = "running" /\ poll.from = view.cursor
                     THEN [status |-> poll.status, cursor |-> poll.cursor,
                           output |-> view.output \o poll.output]
                     ELSE view
        /\ UNCHANGED <<shell, unread, chunks, opened>>
  BY DEF PollAnswered
<1>2. PrintsInOrder' /\ Len(chunks) \in Nat
  BY <1>1, PrintsUnchanged, ChunksGiven DEF TerminalInv
<1>3. CASE ~(view.status = "running" /\ poll.from = view.cursor)
  <2>1. view' = view /\ polls' \subseteq polls /\ chunks' = chunks
    BY <1>1, <1>3
  <2> QED
    BY <1>2, <2>1, AnswersKept DEF TerminalInv
<1>4. CASE view.status = "running" /\ poll.from = view.cursor
  <2>1. PICK n \in Nat, m \in Nat :
          /\ n = view.cursor /\ n = poll.from /\ m = poll.cursor /\ n <= m /\ m <= Len(chunks)
          /\ view.output = ChunksOf(0, n) /\ poll.output = ChunksOf(n, m)
          /\ poll.status \in {"running", "terminated"}
    BY <1>4 DEF TerminalInv, AnswersInOrder, Views
  <2>2. PICK line : line = view.output \o poll.output
    OBVIOUS
  <2>3. line = ChunksOf(0, n) \o ChunksOf(n, m)
    BY ONLY <2>1, <2>2
  <2>4. line = ChunksOf(0, m)
    BY ONLY <2>1, <2>3, n \in Nat, m \in Nat, ChunksGoOn
  <2>5. line \in Seq([cursor : Nat, part : Nat])
    <3>1. 0 \in Nat /\ 0 <= m
      OBVIOUS
    <3>2. ChunksOf(0, m) \in Seq([cursor : Nat, part : Nat])
      BY ONLY <3>1, m \in Nat, ChunksAre
    <3> QED
      BY ONLY <2>4, <3>2
  <2>6. view' = [status |-> poll.status, cursor |-> m, output |-> line]
    BY <1>1, <1>4, <2>1, <2>2
  <2>7. view' \in Views /\ view'.cursor = m /\ view'.output = line
    <3>1. poll.status \in {"none", "running", "terminated"}
      BY ONLY <2>1
    <3> QED
      BY ONLY <2>5, <2>6, <3>1, m \in Nat DEF Views
  <2>8. polls' \subseteq polls /\ chunks' = chunks
    BY <1>1
  <2>9. \A p \in polls' : /\ p.from \in Nat /\ p.cursor \in Nat
                          /\ p.from <= p.cursor /\ p.cursor <= Len(chunks')
                          /\ p.status \in {"running", "terminated"}
                          /\ p.output = ChunksOf(p.from, p.cursor)
    BY <2>8 DEF TerminalInv, AnswersInOrder
  <2>10. view'.cursor <= Len(chunks') /\ view'.output = ChunksOf(0, view'.cursor)
    BY ONLY <2>1, <2>4, <2>7, <2>8
  <2>11. AnswersInOrder'
    BY ONLY <2>7, <2>9, <2>10 DEF AnswersInOrder
  <2> QED
    BY <1>2, <2>11 DEF TerminalInv
<1> QED
  BY <1>3, <1>4

LEMMA StopKeeps ==
  ASSUME TerminalInv, StopsTerminal
  PROVE  TerminalInv'
<1>1. /\ shell \in Shells /\ view \in Views /\ chunks' = Drained /\ unread' = <<>>
      /\ shell' = [NoShell EXCEPT !.printed = shell.printed]
      /\ view' = [view EXCEPT !.status = "terminated"] /\ polls' = polls
  BY DEF TerminalInv, PrintsInOrder, AnswersInOrder, StopsTerminal
<1>2. /\ shell' \in Shells /\ ~shell'.reader /\ ~shell'.alive
      /\ shell'.printed = shell.printed /\ shell'.pipe = <<>>
  <2>1. shell.printed \in Nat /\ FALSE \in BOOLEAN /\ <<>> \in Seq(Nat)
    BY <1>1 DEF Shells
  <2>2. shell' = [alive |-> FALSE, held |-> FALSE, reader |-> FALSE,
                  printed |-> shell.printed, pipe |-> <<>>]
    BY <1>1 DEF NoShell
  <2> QED
    BY <2>1, <2>2 DEF Shells
<1>3. PrintsInOrder' /\ Len(chunks') \in Nat /\ Len(chunks) <= Len(chunks')
  BY <1>1, <1>2, DrainKeeps
<1>4. /\ view' \in Views /\ view'.cursor = view.cursor /\ view'.output = view.output
      /\ view.cursor \in Nat /\ Len(chunks) \in Nat
  BY <1>1, ChunksGiven DEF Views, TerminalInv
<1>5. view.cursor <= Len(chunks) /\ view.output = ChunksOf(0, view.cursor)
  BY DEF TerminalInv, AnswersInOrder
<1>6. view'.cursor <= Len(chunks') /\ view'.output = ChunksOf(0, view'.cursor)
  BY <1>3, <1>4, <1>5
<1>7. ASSUME NEW p \in polls'
      PROVE  /\ p.from \in Nat /\ p.cursor \in Nat
             /\ p.from <= p.cursor /\ p.cursor <= Len(chunks')
             /\ p.status \in {"running", "terminated"}
             /\ p.output = ChunksOf(p.from, p.cursor)
  <2>1. /\ p.from \in Nat /\ p.cursor \in Nat
        /\ p.from <= p.cursor /\ p.cursor <= Len(chunks)
        /\ p.status \in {"running", "terminated"}
        /\ p.output = ChunksOf(p.from, p.cursor)
    BY <1>1, <1>7 DEF TerminalInv, AnswersInOrder
  <2> QED
    BY <1>3, <1>4, <2>1
<1>8. AnswersInOrder'
  BY ONLY <1>4, <1>6, <1>7 DEF AnswersInOrder
<1> QED
  BY <1>3, <1>8 DEF TerminalInv

LEMMA LeaveKeeps ==
  ASSUME TerminalInv, PageLeavesTerminal
  PROVE  TerminalInv'
<1>1. /\ view' = [status |-> "none", cursor |-> 0, output |-> <<>>] /\ polls' = {}
      /\ UNCHANGED <<shell, unread, chunks, opened>>
  BY DEF PageLeavesTerminal
<1>2. PrintsInOrder' /\ Len(chunks') \in Nat
  BY <1>1, PrintsUnchanged, ChunksGiven DEF TerminalInv
<1>3. view' \in Views /\ view'.cursor = 0 /\ view'.output = <<>>
  BY <1>1 DEF Views
<1> QED
  BY <1>1, <1>2, <1>3, FirstChunks DEF TerminalInv, AnswersInOrder

LEMMA LostKeeps ==
  ASSUME TerminalInv, PollLost
  PROVE  TerminalInv'
<1>1. polls' \subseteq polls /\ UNCHANGED <<shell, unread, chunks, view, opened>>
  BY DEF PollLost
<1> QED
  BY <1>1, AnswersKept, PrintsUnchanged, ChunksGiven DEF TerminalInv

LEMMA TerminalStepKeeps ==
  ASSUME TerminalInv, [BackendNext]_backendVars
  PROVE  TerminalInv'
<1>1. CASE Terminal
  <2>1. OpensTerminal \/ TerminalStep
    BY <1>1 DEF Terminal
  <2> QED
    BY <2>1, OpenKeeps, PrintKeeps, ExitKeeps, ReadKeeps, PollsKeeps, AnswerKeeps, LostKeeps,
       StopKeeps, LeaveKeeps
       DEF TerminalStep
<1>2. CASE TerminalForgotten
  BY <1>2, ForgottenKeeps
<1>3. CASE UNCHANGED terminalVars
  BY <1>3, TerminalUnchanged
<1> QED
  BY <1>1, <1>2, <1>3
     DEF BackendNext, backendVars, Activation, Request, TeamWorks, Stream, CommandLine, Restart

LEMMA TerminalHolds == BackendSpec => []TerminalInv
<1>1. BackendInit => TerminalInv
  BY TerminalStarts DEF BackendInit
<1>2. TerminalInv /\ [BackendNext]_backendVars => TerminalInv'
  BY TerminalStepKeeps
<1> QED
  BY <1>1, <1>2, PTL DEF BackendSpec

\* Whatever the shell prints and whenever it ends, whichever polls are answered, lost, late or
\* crossed, and whoever stops or forgets the terminal: the inspector shows a prefix of what the
\* shell printed, each part once and in order, and asks next for what comes after it.  It needs
\* no bound on the prints, the polls under way or the terminals opened.
THEOREM TerminalOutputOnceCorrect == BackendSpec => []TerminalOutputOnce
<1>1. TerminalInv => TerminalOutputOnce
  <2> SUFFICES ASSUME TerminalInv
               PROVE  view.output = [i \in 1 .. view.cursor |-> [cursor |-> i, part |-> i - 1]]
    BY DEF TerminalOutputOnce
  <2>1. view.output = ChunksOf(0, view.cursor) /\ view.cursor \in Nat
    BY DEF TerminalInv, AnswersInOrder, Views
  <2>2. view.cursor - 0 = view.cursor /\ \A i \in 1 .. view.cursor : 0 + i = i
    BY <2>1
  <2> QED
    BY <2>1, <2>2 DEF ChunksOf
<1> QED
  BY <1>1, TerminalHolds, PTL

----------------------------------------------------------------------------
(* The event stream.                                                        *)

Whole == "snapshot.replace"
Kinds == {"studio.hello", "studio.heartbeat", "delta", Whole}

\* What can be in a log of n frames, and in a connection, when the state has version w.
Framed(n, w) == [id : 0 .. n, version : 0 .. w, kind : Kinds]

Connections(n, w) ==
  [open : BOOLEAN, closed : BOOLEAN, queue : Seq(Framed(n, w) \union {NoMore}),
   ready : Seq(Framed(n, w)), todo : Seq(Framed(n, w)),
   last : 0 .. w, cursor : Nat, hello : Nat, fresh : BOOLEAN]

\* What a page has yet to be given of what was published.
Line(k) == k.queue \o k.ready

\* A page that shows shown ends at version v when it has read the line.
EndsAt(line, shown, v) ==
  \/ \E a \in 1 .. Len(line) : /\ line[a].kind = Whole /\ line[a].version = v
                               /\ \A b \in a + 1 .. Len(line) : line[b].kind # Whole
  \/ (\A a \in 1 .. Len(line) : line[a].kind # Whole) /\ shown = v

NoWhole(s) == \A a \in 1 .. Len(s) : s[a].kind # Whole

Resumed(k) == k.open /\ ~k.closed /\ ~k.fresh

LastWhole(l, from, to, i) ==
  i \in from + 1 .. to /\ l[i].kind = Whole /\ \A j \in i + 1 .. to : l[j].kind # Whole

\* A page that resumed ends at the last snapshot before its hello.
Replays(k, l, shown) ==
  /\ k.hello <= Len(l) /\ NoWhole(k.todo)
  /\ \A i : LastWhole(l, k.cursor, k.hello, i) => EndsAt(Line(k), shown, l[i].version)

StreamTypes ==
  /\ world \in Nat
  /\ log \in Seq(Framed(Len(log), world))
  /\ conn \in [Pages -> Connections(Len(log), world)]
  /\ page \in [Pages -> [shown : 0 .. world, lastId : Nat]]
  /\ \A p \in Pages : Len(conn[p].queue) <= MaxItems

StreamInv ==
  /\ StreamTypes
  /\ \A i \in 1 .. Len(log) : log[i].id = i
  /\ \A p \in Pages : Resumed(conn[p]) => Replays(conn[p], log, page[p].shown)

LEMMA CutIs ==
  ASSUME NEW S, NEW s \in Seq(S), NEW c \in 0 .. Len(s)
  PROVE  /\ SubSeq(s, 1, c) \in Seq(S) /\ Len(SubSeq(s, 1, c)) = c
         /\ \A i \in 1 .. c : SubSeq(s, 1, c)[i] = s[i]
         /\ SubSeq(s, c + 1, Len(s)) \in Seq(S) /\ Len(SubSeq(s, c + 1, Len(s))) = Len(s) - c
         /\ \A i \in 1 .. Len(s) - c : SubSeq(s, c + 1, Len(s))[i] = s[c + i]
OBVIOUS

LEMMA SameSeq ==
  ASSUME NEW S, NEW s \in Seq(S), NEW t \in Seq(S), Len(s) = Len(t),
         \A i \in 1 .. Len(s) : s[i] = t[i]
  PROVE  s = t
OBVIOUS

LEMMA CutTogether ==
  ASSUME NEW S, NEW s \in Seq(S), NEW c \in 0 .. Len(s)
  PROVE  SubSeq(s, 1, c) \o SubSeq(s, c + 1, Len(s)) = s
<1>1. PICK a, b : a = SubSeq(s, 1, c) /\ b = SubSeq(s, c + 1, Len(s))
  OBVIOUS
<1>2. /\ a \in Seq(S) /\ Len(a) = c /\ \A i \in 1 .. c : a[i] = s[i]
      /\ b \in Seq(S) /\ Len(b) = Len(s) - c /\ \A i \in 1 .. Len(s) - c : b[i] = s[c + i]
  BY <1>1, CutIs
<1>3. /\ a \o b \in Seq(S) /\ Len(a \o b) = Len(a) + Len(b) /\ Len(s) \in Nat
      /\ \A i \in 1 .. Len(a) : (a \o b)[i] = a[i]
      /\ \A i \in 1 .. Len(b) : (a \o b)[Len(a) + i] = b[i]
  <2>1. a \in Seq(S) /\ b \in Seq(S) /\ s \in Seq(S)
    BY ONLY <1>2, s \in Seq(S)
  <2> QED
    BY ONLY <2>1
<1>4. ASSUME NEW i \in 1 .. Len(s) PROVE (a \o b)[i] = s[i]
  <2>1. CASE i <= c
    BY <1>2, <1>3, <2>1
  <2>2. CASE ~(i <= c)
    <3>1. PICK j \in 1 .. Len(s) - c : i = c + j
      <4>1. i - c \in 1 .. Len(s) - c /\ i = c + (i - c)
        BY <1>3, <2>2
      <4> QED
        BY <4>1
    <3>2. (a \o b)[c + j] = b[j] /\ b[j] = s[c + j]
      BY <1>2, <1>3, <3>1
    <3> QED
      BY ONLY <3>1, <3>2
  <2> QED
    BY <2>1, <2>2
<1>5. Len(a \o b) = Len(s)
  BY <1>2, <1>3
<1>6. a \o b = s
  BY <1>3, <1>4, <1>5, SameSeq
<1> QED
  BY <1>1, <1>6

LEMMA WiderSeq ==
  ASSUME NEW S, NEW T, S \subseteq T, NEW s \in Seq(S)
  PROVE  s \in Seq(T)
OBVIOUS

LEMMA WiderTypes ==
  ASSUME NEW n \in Nat, NEW m \in Nat, n <= m, NEW w \in Nat, NEW v \in Nat, w <= v
  PROVE  /\ Framed(n, w) \subseteq Framed(m, v)
         /\ Seq(Framed(n, w)) \subseteq Seq(Framed(m, v))
         /\ Connections(n, w) \subseteq Connections(m, v)
<1>1. 0 .. n \subseteq 0 .. m /\ 0 .. w \subseteq 0 .. v
  OBVIOUS
<1>2. Framed(n, w) \subseteq Framed(m, v)
  BY <1>1 DEF Framed
<1>3. \A s \in Seq(Framed(n, w)) : s \in Seq(Framed(m, v))
  BY <1>2, WiderSeq
<1>4. \A s \in Seq(Framed(n, w) \union {NoMore}) : s \in Seq(Framed(m, v) \union {NoMore})
  <2>1. Framed(n, w) \union {NoMore} \subseteq Framed(m, v) \union {NoMore}
    BY <1>2
  <2> QED
    BY <2>1, WiderSeq
<1>5. ASSUME NEW k \in Connections(n, w) PROVE k \in Connections(m, v)
  BY <1>1, <1>3, <1>4 DEF Connections
<1> QED
  BY <1>2, <1>3, <1>5

LEMMA NumberedIs ==
  ASSUME NEW n \in Nat, NEW m \in Nat, NEW w \in Nat, NEW l, Len(l) = n,
         NEW frames \in Seq(Framed(m, w))
  PROVE  /\ Len(frames) \in Nat
         /\ Numbered(l, frames) \in Seq(Framed(n + Len(frames), w))
         /\ Len(Numbered(l, frames)) = Len(frames)
         /\ \A i \in 1 .. Len(frames) :
              /\ Numbered(l, frames)[i].id = n + i
              /\ Numbered(l, frames)[i].kind = frames[i].kind
              /\ Numbered(l, frames)[i].version = frames[i].version
<1> PICK c, f : c = Len(frames) /\ f = Numbered(l, frames)
  OBVIOUS
<1>1. c = Len(frames) /\ f = Numbered(l, frames) /\ c \in Nat
  OBVIOUS
<1>2. f = [i \in 1 .. c |-> [frames[i] EXCEPT !.id = n + i]]
  BY <1>1 DEF Numbered
<1>3. ASSUME NEW i \in 1 .. c
      PROVE  /\ f[i] \in Framed(n + c, w) /\ f[i].id = n + i
             /\ f[i].kind = frames[i].kind /\ f[i].version = frames[i].version
  <2>1. frames[i] \in Framed(m, w) /\ n + i \in 0 .. n + c
    BY <1>1
  <2>2. f[i] = [frames[i] EXCEPT !.id = n + i]
    BY <1>2
  <2> QED
    BY <2>1, <2>2 DEF Framed
<1>4. f \in [1 .. c -> Framed(n + c, w)]
  BY <1>2, <1>3
<1>5. f \in Seq(Framed(n + c, w)) /\ Len(f) = c
  BY ONLY <1>4, c \in Nat, FunctionIsSeq
<1> QED
  BY <1>1, <1>3, <1>5

\* What a producer publishes goes to the end of the log and of its connection's line.
Pushes(n, w, k, l, new, x, after) ==
  /\ new \in Seq(Framed(n + Len(new), w)) /\ Len(new) \in Nat
  /\ \A i \in 1 .. Len(new) : new[i].id = n + i
  /\ after = l \o new
  /\ x \in Connections(n + Len(new), w) /\ Len(x.queue) <= MaxItems
  /\ Line(x) = Line(k) \o new
  /\ x.open = k.open /\ x.closed = k.closed /\ x.cursor = k.cursor /\ x.hello = k.hello
  /\ x.fresh = k.fresh
  /\ NoWhole(k.todo) => NoWhole(new) /\ NoWhole(x.todo)

LEMMA PushedIs ==
  ASSUME NEW n \in Nat, NEW w \in Nat, NEW l \in Seq(Framed(n, w)), Len(l) = n,
         NEW k \in Connections(n, w), Len(k.queue) <= MaxItems
  PROVE  \E new : Pushes(n, w, k, l, new, Pushed(k, l).conn, Pushed(k, l).log)
<1>1. PICK q, r, t : q = k.queue /\ r = k.ready /\ t = k.todo
  OBVIOUS
<1>2. /\ q \in Seq(Framed(n, w) \union {NoMore}) /\ r \in Seq(Framed(n, w))
      /\ t \in Seq(Framed(n, w))
      /\ Len(q) \in Nat /\ Len(r) \in Nat /\ Len(t) \in Nat /\ Len(q) <= MaxItems
      /\ MaxItems \in Nat
  BY <1>1, StreamAssumption DEF Connections
<1>3. PICK space \in Nat, count \in 0 .. Len(t) :
        /\ space = MaxItems - Len(q)
        /\ count = IF Len(r) > space THEN 0 ELSE Smaller(Len(t), space - Len(r) + 1)
  <2>1. PICK space \in Nat : space = MaxItems - Len(q)
    BY <1>2
  <2>2. (IF Len(r) > space THEN 0 ELSE Smaller(Len(t), space - Len(r) + 1)) \in 0 .. Len(t)
    BY <1>2 DEF Smaller
  <2> QED
    BY ONLY <2>1, <2>2
<1>4. PICK new : new = Numbered(l, SubSeq(t, 1, count))
  OBVIOUS
<1>5. PICK c \in Nat : c = count
  BY <1>2
<1>6. /\ SubSeq(t, 1, c) \in Seq(Framed(n, w)) /\ Len(SubSeq(t, 1, c)) = c
      /\ \A i \in 1 .. c : SubSeq(t, 1, c)[i] = t[i]
      /\ SubSeq(t, c + 1, Len(t)) \in Seq(Framed(n, w)) /\ Len(SubSeq(t, c + 1, Len(t))) = Len(t) - c
      /\ \A i \in 1 .. Len(t) - c : SubSeq(t, c + 1, Len(t))[i] = t[c + i]
  BY <1>2, <1>5, CutIs
<1>7. /\ new \in Seq(Framed(n + c, w)) /\ Len(new) = c
      /\ \A i \in 1 .. c : new[i].id = n + i /\ new[i].kind = t[i].kind
  <2>1. PICK s : s = SubSeq(t, 1, c)
    OBVIOUS
  <2>2. s \in Seq(Framed(n, w)) /\ Len(s) = c /\ \A i \in 1 .. c : s[i] = t[i]
    BY ONLY <1>6, <2>1
  <2>3. new = Numbered(l, s)
    BY <1>4, <1>5, <2>1
  <2>4. /\ Numbered(l, s) \in Seq(Framed(n + Len(s), w)) /\ Len(Numbered(l, s)) = Len(s)
        /\ \A i \in 1 .. Len(s) :
             Numbered(l, s)[i].id = n + i /\ Numbered(l, s)[i].kind = s[i].kind
    <3>1. n \in Nat /\ w \in Nat /\ Len(l) = n /\ s \in Seq(Framed(n, w))
      BY <2>2
    <3> QED
      BY ONLY <3>1, NumberedIs
  <2> QED
    BY ONLY <2>2, <2>3, <2>4
<1>8. PICK F : F = Framed(n + c, w)
  OBVIOUS
<1>9. /\ r \in Seq(F) /\ SubSeq(t, c + 1, Len(t)) \in Seq(F) /\ new \in Seq(F)
      /\ q \in Seq(F \union {NoMore})
  <2>1. n <= n + c /\ w <= w /\ n + c \in Nat
    OBVIOUS
  <2>2. Framed(n, w) \subseteq F /\ Seq(Framed(n, w)) \subseteq Seq(F)
    BY <1>8, <2>1, WiderTypes
  <2>3. Framed(n, w) \union {NoMore} \subseteq F \union {NoMore}
    BY <2>2
  <2>4. q \in Seq(F \union {NoMore})
    BY ONLY <1>2, <2>3, WiderSeq
  <2> QED
    BY <1>2, <1>6, <1>7, <1>8, <2>2, <2>4
<1>10. PICK line : line = r \o new
  OBVIOUS
<1>11. line \in Seq(F) /\ Len(line) \in Nat
  BY ONLY <1>9, <1>10, ConcatIs
<1>12. PICK puts \in 0 .. Len(line) : puts = Smaller(Len(line), space) /\ puts <= space
  BY <1>3, <1>11 DEF Smaller
<1>13. PICK a, b : a = SubSeq(line, 1, puts) /\ b = SubSeq(line, puts + 1, Len(line))
  OBVIOUS
<1>14. a \in Seq(F) /\ Len(a) = puts /\ b \in Seq(F) /\ a \o b = line
  BY ONLY <1>11, <1>12, <1>13, CutIs, CutTogether
<1>15. PICK after : after = SubSeq(t, c + 1, Len(t))
  OBVIOUS
<1>16. PICK x : x = [k EXCEPT !.queue = q \o a, !.ready = b, !.todo = after]
  OBVIOUS
<1>17. Pushed(k, l) = [conn |-> x, log |-> l \o new]
  BY <1>1, <1>3, <1>4, <1>5, <1>10, <1>12, <1>13, <1>15, <1>16 DEF Pushed
<1>18. /\ q \o a \in Seq(F \union {NoMore}) /\ Len(q \o a) = Len(q) + puts
       /\ (q \o a) \o b = q \o line
  <2>1. PICK G : G = F \union {NoMore}
    OBVIOUS
  <2>2. q \in Seq(G) /\ a \in Seq(G) /\ b \in Seq(G)
    <3>1. F \subseteq G
      BY <2>1
    <3> QED
      BY <1>9, <1>14, <2>1, <3>1, WiderSeq
  <2>3. q \o a \in Seq(G) /\ Len(q \o a) = Len(q) + Len(a)
    BY ONLY <2>2
  <2>4. (q \o a) \o b = q \o (a \o b)
    <3>1. ASSUME NEW s1 \in Seq(G), NEW s2 \in Seq(G), NEW s3 \in Seq(G)
          PROVE  (s1 \o s2) \o s3 = s1 \o (s2 \o s3)
      BY ONLY SMTT(30)
    <3> QED
      BY ONLY <2>2, <3>1
  <2> QED
    BY ONLY <1>14, <2>1, <2>3, <2>4
<1>19. /\ x.queue = q \o a /\ x.ready = b /\ x.todo = after /\ x.open = k.open
       /\ x.closed = k.closed /\ x.last = k.last /\ x.cursor = k.cursor /\ x.hello = k.hello
       /\ x.fresh = k.fresh
  BY <1>16 DEF Connections
<1>20. x \in Connections(n + c, w)
  BY <1>8, <1>9, <1>14, <1>15, <1>16, <1>18 DEF Connections
<1>21. Len(x.queue) <= MaxItems
  BY <1>2, <1>3, <1>12, <1>18, <1>19
<1>22. Line(x) = Line(k) \o new
  <2>1. Line(x) = q \o (r \o new)
    BY <1>10, <1>18, <1>19 DEF Line
  <2>2. PICK G : G = F \union {NoMore}
    OBVIOUS
  <2>3. q \in Seq(G) /\ r \in Seq(G) /\ new \in Seq(G)
    <3>1. F \subseteq G
      BY <2>2
    <3> QED
      BY <1>9, <2>2, <3>1, WiderSeq
  <2>4. (q \o r) \o new = q \o (r \o new)
    <3>1. ASSUME NEW s1 \in Seq(G), NEW s2 \in Seq(G), NEW s3 \in Seq(G)
          PROVE  (s1 \o s2) \o s3 = s1 \o (s2 \o s3)
      BY ONLY SMTT(30)
    <3> QED
      BY ONLY <2>3, <3>1
  <2> QED
    BY <1>1, <2>1, <2>4 DEF Line
<1>23. ASSUME NoWhole(k.todo) PROVE NoWhole(new) /\ NoWhole(after)
  <2>1. \A i \in 1 .. Len(t) : t[i].kind # Whole
    BY <1>1, <1>23 DEF NoWhole
  <2>2. ASSUME NEW i \in 1 .. c PROVE new[i].kind # Whole
    <3>1. i \in 1 .. Len(t)
      BY <1>2, <1>5
    <3> QED
      BY <1>7, <2>1, <3>1
  <2>3. ASSUME NEW i \in 1 .. Len(t) - c PROVE after[i].kind # Whole
    <3>1. c + i \in 1 .. Len(t)
      BY <1>2, <1>5
    <3> QED
      BY <1>6, <1>15, <2>1, <3>1
  <2>4. Len(new) = c /\ Len(after) = Len(t) - c
    BY <1>6, <1>7, <1>15
  <2> QED
    BY ONLY <2>2, <2>3, <2>4 DEF NoWhole
<1>24. Pushed(k, l).conn = x /\ Pushed(k, l).log = l \o new
  BY <1>17
<1>25. /\ new \in Seq(Framed(n + Len(new), w)) /\ Len(new) \in Nat
       /\ \A i \in 1 .. Len(new) : new[i].id = n + i
       /\ x \in Connections(n + Len(new), w)
  BY <1>7, <1>20
<1>26. Pushes(n, w, k, l, new, x, l \o new)
  BY <1>19, <1>21, <1>22, <1>23, <1>25 DEF Pushes
<1> QED
  BY <1>24, <1>26

LEMMA EndsLater ==
  ASSUME NEW S, NEW line \in Seq(S), NEW new \in Seq(S), NoWhole(new),
         NEW shown, NEW v, EndsAt(line, shown, v)
  PROVE  EndsAt(line \o new, shown, v)
<1>1. PICK n \in Nat, m \in Nat, all \in Seq(S) :
        /\ n = Len(line) /\ m = Len(new) /\ all = line \o new /\ Len(all) = n + m
        /\ \A i \in 1 .. n : all[i] = line[i]
        /\ \A i \in 1 .. m : all[n + i] = new[i]
  <2>1. /\ line \o new \in Seq(S) /\ Len(line \o new) = Len(line) + Len(new)
        /\ Len(line) \in Nat /\ Len(new) \in Nat
        /\ \A i \in 1 .. Len(line) : (line \o new)[i] = line[i]
        /\ \A i \in 1 .. Len(new) : (line \o new)[Len(line) + i] = new[i]
    BY ConcatIs
  <2> QED
    BY <2>1
<1>2. ASSUME NEW b \in 1 .. Len(all), b > n PROVE all[b].kind # Whole
  <2>1. b - n \in 1 .. m /\ n + (b - n) = b
    BY <1>1, <1>2
  <2>2. all[b] = new[b - n]
    BY <1>1, <2>1
  <2> QED
    BY <1>1, <2>1, <2>2 DEF NoWhole
<1>3. CASE \E a \in 1 .. Len(line) :
             /\ line[a].kind = Whole /\ line[a].version = v
             /\ \A b \in a + 1 .. Len(line) : line[b].kind # Whole
  <2>1. PICK a \in 1 .. n : /\ line[a].kind = Whole /\ line[a].version = v
                            /\ \A b \in a + 1 .. n : line[b].kind # Whole
    BY <1>1, <1>3
  <2>2. a \in 1 .. Len(all) /\ all[a] = line[a]
    BY <1>1
  <2>3. ASSUME NEW b \in a + 1 .. Len(all) PROVE all[b].kind # Whole
    <3>1. CASE b <= n
      <4>1. b \in a + 1 .. n /\ b \in 1 .. n
        BY <1>1, <3>1
      <4> QED
        BY <1>1, <2>1, <4>1
    <3>2. CASE b > n
      <4>1. b \in 1 .. Len(all)
        BY <1>1
      <4> QED
        BY <1>2, <3>2, <4>1
    <3> QED
      BY <1>1, <3>1, <3>2
  <2> QED
    BY <1>1, <2>1, <2>2, <2>3 DEF EndsAt
<1>4. CASE (\A a \in 1 .. Len(line) : line[a].kind # Whole) /\ shown = v
  <2>1. ASSUME NEW b \in 1 .. Len(all) PROVE all[b].kind # Whole
    <3>1. CASE b <= n
      <4>1. b \in 1 .. n
        BY <1>1, <3>1
      <4> QED
        BY <1>1, <1>4, <4>1
    <3>2. CASE b > n
      BY <1>2, <3>2
    <3> QED
      BY <1>1, <3>1, <3>2
  <2> QED
    BY <1>1, <1>4, <2>1 DEF EndsAt
<1> QED
  BY <1>3, <1>4 DEF EndsAt

LEMMA EndsRead ==
  ASSUME NEW S, NEW line \in Seq(S), line # <<>>, NEW shown, NEW v, EndsAt(line, shown, v)
  PROVE  EndsAt(Tail(line), IF Head(line).kind = Whole THEN Head(line).version ELSE shown, v)
<1>1. PICK n \in Nat, rest \in Seq(S) :
        /\ n + 1 = Len(line) /\ rest = Tail(line) /\ Len(rest) = n
        /\ \A i \in 1 .. n : rest[i] = line[i + 1]
  <2>1. Len(line) - 1 \in Nat /\ Len(line) - 1 + 1 = Len(line)
    BY TailIs
  <2> QED
    BY <2>1, TailIs
<1>2. Head(line) = line[1]
  BY TailIs
<1>3. CASE \E a \in 1 .. Len(line) :
             /\ line[a].kind = Whole /\ line[a].version = v
             /\ \A b \in a + 1 .. Len(line) : line[b].kind # Whole
  <2>1. PICK a \in 1 .. n + 1 : /\ line[a].kind = Whole /\ line[a].version = v
                                /\ \A b \in a + 1 .. n + 1 : line[b].kind # Whole
    BY <1>1, <1>3
  <2>2. CASE a = 1
    <3>1. ASSUME NEW b \in 1 .. n PROVE rest[b].kind # Whole
      <4>1. b + 1 \in a + 1 .. n + 1
        BY <2>2
      <4> QED
        BY <1>1, <2>1, <4>1
    <3> QED
      BY <1>1, <1>2, <2>1, <2>2, <3>1 DEF EndsAt
  <2>3. CASE a # 1
    <3>1. PICK c \in 1 .. n : c + 1 = a
      <4>1. a - 1 \in 1 .. n /\ a - 1 + 1 = a
        BY <2>3
      <4> QED
        BY <4>1
    <3>2. rest[c] = line[a]
      BY <1>1, <3>1
    <3>3. ASSUME NEW b \in c + 1 .. n PROVE rest[b].kind # Whole
      <4>1. b + 1 \in a + 1 .. n + 1 /\ b \in 1 .. n
        BY <3>1
      <4> QED
        BY <1>1, <2>1, <4>1
    <3> QED
      BY <1>1, <2>1, <3>2, <3>3 DEF EndsAt
  <2> QED
    BY <2>2, <2>3
<1>4. CASE (\A a \in 1 .. Len(line) : line[a].kind # Whole) /\ shown = v
  <2>1. Head(line).kind # Whole
    BY <1>1, <1>2, <1>4
  <2>2. ASSUME NEW b \in 1 .. n PROVE rest[b].kind # Whole
    <3>1. b + 1 \in 1 .. Len(line)
      BY <1>1
    <3> QED
      BY <1>1, <1>4, <3>1
  <2> QED
    BY <1>1, <1>4, <2>1, <2>2 DEF EndsAt
<1> QED
  BY <1>3, <1>4 DEF EndsAt

LEMMA HeadOfTwo ==
  ASSUME NEW S, NEW q \in Seq(S), NEW r \in Seq(S), q # <<>>
  PROVE  q \o r # <<>> /\ Head(q \o r) = Head(q) /\ Tail(q \o r) = Tail(q) \o r
OBVIOUS

\* What is published after the hello of a connection does not change what it replays.
LEMMA ReplaysGrow ==
  ASSUME NEW S, NEW l \in Seq(S), NEW m \in Seq(S), Len(l) <= Len(m),
         \A i \in 1 .. Len(l) : m[i] = l[i],
         NEW k, k.cursor \in Nat, k.hello \in Nat, NEW shown, Replays(k, l, shown)
  PROVE  Replays(k, m, shown)
<1>1. k.hello <= Len(l) /\ Len(l) \in Nat /\ Len(m) \in Nat
  BY DEF Replays
<1>2. ASSUME NEW i, LastWhole(m, k.cursor, k.hello, i)
      PROVE  EndsAt(Line(k), shown, m[i].version)
  <2>1. i \in k.cursor + 1 .. k.hello
    BY <1>2 DEF LastWhole
  <2>2. i \in 1 .. Len(l) /\ \A j \in i + 1 .. k.hello : j \in 1 .. Len(l)
    BY <1>1, <2>1
  <2>3. m[i] = l[i] /\ \A j \in i + 1 .. k.hello : m[j] = l[j]
    BY <2>2
  <2>4. LastWhole(l, k.cursor, k.hello, i)
    BY <1>2, <2>1, <2>3 DEF LastWhole
  <2> QED
    BY <2>3, <2>4 DEF Replays
<1>3. k.hello <= Len(m) /\ NoWhole(k.todo)
  BY <1>1 DEF Replays
<1> QED
  BY <1>2, <1>3 DEF Replays

\* The log and what is added to it.
Added(n, w, new) ==
  /\ new \in Seq(Framed(n + Len(new), w)) /\ Len(new) \in Nat
  /\ \A i \in 1 .. Len(new) : new[i].id = n + i

Grown(n, v, l, new, all) ==
  /\ Len(all) = n + Len(new) /\ n <= Len(all) /\ Len(all) \in Nat
  /\ all \in Seq(Framed(Len(all), v))
  /\ \A i \in 1 .. n : all[i] = l[i]
  /\ \A i \in 1 .. Len(new) : all[n + i] = new[i]
  /\ \A i \in 1 .. Len(all) : all[i].id = i

LEMMA LogGrows ==
  ASSUME NEW n \in Nat, NEW w \in Nat, NEW v \in Nat, w <= v,
         NEW l \in Seq(Framed(n, w)), Len(l) = n, \A i \in 1 .. n : l[i].id = i,
         NEW new, Added(n, v, new)
  PROVE  Grown(n, v, l, new, l \o new)
<1>1. PICK c \in Nat, m \in Nat : c = Len(new) /\ m = n + c
  BY DEF Added
<1>2. PICK F : F = Framed(m, v)
  OBVIOUS
<1>3. l \in Seq(F) /\ new \in Seq(F)
  <2>1. n <= m
    BY <1>1
  <2>2. Seq(Framed(n, w)) \subseteq Seq(Framed(m, v))
    BY ONLY <2>1, n \in Nat, m \in Nat, w \in Nat, v \in Nat, w <= v, WiderTypes
  <2> QED
    BY <1>1, <1>2, <2>2 DEF Added
<1>4. PICK all : all = l \o new
  OBVIOUS
<1>5. /\ all \in Seq(F) /\ Len(all) = m
      /\ \A i \in 1 .. n : all[i] = l[i]
      /\ \A i \in 1 .. c : all[n + i] = new[i]
  <2>1. /\ l \o new \in Seq(F) /\ Len(l \o new) = Len(l) + Len(new)
        /\ \A i \in 1 .. Len(l) : (l \o new)[i] = l[i]
        /\ \A i \in 1 .. Len(new) : (l \o new)[Len(l) + i] = new[i]
    BY ONLY <1>3, ConcatIs
  <2> QED
    BY <1>1, <1>4, <2>1
<1>6. ASSUME NEW i \in 1 .. m PROVE all[i].id = i
  <2>1. CASE i <= n
    BY <1>5, <2>1
  <2>2. CASE ~(i <= n)
    <3>1. PICK j \in 1 .. c : n + j = i
      <4>1. i - n \in 1 .. c /\ n + (i - n) = i
        BY <1>1, <2>2
      <4> QED
        BY <4>1
    <3>2. all[n + j] = new[j] /\ new[j].id = n + j
      BY <1>1, <1>5 DEF Added
    <3> QED
      BY ONLY <3>1, <3>2
  <2> QED
    BY <2>1, <2>2
<1>7. all \in Seq(Framed(Len(all), v)) /\ Len(all) = n + Len(new) /\ n <= Len(all)
  BY <1>1, <1>2, <1>5
<1> QED
  BY <1>1, <1>4, <1>5, <1>6, <1>7 DEF Grown

\* A step that adds to the log: what a connection replays can only change with the connection.
LEMMA StreamGrows ==
  ASSUME StreamInv, world' \in Nat, world <= world',
         NEW new, Added(Len(log), world', new), log' = log \o new,
         conn' \in [Pages -> Connections(Len(log'), world')],
         page' \in [Pages -> [shown : 0 .. world', lastId : Nat]],
         \A p \in Pages : Len(conn'[p].queue) <= MaxItems,
         \A p \in Pages : Resumed(conn'[p]) =>
           \/ conn'[p] = conn[p] /\ page'[p] = page[p]
           \/ Replays(conn'[p], log', page'[p].shown)
  PROVE  StreamInv'
<1>1. PICK n \in Nat, w \in Nat, v \in Nat :
        /\ n = Len(log) /\ w = world /\ v = world' /\ w <= v
        /\ log \in Seq(Framed(n, w)) /\ Added(n, v, new)
        /\ \A i \in 1 .. n : log[i].id = i
  BY DEF StreamInv, StreamTypes
<1>2. PICK old, all : old = log /\ all = log' /\ all = old \o new
  OBVIOUS
<1>3. /\ Len(all) = n + Len(new) /\ n <= Len(all) /\ Len(all) \in Nat
      /\ all \in Seq(Framed(Len(all), v))
      /\ \A i \in 1 .. n : all[i] = old[i]
      /\ \A i \in 1 .. Len(all) : all[i].id = i
  <2>1. /\ n \in Nat /\ w \in Nat /\ v \in Nat /\ w <= v /\ old \in Seq(Framed(n, w))
        /\ Len(old) = n /\ Added(n, v, new) /\ \A i \in 1 .. n : old[i].id = i
    BY <1>1, <1>2
  <2>2. Grown(n, v, old, new, old \o new)
    BY ONLY <2>1, LogGrows
  <2>3. Grown(n, v, old, new, all)
    BY ONLY <1>2, <2>2
  <2> QED
    BY ONLY <2>3 DEF Grown
<1>4. StreamTypes'
  <2>1. log' \in Seq(Framed(Len(log'), world'))
    BY <1>1, <1>2, <1>3
  <2> QED
    BY <2>1 DEF StreamTypes
<1>5. \A i \in 1 .. Len(log') : log'[i].id = i
  BY <1>2, <1>3
<1>6. ASSUME NEW p \in Pages, Resumed(conn'[p])
      PROVE  Replays(conn'[p], log', page'[p].shown)
  <2>1. CASE Replays(conn'[p], log', page'[p].shown)
    BY <2>1
  <2>2. CASE conn'[p] = conn[p] /\ page'[p] = page[p]
    <3>1. PICK k, shown : k = conn[p] /\ shown = page[p].shown
      OBVIOUS
    <3>2. Replays(k, old, shown)
      BY <1>2, <1>6, <2>2, <3>1 DEF StreamInv
    <3>3. k.cursor \in Nat /\ k.hello \in Nat
      BY <3>1 DEF StreamInv, StreamTypes, Connections
    <3>4. PICK F : F = Framed(Len(all), v)
      OBVIOUS
    <3>5. old \in Seq(F) /\ all \in Seq(F)
      <4>1. Seq(Framed(n, w)) \subseteq Seq(Framed(Len(all), v))
        BY <1>1, <1>3, WiderTypes
      <4> QED
        BY <1>1, <1>2, <1>3, <3>4, <4>1
    <3>6. Len(old) <= Len(all) /\ \A i \in 1 .. Len(old) : all[i] = old[i]
      BY <1>1, <1>2, <1>3
    <3>7. Replays(k, all, shown)
      BY ONLY <3>2, <3>3, <3>5, <3>6, ReplaysGrow
    <3> QED
      BY <1>2, <2>2, <3>1, <3>7
  <2> QED
    BY <1>6, <2>1, <2>2
<1> QED
  BY <1>4, <1>5, <1>6 DEF StreamInv

LEMMA StreamSizes ==
  ASSUME StreamInv
  PROVE  /\ Len(log) \in Nat /\ world \in Nat /\ log \in Seq(Framed(Len(log), world))
         /\ conn \in [Pages -> Connections(Len(log), world)]
         /\ page \in [Pages -> [shown : 0 .. world, lastId : Nat]]
         /\ \A p \in Pages : /\ conn[p] \in Connections(Len(log), world)
                             /\ Len(conn[p].queue) <= MaxItems
                             /\ page[p] \in [shown : 0 .. world, lastId : Nat]
                             /\ page[p].shown \in 0 .. world /\ page[p].lastId \in Nat
         /\ MaxItems \in Nat \ {0, 1}
BY StreamAssumption DEF StreamInv, StreamTypes

LEMMA StaysTyped ==
  ASSUME StreamInv, NEW n, n \in Nat, Len(log) <= n, NEW w, w \in Nat, world <= w, NEW p \in Pages
  PROVE  conn[p] \in Connections(n, w) /\ page[p] \in [shown : 0 .. w, lastId : Nat]
<1>1. conn[p] \in Connections(Len(log), world) /\ Len(log) \in Nat /\ world \in Nat
  BY StreamSizes
<1>2. Connections(Len(log), world) \subseteq Connections(n, w)
  BY <1>1, WiderTypes
<1>3. 0 .. world \subseteq 0 .. w
  BY <1>1
<1>4. page[p] \in [shown : 0 .. world, lastId : Nat]
  BY StreamSizes
<1> QED
  BY <1>1, <1>2, <1>3, <1>4

LEMMA Unconnected ==
  ASSUME NEW n \in Nat, NEW w \in Nat
  PROVE  NoConnection \in Connections(n, w) /\ Len(NoConnection.queue) = 0 /\ ~NoConnection.open
<1>1. TRUE \in BOOLEAN /\ FALSE \in BOOLEAN /\ 0 \in 0 .. w /\ 0 \in Nat
  OBVIOUS
<1>2. <<>> \in Seq(Framed(n, w)) /\ <<>> \in Seq(Framed(n, w) \union {NoMore}) /\ Len(<<>>) = 0
  OBVIOUS
<1> QED
  BY <1>1, <1>2 DEF Connections, NoConnection, NoFrame

LEMMA StreamStarts ==
  ASSUME StreamInit
  PROVE  StreamInv
<1>1. /\ world = 0 /\ log = <<>> /\ conn = [p \in Pages |-> NoConnection]
      /\ page = [p \in Pages |-> [shown |-> 0, lastId |-> 0]]
  BY DEF StreamInit, NoFrame
<1>2. Len(log) = 0 /\ log \in Seq(Framed(0, 0))
  BY <1>1
<1>3. /\ NoConnection \in Connections(0, 0) /\ Len(NoConnection.queue) = 0
      /\ ~NoConnection.open
  BY Unconnected
<1>4. page \in [Pages -> [shown : 0 .. 0, lastId : Nat]]
  BY <1>1
<1>5. StreamTypes
  BY <1>1, <1>2, <1>3, <1>4, StreamAssumption DEF StreamTypes
<1> QED
  BY <1>1, <1>2, <1>3, <1>5 DEF StreamInv, Resumed

LEMMA ChangesIs ==
  ASSUME StreamInv, Changes
  PROVE  world' \in Nat /\ world <= world'
BY StreamSizes DEF Changes

LEMMA NothingAdded ==
  ASSUME StreamInv
  PROVE  /\ \A w : Added(Len(log), w, <<>>)
         /\ log \o <<>> = log
<1>1. Len(log) \in Nat /\ log \in Seq(Framed(Len(log), world))
  BY StreamSizes
<1>2. \A w : <<>> \in Seq(Framed(Len(log) + 0, w)) /\ Len(<<>>) = 0
  OBVIOUS
<1> QED
  BY <1>1, <1>2 DEF Added

\* What the handlers and the threads change, the pages do not see before they are told.
LEMMA QuietStream ==
  ASSUME StreamInv, world' \in Nat, world <= world', UNCHANGED <<conn, page>>,
         NEW new, Added(Len(log), world', new), log' = log \o new
  PROVE  StreamInv'
<1>1. Len(log') \in Nat /\ Len(log) <= Len(log')
  <2>1. /\ Len(log) \in Nat /\ world \in Nat /\ log \in Seq(Framed(Len(log), world))
        /\ \A i \in 1 .. Len(log) : log[i].id = i
    BY StreamSizes DEF StreamInv
  <2>2. Len(new) \in Nat /\ new \in Seq(Framed(Len(log) + Len(new), world'))
    BY DEF Added
  <2>3. Len(log \o new) = Len(log) + Len(new)
    BY <2>1, <2>2
  <2> QED
    BY <2>1, <2>2, <2>3
<1>2. \A p \in Pages : /\ conn[p] \in Connections(Len(log'), world')
                       /\ page[p] \in [shown : 0 .. world', lastId : Nat]
  BY <1>1, StaysTyped
<1>3. /\ conn' \in [Pages -> Connections(Len(log'), world')]
      /\ page' \in [Pages -> [shown : 0 .. world', lastId : Nat]]
      /\ \A p \in Pages : Len(conn'[p].queue) <= MaxItems
  BY <1>2, StreamSizes
<1>4. \A p \in Pages : conn'[p] = conn[p] /\ page'[p] = page[p]
  OBVIOUS
<1> QED
  BY <1>3, <1>4, StreamGrows

LEMMA WorksKeep ==
  ASSUME StreamInv, Changes, log' = log, UNCHANGED <<conn, page>>
  PROVE  StreamInv'
<1>1. Added(Len(log), world', <<>>) /\ log' = log \o <<>>
  BY NothingAdded
<1> QED
  BY <1>1, ChangesIs, QuietStream

LEMMA PublishKeeps ==
  ASSUME StreamInv, Publishes, UNCHANGED <<conn, page>>
  PROVE  StreamInv'
<1>1. Changes /\ world' \in Nat /\ world <= world' /\ Len(log) \in Nat
  BY ChangesIs, StreamSizes DEF Publishes
<1>2. CASE world' = world
  BY <1>1, <1>2, WorksKeep DEF Publishes
<1>3. CASE world' # world
  <2> PICK v, pair : v = world' /\ pair = <<Delta(v), Snapshot(v)>>
    OBVIOUS
  <2>1. v = world' /\ pair = <<Delta(v), Snapshot(v)>> /\ v \in Nat
    BY <1>1
  <2>2. pair \in Seq(Framed(0, v)) /\ Len(pair) = 2
    <3>1. Delta(v) \in Framed(0, v) /\ Snapshot(v) \in Framed(0, v)
      BY <2>1 DEF Delta, Snapshot, Framed, Kinds, NoFrame, Whole
    <3> QED
      BY <2>1, <3>1
  <2>3. Added(Len(log), v, Numbered(log, pair))
    <3>1. PICK n \in Nat : n = Len(log)
      BY <1>1
    <3>2. /\ Numbered(log, pair) \in Seq(Framed(n + Len(pair), v))
          /\ Len(Numbered(log, pair)) = Len(pair) /\ Len(pair) \in Nat
          /\ \A i \in 1 .. Len(pair) : Numbered(log, pair)[i].id = n + i
      <4>1. /\ 0 \in Nat /\ Len(log) = n /\ pair \in Seq(Framed(0, v))
            /\ n \in Nat /\ v \in Nat
        BY <2>1, <2>2, <3>1
      <4> QED
        BY ONLY <4>1, NumberedIs
    <3> QED
      BY <3>1, <3>2 DEF Added
  <2>4. log' = log \o Numbered(log, pair)
    BY <1>3, <2>1 DEF Publishes
  <2> QED
    BY <1>1, <2>1, <2>3, <2>4, QuietStream
<1> QED
  BY <1>2, <1>3

LEMMA RestartsStream ==
  ASSUME StreamInv, StreamRestarts
  PROVE  StreamInv'
<1>1. /\ world' = world /\ log' = <<>> /\ page' = page
      /\ conn' = [p \in Pages |-> NoConnection] /\ world \in Nat
  BY StreamSizes DEF StreamRestarts
<1>2. /\ NoConnection \in Connections(0, world) /\ Len(NoConnection.queue) = 0
      /\ ~NoConnection.open
  BY <1>1, Unconnected
<1>3. Len(log') = 0 /\ log' \in Seq(Framed(0, world))
  BY <1>1
<1>4. StreamTypes'
  BY <1>1, <1>2, <1>3, StreamSizes DEF StreamTypes
<1> QED
  BY <1>1, <1>2, <1>3, <1>4 DEF StreamInv, Resumed

\* A connection whose producer publishes and puts what it has.
LEMMA PutsKeeps ==
  ASSUME StreamInv, NEW p \in Pages, NEW more, Added(Len(log), world, more),
         NEW l, l = log \o more, NEW k, k \in Connections(Len(l), world),
         Len(k.queue) <= MaxItems, Resumed(k) => Replays(k, l, page[p].shown),
         Puts(p, Pushed(k, l)), UNCHANGED <<world, page>>
  PROVE  StreamInv'
<1> PICK w, c, n, old : w = world /\ c = Len(log) /\ n = Len(l) /\ old = log
  OBVIOUS
<1>1. /\ w = world /\ c = Len(log) /\ n = Len(l) /\ n = c + Len(more) /\ Len(more) \in Nat
      /\ w \in Nat /\ c \in Nat /\ n \in Nat
      /\ l \in Seq(Framed(n, w)) /\ \A i \in 1 .. n : l[i].id = i
      /\ \A i \in 1 .. c : l[i] = log[i]
  <2>1. c \in Nat /\ w \in Nat /\ old \in Seq(Framed(c, w))
    BY StreamSizes
  <2>2. \A i \in 1 .. c : old[i].id = i
    BY DEF StreamInv
  <2>3. Added(c, w, more) /\ Len(old) = c /\ w <= w
    BY <2>1
  <2>4. Grown(c, w, old, more, old \o more)
    BY ONLY <2>1, <2>2, <2>3, LogGrows
  <2>5. Grown(c, w, old, more, l)
    BY <2>4
  <2>6. Len(more) \in Nat
    BY <2>3 DEF Added
  <2> QED
    BY <2>1, <2>5, <2>6 DEF Grown
<1>2. PICK x, after : x = Pushed(k, l).conn /\ after = Pushed(k, l).log
  OBVIOUS
<1>3. PICK new :
        /\ new \in Seq(Framed(n + Len(new), w)) /\ Len(new) \in Nat
        /\ \A i \in 1 .. Len(new) : new[i].id = n + i
        /\ after = l \o new /\ x \in Connections(n + Len(new), w) /\ Len(x.queue) <= MaxItems
        /\ Line(x) = Line(k) \o new
        /\ x.open = k.open /\ x.closed = k.closed /\ x.cursor = k.cursor /\ x.hello = k.hello
        /\ x.fresh = k.fresh
        /\ NoWhole(k.todo) => NoWhole(new) /\ NoWhole(x.todo)
  <2>1. /\ n \in Nat /\ w \in Nat /\ l \in Seq(Framed(n, w)) /\ Len(l) = n
        /\ k \in Connections(n, w) /\ Len(k.queue) <= MaxItems
    BY <1>1
  <2>2. PICK new : Pushes(n, w, k, l, new, Pushed(k, l).conn, Pushed(k, l).log)
    BY ONLY <2>1, PushedIs
  <2>3. Pushes(n, w, k, l, new, x, after)
    BY ONLY <1>2, <2>2
  <2> QED
    BY ONLY <2>3 DEF Pushes
<1>4. conn' = [conn EXCEPT ![p] = x] /\ log' = after
  <2>1. conn' = [conn EXCEPT ![p] = Pushed(k, l).conn] /\ log' = Pushed(k, l).log
    BY DEF Puts
  <2> QED
    BY ONLY <1>2, <2>1
<1> PICK m, F, G : m = n + Len(new) /\ F = Framed(m, w) /\ G = F \union {NoMore}
  OBVIOUS
<1>5. /\ m = n + Len(new) /\ F = Framed(m, w) /\ G = F \union {NoMore}
      /\ m \in Nat /\ c <= n /\ n <= m /\ c <= m
  <2>1. Len(new) \in Nat /\ Len(more) \in Nat /\ n = c + Len(more) /\ c \in Nat
    BY ONLY <1>1, <1>3
  <2> QED
    BY <2>1
<1>6. l \in Seq(F) /\ more \in Seq(F) /\ new \in Seq(F) /\ log \in Seq(F)
  <2>1. c \in Nat /\ n \in Nat /\ m \in Nat /\ w \in Nat /\ w <= w /\ n <= m /\ c <= m
    BY ONLY <1>1, <1>5
  <2>2. Seq(Framed(c, w)) \subseteq Seq(Framed(m, w)) /\ Seq(Framed(n, w)) \subseteq Seq(Framed(m, w))
    BY <2>1, WiderTypes
  <2>3. log \in Seq(Framed(c, w)) /\ more \in Seq(Framed(n, w))
    BY <1>1, StreamSizes DEF Added
  <2> QED
    BY <1>1, <1>3, <1>5, <2>2, <2>3
<1>7. PICK both : both = more \o new
  OBVIOUS
<1>8. /\ both \in Seq(F) /\ Len(both) = Len(more) + Len(new)
      /\ \A i \in 1 .. Len(more) : both[i] = more[i]
      /\ \A i \in 1 .. Len(new) : both[Len(more) + i] = new[i]
  BY ONLY <1>6, <1>7, ConcatIs
<1>9. Added(Len(log), world', both)
  <2>1. ASSUME NEW i \in 1 .. Len(both) PROVE both[i].id = c + i
    <3>1. CASE i <= Len(more)
      <4>1. i \in 1 .. Len(more)
        BY <1>1, <3>1
      <4>2. both[i] = more[i] /\ more[i].id = c + i
        BY <1>1, <1>8, <4>1 DEF Added
      <4> QED
        BY <4>2
    <3>2. CASE ~(i <= Len(more))
      <4>1. PICK j \in 1 .. Len(new) : i = Len(more) + j
        <5>1. i - Len(more) \in 1 .. Len(new) /\ i = Len(more) + (i - Len(more))
          BY <1>1, <1>3, <1>8, <3>2
        <5> QED
          BY <5>1
      <4>2. both[i] = new[j] /\ new[j].id = n + j
        BY ONLY <1>3, <1>8, <4>1
      <4>3. n + j = c + i
        BY <1>1, <4>1
      <4> QED
        BY ONLY <4>2, <4>3
    <3> QED
      BY <3>1, <3>2
  <2>2. c + Len(both) = m /\ Len(both) \in Nat
    BY <1>1, <1>3, <1>5, <1>8
  <2>3. both \in Seq(Framed(c + Len(both), w))
    BY <1>5, <1>8, <2>2
  <2> QED
    BY <1>1, <2>1, <2>2, <2>3 DEF Added
<1>10. log' = log \o both
  <2>1. ASSUME NEW a \in Seq(F), NEW b \in Seq(F), NEW d \in Seq(F)
        PROVE  (a \o b) \o d = a \o (b \o d)
    BY ONLY SMTT(30)
  <2>2. (log \o more) \o new = log \o (more \o new)
    BY ONLY <1>6, <2>1
  <2> QED
    BY <1>3, <1>4, <1>7, <2>2
<1>11. after \in Seq(F) /\ Len(l) <= Len(after) /\ Len(after) = m
       /\ \A i \in 1 .. Len(l) : after[i] = l[i]
  <2>1. /\ l \o new \in Seq(F) /\ Len(l \o new) = Len(l) + Len(new)
        /\ \A i \in 1 .. Len(l) : (l \o new)[i] = l[i]
    BY ONLY <1>6, ConcatIs
  <2> QED
    BY <1>1, <1>3, <1>5, <2>1
<1>12. ASSUME Resumed(x) PROVE Replays(x, after, page[p].shown)
  <2>1. PICK shown : shown = page[p].shown
    OBVIOUS
  <2>2. Replays(k, l, shown)
    BY <1>3, <1>12, <2>1 DEF Resumed
  <2>3. k.cursor \in Nat /\ k.hello \in Nat /\ k.queue \in Seq(Framed(n, w) \union {NoMore})
        /\ k.ready \in Seq(Framed(n, w))
    BY <1>1 DEF Connections
  <2>4. Replays(k, after, shown)
    BY ONLY <1>6, <1>11, <2>2, <2>3, ReplaysGrow
  <2>5. NoWhole(new) /\ NoWhole(x.todo)
    BY <1>3, <2>2 DEF Replays
  <2>6. Line(k) \in Seq(G) /\ new \in Seq(G)
    <3>1. n \in Nat /\ m \in Nat /\ w \in Nat /\ w <= w /\ n <= m
      BY ONLY <1>1, <1>5
    <3>2. Framed(n, w) \subseteq F
      BY <1>5, <3>1, WiderTypes
    <3>3. Framed(n, w) \union {NoMore} \subseteq G /\ Framed(n, w) \subseteq G /\ F \subseteq G
      BY <1>5, <3>2
    <3>4. k.queue \in Seq(G) /\ k.ready \in Seq(G) /\ new \in Seq(G)
      BY ONLY <1>6, <2>3, <3>3, WiderSeq
    <3> QED
      BY ONLY <3>4 DEF Line
  <2>7. ASSUME NEW i, LastWhole(after, x.cursor, x.hello, i)
        PROVE  EndsAt(Line(x), shown, after[i].version)
    <3>1. EndsAt(Line(k), shown, after[i].version)
      BY <1>3, <2>4, <2>7 DEF Replays
    <3>2. EndsAt(Line(k) \o new, shown, after[i].version)
      BY ONLY <2>5, <2>6, <3>1, EndsLater
    <3> QED
      BY <1>3, <3>2
  <2>8. x.hello <= Len(after)
    BY <1>3, <2>4 DEF Replays
  <2> QED
    BY <2>1, <2>5, <2>7, <2>8 DEF Replays
<1>13. /\ Len(log') = m /\ world' = w /\ m \in Nat /\ Len(log) <= m
  BY <1>1, <1>3, <1>4, <1>5, <1>11
<1>14. /\ conn'[p] = x /\ \A q \in Pages : q # p => conn'[q] = conn[q]
       /\ DOMAIN conn' = Pages /\ conn' = [q \in Pages |-> conn'[q]]
  BY <1>4, StreamSizes
<1>15. ASSUME NEW q \in Pages
       PROVE  conn'[q] \in Connections(m, w) /\ Len(conn'[q].queue) <= MaxItems
  <2>1. CASE q = p
    <3>1. x \in Connections(m, w) /\ Len(x.queue) <= MaxItems
      BY ONLY <1>3, <1>5
    <3> QED
      BY ONLY <1>14, <2>1, <3>1
  <2>2. CASE q # p
    <3>1. m \in Nat /\ Len(log) <= m /\ w \in Nat /\ world <= w
      BY <1>1, <1>13
    <3>2. conn[q] \in Connections(m, w)
      BY <3>1, StaysTyped
    <3>3. Len(conn[q].queue) <= MaxItems
      BY StreamSizes
    <3> QED
      BY ONLY <1>14, <2>2, <3>2, <3>3
  <2> QED
    BY <2>1, <2>2
<1>16. conn' \in [Pages -> Connections(Len(log'), world')]
  BY <1>13, <1>14, <1>15
<1>17. page' \in [Pages -> [shown : 0 .. world', lastId : Nat]]
  BY StreamSizes
<1>18. ASSUME NEW q \in Pages, Resumed(conn'[q])
       PROVE  \/ conn'[q] = conn[q] /\ page'[q] = page[q]
              \/ Replays(conn'[q], log', page'[q].shown)
  BY <1>4, <1>12, <1>14, <1>18
<1>19. world' \in Nat /\ world <= world'
  BY <1>1
<1> QED
  BY <1>9, <1>10, <1>15, <1>16, <1>17, <1>18, <1>19, StreamGrows

\* The connection of one page changes, and with it what the page shows.
LEMMA PageKeeps ==
  ASSUME StreamInv, NEW p \in Pages, UNCHANGED <<world, log>>,
         NEW k, k \in Connections(Len(log), world), Len(k.queue) <= MaxItems,
         conn' = [conn EXCEPT ![p] = k],
         NEW shown, shown \in 0 .. world, \A q \in Pages : q # p => page'[q] = page[q],
         page' \in [Pages -> [shown : 0 .. world, lastId : Nat]], page'[p].shown = shown,
         Resumed(k) => Replays(k, log, shown)
  PROVE  StreamInv'
<1>1. /\ conn'[p] = k /\ \A q \in Pages : q # p => conn'[q] = conn[q]
      /\ conn' \in [Pages -> Connections(Len(log), world)]
      /\ \A q \in Pages : Len(conn'[q].queue) <= MaxItems
  BY StreamSizes
<1>2. StreamTypes'
  BY <1>1 DEF StreamInv, StreamTypes
<1>3. \A i \in 1 .. Len(log') : log'[i].id = i
  BY DEF StreamInv
<1>4. ASSUME NEW q \in Pages, Resumed(conn'[q])
      PROVE  Replays(conn'[q], log', page'[q].shown)
  <2>1. CASE q = p
    BY <1>1, <1>4, <2>1
  <2>2. CASE q # p
    <3>1. conn'[q] = conn[q] /\ page'[q] = page[q] /\ log' = log
      BY <1>1, <2>2
    <3> QED
      BY <1>4, <3>1 DEF StreamInv
  <2> QED
    BY <2>1, <2>2
<1> QED
  BY <1>2, <1>3, <1>4 DEF StreamInv

LEMMA DisconnectKeeps ==
  ASSUME StreamInv, NEW p \in Pages, Disconnects(p)
  PROVE  StreamInv'
<1>1. /\ conn' = [conn EXCEPT ![p] = NoConnection] /\ UNCHANGED <<world, log>> /\ page' = page
      /\ Len(log) \in Nat /\ world \in Nat
  BY StreamSizes DEF Disconnects
<1>2. /\ NoConnection \in Connections(Len(log), world)
      /\ Len(NoConnection.queue) <= MaxItems /\ ~Resumed(NoConnection)
  BY <1>1, Unconnected, StreamSizes DEF Resumed
<1> QED
  BY <1>1, <1>2, PageKeeps, StreamSizes

LEMMA CloseKeeps ==
  ASSUME StreamInv, NEW p \in Pages, QueueCloses(p)
  PROVE  StreamInv'
<1> PICK k, q, n, w, x : /\ k = conn[p] /\ q = k.queue /\ n = Len(log) /\ w = world
                         /\ x = [k EXCEPT !.closed = TRUE, !.ready = <<>>, !.todo = <<>>,
                                          !.queue = Append(Tail(@), NoMore)]
  OBVIOUS
<1>1. /\ k \in Connections(n, w) /\ Len(q) = MaxItems /\ MaxItems \in Nat \ {0, 1}
      /\ conn' = [conn EXCEPT ![p] = x] /\ UNCHANGED <<world, log>> /\ page' = page
  <2>1. conn' = [conn EXCEPT ![p].closed = TRUE, ![p].ready = <<>>, ![p].todo = <<>>,
                             ![p].queue = Append(Tail(@), NoMore)]
    BY DEF QueueCloses
  <2>2. conn' = [conn EXCEPT ![p] = x]
    BY <2>1, StreamSizes DEF Connections
  <2> QED
    BY <2>2, StreamSizes DEF QueueCloses
<1>2. q \in Seq(Framed(n, w) \union {NoMore}) /\ q # <<>>
  BY <1>1 DEF Connections
<1>3. /\ Append(Tail(q), NoMore) \in Seq(Framed(n, w) \union {NoMore})
      /\ Len(Append(Tail(q), NoMore)) = MaxItems
  <2> PICK G, r : G = Framed(n, w) \union {NoMore} /\ r = Tail(q)
    OBVIOUS
  <2>1. r \in Seq(G) /\ Len(r) = Len(q) - 1
    BY <1>2, TailIs
  <2>2. NoMore \in G
    OBVIOUS
  <2>3. Append(r, NoMore) \in Seq(G) /\ Len(Append(r, NoMore)) = Len(r) + 1
    BY ONLY <2>1, <2>2, AppendIs
  <2> QED
    BY <1>1, <2>1, <2>3
<1>4. x \in Connections(n, w) /\ x.queue = Append(Tail(q), NoMore) /\ x.closed
  <2>1. TRUE \in BOOLEAN /\ <<>> \in Seq(Framed(n, w))
    OBVIOUS
  <2> QED
    BY <1>1, <1>3, <2>1 DEF Connections
<1>5. Len(x.queue) <= MaxItems /\ ~Resumed(x)
  BY <1>1, <1>3, <1>4 DEF Resumed
<1> QED
  BY <1>1, <1>4, <1>5, PageKeeps, StreamSizes

LEMMA PageReadsKeep ==
  ASSUME StreamInv, NEW p \in Pages, PageReads(p)
  PROVE  StreamInv'
<1> PICK k, q, f, n, w, sh : /\ k = conn[p] /\ q = k.queue /\ f = Head(q)
                             /\ n = Len(log) /\ w = world /\ sh = page[p].shown
  OBVIOUS
<1>1. /\ k \in Connections(n, w) /\ Len(q) <= MaxItems /\ n \in Nat /\ w \in Nat
      /\ sh \in 0 .. w /\ MaxItems \in Nat /\ page \in [Pages -> [shown : 0 .. w, lastId : Nat]]
      /\ conn \in [Pages -> Connections(n, w)]
  BY StreamSizes
<1>2. q \in Seq(Framed(n, w) \union {NoMore}) /\ k.ready \in Seq(Framed(n, w)) /\ q # <<>>
  BY <1>1 DEF Connections, PageReads
<1>3. UNCHANGED <<world, log>>
  BY DEF PageReads
<1>4. CASE f = NoMore
  <2>1. conn' = [conn EXCEPT ![p] = NoConnection] /\ page' = page
    BY <1>4 DEF PageReads
  <2>2. /\ NoConnection \in Connections(Len(log), world)
        /\ Len(NoConnection.queue) <= MaxItems /\ ~Resumed(NoConnection)
    BY <1>1, Unconnected DEF Resumed
  <2> QED
    BY <1>3, <2>1, <2>2, PageKeeps, StreamSizes
<1>5. CASE f # NoMore
  <2> PICK x, shown : /\ x = [k EXCEPT !.queue = Tail(q)]
                      /\ shown = IF f.kind = Whole THEN f.version ELSE sh
    OBVIOUS
  <2>1. Tail(q) \in Seq(Framed(n, w) \union {NoMore}) /\ Len(Tail(q)) = Len(q) - 1
        /\ Len(q) \in Nat /\ f = q[1] /\ 1 \in 1 .. Len(q)
    BY <1>2, TailIs
  <2>2. f \in Framed(n, w)
    BY <1>2, <1>5, <2>1
  <2>3. shown \in 0 .. w /\ f.id \in Nat
    BY <1>1, <2>2 DEF Framed
  <2>4. /\ conn' = [conn EXCEPT ![p].queue = Tail(@)]
        /\ page' = [page EXCEPT ![p].lastId = f.id, ![p].shown = IF f.kind = Whole THEN f.version ELSE @]
    BY <1>5 DEF PageReads, Whole
  <2>5. conn' = [conn EXCEPT ![p] = x]
    BY <1>1, <2>4 DEF Connections
  <2>6. /\ page' \in [Pages -> [shown : 0 .. w, lastId : Nat]] /\ page'[p].shown = shown
        /\ \A o \in Pages : o # p => page'[o] = page[o]
    <3>1. /\ DOMAIN page' = Pages /\ page' = [o \in Pages |-> page'[o]]
          /\ \A o \in Pages : o # p => page'[o] = page[o]
      BY <1>1, <2>4
    <3>2. page'[p] = [shown |-> shown, lastId |-> f.id]
      <4>1. CASE f.kind = Whole
        BY <1>1, <2>4, <4>1
      <4>2. CASE f.kind # Whole
        BY <1>1, <2>4, <4>2
      <4> QED
        BY <4>1, <4>2
    <3>3. page'[p] \in [shown : 0 .. w, lastId : Nat] /\ page'[p].shown = shown
      BY ONLY <2>3, <3>2
    <3> QED
      BY ONLY <1>1, <3>1, <3>3
  <2>7. /\ x \in Connections(n, w) /\ x.queue = Tail(q) /\ x.ready = k.ready /\ x.todo = k.todo
        /\ x.open = k.open /\ x.closed = k.closed /\ x.fresh = k.fresh
        /\ x.cursor = k.cursor /\ x.hello = k.hello
    BY <1>1, <2>1 DEF Connections
  <2>8. Len(x.queue) <= MaxItems
    BY <1>1, <2>1, <2>7
  <2>9. ASSUME Resumed(x) PROVE Replays(x, log, shown)
    <3>1. Replays(k, log, sh)
      <4>1. Resumed(k)
        BY <2>7, <2>9 DEF Resumed
      <4> QED
        BY <4>1 DEF StreamInv
    <3> PICK G : G = Framed(n, w) \union {NoMore}
      OBVIOUS
    <3>2. q \in Seq(G) /\ k.ready \in Seq(G) /\ q # <<>> /\ f = Head(q)
      <4>1. Framed(n, w) \subseteq G
        OBVIOUS
      <4> QED
        BY <1>2, <4>1, WiderSeq
    <3>3. /\ q \o k.ready # <<>> /\ Head(q \o k.ready) = f
          /\ Tail(q \o k.ready) = Tail(q) \o k.ready
      BY ONLY <3>2, HeadOfTwo
    <3>4. Line(k) \in Seq(G) /\ Line(k) # <<>> /\ Head(Line(k)) = f /\ Tail(Line(k)) = Line(x)
      <4>1. q \o k.ready \in Seq(G)
        BY ONLY <3>2
      <4> QED
        BY <2>7, <3>3, <4>1 DEF Line
    <3>5. ASSUME NEW i, LastWhole(log, x.cursor, x.hello, i)
          PROVE  EndsAt(Line(x), shown, log[i].version)
      <4>1. EndsAt(Line(k), sh, log[i].version)
        BY <2>7, <3>1, <3>5 DEF Replays
      <4>2. EndsAt(Tail(Line(k)), IF Head(Line(k)).kind = Whole THEN Head(Line(k)).version ELSE sh,
                   log[i].version)
        BY ONLY <3>4, <4>1, EndsRead
      <4> QED
        BY <3>4, <4>2
    <3> QED
      BY <2>7, <3>1, <3>5 DEF Replays
  <2>10. x \in Connections(Len(log), world) /\ page' \in [Pages -> [shown : 0 .. world, lastId : Nat]]
         /\ shown \in 0 .. world
    BY <2>3, <2>6, <2>7
  <2> QED
    BY <1>3, <2>5, <2>6, <2>8, <2>9, <2>10, PageKeeps
<1> QED
  BY <1>4, <1>5

LEMMA ResumeKeeps ==
  ASSUME StreamInv, NEW p \in Pages, ProducerResumes(p)
  PROVE  StreamInv'
<1>1. Added(Len(log), world, <<>>) /\ log \o <<>> = log
  BY NothingAdded
<1>2. /\ conn[p] \in Connections(Len(log), world) /\ Len(conn[p].queue) <= MaxItems
      /\ Resumed(conn[p]) => Replays(conn[p], log, page[p].shown)
  BY StreamSizes DEF StreamInv
<1>3. Puts(p, Pushed(conn[p], log)) /\ UNCHANGED <<world, page>>
  BY DEF ProducerResumes
<1> QED
  BY <1>1, <1>2, <1>3, PutsKeeps

LEMMA TickKeeps ==
  ASSUME StreamInv, NEW p \in Pages, Ticks(p)
  PROVE  StreamInv'
<1> PICK k, n, w, frames, x :
      /\ k = conn[p] /\ n = Len(log) /\ w = world /\ frames = TickFrames(k.last)
      /\ x = [k EXCEPT !.todo = frames, !.last = w, !.fresh = @ \/ w # k.last]
  OBVIOUS
<1>1. k \in Connections(n, w) /\ Len(k.queue) <= MaxItems /\ n \in Nat /\ w \in Nat
  BY StreamSizes
<1>2. Puts(p, Pushed(x, log)) /\ UNCHANGED <<world, page>>
  BY DEF Ticks
<1>3. frames \in Seq(Framed(n, w)) /\ (w = k.last => NoWhole(frames))
  <2>1. /\ Heartbeat \in Framed(n, w) /\ Delta(w) \in Framed(n, w) /\ Snapshot(w) \in Framed(n, w)
        /\ Heartbeat.kind # Whole
    BY <1>1 DEF Heartbeat, Delta, Snapshot, Framed, Kinds, NoFrame, Whole
  <2>2. CASE w = k.last
    <3>1. frames = <<Heartbeat>>
      BY <2>2 DEF TickFrames
    <3> QED
      BY <2>1, <3>1 DEF NoWhole
  <2>3. CASE w # k.last
    <3>1. frames = <<Delta(w), Snapshot(w), Heartbeat>>
      BY <2>3 DEF TickFrames
    <3> QED
      BY <2>1, <2>3, <3>1
  <2> QED
    BY <2>2, <2>3
<1>4. /\ x.queue = k.queue /\ x.ready = k.ready /\ x.todo = frames /\ x.open = k.open
      /\ x.closed = k.closed /\ x.cursor = k.cursor /\ x.hello = k.hello
      /\ x.fresh = (k.fresh \/ w # k.last)
  BY <1>1 DEF Connections
<1>5. x \in Connections(n, w)
  <2>1. (k.fresh \/ w # k.last) \in BOOLEAN /\ w \in 0 .. w
    BY <1>1
  <2> QED
    BY <1>1, <1>3, <2>1 DEF Connections
<1>6. ASSUME Resumed(x) PROVE Replays(x, log, page[p].shown)
  <2>1. Resumed(k) /\ w = k.last
    BY <1>4, <1>6 DEF Resumed
  <2>2. Replays(k, log, page[p].shown)
    BY <2>1 DEF StreamInv
  <2>3. NoWhole(x.todo) /\ Line(x) = Line(k)
    BY <1>3, <1>4, <2>1 DEF Line
  <2> QED
    BY <1>4, <2>2, <2>3 DEF Replays
<1>7. Added(Len(log), world, <<>>) /\ log = log \o <<>>
  BY NothingAdded
<1>8. x \in Connections(Len(log), world) /\ Len(x.queue) <= MaxItems
  BY <1>1, <1>4, <1>5
<1> QED
  BY <1>2, <1>6, <1>7, <1>8, PutsKeeps

LEMMA EndsEarlier ==
  ASSUME NEW S, NEW pre \in Seq(S), NEW line \in Seq(S), NoWhole(pre),
         NEW shown, NEW v, EndsAt(line, shown, v)
  PROVE  EndsAt(pre \o line, shown, v)
<1>1. PICK n \in Nat, m \in Nat, all \in Seq(S) :
        /\ n = Len(pre) /\ m = Len(line) /\ all = pre \o line /\ Len(all) = n + m
        /\ \A i \in 1 .. n : all[i] = pre[i]
        /\ \A i \in 1 .. m : all[n + i] = line[i]
  <2>1. /\ pre \o line \in Seq(S) /\ Len(pre \o line) = Len(pre) + Len(line)
        /\ Len(pre) \in Nat /\ Len(line) \in Nat
        /\ \A i \in 1 .. Len(pre) : (pre \o line)[i] = pre[i]
        /\ \A i \in 1 .. Len(line) : (pre \o line)[Len(pre) + i] = line[i]
    BY ConcatIs
  <2> QED
    BY <2>1
<1>2. ASSUME NEW b \in 1 .. n + m, b > n
      PROVE  \E c \in 1 .. m : b = n + c /\ all[b] = line[c]
  <2>1. b - n \in 1 .. m /\ n + (b - n) = b
    BY <1>2
  <2> QED
    BY <1>1, <2>1
<1>3. CASE \E a \in 1 .. Len(line) :
             /\ line[a].kind = Whole /\ line[a].version = v
             /\ \A b \in a + 1 .. Len(line) : line[b].kind # Whole
  <2>1. PICK a \in 1 .. m : /\ line[a].kind = Whole /\ line[a].version = v
                            /\ \A b \in a + 1 .. m : line[b].kind # Whole
    BY <1>1, <1>3
  <2>2. n + a \in 1 .. Len(all) /\ all[n + a] = line[a]
    BY <1>1
  <2>3. ASSUME NEW b \in n + a + 1 .. Len(all) PROVE all[b].kind # Whole
    <3>1. b \in 1 .. n + m /\ b > n
      BY <1>1
    <3>2. PICK c \in 1 .. m : b = n + c /\ all[b] = line[c]
      BY <1>2, <3>1
    <3>3. c \in a + 1 .. m
      BY <3>2
    <3> QED
      BY <2>1, <3>2, <3>3
  <2>4. EndsAt(all, shown, v)
    BY <2>1, <2>2, <2>3 DEF EndsAt
  <2> QED
    BY <1>1, <2>4
<1>4. CASE (\A a \in 1 .. Len(line) : line[a].kind # Whole) /\ shown = v
  <2>1. ASSUME NEW b \in 1 .. Len(all) PROVE all[b].kind # Whole
    <3>1. CASE b <= n
      <4>1. b \in 1 .. n
        BY <1>1, <3>1
      <4> QED
        BY <1>1, <4>1 DEF NoWhole
    <3>2. CASE b > n
      <4>1. b \in 1 .. n + m
        BY <1>1
      <4>2. PICK c \in 1 .. m : b = n + c /\ all[b] = line[c]
        BY <1>2, <3>2, <4>1
      <4> QED
        BY <1>1, <1>4, <4>2
    <3> QED
      BY <1>1, <3>1, <3>2
  <2>2. EndsAt(all, shown, v)
    BY <1>4, <2>1 DEF EndsAt
  <2> QED
    BY <1>1, <2>2
<1> QED
  BY <1>3, <1>4 DEF EndsAt

\* The replay ends with the last snapshot after the cursor, if there is one.
LEMMA ReplayIs ==
  ASSUME NEW n \in Nat, NEW w \in Nat, NEW l \in Seq(Framed(n, w)), Len(l) = n,
         \A i \in 1 .. n : l[i].id = i, NEW cursor \in Nat, ~Gap(l, cursor), NEW shown
  PROVE  /\ Replay(l, cursor) \in Seq(Framed(n, w))
         /\ \A i : LastWhole(l, cursor, n, i) => EndsAt(Replay(l, cursor), shown, l[i].version)
<1>1. PICK first \in Nat : first = FirstKept(l) /\ first >= 1 /\ first <= cursor
  <2>1. FirstKept(l) \in Nat /\ FirstKept(l) >= 1
    BY StreamAssumption DEF FirstKept
  <2> QED
    BY <2>1 DEF Gap
<1>2. PICK I : I = {i \in first .. n : l[i].id > cursor
                                        /\ l[i].kind \notin {"studio.hello", "studio.heartbeat"}}
  OBVIOUS
<1>3. Replay(l, cursor) = Selected(l, I)
  BY <1>1, <1>2 DEF Replay
<1>4. I \in SUBSET (1 .. n)
  BY <1>1, <1>2
<1>5. PICK e : Lists(e, I)
  BY <1>4, ListExists DEF Listed
<1> PICK c, r : c = Len(e) /\ r = [a \in 1 .. c |-> l[e[a]]]
  OBVIOUS
<1>6. c = Len(e) /\ r = [a \in 1 .. c |-> l[e[a]]] /\ c \in Nat
  BY <1>5 DEF Lists
<1>7. Replay(l, cursor) = r
  <2>1. Selected(l, I) = [a \in 1 .. Len(e) |-> l[e[a]]]
    BY ONLY <1>5, SelectedIs
  <2> QED
    BY ONLY <1>3, <1>6, <2>1
<1>8. r \in Seq(Framed(n, w)) /\ Len(r) = c
  <2>1. \A a \in 1 .. c : l[e[a]] \in Framed(n, w)
    BY <1>4, <1>5, <1>6 DEF Lists
  <2>2. r \in [1 .. c -> Framed(n, w)]
    BY <1>6, <2>1
  <2> QED
    BY ONLY <2>2, c \in Nat, FunctionIsSeq
<1>9. ASSUME NEW i, LastWhole(l, cursor, n, i) PROVE EndsAt(r, shown, l[i].version)
  <2>1. i \in cursor + 1 .. n /\ l[i].kind = Whole /\ \A j \in i + 1 .. n : l[j].kind # Whole
    BY <1>9 DEF LastWhole
  <2>2. i \in first .. n /\ l[i].id > cursor
    BY <1>1, <2>1
  <2>3. i \in I
    BY <1>2, <2>1, <2>2 DEF Whole
  <2>4. PICK a \in 1 .. c : e[a] = i
    BY <1>5, <1>6, <2>3 DEF Lists
  <2>5. r[a] = l[i]
    BY <1>6, <2>4
  <2>6. ASSUME NEW b \in a + 1 .. c PROVE r[b].kind # Whole
    <3>1. b \in 1 .. c /\ a < b
      OBVIOUS
    <3>2. r[b] = l[e[b]] /\ e[b] \in I /\ e[a] < e[b]
      BY <1>5, <1>6, <3>1 DEF Lists
    <3>3. e[b] \in i + 1 .. n
      <4>1. e[b] \in 1 .. n
        BY <1>4, <3>2
      <4>2. i < e[b]
        BY ONLY <2>4, <3>2
      <4>3. i \in Nat
        BY ONLY <2>1, n \in Nat, cursor \in Nat
      <4> QED
        BY ONLY <4>1, <4>2, <4>3, n \in Nat
    <3> QED
      BY <2>1, <3>2, <3>3
  <2> QED
    BY <1>8, <2>1, <2>5, <2>6 DEF EndsAt
<1> QED
  BY <1>7, <1>8, <1>9

\* A connection starts with a frame of its own, which is not a snapshot.
LEMMA HelloIs ==
  ASSUME StreamInv, NEW hello, hello = Numbered(log, <<Hello>>), NEW l, l = log \o hello
  PROVE  /\ Added(Len(log), world, hello) /\ NoWhole(hello) /\ Len(hello) = 1
         /\ Len(l) \in Nat /\ Len(log) <= Len(l) /\ l \in Seq(Framed(Len(l), world))
         /\ hello \in Seq(Framed(Len(l), world))
         /\ \A i \in 1 .. Len(l) : l[i].id = i
<1> PICK n, w, old : n = Len(log) /\ w = world /\ old = log
  OBVIOUS
<1>1. /\ n \in Nat /\ w \in Nat /\ w <= w /\ old \in Seq(Framed(n, w)) /\ Len(old) = n
      /\ \A i \in 1 .. n : old[i].id = i
  BY StreamSizes DEF StreamInv
<1>2. <<Hello>> \in Seq(Framed(0, w)) /\ Len(<<Hello>>) = 1 /\ <<Hello>>[1].kind # Whole
  <2>1. Hello \in Framed(0, w) /\ Hello.kind # Whole
    BY <1>1 DEF Hello, Framed, Kinds, NoFrame, Whole
  <2> QED
    BY <2>1
<1>3. /\ hello \in Seq(Framed(n + 1, w)) /\ Len(hello) = 1
      /\ hello[1].id = n + 1 /\ hello[1].kind # Whole
  <2> PICK one : one = <<Hello>>
    OBVIOUS
  <2>1. one \in Seq(Framed(0, w)) /\ Len(one) = 1 /\ one[1].kind # Whole
    BY <1>2
  <2>2. /\ n \in Nat /\ 0 \in Nat /\ w \in Nat /\ Len(old) = n
        /\ one \in Seq(Framed(0, w))
    BY <1>1, <2>1
  <2>3. /\ Len(one) \in Nat
        /\ Numbered(old, one) \in Seq(Framed(n + Len(one), w))
        /\ Len(Numbered(old, one)) = Len(one)
        /\ \A i \in 1 .. Len(one) : /\ Numbered(old, one)[i].id = n + i
                                    /\ Numbered(old, one)[i].kind = one[i].kind
                                    /\ Numbered(old, one)[i].version = one[i].version
    BY ONLY <2>2, NumberedIs
  <2>4. hello = Numbered(old, one) /\ 1 \in 1 .. Len(one)
    BY <2>1
  <2> QED
    BY ONLY <2>1, <2>3, <2>4
<1>4. Added(n, w, hello) /\ NoWhole(hello)
  BY <1>3 DEF Added, NoWhole
<1>5. /\ Len(old \o hello) = n + Len(hello) /\ n <= Len(old \o hello)
      /\ Len(old \o hello) \in Nat
      /\ old \o hello \in Seq(Framed(Len(old \o hello), w))
      /\ \A i \in 1 .. Len(old \o hello) : (old \o hello)[i].id = i
  <2>1. Grown(n, w, old, hello, old \o hello)
    BY ONLY <1>1, <1>4, LogGrows
  <2> QED
    BY ONLY <2>1 DEF Grown
<1>6. l = old \o hello /\ n = Len(log) /\ w = world
  OBVIOUS
<1>7. Len(l) = n + 1
  BY <1>3, <1>5, <1>6
<1>8. hello \in Seq(Framed(Len(l), world))
  BY <1>3, <1>6, <1>7
<1> QED
  BY <1>3, <1>4, <1>5, <1>6, <1>8

LEMMA ConnectsKeep ==
  ASSUME StreamInv, NEW p \in Pages, NEW online, Connects(p, online)
  PROVE  StreamInv'
<1> PICK cursor, hello, l, w, m, k :
      /\ cursor = page[p].lastId /\ hello = Numbered(log, <<Hello>>) /\ l = log \o hello
      /\ w = world /\ m = Len(l)
      /\ k = [NoConnection EXCEPT !.open = TRUE, !.closed = FALSE, !.last = w,
                                  !.cursor = cursor, !.hello = m]
  OBVIOUS
<1>1. UNCHANGED <<world, page>>
  BY DEF Connects
<1>2. \/ Puts(p, [conn |-> [k EXCEPT !.queue = hello \o <<NoMore>>, !.closed = TRUE], log |-> l])
      \/ Puts(p, Pushed([k EXCEPT !.ready = hello, !.todo = <<Snapshot(w)>>, !.fresh = TRUE], l))
      \/ ~Gap(l, cursor) /\ Puts(p, Pushed([k EXCEPT !.ready = hello \o Replay(l, cursor)], l))
  BY DEF Connects
<1>3. /\ Added(Len(log), world, hello) /\ NoWhole(hello) /\ Len(hello) = 1
      /\ m \in Nat /\ Len(log) <= m /\ l \in Seq(Framed(m, w))
      /\ hello \in Seq(Framed(m, w)) /\ Len(l) = m
      /\ \A i \in 1 .. m : l[i].id = i
  BY HelloIs
<1>4. w \in Nat /\ w \in 0 .. w /\ cursor \in Nat /\ MaxItems \in Nat /\ MaxItems >= 2
  BY StreamSizes
<1>5. /\ TRUE \in BOOLEAN /\ FALSE \in BOOLEAN /\ <<>> \in Seq(Framed(m, w))
      /\ <<>> \in Seq(Framed(m, w) \union {NoMore}) /\ Len(<<>>) = 0
  OBVIOUS
<1>6. k = [open |-> TRUE, closed |-> FALSE, queue |-> <<>>, ready |-> <<>>, todo |-> <<>>,
           last |-> w, cursor |-> cursor, hello |-> m, fresh |-> FALSE]
  BY DEF NoConnection
<1>10. /\ k \in Connections(m, w) /\ k.open /\ ~k.closed /\ k.queue = <<>> /\ k.ready = <<>>
       /\ k.todo = <<>> /\ k.cursor = cursor /\ k.hello = m
  BY ONLY <1>3, <1>4, <1>5, <1>6 DEF Connections
<1>7. CASE Puts(p, [conn |-> [k EXCEPT !.queue = hello \o <<NoMore>>, !.closed = TRUE], log |-> l])
  <2> PICK x, q : q = hello \o <<NoMore>> /\ x = [k EXCEPT !.queue = q, !.closed = TRUE]
    OBVIOUS
  <2>1. q \in Seq(Framed(m, w) \union {NoMore}) /\ Len(q) = 2
    <3>1. hello \in Seq(Framed(m, w) \union {NoMore})
      <4>1. Framed(m, w) \subseteq Framed(m, w) \union {NoMore}
        OBVIOUS
      <4> QED
        BY <1>3, <4>1, WiderSeq
    <3> PICK G, last : G = Framed(m, w) \union {NoMore} /\ last = <<NoMore>>
      OBVIOUS
    <3>2. last \in Seq(G) /\ Len(last) = 1 /\ q = hello \o last
      OBVIOUS
    <3>3. hello \in Seq(G)
      BY <3>1
    <3>4. q \in Seq(G) /\ Len(q) = Len(hello) + Len(last)
      BY ONLY <3>2, <3>3, ConcatIs
    <3>5. Len(q) = 2
      BY ONLY <1>3, <3>2, <3>4
    <3> QED
      BY ONLY <3>4, <3>5, G = Framed(m, w) \union {NoMore}
  <2>3. x \in Connections(m, w) /\ x.queue = q /\ x.closed
    <3>1. x = [k EXCEPT !.queue = q, !.closed = TRUE]
      OBVIOUS
    <3> QED
      BY ONLY <1>5, <1>10, <2>1, <3>1 DEF Connections
  <2>4. Len(x.queue) <= MaxItems /\ ~Resumed(x)
    BY <1>4, <2>1, <2>3 DEF Resumed
  <2>5. conn' = [conn EXCEPT ![p] = x] /\ log' = l
    BY <1>7 DEF Puts
  <2>6. conn'[p] = x /\ \A o \in Pages : o # p => conn'[o] = conn[o]
    BY <2>5, StreamSizes
  <2>7. DOMAIN conn' = Pages /\ conn' = [o \in Pages |-> conn'[o]]
    BY <2>5, StreamSizes
  <2>8. ASSUME NEW o \in Pages
        PROVE  conn'[o] \in Connections(m, w) /\ Len(conn'[o].queue) <= MaxItems
    <3>1. conn[o] \in Connections(m, w) /\ Len(conn[o].queue) <= MaxItems
      <4>1. m \in Nat /\ Len(log) <= m /\ w \in Nat /\ world <= w
        BY <1>3, <1>4
      <4> QED
        BY <4>1, StaysTyped, StreamSizes
    <3> QED
      BY <2>3, <2>4, <2>6, <3>1
  <2>9. conn' \in [Pages -> Connections(Len(log'), world')]
    BY <1>1, <2>5, <2>7, <2>8
  <2>10. /\ world' \in Nat /\ world <= world' /\ Added(Len(log), world', hello)
         /\ log' = log \o hello /\ page' \in [Pages -> [shown : 0 .. world', lastId : Nat]]
    BY <1>1, <1>3, <1>4, <2>5, StreamSizes
  <2>11. \A o \in Pages : Resumed(conn'[o]) => conn'[o] = conn[o] /\ page'[o] = page[o]
    BY <1>1, <2>4, <2>6
  <2> QED
    BY <2>8, <2>9, <2>10, <2>11, StreamGrows
<1>8. CASE Puts(p, Pushed([k EXCEPT !.ready = hello, !.todo = <<Snapshot(w)>>, !.fresh = TRUE], l))
  <2> PICK x : x = [k EXCEPT !.ready = hello, !.todo = <<Snapshot(w)>>, !.fresh = TRUE]
    OBVIOUS
  <2>1. <<Snapshot(w)>> \in Seq(Framed(m, w))
    <3>1. Snapshot(w) \in Framed(m, w)
      BY <1>3, <1>4 DEF Snapshot, Framed, Kinds, NoFrame, Whole
    <3> QED
      BY <3>1
  <2>3. x \in Connections(m, w) /\ x.queue = <<>> /\ x.fresh
    <3>1. PICK todo : todo = <<Snapshot(w)>>
      OBVIOUS
    <3>2. x = [k EXCEPT !.ready = hello, !.todo = todo, !.fresh = TRUE] /\ todo \in Seq(Framed(m, w))
      BY <2>1, <3>1
    <3> QED
      BY ONLY <1>3, <1>5, <1>10, <3>2 DEF Connections
  <2>4. x \in Connections(Len(l), world) /\ Len(x.queue) <= MaxItems /\ ~Resumed(x)
    BY <1>4, <1>5, <2>3 DEF Resumed
  <2>5. Puts(p, Pushed(x, l)) /\ l = log \o hello
    BY <1>8
  <2> QED
    BY <1>1, <1>3, <2>4, <2>5, PutsKeeps
<1>9. CASE ~Gap(l, cursor) /\ Puts(p, Pushed([k EXCEPT !.ready = hello \o Replay(l, cursor)], l))
  <2> PICK x, r, shown : /\ r = Replay(l, cursor) /\ x = [k EXCEPT !.ready = hello \o r]
                         /\ shown = page[p].shown
    OBVIOUS
  <2>1. /\ r \in Seq(Framed(m, w))
        /\ \A i : LastWhole(l, cursor, m, i) => EndsAt(r, shown, l[i].version)
    <3>1. /\ m \in Nat /\ w \in Nat /\ l \in Seq(Framed(m, w)) /\ Len(l) = m
          /\ \A i \in 1 .. m : l[i].id = i
          /\ cursor \in Nat /\ ~Gap(l, cursor)
      BY <1>3, <1>4, <1>9
    <3>2. /\ Replay(l, cursor) \in Seq(Framed(m, w))
          /\ \A i : LastWhole(l, cursor, m, i) => EndsAt(Replay(l, cursor), shown, l[i].version)
      BY ONLY <3>1, ReplayIs
    <3>3. r = Replay(l, cursor)
      OBVIOUS
    <3> QED
      BY ONLY <3>2, <3>3
  <2>2. hello \o r \in Seq(Framed(m, w))
    BY ONLY <1>3, <2>1, ConcatIs
  <2>4. /\ x \in Connections(m, w) /\ x.queue = <<>> /\ x.todo = <<>> /\ x.ready = hello \o r
        /\ x.cursor = cursor /\ x.hello = m
    <3>1. x = [k EXCEPT !.ready = hello \o r]
      OBVIOUS
    <3> QED
      BY ONLY <1>10, <2>2, <3>1 DEF Connections
  <2>5. Line(x) = hello \o r
    <3>1. ASSUME NEW S, NEW s \in Seq(S) PROVE <<>> \o s = s
      OBVIOUS
    <3>2. <<>> \o (hello \o r) = hello \o r
      BY ONLY <2>2, <3>1
    <3> QED
      BY ONLY <2>4, <3>2 DEF Line
  <2>6. ASSUME NEW i, LastWhole(l, x.cursor, x.hello, i)
        PROVE  EndsAt(Line(x), shown, l[i].version)
    <3>1. EndsAt(r, shown, l[i].version)
      BY <2>1, <2>4, <2>6
    <3>2. EndsAt(hello \o r, shown, l[i].version)
      BY ONLY <1>3, <2>1, <3>1, EndsEarlier
    <3> QED
      BY ONLY <2>5, <3>2
  <2>7. Replays(x, l, shown)
    <3>1. NoWhole(x.todo)
      BY <1>5, <2>4 DEF NoWhole
    <3>2. x.hello <= Len(l)
      BY <1>3, <2>4
    <3> QED
      BY <2>6, <3>1, <3>2 DEF Replays
  <2>8. x \in Connections(Len(l), world) /\ Len(x.queue) <= MaxItems
    BY <1>4, <1>5, <2>4
  <2>9. Puts(p, Pushed(x, l)) /\ l = log \o hello
    BY <1>9
  <2> QED
    BY <1>1, <1>3, <2>7, <2>8, <2>9, PutsKeeps
<1> QED
  BY <1>2, <1>7, <1>8, <1>9

LEMMA StreamStepKeeps ==
  ASSUME StreamInv, [BackendNext]_backendVars
  PROVE  StreamInv'
<1>1. CASE Activation \/ Request
  <2>1. Publishes /\ PagesUntouched
    BY <1>1 DEF Activation, Request
  <2> QED
    BY <2>1, PublishKeeps DEF PagesUntouched
<1>2. CASE TeamWorks
  BY <1>2, WorksKeep DEF TeamWorks, PagesUntouched
<1>3. CASE Stream
  <2>1. StreamStep(active # NoObject)
    BY <1>3 DEF Stream
  <2> QED
    BY <2>1, ConnectsKeep, TickKeeps, ResumeKeeps, CloseKeeps, PageReadsKeep, DisconnectKeeps
       DEF StreamStep
<1>4. CASE Restart
  BY <1>4, RestartsStream DEF Restart
<1>5. CASE UNCHANGED streamVars
  <2>1. UNCHANGED <<conn, page>> /\ log' = log /\ world' = world
    BY <1>5 DEF streamVars
  <2>2. Added(Len(log), world', <<>>) /\ log' = log \o <<>>
    BY <2>1, NothingAdded
  <2>3. world' \in Nat /\ world <= world'
    BY <2>1, StreamSizes
  <2> QED
    BY <2>1, <2>2, <2>3, QuietStream
<1> QED
  BY <1>1, <1>2, <1>3, <1>4, <1>5 DEF BackendNext, backendVars, Terminal, CommandLine

LEMMA StreamHolds == BackendSpec => []StreamInv
<1>1. BackendInit => StreamInv
  BY StreamStarts DEF BackendInit
<1>2. StreamInv /\ [BackendNext]_backendVars => StreamInv'
  BY StreamStepKeeps
<1> QED
  BY <1>1, <1>2, PTL DEF BackendSpec

\* What a page that resumed shows is what the buffer says, whatever was published and dropped
\* between its connections and after its hello, whatever the sizes of the buffer and of the
\* queue, and however often connections are closed or lost and the backend restarts.
THEOREM ResumedPageShowsLastSnapshotCorrect == BackendSpec => []ResumedPageShowsLastSnapshot
<1>1. StreamInv => ResumedPageShowsLastSnapshot
  <2> SUFFICES ASSUME StreamInv, NEW p \in Pages, conn[p].open, ~conn[p].closed, ~conn[p].fresh,
                      conn[p].ready = <<>>, conn[p].queue = <<>>,
                      NEW i \in conn[p].cursor + 1 .. conn[p].hello, log[i].kind = Whole,
                      \A j \in i + 1 .. conn[p].hello : log[j].kind # Whole
               PROVE  page[p].shown = log[i].version
    BY DEF ResumedPageShowsLastSnapshot, Whole
  <2>1. Replays(conn[p], log, page[p].shown)
    BY DEF StreamInv, Resumed
  <2>2. LastWhole(log, conn[p].cursor, conn[p].hello, i)
    BY DEF LastWhole
  <2>3. EndsAt(Line(conn[p]), page[p].shown, log[i].version)
    BY <2>1, <2>2 DEF Replays
  <2>4. Line(conn[p]) = <<>>
    <3>1. <<>> \o <<>> = <<>>
      OBVIOUS
    <3> QED
      BY <3>1 DEF Line
  <2>5. Len(Line(conn[p])) = 0
    BY <2>4
  <2> QED
    BY <2>3, <2>5 DEF EndsAt
<1> QED
  BY <1>1, StreamHolds, PTL

----------------------------------------------------------------------------
(* The types of the parts.                                                  *)

EntryTypes ==
  /\ \A p \in DOMAIN lock : /\ lock[p].integrity \in [Within(p) -> Contents]
                            /\ lock[p].skills \in [Skills -> Commits \union {None}]
  /\ readable \in BOOLEAN
  /\ damaged \subseteq Packages \union Skills

LEMMA OverlappingPackages ==
  ASSUME NEW p \in Packages
  PROVE  Overlapping(p) \subseteq Packages /\ Within(p) \subseteq Packages
BY PackagesAssumption DEF Overlapping, Within

LEMMA InstallWritesTypes ==
  ASSUME IntactInv, EntryTypes, InstallWritesLock
  PROVE  EntryTypes'
<1> PICK p, r, entry : /\ p = command.package /\ r = command.release
                       /\ entry = EntryOf(command.package, command.release)
  OBVIOUS
<1>1. /\ lock' = [q \in DOMAIN lock \union {p} |-> IF q = p THEN entry ELSE lock[q]]
      /\ readable' = TRUE /\ damaged' \subseteq damaged
  BY DEF InstallWritesLock, WritesLock
<1>2. r \in Releases /\ p \in Packages
  BY PackagesAssumption
     DEF IntactInv, CommandInv, Installing, InstallInv, InstallWritesLock, WritesLock, At
<1>3. entry.integrity \in [Within(p) -> Contents] /\ entry.skills \in [Skills -> Commits \union {None}]
  <2>1. tree \in [Packages -> Contents] /\ Within(p) \subseteq Packages
    BY <1>2, OverlappingPackages DEF IntactInv, PackageTypes
  <2>2. entry.integrity = [q \in Within(p) |-> tree[q]] /\ entry.skills = SkillsOf[r]
    BY DEF EntryOf, HashOf
  <2> QED
    BY <1>2, <2>1, <2>2, PackagesAssumption
<1> QED
  BY <1>1, <1>3 DEF EntryTypes

LEMMA CommandsKeepTypes ==
  ASSUME IntactInv, EntryTypes, PackagesNext
  PROVE  EntryTypes'
<1>1. CASE UNCHANGED <<lock, readable, damaged>>
  BY <1>1 DEF EntryTypes
<1>2. CASE InstallCommand \/ UpdateCommand \/ UpdatesNext \/ UpdateGivesUp \/ CopiesTree
  BY <1>1, <1>2 DEF InstallCommand, UpdateCommand, UpdatesNext, UpdateGivesUp, CopiesTree
<1>3. CASE RemovesSkill \/ CopiesSkill \/ UninstallCommand \/ RemovesUnusedSkill \/ UninstallEnds
  BY <1>1, <1>3 DEF RemovesSkill, CopiesSkill, UninstallCommand, RemovesUnusedSkill, UninstallEnds
<1>4. CASE TrustCommand \/ TrustCut \/ \E p \in Packages : Instantiate(p)
  BY <1>1, <1>4 DEF TrustCommand, TrustCut, Instantiate
<1>5. CASE InstallOpensLock \/ UninstallOpensLock
  <2>1. readable' = FALSE /\ UNCHANGED <<lock, damaged>>
    BY <1>5 DEF InstallOpensLock, UninstallOpensLock, OpensLock
  <2> QED
    BY <2>1 DEF EntryTypes
<1>6. CASE UninstallWritesLock \/ DeleteLock
  <2>1. /\ readable' = TRUE /\ damaged' = damaged
        /\ DOMAIN lock' \subseteq DOMAIN lock /\ \A q \in DOMAIN lock' : lock'[q] = lock[q]
    BY <1>6 DEF UninstallWritesLock, WritesLock, DeleteLock
  <2> QED
    BY <2>1 DEF EntryTypes
<1>7. CASE RemovesTree \/ RemovesPackage
  <2>1. /\ UNCHANGED <<lock, readable>> /\ damaged' = damaged \union Overlapping(command.package)
    BY <1>7 DEF RemovesTree, RemovesPackage
  <2>2. command.package \in Packages
    BY <1>7, PackagesAssumption
       DEF IntactInv, CommandInv, Installing, InstallInv, RemovesTree, RemovesPackage, At
  <2> QED
    BY <2>1, <2>2, OverlappingPackages DEF EntryTypes
<1>8. CASE CutCommand
  <2>1. /\ UNCHANGED <<lock, readable>>
        /\ damaged' = damaged \union command.begun \union
                        IF At("rmtree") THEN Overlapping(command.package) ELSE {}
    BY <1>8 DEF CutCommand
  <2>2. command.begun \subseteq Packages \union Skills
    BY DEF IntactInv, PackageTypes, CommandRecords
  <2>3. At("rmtree") => command.package \in Packages
    BY DEF At, IntactInv, CommandInv
  <2> QED
    BY <2>1, <2>2, <2>3, OverlappingPackages DEF EntryTypes
<1> QED
  BY <1>2, <1>3, <1>4, <1>5, <1>6, <1>7, <1>8, InstallWritesTypes DEF PackagesNext

LEMMA EntriesStep ==
  ASSUME IntactInv, EntryTypes, [BackendNext]_backendVars
  PROVE  EntryTypes'
<1>1. CASE UNCHANGED <<lock, readable, damaged>>
  BY <1>1 DEF EntryTypes
<1>2. CASE Activation
  <2>1. PICK c \in Conversations : Loads(TeamOf[c])
    BY <1>2 DEF Activation
  <2> QED
    BY <1>1, <2>1 DEF Loads, Instantiate, packageVars
<1>3. CASE CommandLine
  BY <1>3, CommandsKeepTypes DEF CommandLine
<1>4. CASE Request \/ TeamWorks \/ Stream \/ Terminal \/ Restart
  BY <1>1, <1>4 DEF Request, TeamWorks, Stream, Terminal, Restart, packageVars
<1>5. CASE UNCHANGED backendVars
  BY <1>1, <1>5 DEF backendVars, packageVars
<1> QED
  BY <1>2, <1>3, <1>4, <1>5 DEF BackendNext

LEMMA StreamTyped ==
  ASSUME StreamInv
  PROVE  StreamTypeOK
<1>1. Frames = Framed(Len(log), world)
  <2>1. {"studio.hello", "studio.heartbeat", "delta", "snapshot.replace"} = Kinds
    BY DEF Kinds, Whole
  <2> QED
    BY <2>1 DEF Frames, Framed
<1>2. \A p \in Pages : /\ conn[p].last \in 0 .. world
                       /\ conn[p].ready \in Seq(Framed(Len(log), world))
                       /\ conn[p].todo \in Seq(Framed(Len(log), world))
  BY StreamSizes DEF Connections
<1>3. \A p \in Pages : conn[p].last <= world /\ page[p].shown <= world
  BY <1>2, StreamSizes
<1> QED
  BY <1>1, <1>2, <1>3, StreamSizes DEF StreamTypeOK

LEMMA TerminalTyped ==
  ASSUME TerminalInv
  PROVE  TerminalTypeOK
<1> USE DEF TerminalInv
<1>1. PICK n \in Nat : chunks = ChunksOf(0, n) /\ n <= shell.printed + 1
  BY DEF PrintsInOrder
<1> PICK m, q, r, u : /\ m = shell.printed /\ q = shell.pipe /\ u = unread /\ r = chunks
  OBVIOUS
<1>2. /\ m \in Nat /\ q \in Seq(Nat) /\ u \in Seq(Nat)
      /\ Len(q) \in Nat /\ Len(u) \in Nat
  BY DEF PrintsInOrder, Shells
<1>3. /\ r \in Seq([cursor : Nat, part : Nat]) /\ Len(r) = n
      /\ \A i \in 1 .. n : r[i] = [cursor |-> i, part |-> i - 1]
  <2>1. 0 \in Nat /\ n \in Nat /\ 0 <= n
    OBVIOUS
  <2>2. /\ ChunksOf(0, n) \in Seq([cursor : Nat, part : Nat]) /\ Len(ChunksOf(0, n)) = n - 0
        /\ \A i \in 1 .. n - 0 : ChunksOf(0, n)[i] = [cursor |-> 0 + i, part |-> 0 + i - 1]
        /\ 0 = n => ChunksOf(0, n) = <<>>
    BY ONLY <2>1, ChunksAre
  <2>3. n - 0 = n /\ \A i \in 1 .. n : 0 + i = i
    OBVIOUS
  <2>4. r = ChunksOf(0, n)
    BY <1>1
  <2> QED
    BY ONLY <2>2, <2>3, <2>4
<1>4. r \in Seq([cursor : Nat, part : 0 .. m])
  <2>1. \A i \in 1 .. n : r[i] \in [cursor : Nat, part : 0 .. m]
    <3>1. n <= m + 1
      BY <1>1
    <3>2. ASSUME NEW i \in 1 .. n PROVE i - 1 \in 0 .. m /\ i \in Nat
      BY ONLY <1>2, <3>1, n \in Nat
    <3> QED
      BY ONLY <1>3, <3>2
  <2>2. r \in [1 .. n -> [cursor : Nat, part : 0 .. m]]
    BY <1>3, <2>1
  <2> QED
    BY <2>2, FunctionIsSeq
<1>5. u \in Seq(0 .. m)
  <2>1. \A i \in 1 .. Len(u) : u[i] \in 0 .. m
    BY <1>2 DEF PrintsInOrder, Ended
  <2>2. u \in [1 .. Len(u) -> 0 .. m]
    BY <1>2, <2>1
  <2> QED
    BY <1>2, <2>2, FunctionIsSeq
<1>6. q \in Seq(1 .. m)
  <2>1. CASE shell.reader
    <3>1. /\ Len(chunks) >= 1
          /\ shell.printed = Len(chunks) + Len(unread) + Len(shell.pipe) - 1
          /\ \A i \in 1 .. Len(shell.pipe) :
               shell.pipe[i] = Len(chunks) + Len(unread) - 1 + i
      BY <2>1 DEF PrintsInOrder
    <3>2. /\ Len(r) >= 1 /\ m = Len(r) + Len(u) + Len(q) - 1
          /\ \A i \in 1 .. Len(q) : q[i] = Len(r) + Len(u) - 1 + i
      BY <3>1
    <3>3. n >= 1 /\ m = n + Len(u) + Len(q) - 1 /\ \A i \in 1 .. Len(q) : q[i] = n + Len(u) - 1 + i
      BY ONLY <1>3, <3>2
    <3>4. \A i \in 1 .. Len(q) : q[i] \in 1 .. m
      BY ONLY <1>2, <3>3, n \in Nat
    <3>5. q \in [1 .. Len(q) -> 1 .. m]
      BY ONLY <1>2, <3>4
    <3> QED
      BY ONLY <1>2, <3>5, FunctionIsSeq
  <2>2. CASE ~shell.reader
    <3>1. q = <<>>
      BY <2>2 DEF PrintsInOrder
    <3> QED
      BY ONLY <3>1
  <2> QED
    BY <2>1, <2>2
<1>7. /\ view.cursor <= Len(chunks) /\ view.status \in {"none", "running", "terminated"}
      /\ \A poll \in polls : poll.cursor <= Len(chunks)
  BY DEF AnswersInOrder, Views
<1> QED
  BY <1>4, <1>5, <1>6, <1>7 DEF TerminalTypeOK

\* What the parts keep has its types: the entries of the lock file are of packages, whatever
\* tree they were hashed from, cursors and positions stay below what they count, and frames
\* are of what was published.
THEOREM BackendTypeOKCorrect == BackendSpec => []BackendTypeOK
<1>1. BackendInit => EntryTypes
  BY DEF BackendInit, PackagesInit, EntryTypes
<1>2. IntactInv /\ EntryTypes /\ [BackendNext]_backendVars => EntryTypes'
  BY EntriesStep
<1>3. BackendSpec => []EntryTypes
  BY <1>1, <1>2, IntactHolds, PTL DEF BackendSpec
<1>4. IntactInv /\ EntryTypes => PackagesTypeOK
  BY DEF IntactInv, PackageTypes, CommandRecords, EntryTypes, PackagesTypeOK
<1>5. SessionInv => SessionTypeOK
  BY DEF SessionInv, SessionTypes
<1>6. IntactInv /\ EntryTypes /\ StreamInv /\ SessionInv /\ TerminalInv => BackendTypeOK
  BY <1>4, <1>5, StreamTyped, TerminalTyped DEF BackendTypeOK
<1> QED
  BY <1>3, <1>6, IntactHolds, StreamHolds, SessionHolds, TerminalHolds, PTL
=============================================================================
