--------------------- MODULE ConversationBranches_proofs ---------------------
(***************************************************************************)
(* The stores of a conversation refer to what exists, for any agents and   *)
(* bounds; and a run that is committed or orphaned keeps its record,       *)
(* whatever users do with branches while runs are under way: the thread at *)
(* work on a run is the only one that may commit it, and the processes     *)
(* that reconcile leave it nothing to commit.                              *)
(*                                                                         *)
(* Three functions of the model are recursive: what a branch shows, the    *)
(* branches it comes from, and the ancestors of a checkpoint.  Each goes   *)
(* from a number to a smaller one, and InheritedDefined shows that such a  *)
(* function exists; Induction and the lemmas that cite it are for sets of  *)
(* numbers, so that no operator has to be instantiated.                    *)
(***************************************************************************)
EXTENDS ConversationBranches, WellFoundedInduction, TLAPS

----------------------------------------------------------------------------
(* Numbers.                                                                 *)

LEMMA Smallest ==
  ASSUME NEW T \in SUBSET Nat, T # {}
  PROVE  \E x \in T : \A y \in T : x <= y
<1> DEFINE R == {p \in Nat \X Nat : p[1] < p[2]}
<1>1. IsWellFoundedOn(R, Nat)
  BY NatLessThanWellFounded DEF OpToRel
<1> HIDE DEF R
<1>2. PICK x \in T : \A y \in T : ~ (<<y, x>> \in R)
  BY <1>1, WFMin
<1>3. ASSUME NEW y \in T
      PROVE  x <= y
  <2>1. <<y, x>> \in Nat \X Nat /\ <<y, x>>[1] = y /\ <<y, x>>[2] = x
    OBVIOUS
  <2>2. ~(y < x)
    BY <1>2, <2>1 DEF R
  <2> QED
    BY <2>2
<1> QED
  BY <1>3

LEMMA Induction ==
  ASSUME NEW T, \A n \in Nat : (\A m \in Nat : m < n => m \in T) => n \in T
  PROVE  Nat \subseteq T
<1> SUFFICES ASSUME Nat \ T # {} PROVE FALSE
  OBVIOUS
<1>1. PICK x \in Nat \ T : \A y \in Nat \ T : x <= y
  BY Smallest
<1> QED
  BY <1>1

LEMMA GreatestIs ==
  ASSUME NEW n \in Nat, NEW S \in SUBSET (0 .. n)
  PROVE  /\ Greatest(S) \in S \union {0} /\ Greatest(S) \in 0 .. n
         /\ \A y \in S : y <= Greatest(S)
<1> DEFINE T == {m \in Nat : \A y \in S : y <= m}
<1>1. n \in T
  OBVIOUS
<1>2. PICK x \in T : \A y \in T : x <= y
  BY <1>1, Smallest
<1>3. x \in S \union {0}
  <2> SUFFICES ASSUME x \notin S, x # 0 PROVE FALSE
    OBVIOUS
  <2>1. x - 1 \in T
    BY <1>2
  <2> QED
    BY <1>2, <2>1
<1>4. \E z \in S \union {0} : \A y \in S : y <= z
  BY <1>2, <1>3
<1>5. Greatest(S) \in S \union {0} /\ \A y \in S : y <= Greatest(S)
  BY <1>4 DEF Greatest
<1>6. S \union {0} \subseteq 0 .. n
  OBVIOUS
<1> QED
  BY <1>5, <1>6

----------------------------------------------------------------------------
(* Recursion along a parent that is smaller.                                *)

\* own, keep and parent give each number its own, what it keeps of its parent's, and its parent.
Inheritance(n, U, own, keep, parent) ==
  /\ n \in Nat
  /\ own \in [0 .. n -> SUBSET U] /\ keep \in [1 .. n -> SUBSET U] /\ parent \in [1 .. n -> 0 .. n]

Inherited(f, n, own, keep, parent) ==
  \A b \in 0 .. n : f[b] = own[b] \union (IF b = 0 THEN {} ELSE keep[b] \intersect f[parent[b]])

\* There is such a function: the least one, in each place what all that are closed agree on.
LEMMA InheritedDefined ==
  ASSUME NEW n, NEW U, NEW own, NEW keep, NEW parent, Inheritance(n, U, own, keep, parent)
  PROVE  \E f \in [0 .. n -> SUBSET U] : Inherited(f, n, own, keep, parent)
<1> USE DEF Inheritance, Inherited
<1> DEFINE Step(b, T) == own[b] \union (IF b = 0 THEN {} ELSE keep[b] \intersect T[parent[b]])
           Families   == [0 .. n -> SUBSET U]
           Closed(T)  == \A b \in 0 .. n : Step(b, T) \subseteq T[b]
           f          == [b \in 0 .. n |-> {x \in U : \A T \in Families : Closed(T) => x \in T[b]}]
           g          == [b \in 0 .. n |-> Step(b, f)]
<1>1. f \in Families /\ g \in Families
  OBVIOUS
<1>2. ASSUME NEW T \in Families, Closed(T)
      PROVE  \A b \in 0 .. n : f[b] \subseteq T[b]
  BY <1>2
<1>3. Closed(f)
  <2> SUFFICES ASSUME NEW b \in 0 .. n, NEW x \in Step(b, f), NEW T \in Families, Closed(T)
               PROVE  x \in T[b]
    BY <1>1
  <2>1. x \in Step(b, T)
    BY <1>2
  <2> QED
    BY <2>1
<1>4. Closed(g)
  <2> SUFFICES ASSUME NEW b \in 0 .. n, NEW x \in Step(b, g)
               PROVE  x \in Step(b, f)
    OBVIOUS
  <2>1. ASSUME NEW c \in 0 .. n PROVE g[c] \subseteq f[c]
    BY <1>3
  <2> HIDE DEF f, g
  <2>2. CASE b = 0
    BY <2>2
  <2>3. CASE b # 0
    <3>1. parent[b] \in 0 .. n
      BY <2>3
    <3>2. g[parent[b]] \subseteq f[parent[b]]
      BY <2>1, <3>1
    <3> QED
      BY <3>2
  <2> QED
    BY <2>2, <2>3
<1>5. \A b \in 0 .. n : f[b] = Step(b, f)
  BY <1>1, <1>2, <1>3, <1>4
<1> QED
  BY <1>1, <1>5

----------------------------------------------------------------------------
(* Types.                                                                   *)

EventSet(bs, es, rs) == [author : Agents \union {Human}, branch : bs, before : es, run : rs]

BranchSet(bs, es, cs) ==
  [parent : bs, originEvent : es, originCheckpoint : cs, originSeq : es \union {NoLimit},
   archived : BOOLEAN]

ThreadSet(rs) == [status : {"none", "active", "orphaned"}, commit : rs \union {LostRun}]

CheckpointSet(es, cs) == [parent : cs, memory : SUBSET es]

FrontierSet(bs, es, cs, rs) ==
  [event : es, agent : Agents, branch : bs, thread : bs, checkpoint : cs, run : rs,
   usable : BOOLEAN]

RunSet(bs, es, cs) ==
  [agent : Agents, lane : Lanes, branch : bs, low : es, snapshot : es,
   status : Statuses, commit : Commits, stable : cs, latest : cs]

WorkerSet(bs, es, cs, rs) ==
  [pc : {"idle", "reading", "starting", "invoking", "completing", "replying"},
   branch : bs, run : rs, low : es, snapshot : es, from : cs, thread : bs]

CallSet(bs, es, cs) ==
  [pc : {"idle", "edited", "editing", "invoked", "replayed", "resuming"},
   event : es, branch : bs, agent : Agents \union {Human}, checkpoint : cs]

DeliverySet(es, rs) == DeliveryStates(es, rs \union {BlankRun})

\* What is referred to is older than what refers to it.
Elders ==
  /\ \A b \in 1 .. Len(branches) : branches[b].parent < b
  /\ \A c \in 1 .. Len(saved) : saved[c].parent < c

\* Threads hold checkpoints that were written, and whoever needs a run or an event has one.
References ==
  /\ \A b \in Branches, a \in Agents : NoCheckpoint \notin stored[b][a]
  /\ \A k \in 1 .. Len(frontiers) :
       /\ frontiers[k].run # NoRun /\ frontiers[k].event # NoEvent
       /\ frontiers[k].checkpoint # NoCheckpoint
       /\ frontiers[k].thread = frontiers[k].branch
  /\ \A w \in Workers :
       /\ worker[w].thread = worker[w].branch
       /\ worker[w].pc \in {"invoking", "completing", "replying"} => worker[w].run # NoRun
  /\ call.pc \in {"edited", "editing"} => call.event # NoEvent

TypeInv == TypeOK /\ Elders /\ References

LEMMA SequencesGrow ==
  ASSUME NEW S, NEW T, S \subseteq T, NEW s \in Seq(S)
  PROVE  s \in Seq(T)
<1>1. Len(s) \in Nat /\ s \in [1 .. Len(s) -> T]
  OBVIOUS
<1> QED
  BY <1>1

LEMMA SizesAre ==
  ASSUME TypeOK
  PROVE  Len(events) \in Nat /\ Len(branches) \in Nat /\ Len(saved) \in Nat /\ Len(runs) \in Nat
         /\ Len(frontiers) \in Nat
BY DEF TypeOK

\* The parts of TypeOK, of stores of any size.
Typed(bs, es, cs, rs) ==
  /\ events \in Seq(EventSet(bs, es, rs))
  /\ branches \in Seq(BranchSet(bs, es, cs))
  /\ current \in bs
  /\ saved \in Seq(CheckpointSet(es, cs))
  /\ frontiers \in Seq(FrontierSet(bs, es, cs, rs))
  /\ runs \in Seq(RunSet(bs, es, cs))
  /\ worker \in [Workers -> WorkerSet(bs, es, cs, rs)]
  /\ call \in CallSet(bs, es, cs)
  /\ agent \in [Branches -> [Agents -> DeliverySet(es, rs)]]
  /\ thread \in [Branches -> [Agents -> ThreadSet(rs)]]
  /\ stored \in [Branches -> [Agents -> SUBSET cs]]

LEMMA TypedIs ==
  TypeOK <=> /\ Typed(Branches, Events, Checkpoints, RunIds)
             /\ restarts \in 0 .. limits.restarts /\ limits \in Limits
BY DEF TypeOK, Typed, EventSet, BranchSet, ThreadSet, CheckpointSet, FrontierSet, RunSet,
       WorkerSet, CallSet, DeliverySet

\* Records that refer to what exists do so when more exists.
TypesGrow ==
  /\ Branches \subseteq Branches' /\ Events \subseteq Events'
  /\ Checkpoints \subseteq Checkpoints' /\ RunIds \subseteq RunIds'
  /\ Seq(EventSet(Branches, Events, RunIds)) \subseteq Seq(EventSet(Branches', Events', RunIds'))
  /\ Seq(BranchSet(Branches, Events, Checkpoints))
       \subseteq Seq(BranchSet(Branches', Events', Checkpoints'))
  /\ Seq(CheckpointSet(Events, Checkpoints)) \subseteq Seq(CheckpointSet(Events', Checkpoints'))
  /\ Seq(FrontierSet(Branches, Events, Checkpoints, RunIds))
       \subseteq Seq(FrontierSet(Branches', Events', Checkpoints', RunIds'))
  /\ FrontierSet(Branches, Events, Checkpoints, RunIds)
       \subseteq FrontierSet(Branches', Events', Checkpoints', RunIds')
  /\ Seq(RunSet(Branches, Events, Checkpoints)) \subseteq Seq(RunSet(Branches', Events', Checkpoints'))
  /\ ThreadSet(RunIds) \subseteq ThreadSet(RunIds')
  /\ WorkerSet(Branches, Events, Checkpoints, RunIds)
       \subseteq WorkerSet(Branches', Events', Checkpoints', RunIds')
  /\ CallSet(Branches, Events, Checkpoints) \subseteq CallSet(Branches', Events', Checkpoints')
  /\ DeliverySet(Events, RunIds) \subseteq DeliverySet(Events', RunIds')

LEMMA TypesDoGrow ==
  ASSUME Branches \subseteq Branches', Events \subseteq Events', Checkpoints \subseteq Checkpoints',
         RunIds \subseteq RunIds'
  PROVE  TypesGrow
<1> DEFINE bs == Branches
           es == Events
           cs == Checkpoints
           rs == RunIds
           bs2 == Branches'
           es2 == Events'
           cs2 == Checkpoints'
           rs2 == RunIds'
<1>0. bs \subseteq bs2 /\ es \subseteq es2 /\ cs \subseteq cs2 /\ rs \subseteq rs2
  OBVIOUS
<1> HIDE DEF bs, es, cs, rs, bs2, es2, cs2, rs2
<1>1. EventSet(bs, es, rs) \subseteq EventSet(bs2, es2, rs2)
  BY <1>0 DEF EventSet
<1>2. BranchSet(bs, es, cs) \subseteq BranchSet(bs2, es2, cs2)
  BY <1>0 DEF BranchSet
<1>3. CheckpointSet(es, cs) \subseteq CheckpointSet(es2, cs2)
  BY <1>0 DEF CheckpointSet
<1>4. FrontierSet(bs, es, cs, rs) \subseteq FrontierSet(bs2, es2, cs2, rs2)
  BY <1>0 DEF FrontierSet
<1>5. RunSet(bs, es, cs) \subseteq RunSet(bs2, es2, cs2)
  BY <1>0 DEF RunSet
<1>6. ThreadSet(rs) \subseteq ThreadSet(rs2)
  BY <1>0 DEF ThreadSet
<1>7. WorkerSet(bs, es, cs, rs) \subseteq WorkerSet(bs2, es2, cs2, rs2)
  BY <1>0 DEF WorkerSet
<1>8. CallSet(bs, es, cs) \subseteq CallSet(bs2, es2, cs2)
  BY <1>0 DEF CallSet
<1>9. DeliverySet(es, rs) \subseteq DeliverySet(es2, rs2)
  BY <1>0 DEF DeliverySet, DeliveryStates
<1>10. ASSUME NEW S, NEW T, S \subseteq T
       PROVE  Seq(S) \subseteq Seq(T)
  BY <1>10, SequencesGrow
<1>11. /\ Seq(EventSet(bs, es, rs)) \subseteq Seq(EventSet(bs2, es2, rs2))
       /\ Seq(BranchSet(bs, es, cs)) \subseteq Seq(BranchSet(bs2, es2, cs2))
  BY <1>1, <1>2, <1>10
<1>12. /\ Seq(CheckpointSet(es, cs)) \subseteq Seq(CheckpointSet(es2, cs2))
       /\ Seq(FrontierSet(bs, es, cs, rs)) \subseteq Seq(FrontierSet(bs2, es2, cs2, rs2))
       /\ Seq(RunSet(bs, es, cs)) \subseteq Seq(RunSet(bs2, es2, cs2))
  BY <1>3, <1>4, <1>5, <1>10
<1> QED
  BY <1>0, <1>4, <1>6, <1>7, <1>8, <1>9, <1>11, <1>12
  DEF TypesGrow, bs, es, cs, rs, bs2, es2, cs2, rs2

\* What TypeInv says of each store, one at a time.
LEMMA Sizes ==
  ASSUME TypeInv
  PROVE  /\ Len(events) \in Nat /\ Len(branches) \in Nat /\ Len(saved) \in Nat /\ Len(runs) \in Nat
         /\ Len(frontiers) \in Nat
         /\ Branches = 0 .. Len(branches) /\ current \in Branches
BY SizesAre DEF TypeInv, TypeOK, Branches

LEMMA EventsAre ==
  ASSUME TypeInv
  PROVE  /\ events \in Seq(EventSet(Branches, Events, RunIds))
         /\ \A i \in 1 .. Len(events) :
              /\ events[i] \in EventSet(Branches, Events, RunIds)
              /\ events[i].author \in Agents \union {Human} /\ events[i].branch \in Branches
              /\ events[i].before \in Events /\ events[i].run \in RunIds
<1>1. events \in Seq(EventSet(Branches, Events, RunIds))
  BY TypedIs DEF Typed, TypeInv
<1>2. \A i \in 1 .. Len(events) : events[i] \in EventSet(Branches, Events, RunIds)
  BY <1>1
<1> QED
  BY <1>1, <1>2 DEF EventSet

LEMMA BranchesAre ==
  ASSUME TypeInv
  PROVE  /\ branches \in Seq(BranchSet(Branches, Events, Checkpoints))
         /\ \A b \in 1 .. Len(branches) :
              /\ branches[b] \in BranchSet(Branches, Events, Checkpoints)
              /\ branches[b].parent \in Branches /\ branches[b].parent < b
              /\ branches[b].originEvent \in Events /\ branches[b].originCheckpoint \in Checkpoints
              /\ branches[b].originSeq \in Events \union {NoLimit}
              /\ branches[b].archived \in BOOLEAN
<1>1. branches \in Seq(BranchSet(Branches, Events, Checkpoints))
  BY TypedIs DEF Typed, TypeInv
<1>2. \A b \in 1 .. Len(branches) : branches[b] \in BranchSet(Branches, Events, Checkpoints)
  BY <1>1
<1> QED
  BY <1>1, <1>2 DEF BranchSet, TypeInv, Elders

LEMMA SavedAre ==
  ASSUME TypeInv
  PROVE  /\ saved \in Seq(CheckpointSet(Events, Checkpoints))
         /\ \A c \in 1 .. Len(saved) :
              /\ saved[c] \in CheckpointSet(Events, Checkpoints)
              /\ saved[c].parent \in Checkpoints /\ saved[c].parent < c
              /\ saved[c].memory \in SUBSET Events
<1>1. saved \in Seq(CheckpointSet(Events, Checkpoints))
  BY TypedIs DEF Typed, TypeInv
<1>2. \A c \in 1 .. Len(saved) : saved[c] \in CheckpointSet(Events, Checkpoints)
  BY <1>1
<1> QED
  BY <1>1, <1>2 DEF CheckpointSet, TypeInv, Elders

LEMMA FrontiersAre ==
  ASSUME TypeInv
  PROVE  /\ frontiers \in Seq(FrontierSet(Branches, Events, Checkpoints, RunIds))
         /\ \A k \in 1 .. Len(frontiers) :
              /\ frontiers[k] \in FrontierSet(Branches, Events, Checkpoints, RunIds)
              /\ frontiers[k].agent \in Agents /\ frontiers[k].usable \in BOOLEAN
              /\ frontiers[k].branch \in Branches /\ frontiers[k].thread = frontiers[k].branch
              /\ frontiers[k].event \in 1 .. Len(events)
              /\ frontiers[k].checkpoint \in 1 .. Len(saved)
              /\ frontiers[k].run \in 1 .. Len(runs)
<1>1. frontiers \in Seq(FrontierSet(Branches, Events, Checkpoints, RunIds))
  BY TypedIs DEF Typed, TypeInv
<1>2. \A k \in 1 .. Len(frontiers) :
        frontiers[k] \in FrontierSet(Branches, Events, Checkpoints, RunIds)
  BY <1>1
<1>3. \A k \in 1 .. Len(frontiers) :
        /\ frontiers[k].run # NoRun /\ frontiers[k].event # NoEvent
        /\ frontiers[k].checkpoint # NoCheckpoint
        /\ frontiers[k].thread = frontiers[k].branch
  BY DEF TypeInv, References
<1>4. /\ Events = 0 .. Len(events) /\ Checkpoints = 0 .. Len(saved) /\ RunIds = 0 .. Len(runs)
      /\ Len(events) \in Nat /\ Len(saved) \in Nat /\ Len(runs) \in Nat
  BY Sizes DEF Events, Checkpoints, RunIds
<1>5. ASSUME NEW k \in 1 .. Len(frontiers)
      PROVE  /\ frontiers[k].agent \in Agents /\ frontiers[k].usable \in BOOLEAN
             /\ frontiers[k].branch \in Branches
             /\ frontiers[k].event \in Events /\ frontiers[k].checkpoint \in Checkpoints
             /\ frontiers[k].run \in RunIds
  BY <1>2 DEF FrontierSet
<1>6. \A k \in 1 .. Len(frontiers) :
        /\ frontiers[k].event \in 1 .. Len(events)
        /\ frontiers[k].checkpoint \in 1 .. Len(saved)
        /\ frontiers[k].run \in 1 .. Len(runs)
  BY <1>3, <1>4, <1>5 DEF NoRun, NoEvent, NoCheckpoint
<1> QED
  BY <1>1, <1>2, <1>3, <1>5, <1>6

LEMMA RunsAre ==
  ASSUME TypeInv
  PROVE  /\ runs \in Seq(RunSet(Branches, Events, Checkpoints))
         /\ \A r \in 1 .. Len(runs) :
              /\ runs[r] \in RunSet(Branches, Events, Checkpoints)
              /\ runs[r].agent \in Agents /\ runs[r].lane \in Lanes /\ runs[r].branch \in Branches
              /\ runs[r].low \in Events /\ runs[r].snapshot \in Events
              /\ runs[r].status \in Statuses /\ runs[r].commit \in Commits
              /\ runs[r].stable \in Checkpoints /\ runs[r].latest \in Checkpoints
<1>1. runs \in Seq(RunSet(Branches, Events, Checkpoints))
  BY TypedIs DEF Typed, TypeInv
<1>2. \A r \in 1 .. Len(runs) : runs[r] \in RunSet(Branches, Events, Checkpoints)
  BY <1>1
<1> QED
  BY <1>1, <1>2 DEF RunSet

LEMMA WorkersAre ==
  ASSUME TypeInv
  PROVE  /\ worker \in [Workers -> WorkerSet(Branches, Events, Checkpoints, RunIds)]
         /\ \A w \in Workers :
              /\ worker[w] \in WorkerSet(Branches, Events, Checkpoints, RunIds)
              /\ worker[w].branch \in Branches /\ worker[w].thread = worker[w].branch
              /\ worker[w].run \in RunIds /\ worker[w].low \in Events
              /\ worker[w].snapshot \in Events /\ worker[w].from \in Checkpoints
              /\ w[1] \in Agents /\ w[2] \in Lanes
              /\ worker[w].pc \in {"invoking", "completing", "replying"} =>
                   worker[w].run \in 1 .. Len(runs)
<1>1. worker \in [Workers -> WorkerSet(Branches, Events, Checkpoints, RunIds)]
  BY TypedIs DEF Typed, TypeInv
<1>2. \A w \in Workers : worker[w] \in WorkerSet(Branches, Events, Checkpoints, RunIds)
  BY <1>1
<1>3. \A w \in Workers :
        /\ worker[w].thread = worker[w].branch
        /\ worker[w].pc \in {"invoking", "completing", "replying"} => worker[w].run # NoRun
  BY DEF TypeInv, References
<1>4. \A w \in Workers : w[1] \in Agents /\ w[2] \in Lanes
  BY DEF Workers
<1> QED
  BY <1>1, <1>2, <1>3, <1>4, Sizes DEF WorkerSet, RunIds, NoRun

LEMMA CallIs ==
  ASSUME TypeInv
  PROVE  /\ call \in CallSet(Branches, Events, Checkpoints)
         /\ call.event \in Events /\ call.branch \in Branches /\ call.agent \in Agents \union {Human}
         /\ call.checkpoint \in Checkpoints
         /\ call.pc \in {"edited", "editing"} => call.event \in 1 .. Len(events)
<1>1. call \in CallSet(Branches, Events, Checkpoints)
  BY TypedIs DEF Typed, TypeInv
<1> QED
  BY <1>1, Sizes DEF CallSet, TypeInv, References, Events, NoEvent

LEMMA ThreadsAre ==
  ASSUME TypeInv
  PROVE  /\ agent \in [Branches -> [Agents -> DeliverySet(Events, RunIds)]]
         /\ thread \in [Branches -> [Agents -> ThreadSet(RunIds)]]
         /\ stored \in [Branches -> [Agents -> SUBSET (1 .. Len(saved))]]
         /\ \A b \in Branches, a \in Agents :
              /\ agent[b][a] \in DeliverySet(Events, RunIds)
              /\ thread[b][a] \in ThreadSet(RunIds)
              /\ stored[b][a] \in SUBSET (1 .. Len(saved))
<1>1. /\ agent \in [Branches -> [Agents -> DeliverySet(Events, RunIds)]]
      /\ thread \in [Branches -> [Agents -> ThreadSet(RunIds)]]
      /\ stored \in [Branches -> [Agents -> SUBSET Checkpoints]]
  BY TypedIs DEF Typed, TypeInv
<1>2. \A b \in Branches, a \in Agents : stored[b][a] \subseteq 1 .. Len(saved)
  <2>1. \A b \in Branches, a \in Agents : 0 \notin stored[b][a]
    BY DEF TypeInv, References, NoCheckpoint
  <2> QED
    BY <1>1, <2>1, Sizes DEF Checkpoints
<1> QED
  BY <1>1, <1>2

----------------------------------------------------------------------------
(* The recursive functions of the model.                                    *)

\* A branch shows what was written in it, and what it inherits of what its parent shows.
LEMMA ShownIs ==
  ASSUME TypeInv
  PROVE  /\ Shown \in [Branches -> SUBSET (1 .. Len(events))]
         /\ Shown[Main] = Own(Main)
         /\ \A b \in 1 .. Len(branches) :
              Shown[b] = Own(b) \union (Inherits(b) \intersect Shown[branches[b].parent])
<1> DEFINE n      == Len(branches)
           U      == 1 .. Len(events)
           own    == [b \in 0 .. n |-> Own(b)]
           keep   == [b \in 1 .. n |-> Inherits(b)]
           parent == [b \in 1 .. n |-> branches[b].parent]
           Next1(f) == [b \in Branches |->
                          Own(b) \union (IF b = Main THEN {}
                                         ELSE Inherits(b) \intersect f[branches[b].parent])]
<1>1. n \in Nat /\ Branches = 0 .. n
  BY Sizes
<1>2. /\ own \in [0 .. n -> SUBSET U] /\ keep \in [1 .. n -> SUBSET U]
      /\ parent \in [1 .. n -> 0 .. n]
  <2>1. /\ \A b \in 0 .. n : Own(b) \in SUBSET U
        /\ \A b \in 1 .. n : Inherits(b) \in SUBSET U
    <3>1. \A b : Own(b) \subseteq U
      BY DEF Own
    <3>2. \A b : Inherits(b) \subseteq U
      BY DEF Inherits
    <3> QED
      BY <3>1, <3>2
  <2>2. \A b \in 1 .. n : branches[b].parent \in 0 .. n
    BY <1>1, BranchesAre
  <2> QED
    BY <2>1, <2>2
<1>3. PICK f \in [0 .. n -> SUBSET U] : Inherited(f, n, own, keep, parent)
  <2>1. Inheritance(n, U, own, keep, parent)
    BY <1>1, <1>2 DEF Inheritance
  <2> HIDE DEF n, U, own, keep, parent
  <2> QED
    BY <2>1, InheritedDefined
<1>4. f = Next1(f)
  BY <1>1, <1>3 DEF Main, Inherited
<1>5. Shown = Next1(Shown)
  <2>1. Shown = CHOOSE g : g = Next1(g)
    BY DEF Shown
  <2> HIDE DEF Next1
  <2> QED
    BY <1>4, <2>1
<1>6. \A b \in Branches : Own(b) \in SUBSET U /\ Inherits(b) \in SUBSET U
  BY DEF Own, Inherits
<1>7. \A b \in 0 .. n :
        Shown[b] = Own(b) \union (IF b = Main THEN {} ELSE Inherits(b) \intersect Shown[branches[b].parent])
  BY <1>1, <1>5
<1>8. \A b \in 0 .. n : Shown[b] \in SUBSET U
  <2> HIDE DEF U
  <2> QED
    BY <1>1, <1>6, <1>7
<1>9. DOMAIN Shown = Branches
  BY <1>5
<1>10. Shown = [b \in Branches |-> Shown[b]]
  <2> HIDE DEF n, U, own, keep, parent
  <2> QED
    BY <1>5, <1>9
<1>11. Shown \in [Branches -> SUBSET U]
  <2> HIDE DEF U
  <2> QED
    BY <1>1, <1>8, <1>10
<1> QED
  BY <1>1, <1>7, <1>11 DEF Main

\* A checkpoint's chain is the checkpoint, and the chain of its parent.
LEMMA ChainIs ==
  ASSUME TypeInv
  PROVE  /\ Chain[NoCheckpoint] = {}
         /\ \A c \in 1 .. Len(saved) : Chain[c] = {c} \union Chain[saved[c].parent]
<1> DEFINE n      == Len(saved)
           U      == 0 .. n
           own    == [c \in 0 .. n |-> IF c = 0 THEN {} ELSE {c}]
           keep   == [c \in 1 .. n |-> U]
           parent == [c \in 1 .. n |-> saved[c].parent]
           Next1(f) == [c \in 0 .. Len(saved) |->
                          IF c = NoCheckpoint THEN {} ELSE {c} \union f[saved[c].parent]]
<1>1. n \in Nat /\ Checkpoints = 0 .. n
  BY Sizes DEF Checkpoints
<1>2. /\ own \in [0 .. n -> SUBSET U] /\ keep \in [1 .. n -> SUBSET U]
      /\ parent \in [1 .. n -> 0 .. n]
  BY <1>1, SavedAre
<1>3. PICK f \in [0 .. n -> SUBSET U] : Inherited(f, n, own, keep, parent)
  <2>1. Inheritance(n, U, own, keep, parent)
    BY <1>1, <1>2 DEF Inheritance
  <2> HIDE DEF n, U, own, keep, parent
  <2> QED
    BY <2>1, InheritedDefined
<1>4. f = Next1(f)
  <2>1. ASSUME NEW c \in 0 .. n
        PROVE  f[c] = IF c = NoCheckpoint THEN {} ELSE {c} \union f[saved[c].parent]
    <3>1. f[c] = own[c] \union (IF c = 0 THEN {} ELSE keep[c] \intersect f[parent[c]])
      BY <1>3 DEF Inherited
    <3>2. c # 0 => c \in 1 .. n /\ f[saved[c].parent] \subseteq U
      BY <1>1, <1>3, SavedAre
    <3> QED
      BY <3>1, <3>2 DEF NoCheckpoint
  <2> QED
    BY <2>1
<1>5. Chain = Next1(Chain)
  <2>1. Chain = CHOOSE g : g = Next1(g)
    BY DEF Chain
  <2> HIDE DEF Next1
  <2> QED
    BY <1>4, <2>1
<1>6. \A c \in 0 .. n : Chain[c] = IF c = NoCheckpoint THEN {} ELSE {c} \union Chain[saved[c].parent]
  BY <1>5
<1> QED
  BY <1>1, <1>6 DEF NoCheckpoint

LEMMA AncestorsIs ==
  ASSUME TypeInv
  PROVE  /\ Ancestors[Main] = {Main}
         /\ \A b \in 1 .. Len(branches) : Ancestors[b] = {b} \union Ancestors[branches[b].parent]
<1> DEFINE n      == Len(branches)
           U      == 0 .. n
           own    == [b \in 0 .. n |-> {b}]
           keep   == [b \in 1 .. n |-> U]
           parent == [b \in 1 .. n |-> branches[b].parent]
           Next1(f) == [b \in Branches |->
                          IF b = Main THEN {Main} ELSE {b} \union f[branches[b].parent]]
<1>1. n \in Nat /\ Branches = 0 .. n
  BY Sizes
<1>2. /\ own \in [0 .. n -> SUBSET U] /\ keep \in [1 .. n -> SUBSET U]
      /\ parent \in [1 .. n -> 0 .. n]
  BY <1>1, BranchesAre
<1>3. PICK f \in [0 .. n -> SUBSET U] : Inherited(f, n, own, keep, parent)
  <2>1. Inheritance(n, U, own, keep, parent)
    BY <1>1, <1>2 DEF Inheritance
  <2> HIDE DEF n, U, own, keep, parent
  <2> QED
    BY <2>1, InheritedDefined
<1>4. f = Next1(f)
  <2>1. ASSUME NEW b \in 0 .. n
        PROVE  f[b] = IF b = Main THEN {Main} ELSE {b} \union f[branches[b].parent]
    <3>1. f[b] = own[b] \union (IF b = 0 THEN {} ELSE keep[b] \intersect f[parent[b]])
      BY <1>3 DEF Inherited
    <3>2. b # 0 => b \in 1 .. n /\ f[branches[b].parent] \subseteq U
      BY <1>1, <1>3, BranchesAre
    <3> QED
      BY <3>1, <3>2 DEF Main
  <2> QED
    BY <1>1, <2>1
<1>5. Ancestors = Next1(Ancestors)
  <2>1. Ancestors = CHOOSE g : g = Next1(g)
    BY DEF Ancestors
  <2> HIDE DEF Next1
  <2> QED
    BY <1>4, <2>1
<1>6. \A b \in 0 .. n :
        Ancestors[b] = IF b = Main THEN {Main} ELSE {b} \union Ancestors[branches[b].parent]
  BY <1>1, <1>5
<1> QED
  BY <1>1, <1>6 DEF Main

\* What holds of a branch when it holds of its parent holds of all, and so for checkpoints.
LEMMA BranchInduction ==
  ASSUME TypeInv, NEW T, Main \in T,
         \A b \in 1 .. Len(branches) : branches[b].parent \in T => b \in T
  PROVE  Branches \subseteq T
<1> DEFINE S == {n \in Nat : n \in Branches => n \in T}
<1>1. ASSUME NEW n \in Nat, \A m \in Nat : m < n => m \in S
      PROVE  n \in S
  <2> SUFFICES ASSUME n \in Branches, n # Main PROVE n \in T
    OBVIOUS
  <2>1. /\ n \in 1 .. Len(branches) /\ branches[n].parent \in Branches
        /\ branches[n].parent < n /\ branches[n].parent \in Nat
    BY Sizes, BranchesAre DEF Main
  <2> QED
    BY <1>1, <2>1
<1>2. Nat \subseteq S
  <2> HIDE DEF S
  <2> QED
    BY <1>1, Induction
<1> QED
  BY <1>2, Sizes

LEMMA CheckpointInduction ==
  ASSUME TypeInv, NEW T, NoCheckpoint \in T,
         \A c \in 1 .. Len(saved) : saved[c].parent \in T => c \in T
  PROVE  Checkpoints \subseteq T
<1> DEFINE S == {n \in Nat : n \in Checkpoints => n \in T}
<1>0. Checkpoints = 0 .. Len(saved) /\ Len(saved) \in Nat
  BY Sizes DEF Checkpoints
<1>1. ASSUME NEW n \in Nat, \A m \in Nat : m < n => m \in S
      PROVE  n \in S
  <2> SUFFICES ASSUME n \in Checkpoints, n # NoCheckpoint PROVE n \in T
    OBVIOUS
  <2>1. /\ n \in 1 .. Len(saved) /\ saved[n].parent \in Checkpoints
        /\ saved[n].parent < n /\ saved[n].parent \in Nat
    BY <1>0, SavedAre DEF NoCheckpoint
  <2> QED
    BY <1>1, <2>1
<1>2. Nat \subseteq S
  <2> HIDE DEF S
  <2> QED
    BY <1>1, Induction
<1> QED
  BY <1>0, <1>2

\* A chain holds checkpoints that were written, none later than the one it ends in.
LEMMA ChainType ==
  ASSUME TypeInv
  PROVE  \A c \in Checkpoints : Chain[c] \subseteq 1 .. c
<1> DEFINE T == {c \in Checkpoints : Chain[c] \subseteq 1 .. c}
<1>0. Checkpoints = 0 .. Len(saved) /\ Len(saved) \in Nat
  BY Sizes DEF Checkpoints
<1>1. NoCheckpoint \in T
  BY <1>0, ChainIs DEF NoCheckpoint
<1>2. ASSUME NEW c \in 1 .. Len(saved), saved[c].parent \in T
      PROVE  c \in T
  <2>1. saved[c].parent \in 0 .. Len(saved) /\ saved[c].parent < c
    BY <1>0, SavedAre
  <2>2. c \in Checkpoints /\ Chain[c] = {c} \union Chain[saved[c].parent]
    BY <1>0, ChainIs DEF NoCheckpoint
  <2> QED
    BY <1>2, <2>1, <2>2
<1>3. Checkpoints \subseteq T
  <2> HIDE DEF T
  <2> QED
    BY <1>1, <1>2, CheckpointInduction
<1> QED
  BY <1>3

\* _latest_visible_event and the latest checkpoint of a thread.
LEMMA LatestIs ==
  ASSUME TypeInv
  PROVE  /\ \A b \in Branches : /\ Visible(b) \in SUBSET (1 .. Len(events))
                                /\ Latest(b) \in Visible(b) \union {NoEvent}
                                /\ Latest(b) \in Events
                                /\ \A i \in Visible(b) : i <= Latest(b)
         /\ \A b \in Branches, a \in Agents :
              /\ LatestCheckpoint(b, a) \in stored[b][a] \union {NoCheckpoint}
              /\ LatestCheckpoint(b, a) \in Checkpoints
              /\ \A c \in stored[b][a] : c <= LatestCheckpoint(b, a)
<1>0. Len(events) \in Nat /\ Len(saved) \in Nat
  BY Sizes
<1>1. ASSUME NEW b \in Branches
      PROVE  /\ Visible(b) \in SUBSET (1 .. Len(events))
             /\ Latest(b) \in Visible(b) \union {NoEvent}
             /\ Latest(b) \in Events
             /\ \A i \in Visible(b) : i <= Latest(b)
  <2>1. Visible(b) \in SUBSET (1 .. Len(events)) /\ Visible(b) \in SUBSET (0 .. Len(events))
    BY <1>0, ShownIs DEF Visible
  <2> QED
    BY <1>0, <2>1, GreatestIs DEF Latest, Events, NoEvent
<1>2. ASSUME NEW b \in Branches, NEW a \in Agents
      PROVE  /\ LatestCheckpoint(b, a) \in stored[b][a] \union {NoCheckpoint}
             /\ LatestCheckpoint(b, a) \in Checkpoints
             /\ \A c \in stored[b][a] : c <= LatestCheckpoint(b, a)
  <2>1. stored[b][a] \in SUBSET (0 .. Len(saved))
    BY <1>0, ThreadsAre
  <2> QED
    BY <1>0, <2>1, GreatestIs DEF LatestCheckpoint, Checkpoints, NoCheckpoint
<1> QED
  BY <1>1, <1>2

----------------------------------------------------------------------------
(* What a step leaves as it was.                                            *)

EventsKept ==
  /\ Len(events) <= Len(events') /\ \A i \in 1 .. Len(events) : events'[i] = events[i]

\* A branch may come to be archived, and nothing else.
BranchesKept ==
  /\ Len(branches) <= Len(branches')
  /\ \A b \in 1 .. Len(branches) :
       /\ branches'[b].parent = branches[b].parent
       /\ branches'[b].originEvent = branches[b].originEvent
       /\ branches'[b].originCheckpoint = branches[b].originCheckpoint
       /\ branches'[b].originSeq = branches[b].originSeq

SavedKept ==
  /\ Len(saved) <= Len(saved') /\ \A c \in 1 .. Len(saved) : saved'[c] = saved[c]

\* What a run was started with stays, and a run that is settled stays as it is.
RunKept(r) ==
  /\ runs'[r].agent = runs[r].agent /\ runs'[r].lane = runs[r].lane
  /\ runs'[r].branch = runs[r].branch /\ runs'[r].low = runs[r].low
  /\ runs'[r].snapshot = runs[r].snapshot

RunsKept == Len(runs) <= Len(runs') /\ \A r \in 1 .. Len(runs) : RunKept(r)

StoresKept == EventsKept /\ BranchesKept /\ SavedKept /\ RunsKept

LEMMA UnchangedKept ==
  ASSUME TypeInv
  PROVE  /\ UNCHANGED events => EventsKept
         /\ UNCHANGED branches => BranchesKept
         /\ UNCHANGED saved => SavedKept
         /\ UNCHANGED runs => RunsKept
BY Sizes DEF EventsKept, BranchesKept, SavedKept, RunsKept, RunKept

LEMMA SizesGrow ==
  ASSUME TypeInv, StoresKept,
         Len(events') \in Nat, Len(branches') \in Nat, Len(saved') \in Nat, Len(runs') \in Nat
  PROVE  TypesGrow
<1>1. /\ Branches \subseteq Branches' /\ Events \subseteq Events'
      /\ Checkpoints \subseteq Checkpoints' /\ RunIds \subseteq RunIds'
  BY Sizes
  DEF StoresKept, EventsKept, BranchesKept, SavedKept, RunsKept, Branches, Events, Checkpoints,
      RunIds
<1> QED
  BY <1>1, TypesDoGrow

\* After a step, the records are of the types the stores then have.
LEMMA TypesNext ==
  ASSUME /\ events' \in Seq(EventSet(Branches', Events', RunIds'))
         /\ branches' \in Seq(BranchSet(Branches', Events', Checkpoints'))
         /\ current' \in Branches'
         /\ saved' \in Seq(CheckpointSet(Events', Checkpoints'))
         /\ frontiers' \in Seq(FrontierSet(Branches', Events', Checkpoints', RunIds'))
         /\ runs' \in Seq(RunSet(Branches', Events', Checkpoints'))
         /\ worker' \in [Workers -> WorkerSet(Branches', Events', Checkpoints', RunIds')]
         /\ call' \in CallSet(Branches', Events', Checkpoints')
         /\ agent' \in [Branches' -> [Agents -> DeliverySet(Events', RunIds')]]
         /\ thread' \in [Branches' -> [Agents -> ThreadSet(RunIds')]]
         /\ stored' \in [Branches' -> [Agents -> SUBSET Checkpoints']]
         /\ restarts' \in 0 .. limits'.restarts /\ limits' \in Limits
  PROVE  TypeOK'
BY DEF TypeOK, EventSet, BranchSet, ThreadSet, CheckpointSet, FrontierSet, RunSet, WorkerSet,
       CallSet, DeliverySet

\* The steps of the stores: what each leaves, and of what type.
LEMMA EventAppended ==
  ASSUME TypeInv, NEW author \in Agents \union {Human}, NEW b \in Branches, NEW before \in Events,
         NEW run \in RunIds, events' = Append(events, NewEvent(author, b, before, run))
  PROVE  /\ EventsKept /\ Len(events') = Len(events) + 1
         /\ Events' = 0 .. Len(events) + 1
         /\ events' \in Seq(EventSet(Branches, Events, RunIds))
         /\ LET e == events'[Len(events) + 1]
            IN  /\ e.author = author /\ e.branch = b /\ e.run = run
                /\ e.before = IF before = NoEvent THEN Latest(b) ELSE before
<1>1. NewEvent(author, b, before, run) \in EventSet(Branches, Events, RunIds)
  BY LatestIs DEF NewEvent, EventSet
<1>2. events \in Seq(EventSet(Branches, Events, RunIds)) /\ Len(events) \in Nat
  BY EventsAre, Sizes
<1>3. /\ Len(events') = Len(events) + 1
      /\ events' \in Seq(EventSet(Branches, Events, RunIds))
      /\ events'[Len(events) + 1] = NewEvent(author, b, before, run)
      /\ \A i \in 1 .. Len(events) : events'[i] = events[i]
  <2> DEFINE new == NewEvent(author, b, before, run)
  <2> HIDE DEF new
  <2> events' = Append(events, new) /\ new \in EventSet(Branches, Events, RunIds)
    BY <1>1 DEF new
  <2>1. /\ Len(events') = Len(events) + 1
        /\ events' \in Seq(EventSet(Branches, Events, RunIds))
        /\ events'[Len(events) + 1] = new
        /\ \A i \in 1 .. Len(events) : events'[i] = events[i]
    BY <1>2
  <2> QED
    BY <2>1 DEF new
<1> QED
  BY <1>2, <1>3 DEF EventsKept, Events, NewEvent

LEMMA DeliveryOperationsType ==
  ASSUME NEW es \in SUBSET Nat, NEW ids, NoSeq \in es, NoRun \in ids,
         NEW s \in DeliveryStates(es, ids), NEW seq \in es, NEW run, NEW status,
         NEW delivered \in BOOLEAN
  PROVE  /\ Enqueue(s, seq) \in DeliveryStates(es, ids)
         /\ run \in ids => MarkRunStarted(s, run, seq) \in DeliveryStates(es, ids)
         /\ CompleteRun(s, run, seq, delivered) \in DeliveryStates(es, ids)
         /\ ReleaseRun(s, run) \in DeliveryStates(es, ids)
         /\ ClearRunAgentState(s, run, seq, status) \in DeliveryStates(es, ids)
<1> USE DEF DeliveryStates
<1>1. Later(seq, s.queuedAfter) \in es /\ Later(seq, s.lastDelivered) \in es
  BY DEF Later
<1>2. KeepsQueue(s, seq) \in BOOLEAN
  BY DEF KeepsQueue
<1>3. Enqueue(s, seq) \in DeliveryStates(es, ids)
  BY <1>1 DEF Enqueue
<1>4. run \in ids => MarkRunStarted(s, run, seq) \in DeliveryStates(es, ids)
  BY <1>2 DEF MarkRunStarted
<1>5. CompleteRun(s, run, seq, delivered) \in DeliveryStates(es, ids)
  BY <1>1, <1>2 DEF CompleteRun
<1>6. ReleaseRun(s, run) \in DeliveryStates(es, ids)
  BY DEF ReleaseRun
<1>7. ClearRunAgentState(s, run, seq, status) \in DeliveryStates(es, ids)
  BY <1>1 DEF ClearRunAgentState
<1> QED
  BY <1>3, <1>4, <1>5, <1>6, <1>7

LEMMA DeliverySetKept ==
  ASSUME NEW es \in SUBSET Nat, NEW ids, 0 \in es, 0 \in ids,
         NEW s \in DeliverySet(es, ids), NEW seq \in es
  PROVE  /\ Enqueue(s, seq) \in DeliverySet(es, ids)
         /\ \A run \in ids : MarkRunStarted(s, run, seq) \in DeliverySet(es, ids)
         /\ \A run : \A delivered \in BOOLEAN : CompleteRun(s, run, seq, delivered) \in DeliverySet(es, ids)
         /\ \A run : ReleaseRun(s, run) \in DeliverySet(es, ids)
         /\ \A run, status : ClearRunAgentState(s, run, seq, status) \in DeliverySet(es, ids)
<1> DEFINE all == ids \union {BlankRun}
<1>1. NoSeq \in es /\ NoRun \in all /\ ids \subseteq all /\ s \in DeliveryStates(es, all)
  BY DEF NoSeq, NoRun, DeliverySet
<1>2. DeliverySet(es, ids) = DeliveryStates(es, all)
  BY DEF DeliverySet
<1> HIDE DEF all
<1>3. ASSUME NEW run, NEW status, NEW delivered \in BOOLEAN
      PROVE  /\ Enqueue(s, seq) \in DeliveryStates(es, all)
             /\ run \in all => MarkRunStarted(s, run, seq) \in DeliveryStates(es, all)
             /\ CompleteRun(s, run, seq, delivered) \in DeliveryStates(es, all)
             /\ ReleaseRun(s, run) \in DeliveryStates(es, all)
             /\ ClearRunAgentState(s, run, seq, status) \in DeliveryStates(es, all)
  BY <1>1, DeliveryOperationsType
<1>4. TRUE \in BOOLEAN
  OBVIOUS
<1> QED
  BY <1>1, <1>2, <1>3, <1>4

LEMMA AsksType ==
  ASSUME NEW es \in SUBSET Nat, NoSeq \in es, NEW seq \in es, NEW b \in Branches,
         NEW targets \in SUBSET Agents, Asks(b, targets, seq),
         agent \in [Branches -> [Agents -> DeliverySet(es, RunIds)]],
         NoRun \in RunIds
  PROVE  agent' \in [Branches -> [Agents -> DeliverySet(es, RunIds)]]
<1> DEFINE next == [a \in Agents |-> IF a \in targets THEN Enqueue(agent[b][a], seq) ELSE agent[b][a]]
<1>1. ASSUME NEW a \in Agents
      PROVE  Enqueue(agent[b][a], seq) \in DeliverySet(es, RunIds)
  <2>1. agent[b][a] \in DeliveryStates(es, RunIds \union {BlankRun})
    BY DEF DeliverySet
  <2> QED
    BY <2>1, DeliveryOperationsType DEF DeliverySet
<1>2. next \in [Agents -> DeliverySet(es, RunIds)]
  BY <1>1
<1>3. agent' = [agent EXCEPT ![b] = next]
  BY DEF Asks
<1> HIDE DEF next
<1> QED
  BY <1>2, <1>3

\* A graph that ran has added one checkpoint, and its thread holds it.
LEMMA CheckpointWritten ==
  ASSUME TypeInv, NEW b \in Branches, NEW a \in Agents, NEW from \in Checkpoints,
         NEW delivered \in SUBSET Events, Writes(b, a, from, delivered)
  PROVE  /\ SavedKept /\ Len(saved') = Len(saved) + 1
         /\ Checkpoints' = 0 .. Len(saved) + 1
         /\ saved' \in Seq(CheckpointSet(Events, Checkpoints))
         /\ LET c == saved'[Len(saved) + 1]
            IN  c.parent = from /\ c.memory = MemoryOf(from) \union delivered
         /\ \A c \in 1 .. Len(saved') : saved'[c].parent < c
         /\ stored' \in [Branches -> [Agents -> SUBSET (1 .. Len(saved) + 1)]]
         /\ stored'[b][a] = stored[b][a] \union {Len(saved) + 1}
         /\ \A d \in Branches, x \in Agents : <<d, x>> # <<b, a>> => stored'[d][x] = stored[d][x]
<1> DEFINE new == [parent |-> from, memory |-> MemoryOf(from) \union delivered]
<1>0. Len(saved) \in Nat /\ Checkpoints = 0 .. Len(saved)
  BY Sizes DEF Checkpoints
<1>1. new \in CheckpointSet(Events, Checkpoints)
  <2>1. MemoryOf(from) \in SUBSET Events
    BY <1>0, SavedAre DEF MemoryOf, NoCheckpoint
  <2> QED
    BY <2>1 DEF CheckpointSet
<1>2. saved \in Seq(CheckpointSet(Events, Checkpoints))
  BY SavedAre
<1>3. new.parent = from /\ new.memory = MemoryOf(from) \union delivered
  OBVIOUS
<1>4. saved' = Append(saved, new)
  BY DEF Writes
<1> HIDE DEF new
<1>5. /\ Len(saved') = Len(saved) + 1
      /\ saved' \in Seq(CheckpointSet(Events, Checkpoints))
      /\ saved'[Len(saved) + 1] = new
      /\ \A c \in 1 .. Len(saved) : saved'[c] = saved[c]
  BY <1>1, <1>2, <1>4
<1>6. \A c \in 1 .. Len(saved') : saved'[c].parent < c
  <2>1. \A c \in 1 .. Len(saved) : saved[c].parent < c
    BY SavedAre
  <2> QED
    BY <1>0, <1>3, <1>5, <2>1
<1>7. /\ stored' \in [Branches -> [Agents -> SUBSET (1 .. Len(saved) + 1)]]
      /\ stored'[b][a] = stored[b][a] \union {Len(saved) + 1}
      /\ \A d \in Branches, x \in Agents : <<d, x>> # <<b, a>> => stored'[d][x] = stored[d][x]
  <2>1. stored' = [stored EXCEPT ![b][a] = stored[b][a] \union {Len(saved) + 1}]
    BY DEF Writes
  <2>2. stored \in [Branches -> [Agents -> SUBSET (1 .. Len(saved))]]
    BY ThreadsAre
  <2>3. stored \in [Branches -> [Agents -> SUBSET (1 .. Len(saved) + 1)]]
    BY <1>0, <2>2
  <2>4. stored[b][a] \union {Len(saved) + 1} \in SUBSET (1 .. Len(saved) + 1)
    BY <1>0, <2>3
  <2> QED
    BY <2>1, <2>3, <2>4
<1>8. SavedKept /\ Checkpoints' = 0 .. Len(saved) + 1
  BY <1>0, <1>5 DEF SavedKept, Checkpoints
<1> QED
  BY <1>3, <1>5, <1>6, <1>7, <1>8


\* What frontiers there are afterwards is what there was, and the new one.
LEMMA FrontierRecorded ==
  ASSUME NEW S, frontiers \in Seq(S), NEW f \in S, NEW next, next = RecordFrontier(f)
  PROVE  /\ next \in Seq(S)
         /\ \A k \in 1 .. Len(next) : next[k] = f \/ \E j \in 1 .. Len(frontiers) : next[k] = frontiers[j]
<1>0. Len(frontiers) \in Nat
  OBVIOUS
<1>1. ASSUME NEW k \in 1 .. Len(frontiers)
      PROVE  /\ Without(k) \in Seq(S)
             /\ \A q \in 1 .. Len(Without(k)) : \E j \in 1 .. Len(frontiers) : Without(k)[q] = frontiers[j]
  <2> DEFINE front == SubSeq(frontiers, 1, k - 1)
             back  == SubSeq(frontiers, k + 1, Len(frontiers))
  <2>1. /\ front \in Seq(S) /\ Len(front) = k - 1
        /\ \A q \in 1 .. k - 1 : front[q] = frontiers[q]
    BY <1>0
  <2>2. /\ back \in Seq(S) /\ Len(back) = Len(frontiers) - k
        /\ \A q \in 1 .. Len(frontiers) - k : back[q] = frontiers[k + q]
    BY <1>0
  <2>3. Without(k) = front \o back
    BY DEF Without
  <2> HIDE DEF front, back
  <2>4. /\ Without(k) \in Seq(S) /\ Len(Without(k)) = Len(frontiers) - 1
        /\ \A q \in 1 .. Len(frontiers) - 1 :
             Without(k)[q] = IF q <= k - 1 THEN front[q] ELSE back[q - (k - 1)]
    <3>1. (k - 1) + (Len(frontiers) - k) = Len(frontiers) - 1 /\ k - 1 \in Nat
      BY <1>0
    <3>2. front \in Seq(S) /\ back \in Seq(S)
      BY <2>1, <2>2
    <3>3. /\ front \o back \in Seq(S) /\ Len(front \o back) = Len(front) + Len(back)
          /\ \A q \in 1 .. Len(front) + Len(back) :
               (front \o back)[q] = IF q <= Len(front) THEN front[q] ELSE back[q - Len(front)]
      BY <3>2
    <3> QED
      BY <2>1, <2>2, <2>3, <3>1, <3>3
  <2>5. ASSUME NEW q \in 1 .. Len(Without(k))
        PROVE  \E j \in 1 .. Len(frontiers) : Without(k)[q] = frontiers[j]
    <3>1. CASE q <= k - 1
      BY <1>0, <2>1, <2>4, <3>1
    <3>2. CASE ~(q <= k - 1)
      <4>1. q - (k - 1) \in 1 .. Len(frontiers) - k /\ q + 1 \in 1 .. Len(frontiers)
        BY <1>0, <2>4, <3>2
      <4>2. Without(k)[q] = frontiers[k + (q - (k - 1))]
        BY <1>0, <2>2, <2>4, <3>2, <4>1
      <4>3. k + (q - (k - 1)) = q + 1
        BY <1>0, <2>4
      <4> QED
        BY <4>1, <4>2, <4>3
    <3> QED
      BY <3>1, <3>2
  <2> QED
    BY <2>4, <2>5
<1> DEFINE old  == {k \in 1 .. Len(frontiers) : SameKey(f, frontiers[k])}
           rest == IF old = {} THEN frontiers ELSE Without(CHOOSE k \in old : TRUE)
<1>2. /\ rest \in Seq(S)
      /\ \A q \in 1 .. Len(rest) : \E j \in 1 .. Len(frontiers) : rest[q] = frontiers[j]
  <2>1. CASE old = {}
    BY <2>1
  <2>2. CASE old # {}
    <3>1. (CHOOSE k \in old : TRUE) \in 1 .. Len(frontiers)
      BY <2>2
    <3>2. rest = Without(CHOOSE k \in old : TRUE)
      BY <2>2
    <3> HIDE DEF old, rest
    <3> QED
      BY <1>1, <3>1, <3>2
  <2> QED
    BY <2>1, <2>2
<1>3. next = Append(rest, f)
  BY DEF RecordFrontier
<1> HIDE DEF rest
<1> QED
  BY <1>2, <1>3

\* _save_run changes one record or adds one.
LEMMA RunSaved ==
  ASSUME TypeInv, NEW r \in 1 .. Len(runs) + 1, NEW run \in RunSet(Branches, Events, Checkpoints),
         SaveRun(r, run)
  PROVE  /\ runs' \in Seq(RunSet(Branches, Events, Checkpoints))
         /\ Len(runs') = IF r = Len(runs) + 1 THEN r ELSE Len(runs)
         /\ runs'[r] = run
         /\ \A q \in 1 .. Len(runs) : q # r => runs'[q] = runs[q]
<1> DEFINE S == RunSet(Branches, Events, Checkpoints)
           n == Later(r, Len(runs))
<1>1. runs \in Seq(S) /\ Len(runs) \in Nat
  BY RunsAre
<1>2. n \in Nat /\ n = IF r = Len(runs) + 1 THEN r ELSE Len(runs)
  BY <1>1 DEF Later
<1>3. runs' = [q \in 1 .. n |-> IF q = r THEN run ELSE runs[q]]
  BY DEF SaveRun
<1> HIDE DEF S, n
<1>4. \A q \in 1 .. n : (IF q = r THEN run ELSE runs[q]) \in S
  BY <1>1, <1>2 DEF S
<1>5. runs' \in Seq(S) /\ Len(runs') = n
  BY <1>2, <1>3, <1>4
<1> QED
  BY <1>1, <1>2, <1>3, <1>5 DEF S

\* A branch is created, and its agents have nothing there but the cursor they start with.
LEMMA BranchCreated ==
  ASSUME TypeInv, NEW parent \in Branches, NEW event \in Events, NEW checkpoint \in Checkpoints,
         NEW seq \in Events \union {NoLimit}, CreateBranch(parent, event, checkpoint, seq),
         stored' = SpaceFor(stored)
  PROVE  LET new == Len(branches) + 1
         IN  /\ BranchesKept /\ Len(branches') = new
             /\ Branches' = 0 .. new
             /\ branches' \in Seq(BranchSet(Branches, Events, Checkpoints))
             /\ branches'[new].parent = parent /\ branches'[new].originEvent = event
             /\ branches'[new].originCheckpoint = checkpoint /\ branches'[new].originSeq = seq
             /\ ~branches'[new].archived
             /\ \A b \in 1 .. Len(branches) : branches'[b] = branches[b]
             /\ agent' \in [Branches' -> [Agents -> DeliverySet(Events, RunIds)]]
             /\ thread' \in [Branches' -> [Agents -> ThreadSet(RunIds)]]
             /\ stored' \in [Branches' -> [Agents -> SUBSET (1 .. Len(saved))]]
             /\ \A b \in Branches : /\ agent'[b] = agent[b] /\ thread'[b] = thread[b]
                                    /\ stored'[b] = stored[b]
             /\ \A a \in Agents :
                  /\ agent'[new][a] = [NewDeliveryState EXCEPT
                       !.lastDelivered = ForkCursor(agent[parent][a], seq)]
                  /\ thread'[new][a] = NoThread /\ stored'[new][a] = {}
<1> DEFINE new == Len(branches) + 1
           record == [parent |-> parent, originEvent |-> event, originCheckpoint |-> checkpoint,
                      originSeq |-> seq, archived |-> FALSE]
           state(a) == [NewDeliveryState EXCEPT !.lastDelivered = ForkCursor(agent[parent][a], seq)]
<1>0. /\ Len(branches) \in Nat /\ Branches = 0 .. Len(branches) /\ new \in Nat
      /\ Events \in SUBSET Nat /\ NoEvent \in Events /\ NoRun \in RunIds
  BY Sizes DEF Events, RunIds, NoEvent, NoRun
<1>1. /\ branches' = Append(branches, record) /\ new \notin Branches /\ Branches \subseteq 0 .. new
      /\ agent' = [b \in 0 .. new |-> IF b = new THEN [a \in Agents |-> state(a)] ELSE agent[b]]
      /\ thread' = [b \in 0 .. new |-> IF b = new THEN [a \in Agents |-> NoThread] ELSE thread[b]]
      /\ stored' = [b \in 0 .. new |-> IF b = new THEN [a \in Agents |-> {}] ELSE stored[b]]
  BY <1>0 DEF CreateBranch, SpaceFor
<1>2. /\ Len(branches') = new /\ BranchesKept /\ Branches' = 0 .. new
      /\ branches' \in Seq(BranchSet(Branches, Events, Checkpoints))
      /\ \A b \in 1 .. Len(branches) : branches'[b] = branches[b]
      /\ branches'[new] = record
  <2>1. branches \in Seq(BranchSet(Branches, Events, Checkpoints))
    BY BranchesAre
  <2>2. record \in BranchSet(Branches, Events, Checkpoints)
    BY DEF BranchSet
  <2>3. /\ Len(branches') = new
        /\ branches' \in Seq(BranchSet(Branches, Events, Checkpoints))
        /\ \A b \in 1 .. Len(branches) : branches'[b] = branches[b]
        /\ branches'[new] = record
    <3> HIDE DEF record
    <3> QED
      BY <1>0, <1>1, <2>1, <2>2
  <2> QED
    BY <1>0, <2>3 DEF BranchesKept, Branches
<1>3. ASSUME NEW a \in Agents
      PROVE  state(a) \in DeliverySet(Events, RunIds)
  <2>1. agent[parent][a] \in DeliverySet(Events, RunIds)
    BY ThreadsAre
  <2>2. ForkCursor(agent[parent][a], seq) \in Events
    BY <2>1 DEF DeliverySet, DeliveryStates, ForkCursor
  <2> QED
    BY <1>0, <2>2 DEF DeliverySet, DeliveryStates, NewDeliveryState, NoSeq, NoEvent
<1>4. NoThread \in ThreadSet(RunIds)
  BY <1>0 DEF NoThread, ThreadSet
<1> HIDE DEF new, state
<1>5. /\ agent' \in [Branches' -> [Agents -> DeliverySet(Events, RunIds)]]
      /\ \A b \in Branches : agent'[b] = agent[b]
      /\ \A a \in Agents : agent'[new][a] = state(a)
  <2>1. agent \in [Branches -> [Agents -> DeliverySet(Events, RunIds)]]
    BY ThreadsAre
  <2>2. new \in 0 .. new /\ \A b \in 0 .. new : b # new => b \in Branches
    BY <1>0 DEF new
  <2> QED
    BY <1>1, <1>2, <1>3, <2>1, <2>2
<1>6. /\ thread' \in [Branches' -> [Agents -> ThreadSet(RunIds)]]
      /\ \A b \in Branches : thread'[b] = thread[b]
      /\ \A a \in Agents : thread'[new][a] = NoThread
  <2>1. thread \in [Branches -> [Agents -> ThreadSet(RunIds)]]
    BY ThreadsAre
  <2>2. new \in 0 .. new /\ \A b \in 0 .. new : b # new => b \in Branches
    BY <1>0 DEF new
  <2> QED
    BY <1>1, <1>2, <1>4, <2>1, <2>2
<1>7. /\ stored' \in [Branches' -> [Agents -> SUBSET (1 .. Len(saved))]]
      /\ \A b \in Branches : stored'[b] = stored[b]
      /\ \A a \in Agents : stored'[new][a] = {}
  <2>1. stored \in [Branches -> [Agents -> SUBSET (1 .. Len(saved))]]
    BY ThreadsAre
  <2>2. new \in 0 .. new /\ \A b \in 0 .. new : b # new => b \in Branches
    BY <1>0 DEF new
  <2> QED
    BY <1>1, <1>2, <2>1, <2>2
<1> QED
  BY <1>2, <1>5, <1>6, <1>7 DEF new, state

\* reconcile_incomplete_commits gives up the pending runs, and leaves the others.
LEMMA RunsReconciled ==
  ASSUME TypeInv, NEW threads \in [Branches -> [Agents -> ThreadSet(RunIds)]], Reconcile(threads)
  PROVE  /\ RunsKept /\ Len(runs') = Len(runs)
         /\ runs' \in Seq(RunSet(Branches, Events, Checkpoints))
         /\ \A r \in 1 .. Len(runs) :
              IF runs[r].commit = "pending"
                THEN /\ runs'[r].commit = "orphaned" /\ runs'[r].status = "failed"
                     /\ runs'[r].stable = runs[r].stable
                ELSE runs'[r] = runs[r]
         /\ agent' \in [Branches -> [Agents -> DeliverySet(Events, RunIds)]]
         /\ \A b \in Branches, a \in Agents :
              agent'[b][a] = IF /\ agent[b][a].currentRun \in 1 .. Len(runs)
                                /\ runs[agent[b][a].currentRun].commit = "pending"
                               THEN ReleaseRun(agent[b][a], agent[b][a].currentRun)
                               ELSE agent[b][a]
         /\ thread' \in [Branches -> [Agents -> ThreadSet(RunIds)]]
         /\ \A b \in Branches, a \in Agents :
              \/ thread'[b][a] = threads[b][a]
              \/ threads[b][a].status = "active" /\ thread'[b][a].status = "orphaned"
<1>0. Len(runs) \in Nat /\ Events \in SUBSET Nat /\ 0 \in Events /\ NoRun \in RunIds
  BY Sizes DEF Events, RunIds, NoRun
<1> DEFINE given(r) == [runs[r] EXCEPT !.status = "failed", !.commit = "orphaned",
                          !.latest = LatestCheckpoint(runs[r].branch, runs[r].agent)]
           next(r)  == IF runs[r].commit = "pending" THEN given(r) ELSE runs[r]
<1>1. ASSUME NEW r \in 1 .. Len(runs)
      PROVE  /\ given(r) \in RunSet(Branches, Events, Checkpoints)
             /\ given(r).commit = "orphaned" /\ given(r).status = "failed"
             /\ given(r).stable = runs[r].stable
             /\ given(r).agent = runs[r].agent /\ given(r).lane = runs[r].lane
             /\ given(r).branch = runs[r].branch /\ given(r).low = runs[r].low
             /\ given(r).snapshot = runs[r].snapshot
             /\ runs[r] \in RunSet(Branches, Events, Checkpoints)
  <2>1. runs[r] \in RunSet(Branches, Events, Checkpoints)
    BY RunsAre
  <2>2. LatestCheckpoint(runs[r].branch, runs[r].agent) \in Checkpoints
    BY RunsAre, LatestIs
  <2> QED
    BY <2>1, <2>2 DEF RunSet, Statuses, Commits
<1>2. runs' = [r \in 1 .. Len(runs) |-> next(r)]
  BY DEF Reconcile
<1> HIDE DEF given
<1>3. runs' \in Seq(RunSet(Branches, Events, Checkpoints)) /\ Len(runs') = Len(runs)
  BY <1>0, <1>1, <1>2
<1>4. \A r \in 1 .. Len(runs) : runs'[r] = next(r)
  BY <1>2
<1>5. RunsKept
  BY <1>0, <1>1, <1>3, <1>4 DEF RunsKept, RunKept
<1> DEFINE lost(b, a) == /\ agent[b][a].currentRun \in 1 .. Len(runs)
                         /\ runs[agent[b][a].currentRun].commit = "pending"
           released(b, a) == IF lost(b, a) THEN ReleaseRun(agent[b][a], agent[b][a].currentRun)
                             ELSE agent[b][a]
<1>6. agent' = [b \in Branches |-> [a \in Agents |-> released(b, a)]]
  <2>1. ASSUME NEW b, NEW a
        PROVE  (\E r \in 1 .. Len(runs) : runs[r].commit = "pending" /\ r = agent[b][a].currentRun)
               <=> lost(b, a)
    OBVIOUS
  <2> HIDE DEF lost
  <2> QED
    BY <2>1 DEF Reconcile
<1>7. ASSUME NEW b \in Branches, NEW a \in Agents
      PROVE  released(b, a) \in DeliverySet(Events, RunIds)
  <2>1. agent[b][a] \in DeliverySet(Events, RunIds)
    BY ThreadsAre
  <2>2. ReleaseRun(agent[b][a], agent[b][a].currentRun) \in DeliverySet(Events, RunIds)
    BY <1>0, <2>1, DeliveryOperationsType DEF DeliverySet, NoSeq
  <2> QED
    BY <2>1, <2>2
<1> DEFINE row(b, a) ==
      IF threads[b][a].status = "active" /\ threads[b][a].commit \notin CommittedIds
        THEN [threads[b][a] EXCEPT !.status = "orphaned"] ELSE threads[b][a]
<1>8. thread' = [b \in Branches |-> [a \in Agents |-> row(b, a)]]
  BY DEF Reconcile
<1>9. ASSUME NEW b \in Branches, NEW a \in Agents
      PROVE  /\ row(b, a) \in ThreadSet(RunIds)
             /\ \/ row(b, a) = threads[b][a]
                \/ threads[b][a].status = "active" /\ row(b, a).status = "orphaned"
  <2>1. threads[b][a] \in ThreadSet(RunIds)
    OBVIOUS
  <2> QED
    BY <2>1 DEF ThreadSet
<1>10. /\ agent' \in [Branches -> [Agents -> DeliverySet(Events, RunIds)]]
       /\ \A b \in Branches, a \in Agents : agent'[b][a] = released(b, a)
  <2> HIDE DEF released
  <2> QED
    BY <1>6, <1>7
<1>11. /\ thread' \in [Branches -> [Agents -> ThreadSet(RunIds)]]
       /\ \A b \in Branches, a \in Agents : thread'[b][a] = row(b, a)
  <2> HIDE DEF row
  <2> QED
    BY <1>8, <1>9
<1>12. \A r \in 1 .. Len(runs) :
         IF runs[r].commit = "pending"
           THEN /\ runs'[r].commit = "orphaned" /\ runs'[r].status = "failed"
                /\ runs'[r].stable = runs[r].stable
           ELSE runs'[r] = runs[r]
  BY <1>1, <1>4
<1>13. \A b \in Branches, a \in Agents :
         \/ thread'[b][a] = threads[b][a]
         \/ threads[b][a].status = "active" /\ thread'[b][a].status = "orphaned"
  <2> HIDE DEF row
  <2> QED
    BY <1>9, <1>11
<1> QED
  BY <1>3, <1>5, <1>10, <1>11, <1>12, <1>13

\* ensure_branch_thread takes over what the frontier's checkpoint goes back to, or nothing.
LEMMA ForkSourceIs ==
  ASSUME TypeInv, NEW b \in Branches, NEW a \in Agents, Forks(b, a)
  PROVE  LET k == ForkSource(b, a)
         IN  /\ b # Main /\ k \in 1 .. Len(frontiers) /\ frontiers[k].agent = a
             /\ frontiers[k].branch = branches[b].parent /\ frontiers[k].usable
             /\ \/ frontiers[k].event = branches[b].originEvent
                \/ /\ frontiers[k].checkpoint = branches[b].originCheckpoint
                   /\ branches[b].originCheckpoint # NoCheckpoint
<1> DEFINE own == FrontiersOf(branches[b].parent, a)
           atEvent  == {k \in own : frontiers[k].event = branches[b].originEvent}
           atCheckpoint == {k \in own : frontiers[k].checkpoint = branches[b].originCheckpoint}
           k == ForkSource(b, a)
<1>0. Len(frontiers) \in Nat
  BY Sizes
<1>1. k # 0
  BY DEF Forks
<1>2. /\ b # Main
      /\ \/ k = Greatest(atEvent)
         \/ branches[b].originCheckpoint # NoCheckpoint /\ k = Greatest(atCheckpoint)
  BY <1>1 DEF ForkSource
<1>3. own \subseteq 1 .. Len(frontiers)
  BY DEF FrontiersOf
<1>4. /\ Greatest(atEvent) \in atEvent \union {0}
      /\ Greatest(atCheckpoint) \in atCheckpoint \union {0}
  <2>1. atEvent \in SUBSET (0 .. Len(frontiers)) /\ atCheckpoint \in SUBSET (0 .. Len(frontiers))
    BY <1>0, <1>3
  <2> HIDE DEF atEvent, atCheckpoint
  <2> QED
    BY <1>0, <2>1, GreatestIs
<1>5. \/ k \in atEvent
      \/ branches[b].originCheckpoint # NoCheckpoint /\ k \in atCheckpoint
  <2> HIDE DEF atEvent, atCheckpoint, k
  <2> QED
    BY <1>1, <1>2, <1>4
<1> HIDE DEF k
<1>6. k \in own /\ k \in 1 .. Len(frontiers)
  BY <1>3, <1>5
<1>7. frontiers[k].agent = a /\ frontiers[k].branch = branches[b].parent
  BY <1>6 DEF FrontiersOf
<1>8. frontiers[k].usable
  BY DEF Forks, k
<1> QED
  BY <1>2, <1>5, <1>6, <1>7, <1>8 DEF k

LEMMA ForkedCheckpointsType ==
  ASSUME TypeInv, NEW b \in Branches, NEW a \in Agents
  PROVE  ForkedCheckpoints(b, a) \in SUBSET (1 .. Len(saved))
<1>0. Len(saved) \in Nat /\ Checkpoints = 0 .. Len(saved)
  BY Sizes DEF Checkpoints
<1>1. CASE Forks(b, a)
  <2> DEFINE c == frontiers[ForkSource(b, a)].checkpoint
  <2>1. c \in 1 .. Len(saved)
    BY <1>1, ForkSourceIs, FrontiersAre
  <2>2. Chain[c] \subseteq 1 .. c
    BY <1>0, <2>1, ChainType
  <2>3. ForkedCheckpoints(b, a) = Chain[c]
    BY <1>1 DEF ForkedCheckpoints
  <2> HIDE DEF c
  <2> QED
    BY <1>0, <2>1, <2>2, <2>3
<1>2. CASE ~Forks(b, a)
  BY <1>2, ThreadsAre DEF ForkedCheckpoints
<1> QED
  BY <1>1, <1>2

LEMMA ThreadEnsured ==
  ASSUME TypeInv, NEW b \in Branches, NEW a \in Agents, NEW ids, RunIds \subseteq ids,
         NEW commit \in ids, EnsureThread(b, a, commit)
  PROVE  /\ thread' \in [Branches -> [Agents -> ThreadSet(ids)]]
         /\ stored' \in [Branches -> [Agents -> SUBSET (1 .. Len(saved))]]
         /\ thread'[b][a].status = "active"
         /\ stored'[b][a] = IF thread[b][a].status = "active" THEN stored[b][a]
                            ELSE ForkedCheckpoints(b, a)
         /\ \A d \in Branches, x \in Agents : <<d, x>> # <<b, a>> =>
              stored'[d][x] = stored[d][x] /\ thread'[d][x] = thread[d][x]
<1>1. /\ thread \in [Branches -> [Agents -> ThreadSet(ids)]]
      /\ stored \in [Branches -> [Agents -> SUBSET (1 .. Len(saved))]]
  <2>1. thread \in [Branches -> [Agents -> ThreadSet(RunIds)]]
    BY ThreadsAre
  <2>2. ThreadSet(RunIds) \subseteq ThreadSet(ids)
    BY DEF ThreadSet
  <2> QED
    BY <2>1, <2>2, ThreadsAre
<1>2. CASE thread[b][a].status = "active"
  BY <1>1, <1>2 DEF EnsureThread
<1>3. CASE thread[b][a].status # "active"
  <2> DEFINE row == [status |-> "active", commit |-> commit]
  <2>1. row \in ThreadSet(ids) /\ row.status = "active"
    BY DEF ThreadSet
  <2>2. ForkedCheckpoints(b, a) \in SUBSET (1 .. Len(saved))
    BY ForkedCheckpointsType
  <2>3. /\ thread' = [thread EXCEPT ![b][a] = row]
        /\ stored' = [stored EXCEPT ![b][a] = ForkedCheckpoints(b, a)]
    BY <1>3 DEF EnsureThread, SaveThread
  <2> HIDE DEF row
  <2> QED
    BY <1>1, <1>3, <2>1, <2>2, <2>3
<1> QED
  BY <1>2, <1>3

LEMMA AgentSaved ==
  ASSUME NEW es, NEW ids, agent \in [Branches -> [Agents -> DeliverySet(es, ids)]],
         NEW b \in Branches, NEW a \in Agents, NEW s \in DeliverySet(es, ids),
         SaveAgentState(b, a, s)
  PROVE  /\ agent' \in [Branches -> [Agents -> DeliverySet(es, ids)]]
         /\ agent'[b][a] = s
         /\ \A d \in Branches, x \in Agents : <<d, x>> # <<b, a>> => agent'[d][x] = agent[d][x]
BY DEF SaveAgentState

LEMMA IdleFits ==
  ASSUME NEW bs, NEW es, NEW cs, NEW rs, 0 \in bs, 0 \in es, 0 \in cs, 0 \in rs
  PROVE  IdleWorker \in WorkerSet(bs, es, cs, rs) /\ IdleCall \in CallSet(bs, es, cs)
BY DEF IdleWorker, IdleCall, WorkerSet, CallSet, Main, NoRun, NoCheckpoint, NoEvent

----------------------------------------------------------------------------
(* Steps keep the types: what each variable is after a step.                *)

EventsFit ==
  EventsKept /\ events' \in Seq(EventSet(Branches, Events, RunIds)) /\ Len(events') \in Nat

BranchesFit ==
  /\ BranchesKept /\ branches' \in Seq(BranchSet(Branches, Events, Checkpoints))
  /\ Len(branches') \in Nat
  /\ \A b \in 1 .. Len(branches') : branches'[b].parent < b

SavedFit ==
  /\ SavedKept /\ saved' \in Seq(CheckpointSet(Events, Checkpoints)) /\ Len(saved') \in Nat
  /\ \A c \in 1 .. Len(saved') : saved'[c].parent < c

RunsFit ==
  RunsKept /\ runs' \in Seq(RunSet(Branches, Events, Checkpoints)) /\ Len(runs') \in Nat

FrontierFits(f) ==
  /\ f \in FrontierSet(Branches', Events', Checkpoints', RunIds')
  /\ f.run # NoRun /\ f.event # NoEvent /\ f.checkpoint # NoCheckpoint /\ f.thread = f.branch

FrontiersFit ==
  /\ frontiers' \in Seq(FrontierSet(Branches', Events', Checkpoints', RunIds'))
  /\ \A k \in 1 .. Len(frontiers') : FrontierFits(frontiers'[k])

WorkerFits(x) ==
  /\ x \in WorkerSet(Branches', Events', Checkpoints', RunIds')
  /\ x.thread = x.branch
  /\ x.pc \in {"invoking", "completing", "replying"} => x.run # NoRun

WorkersFit ==
  /\ worker' \in [Workers -> WorkerSet(Branches', Events', Checkpoints', RunIds')]
  /\ \A w \in Workers : WorkerFits(worker'[w])

CallFits ==
  /\ call' \in CallSet(Branches', Events', Checkpoints')
  /\ call'.pc \in {"edited", "editing"} => call'.event # NoEvent

AgentsFit == agent' \in [Branches' -> [Agents -> DeliverySet(Events', RunIds')]]

ThreadsFit == thread' \in [Branches' -> [Agents -> ThreadSet(RunIds')]]

StoredFit == stored' \in [Branches' -> [Agents -> SUBSET (1 .. Len(saved'))]]

LEMMA StoresFit ==
  ASSUME TypeInv
  PROVE  /\ UNCHANGED events => EventsFit
         /\ UNCHANGED branches => BranchesFit
         /\ UNCHANGED saved => SavedFit
         /\ UNCHANGED runs => RunsFit
BY Sizes, EventsAre, BranchesAre, SavedAre, RunsAre, UnchangedKept
DEF EventsFit, BranchesFit, SavedFit, RunsFit

LEMMA FitGrows ==
  ASSUME TypeInv, EventsFit, BranchesFit, SavedFit, RunsFit
  PROVE  /\ TypesGrow /\ Len(saved) <= Len(saved')
         /\ UNCHANGED branches => Branches' = Branches
         /\ UNCHANGED events => Events' = Events
         /\ UNCHANGED saved => Checkpoints' = Checkpoints
         /\ UNCHANGED runs => RunIds' = RunIds
         /\ Branches' = 0 .. Len(branches') /\ Events' = 0 .. Len(events')
         /\ Checkpoints' = 0 .. Len(saved') /\ RunIds' = 0 .. Len(runs')
<1>1. TypesGrow
  BY SizesGrow DEF EventsFit, BranchesFit, SavedFit, RunsFit, StoresKept
<1> QED
  BY <1>1 DEF SavedFit, SavedKept, Branches, Events, Checkpoints, RunIds

LEMMA FrontierStays ==
  ASSUME TypeInv, TypesGrow
  PROVE  /\ \A k \in 1 .. Len(frontiers) : FrontierFits(frontiers[k])
         /\ UNCHANGED frontiers => FrontiersFit
<1>1. \A k \in 1 .. Len(frontiers) : FrontierFits(frontiers[k])
  <2>1. \A k \in 1 .. Len(frontiers) :
          /\ frontiers[k] \in FrontierSet(Branches, Events, Checkpoints, RunIds)
          /\ frontiers[k].run # NoRun /\ frontiers[k].event # NoEvent
          /\ frontiers[k].checkpoint # NoCheckpoint
          /\ frontiers[k].thread = frontiers[k].branch
    BY FrontiersAre DEF TypeInv, References
  <2> QED
    BY <2>1 DEF TypesGrow, FrontierFits
<1>2. UNCHANGED frontiers => FrontiersFit
  <2>1. frontiers \in Seq(FrontierSet(Branches, Events, Checkpoints, RunIds))
    BY FrontiersAre
  <2> QED
    BY <1>1, <2>1 DEF TypesGrow, FrontiersFit
<1> QED
  BY <1>1, <1>2

LEMMA FrontierAdded ==
  ASSUME TypeInv, TypesGrow, NEW f, FrontierFits(f), frontiers' = RecordFrontier(f)
  PROVE  FrontiersFit
<1> DEFINE S == FrontierSet(Branches', Events', Checkpoints', RunIds')
<1>1. frontiers \in Seq(S) /\ f \in S
  BY FrontiersAre DEF TypesGrow, FrontierFits
<1>2. /\ frontiers' \in Seq(S)
      /\ \A k \in 1 .. Len(frontiers') :
           frontiers'[k] = f \/ \E j \in 1 .. Len(frontiers) : frontiers'[k] = frontiers[j]
  <2> HIDE DEF S
  <2> QED
    BY <1>1, FrontierRecorded
<1> QED
  BY <1>2, FrontierStays DEF FrontiersFit

LEMMA WorkerStays ==
  ASSUME TypeInv, TypesGrow
  PROVE  /\ \A w \in Workers : WorkerFits(worker[w])
         /\ UNCHANGED worker => WorkersFit
<1>1. \A w \in Workers : WorkerFits(worker[w])
  <2>1. \A w \in Workers :
          /\ worker[w] \in WorkerSet(Branches, Events, Checkpoints, RunIds)
          /\ worker[w].thread = worker[w].branch
          /\ worker[w].pc \in {"invoking", "completing", "replying"} => worker[w].run # NoRun
    BY WorkersAre DEF TypeInv, References
  <2> QED
    BY <2>1 DEF TypesGrow, WorkerFits
<1>2. UNCHANGED worker => WorkersFit
  <2>1. worker \in [Workers -> WorkerSet(Branches, Events, Checkpoints, RunIds)]
    BY WorkersAre
  <2> QED
    BY <1>1, <2>1 DEF TypesGrow, WorkersFit
<1> QED
  BY <1>1, <1>2

LEMMA WorkerSetTo ==
  ASSUME TypeInv, TypesGrow, NEW w \in Workers, NEW x, WorkerFits(x),
         worker' = [worker EXCEPT ![w] = x]
  PROVE  /\ WorkersFit /\ worker'[w] = x
         /\ \A v \in Workers : v # w => worker'[v] = worker[v]
<1> DEFINE S == WorkerSet(Branches', Events', Checkpoints', RunIds')
<1>1. worker \in [Workers -> S]
  BY WorkersAre DEF TypesGrow
<1>2. x \in S
  BY DEF WorkerFits
<1>3. /\ worker' \in [Workers -> S] /\ worker'[w] = x
      /\ \A v \in Workers : v # w => worker'[v] = worker[v]
  <2> HIDE DEF S
  <2> QED
    BY <1>1, <1>2
<1> QED
  BY <1>3, WorkerStays DEF WorkersFit

LEMMA RestFits ==
  ASSUME TypeInv, TypesGrow
  PROVE  /\ UNCHANGED call => CallFits
         /\ UNCHANGED <<agent, branches>> => AgentsFit
         /\ UNCHANGED <<thread, branches>> => ThreadsFit
         /\ UNCHANGED <<stored, branches>> /\ SavedFit => StoredFit
<1>1. UNCHANGED branches => Branches' = Branches
  BY DEF Branches
<1>2. UNCHANGED call => CallFits
  BY CallIs DEF TypesGrow, CallFits, TypeInv, References
<1>3. UNCHANGED <<agent, branches>> => AgentsFit
  BY <1>1, ThreadsAre DEF TypesGrow, AgentsFit
<1>4. UNCHANGED <<thread, branches>> => ThreadsFit
  BY <1>1, ThreadsAre DEF TypesGrow, ThreadsFit
<1>5. UNCHANGED <<stored, branches>> /\ SavedFit => StoredFit
  <2> SUFFICES ASSUME UNCHANGED <<stored, branches>>, SavedFit PROVE StoredFit
    OBVIOUS
  <2>1. 1 .. Len(saved) \subseteq 1 .. Len(saved')
    BY Sizes DEF SavedFit, SavedKept
  <2>2. stored \in [Branches -> [Agents -> SUBSET (1 .. Len(saved'))]]
    BY <2>1, ThreadsAre
  <2> QED
    BY <1>1, <2>2 DEF StoredFit
<1> QED
  BY <1>2, <1>3, <1>4, <1>5

\* A step after which each variable fits the stores there are then.
LEMMA StepFits ==
  ASSUME TypeInv, EventsFit, BranchesFit, SavedFit, RunsFit, FrontiersFit, WorkersFit, CallFits,
         AgentsFit, ThreadsFit, StoredFit, current' \in Branches',
         limits' = limits, restarts' \in 0 .. limits.restarts
  PROVE  TypeInv' /\ StoresKept
<1>1. TypesGrow /\ Checkpoints' = 0 .. Len(saved') /\ Branches' = 0 .. Len(branches')
  BY FitGrows
<1>2. TypeOK'
  <2>1. /\ events' \in Seq(EventSet(Branches', Events', RunIds'))
        /\ branches' \in Seq(BranchSet(Branches', Events', Checkpoints'))
        /\ saved' \in Seq(CheckpointSet(Events', Checkpoints'))
        /\ runs' \in Seq(RunSet(Branches', Events', Checkpoints'))
    BY <1>1 DEF TypesGrow, EventsFit, BranchesFit, SavedFit, RunsFit
  <2>2. frontiers' \in Seq(FrontierSet(Branches', Events', Checkpoints', RunIds'))
    BY DEF FrontiersFit
  <2>3. /\ worker' \in [Workers -> WorkerSet(Branches', Events', Checkpoints', RunIds')]
        /\ call' \in CallSet(Branches', Events', Checkpoints')
    BY DEF WorkersFit, CallFits
  <2>4. /\ agent' \in [Branches' -> [Agents -> DeliverySet(Events', RunIds')]]
        /\ thread' \in [Branches' -> [Agents -> ThreadSet(RunIds')]]
    BY DEF AgentsFit, ThreadsFit
  <2>5. stored' \in [Branches' -> [Agents -> SUBSET Checkpoints']]
    <3>1. 1 .. Len(saved') \subseteq Checkpoints'
      BY <1>1 DEF SavedFit
    <3> QED
      BY <3>1 DEF StoredFit
  <2>6. restarts' \in 0 .. limits'.restarts /\ limits' \in Limits
    BY DEF TypeInv, TypeOK
  <2> QED
    BY <2>1, <2>2, <2>3, <2>4, <2>5, <2>6, TypesNext
<1>3. Elders'
  BY DEF Elders, BranchesFit, SavedFit
<1>4. References'
  <2>1. \A b \in Branches', a \in Agents : NoCheckpoint \notin stored'[b][a]
    <3>1. \A b \in Branches', a \in Agents : stored'[b][a] \in SUBSET (1 .. Len(saved'))
      BY DEF StoredFit
    <3> QED
      BY <3>1 DEF NoCheckpoint
  <2>2. \A k \in 1 .. Len(frontiers') :
          /\ frontiers'[k].run # NoRun /\ frontiers'[k].event # NoEvent
          /\ frontiers'[k].checkpoint # NoCheckpoint
          /\ frontiers'[k].thread = frontiers'[k].branch
    BY DEF FrontiersFit, FrontierFits
  <2>3. \A w \in Workers :
          /\ worker'[w].thread = worker'[w].branch
          /\ worker'[w].pc \in {"invoking", "completing", "replying"} => worker'[w].run # NoRun
    BY DEF WorkersFit, WorkerFits
  <2>4. call'.pc \in {"edited", "editing"} => call'.event # NoEvent
    BY DEF CallFits
  <2> QED
    BY <2>1, <2>2, <2>3, <2>4 DEF References
<1>5. StoresKept
  BY DEF EventsFit, BranchesFit, SavedFit, RunsFit, StoresKept
<1> QED
  BY <1>2, <1>3, <1>4, <1>5 DEF TypeInv

StepTyped == TypeInv' /\ StoresKept

LEMMA SmallIds ==
  ASSUME TypeInv
  PROVE  /\ 0 \in Events /\ 0 \in RunIds /\ 0 \in Checkpoints /\ 0 \in Branches
         /\ Events \in SUBSET Nat /\ restarts \in 0 .. limits.restarts
         /\ NoRun \in RunIds /\ NoEvent \in Events /\ NoCheckpoint \in Checkpoints
         /\ Main \in Branches /\ NoSeq \in Events
BY Sizes
DEF Events, RunIds, Checkpoints, Branches, NoRun, NoEvent, NoCheckpoint, Main, NoSeq, TypeInv, TypeOK

\* The steps that append an event, and ask agents to answer it.
LEMMA AppendTyped ==
  ASSUME TypeInv, NEW author \in Agents \union {Human}, NEW b \in Branches, NEW before \in Events,
         NEW run \in RunIds, events' = Append(events, NewEvent(author, b, before, run)),
         UNCHANGED <<branches, saved, runs>>
  PROVE  /\ EventsFit /\ BranchesFit /\ SavedFit /\ RunsFit /\ TypesGrow
         /\ Len(events) + 1 \in Events' /\ Events' \in SUBSET Nat /\ Branches' = Branches
         /\ RunIds' = RunIds /\ Checkpoints' = Checkpoints
         /\ \A targets \in SUBSET Agents : Asks(b, targets, Len(events) + 1) => AgentsFit
<1>0. Len(events) \in Nat
  BY Sizes
<1>1. EventsFit /\ Events' = 0 .. Len(events) + 1
  BY <1>0, EventAppended DEF EventsFit
<1>2. BranchesFit /\ SavedFit /\ RunsFit
  BY StoresFit
<1>3. TypesGrow /\ Branches' = Branches /\ RunIds' = RunIds /\ Checkpoints' = Checkpoints
  BY <1>1, <1>2, FitGrows
<1>4. Len(events) + 1 \in Events' /\ Events' \in SUBSET Nat /\ NoSeq \in Events'
  BY <1>0, <1>1 DEF NoSeq
<1>5. ASSUME NEW targets \in SUBSET Agents, Asks(b, targets, Len(events) + 1)
      PROVE  AgentsFit
  <2> DEFINE es == Events'
             seq == Len(events) + 1
  <2>1. agent \in [Branches -> [Agents -> DeliverySet(es, RunIds)]]
    BY <1>3, ThreadsAre DEF TypesGrow
  <2>2. es \in SUBSET Nat /\ NoSeq \in es /\ seq \in es /\ Asks(b, targets, seq)
    BY <1>4, <1>5
  <2> HIDE DEF es, seq
  <2>3. agent' \in [Branches -> [Agents -> DeliverySet(es, RunIds)]]
    BY <2>1, <2>2, SmallIds, AsksType
  <2> QED
    BY <1>3, <2>3 DEF AgentsFit, es
<1> QED
  BY <1>1, <1>2, <1>3, <1>4, <1>5

LEMMA HumanAppendTyped ==
  ASSUME TypeInv, AppendHumanMessage
  PROVE  StepTyped
<1>1. PICK targets \in SUBSET Agents : Asks(current, targets, Len(events) + 1)
  BY DEF AppendHumanMessage
<1>2. /\ events' = Append(events, NewEvent(Human, current, NoEvent, NoRun))
      /\ UNCHANGED <<branches, current, thread, saved, stored, frontiers, runs, worker, call,
                     restarts, limits>>
  BY DEF AppendHumanMessage
<1>3. /\ EventsFit /\ BranchesFit /\ SavedFit /\ RunsFit /\ TypesGrow /\ AgentsFit
      /\ Branches' = Branches
  BY <1>1, <1>2, AppendTyped, Sizes, SmallIds
<1>4. FrontiersFit /\ WorkersFit /\ CallFits /\ ThreadsFit /\ StoredFit
  BY <1>2, <1>3, FrontierStays, WorkerStays, RestFits
<1> QED
  BY <1>2, <1>3, <1>4, Sizes, SmallIds, StepFits DEF StepTyped

LEMMA EditAppendsTyped ==
  ASSUME TypeInv, EditAppends
  PROVE  StepTyped
<1>1. PICK targets \in SUBSET Agents : Asks(call.branch, targets, Len(events) + 1)
  BY DEF EditAppends
<1>2. /\ events' = Append(events, NewEvent(Human, call.branch, events[call.event].before, NoRun))
      /\ call.pc = "editing" /\ call' = IdleCall
      /\ UNCHANGED <<branches, current, thread, saved, stored, frontiers, runs, worker,
                     restarts, limits>>
  BY DEF EditAppends
<1>3. call.branch \in Branches /\ events[call.event].before \in Events
  BY <1>2, CallIs, EventsAre
<1>4. /\ EventsFit /\ BranchesFit /\ SavedFit /\ RunsFit /\ TypesGrow /\ AgentsFit
      /\ Branches' = Branches
  <2> DEFINE before == events[call.event].before
  <2> HIDE DEF before
  <2>1. before \in Events /\ events' = Append(events, NewEvent(Human, call.branch, before, NoRun))
    BY <1>2, <1>3 DEF before
  <2> QED
    BY <1>1, <1>2, <1>3, <2>1, AppendTyped, SmallIds
<1>5. FrontiersFit /\ WorkersFit /\ ThreadsFit /\ StoredFit
  BY <1>2, <1>4, FrontierStays, WorkerStays, RestFits
<1>6. CallFits
  <2>1. IdleCall \in CallSet(Branches, Events, Checkpoints) /\ IdleCall.pc = "idle"
    BY SmallIds, IdleFits DEF IdleCall
  <2> QED
    BY <1>2, <1>4, <2>1 DEF CallFits, TypesGrow
<1> QED
  BY <1>2, <1>4, <1>5, <1>6, Sizes, SmallIds, StepFits DEF StepTyped

LEMMA ResumeAppendsTyped ==
  ASSUME TypeInv, ResumeAppends
  PROVE  StepTyped
<1>1. /\ events' = Append(events, NewEvent(call.agent, current, NoEvent, NoRun))
      /\ call' = IdleCall
      /\ UNCHANGED <<branches, current, agent, thread, saved, stored, frontiers, runs, worker,
                     restarts, limits>>
  BY DEF ResumeAppends
<1>2. call.agent \in Agents \union {Human}
  BY CallIs
<1>3. /\ EventsFit /\ BranchesFit /\ SavedFit /\ RunsFit /\ TypesGrow
      /\ Branches' = Branches
  <2> DEFINE author == call.agent
  <2> HIDE DEF author
  <2>1. /\ author \in Agents \union {Human}
        /\ events' = Append(events, NewEvent(author, current, NoEvent, NoRun))
    BY <1>1, <1>2 DEF author
  <2> QED
    BY <1>1, <2>1, AppendTyped, Sizes, SmallIds
<1>4. FrontiersFit /\ WorkersFit /\ ThreadsFit /\ StoredFit /\ AgentsFit
  BY <1>1, <1>3, FrontierStays, WorkerStays, RestFits
<1>5. CallFits
  <2>1. IdleCall \in CallSet(Branches, Events, Checkpoints) /\ IdleCall.pc = "idle"
    BY SmallIds, IdleFits DEF IdleCall
  <2> QED
    BY <1>1, <1>3, <2>1 DEF CallFits, TypesGrow
<1> QED
  BY <1>1, <1>3, <1>4, <1>5, Sizes, SmallIds, StepFits DEF StepTyped

LEMMA ReplyTyped ==
  ASSUME TypeInv, NEW w \in Workers, WorkerReplies(w)
  PROVE  StepTyped
<1> DEFINE a == w[1]
           b == worker[w].branch
           r == worker[w].run
           f == [event |-> Len(events) + 1, agent |-> a, branch |-> b, thread |-> worker[w].thread,
                 checkpoint |-> LatestCheckpoint(worker[w].thread, a), run |-> r, usable |-> TRUE]
<1>0. /\ worker[w].pc = "replying" /\ a \in Agents /\ b \in Branches /\ worker[w].thread = b
      /\ r \in 1 .. Len(runs) /\ r \in RunIds
  BY WorkersAre DEF WorkerReplies
<1>1. PICK targets \in SUBSET Agents : Asks(b, targets, Len(events) + 1)
  BY DEF WorkerReplies
<1>2. /\ events' = Append(events, NewEvent(a, b, NoEvent, r))
      /\ frontiers' = IF stored[b][a] = {} THEN frontiers ELSE RecordFrontier(f)
      /\ worker' = [worker EXCEPT ![w] = IdleWorker]
      /\ UNCHANGED <<branches, current, thread, saved, stored, runs, call, restarts, limits>>
  BY <1>0 DEF WorkerReplies
<1> HIDE DEF a, b, r
<1>3. /\ EventsFit /\ BranchesFit /\ SavedFit /\ RunsFit /\ TypesGrow /\ AgentsFit
      /\ Branches' = Branches /\ Len(events) + 1 \in Events' /\ RunIds' = RunIds
      /\ Checkpoints' = Checkpoints
  BY <1>0, <1>1, <1>2, AppendTyped, SmallIds
<1>4. FrontiersFit
  <2>1. CASE stored[b][a] = {}
    BY <1>2, <1>3, <2>1, FrontierStays
  <2>2. CASE stored[b][a] # {}
    <3>1. LatestCheckpoint(b, a) \in Checkpoints /\ LatestCheckpoint(b, a) # NoCheckpoint
      <4>1. \A c \in stored[b][a] : c \in 1 .. Len(saved) /\ c <= LatestCheckpoint(b, a)
        BY <1>0, ThreadsAre, LatestIs
      <4> QED
        BY <1>0, <2>2, <4>1, LatestIs DEF NoCheckpoint
    <3>2. FrontierFits(f)
      <4>1. /\ Len(events) + 1 \in Events' /\ Len(events) + 1 # NoEvent
            /\ LatestCheckpoint(b, a) \in Checkpoints' /\ b \in Branches' /\ r \in RunIds'
            /\ r # NoRun
        BY <1>0, <1>3, <3>1, Sizes DEF NoEvent, NoRun
      <4> QED
        BY <1>0, <3>1, <4>1 DEF FrontierFits, FrontierSet
    <3> HIDE DEF f
    <3> QED
      BY <1>2, <1>3, <2>2, <3>2, FrontierAdded
  <2> QED
    BY <2>1, <2>2
<1>5. WorkersFit
  <2>1. WorkerFits(IdleWorker)
    <3>1. IdleWorker \in WorkerSet(Branches, Events, Checkpoints, RunIds)
      BY SmallIds, IdleFits
    <3>2. IdleWorker.thread = IdleWorker.branch /\ IdleWorker.pc = "idle"
      BY DEF IdleWorker
    <3> QED
      BY <1>3, <3>1, <3>2 DEF WorkerFits, TypesGrow
  <2> QED
    BY <1>2, <1>3, <2>1, WorkerSetTo
<1>6. CallFits /\ ThreadsFit /\ StoredFit
  BY <1>2, <1>3, RestFits
<1> QED
  BY <1>2, <1>3, <1>4, <1>5, <1>6, Sizes, SmallIds, StepFits DEF StepTyped

\* The steps that create a branch.
LEMMA CreationTyped ==
  ASSUME TypeInv, NEW parent \in Branches, NEW event \in Events, NEW checkpoint \in Checkpoints,
         NEW seq \in Events \union {NoLimit}, CreateBranch(parent, event, checkpoint, seq),
         stored' = SpaceFor(stored), CallFits \/ UNCHANGED call,
         UNCHANGED <<events, current, saved, frontiers, runs, worker, restarts, limits>>
  PROVE  StepTyped
<1> DEFINE new == Len(branches) + 1
<1>0. new \in Nat /\ \A b \in Branches : b < new
  BY Sizes
<1>1. /\ BranchesKept /\ Len(branches') = new /\ Branches' = 0 .. new
      /\ branches' \in Seq(BranchSet(Branches, Events, Checkpoints))
      /\ branches'[new].parent = parent
      /\ \A b \in 1 .. Len(branches) : branches'[b] = branches[b]
      /\ agent' \in [Branches' -> [Agents -> DeliverySet(Events, RunIds)]]
      /\ thread' \in [Branches' -> [Agents -> ThreadSet(RunIds)]]
      /\ stored' \in [Branches' -> [Agents -> SUBSET (1 .. Len(saved))]]
  BY BranchCreated
<1>2. BranchesFit
  <2>1. \A b \in 1 .. Len(branches) : branches[b].parent < b
    BY BranchesAre
  <2>2. ASSUME NEW b \in 1 .. new
        PROVE  branches'[b].parent < b
    <3>1. CASE b = new
      BY <1>0, <1>1, <3>1
    <3>2. CASE b # new
      BY <1>0, <1>1, <2>1, <3>2, Sizes
    <3> QED
      BY <3>1, <3>2
  <2> QED
    BY <1>0, <1>1, <2>2 DEF BranchesFit
<1>3. EventsFit /\ SavedFit /\ RunsFit
  BY StoresFit
<1>4. TypesGrow /\ Events' = Events /\ Checkpoints' = Checkpoints /\ RunIds' = RunIds
  BY <1>2, <1>3, FitGrows
<1>5. FrontiersFit /\ WorkersFit /\ CallFits
  BY <1>4, FrontierStays, WorkerStays, RestFits
<1>6. AgentsFit /\ ThreadsFit /\ StoredFit
  BY <1>1, <1>4 DEF AgentsFit, ThreadsFit, StoredFit
<1>7. current' \in Branches'
  BY <1>4, Sizes DEF TypesGrow
<1> QED
  BY <1>2, <1>3, <1>5, <1>6, <1>7, SmallIds, StepFits DEF StepTyped

\* The call takes note of the branch it has created.
LEMMA CallNotes ==
  ASSUME TypeInv, Len(branches') = Len(branches) + 1, UNCHANGED <<events, saved>>,
         NEW event \in 1 .. Len(events),
         call' = [call EXCEPT !.pc = "edited", !.event = event, !.branch = Len(branches) + 1]
  PROVE  CallFits
<1>1. /\ call \in CallSet(Branches, Events, Checkpoints)
      /\ Branches \subseteq Branches' /\ Len(branches) + 1 \in Branches'
      /\ Events' = Events /\ Checkpoints' = Checkpoints /\ event \in Events /\ event # NoEvent
  BY Sizes, CallIs DEF Branches, Events, Checkpoints, NoEvent
<1>2. call \in CallSet(Branches', Events', Checkpoints')
  BY <1>1 DEF CallSet
<1> HIDE DEF Branches, Events, Checkpoints
<1> QED
  BY <1>1, <1>2 DEF CallFits, CallSet

LEMMA EditTyped ==
  ASSUME TypeInv, NEW i \in 1 .. Len(events), EditCreatesBranch(i)
  PROVE  StepTyped
<1> DEFINE event == events[i].before
           seq   == Greatest({j \in Visible(current) : j < i})
<1>1. event \in Events
  BY EventsAre
<1>2. seq \in Events
  <2>1. {j \in Visible(current) : j < i} \in SUBSET (0 .. Len(events))
    BY Sizes, LatestIs
  <2> QED
    BY <2>1, Sizes, GreatestIs DEF Events
<1>3. /\ CreateBranch(current, event, NoCheckpoint, seq) /\ stored' = SpaceFor(stored)
      /\ call' = [call EXCEPT !.pc = "edited", !.event = i, !.branch = Len(branches) + 1]
      /\ UNCHANGED <<events, current, saved, frontiers, runs, worker, restarts, limits>>
  BY DEF EditCreatesBranch
<1> HIDE DEF event, seq
<1>4. Len(branches') = Len(branches) + 1
  BY <1>1, <1>2, <1>3, BranchCreated, SmallIds, Sizes
<1>5. CallFits
  BY <1>3, <1>4, CallNotes
<1> QED
  BY <1>1, <1>2, <1>3, <1>5, CreationTyped, SmallIds, Sizes

LEMMA OriginSeqType ==
  ASSUME TypeInv, NEW c \in Checkpoints
  PROVE  /\ OriginSeq(c) \in Events \union {NoLimit}
         /\ OriginSeq(c) = NoLimit => MemoryOf(c) = {}
         /\ MemoryOf(c) \in SUBSET Events
         /\ OriginSeq(c) # NoLimit => MemoryOf(c) \subseteq 0 .. OriginSeq(c)
<1>0. Events = 0 .. Len(events) /\ Len(events) \in Nat
  BY Sizes DEF Events
<1>1. MemoryOf(c) \in SUBSET (0 .. Len(events))
  BY <1>0, SavedAre DEF MemoryOf, NoCheckpoint, Checkpoints
<1>2. /\ Greatest(MemoryOf(c)) \in 0 .. Len(events)
      /\ \A y \in MemoryOf(c) : y <= Greatest(MemoryOf(c))
  BY <1>0, <1>1, GreatestIs
<1>3. CASE MemoryOf(c) = {}
  BY <1>0, <1>3 DEF OriginSeq
<1>4. CASE MemoryOf(c) # {}
  <2>1. OriginSeq(c) = Greatest(MemoryOf(c))
    BY <1>4 DEF OriginSeq
  <2> QED
    BY <1>0, <1>1, <1>2, <2>1 DEF NoLimit
<1> QED
  BY <1>3, <1>4

LEMMA BranchFromCheckpointTyped ==
  ASSUME TypeInv, NEW a \in Agents, CreateBranchFromCheckpoint(a)
  PROVE  StepTyped
<1>1. PICK cp \in UsableCheckpoints(current, a) : CreateBranch(current, NoEvent, cp, OriginSeq(cp))
  BY DEF CreateBranchFromCheckpoint
<1>2. cp \in Checkpoints
  <2>1. cp \in stored[current][a]
    BY <1>1 DEF UsableCheckpoints, Listed
  <2> QED
    BY <2>1, Sizes, ThreadsAre DEF Checkpoints
<1> DEFINE seq == OriginSeq(cp)
<1>3. seq \in Events \union {NoLimit} /\ CreateBranch(current, NoEvent, cp, seq)
  BY <1>1, <1>2, OriginSeqType
<1>4. /\ stored' = SpaceFor(stored)
      /\ UNCHANGED <<events, current, saved, frontiers, runs, worker, call, restarts, limits>>
  BY DEF CreateBranchFromCheckpoint
<1> HIDE DEF seq
<1> QED
  BY <1>2, <1>3, <1>4, CreationTyped, SmallIds, Sizes

LEMMA ResumeCreatesTyped ==
  ASSUME TypeInv, ResumeCreatesBranch
  PROVE  StepTyped
<1> DEFINE seq == OriginSeq(call.checkpoint)
           b   == call.branch
           cp  == call.checkpoint
<1>1. b \in Branches /\ cp \in Checkpoints
  BY CallIs
<1>2. seq \in Events \union {NoLimit}
  BY <1>1, OriginSeqType
<1>3. /\ CreateBranch(b, NoEvent, cp, seq) /\ stored' = SpaceFor(stored)
      /\ call' = [call EXCEPT !.pc = "replayed", !.branch = Len(branches) + 1]
      /\ UNCHANGED <<events, current, saved, frontiers, runs, worker, restarts, limits>>
  BY DEF ResumeCreatesBranch
<1> HIDE DEF seq, b, cp
<1>4. Len(branches') = Len(branches) + 1
  BY <1>1, <1>2, <1>3, BranchCreated, SmallIds, Sizes
<1>5. CallFits
  <2>1. /\ call \in CallSet(Branches, Events, Checkpoints)
        /\ Branches \subseteq Branches' /\ Len(branches) + 1 \in Branches'
        /\ Events' = Events /\ Checkpoints' = Checkpoints
    BY <1>3, <1>4, Sizes, CallIs DEF Branches, Events, Checkpoints
  <2>2. call \in CallSet(Branches', Events', Checkpoints')
    BY <2>1 DEF CallSet
  <2> QED
    BY <1>3, <2>1, <2>2 DEF CallFits, CallSet
<1> QED
  BY <1>1, <1>2, <1>3, <1>5, CreationTyped, SmallIds, Sizes

\* Steps that change no store that others refer to.
LEMMA ControlTyped ==
  ASSUME TypeInv,
         \/ \E b \in Branches : SwitchBranch(b) \/ ArchiveBranch(b)
         \/ CallSwitchesBranch \/ ResumeFails \/ UNCHANGED vars
  PROVE  StepTyped
<1>1. /\ UNCHANGED <<events, agent, thread, saved, stored, frontiers, runs, worker, restarts, limits>>
      /\ \/ UNCHANGED branches
         \/ \E b \in Branches : ArchiveBranch(b)
  BY DEF SwitchBranch, ArchiveBranch, CallSwitchesBranch, ResumeFails, vars
<1>2. BranchesFit /\ Len(branches') = Len(branches)
  <2>1. CASE UNCHANGED branches
    BY <2>1, StoresFit
  <2>2. ASSUME NEW b \in Branches, ArchiveBranch(b)
        PROVE  BranchesFit /\ Len(branches') = Len(branches)
    <3> DEFINE record == [branches[b] EXCEPT !.archived = TRUE]
    <3>1. b \in 1 .. Len(branches) /\ Len(branches) \in Nat
      BY <2>2, Sizes DEF ArchiveBranch, Main
    <3>2. branches \in Seq(BranchSet(Branches, Events, Checkpoints))
      BY BranchesAre
    <3>3. /\ record \in BranchSet(Branches, Events, Checkpoints)
          /\ record.parent = branches[b].parent /\ record.originEvent = branches[b].originEvent
          /\ record.originCheckpoint = branches[b].originCheckpoint
          /\ record.originSeq = branches[b].originSeq
      BY <3>1, BranchesAre DEF BranchSet
    <3>4. branches' = [branches EXCEPT ![b] = record]
      BY <2>2 DEF ArchiveBranch
    <3> HIDE DEF record
    <3>5. /\ branches' \in Seq(BranchSet(Branches, Events, Checkpoints))
          /\ Len(branches') = Len(branches) /\ branches'[b] = record
          /\ \A c \in 1 .. Len(branches) : c # b => branches'[c] = branches[c]
      BY <3>1, <3>2, <3>3, <3>4
    <3>6. BranchesKept
      BY <3>1, <3>3, <3>5 DEF BranchesKept
    <3>7. \A c \in 1 .. Len(branches') : branches'[c].parent < c
      BY <3>5, <3>6, BranchesAre DEF BranchesKept
    <3> QED
      BY <3>1, <3>5, <3>6, <3>7 DEF BranchesFit
  <2> QED
    BY <1>1, <2>1, <2>2
<1>3. EventsFit /\ SavedFit /\ RunsFit
  BY <1>1, StoresFit
<1>4. TypesGrow /\ Branches' = Branches
  BY <1>2, <1>3, FitGrows, Sizes
<1>5. FrontiersFit /\ WorkersFit
  BY <1>1, <1>4, FrontierStays, WorkerStays
<1>6. AgentsFit /\ ThreadsFit /\ StoredFit
  BY <1>1, <1>3, <1>4, ThreadsAre DEF AgentsFit, ThreadsFit, StoredFit, TypesGrow
<1>7. CallFits
  <2>1. CASE UNCHANGED call
    BY <1>4, <2>1, RestFits
  <2>2. CASE call' = IdleCall
    <3>1. IdleCall \in CallSet(Branches, Events, Checkpoints) /\ IdleCall.pc = "idle"
      BY SmallIds, IdleFits DEF IdleCall
    <3> QED
      BY <1>4, <2>2, <3>1 DEF CallFits, TypesGrow
  <2>3. CASE CallSwitchesBranch
    <3>1. /\ call \in CallSet(Branches', Events', Checkpoints')
          /\ call.pc = "edited" => call.event # NoEvent
      BY <1>4, CallIs, SmallIds DEF TypesGrow, TypeInv, References
    <3>2. call' = [call EXCEPT !.pc = IF call.pc = "edited" THEN "editing" ELSE "resuming"]
      BY <2>3, <3>1 DEF CallSwitchesBranch, CallSet
    <3> QED
      BY <3>1, <3>2 DEF CallFits, CallSet
  <2> QED
    BY <2>1, <2>2, <2>3 DEF SwitchBranch, ArchiveBranch, ResumeFails, vars
<1>8. current' \in Branches'
  <2>1. \A b \in Branches : SwitchTo(b) => current' \in Branches
    BY Sizes DEF SwitchTo
  <2>2. current \in Branches /\ call.branch \in Branches
    BY Sizes, CallIs
  <2> QED
    BY <1>4, <2>1, <2>2 DEF SwitchBranch, ArchiveBranch, CallSwitchesBranch, ResumeFails, vars
<1> QED
  BY <1>1, <1>2, <1>3, <1>5, <1>6, <1>7, <1>8, SmallIds, StepFits DEF StepTyped

\* The steps in which a graph writes a checkpoint.
LEMMA WritesTyped ==
  ASSUME TypeInv, NEW b \in Branches, NEW a \in Agents, NEW from \in Checkpoints,
         NEW delivered \in SUBSET Events, Writes(b, a, from, delivered), RunsFit,
         UNCHANGED <<events, branches>>
  PROVE  /\ EventsFit /\ BranchesFit /\ SavedFit /\ TypesGrow /\ StoredFit
         /\ Branches' = Branches /\ Events' = Events /\ Checkpoints' = 0 .. Len(saved) + 1
         /\ RunIds' = 0 .. Len(runs')
<1>1. EventsFit /\ BranchesFit
  BY StoresFit
<1>2. SavedFit /\ Len(saved') = Len(saved) + 1
  BY CheckpointWritten, Sizes DEF SavedFit
<1>3. TypesGrow /\ Branches' = Branches /\ Events' = Events /\ RunIds' = 0 .. Len(runs')
  BY <1>1, <1>2, FitGrows
<1>4. StoredFit
  BY <1>2, <1>3, CheckpointWritten DEF StoredFit
<1> QED
  BY <1>1, <1>2, <1>3, <1>4, CheckpointWritten

LEMMA ResumeInvokesTyped ==
  ASSUME TypeInv, NEW a \in Agents, ResumeInvokes(a)
  PROVE  StepTyped
<1>1. PICK cp \in UsableCheckpoints(current, a) :
        /\ Writes(current, a, cp, {})
        /\ call' = [pc |-> "invoked", event |-> NoEvent, branch |-> current, agent |-> a,
                    checkpoint |-> cp]
  BY DEF ResumeInvokes
<1>2. cp \in Checkpoints
  <2>1. cp \in stored[current][a]
    BY <1>1 DEF UsableCheckpoints, Listed
  <2> QED
    BY <2>1, Sizes, ThreadsAre DEF Checkpoints
<1>3. UNCHANGED <<events, branches, current, agent, thread, frontiers, runs, worker, restarts, limits>>
  BY DEF ResumeInvokes
<1>4. RunsFit
  BY <1>3, StoresFit
<1>5. EventsFit /\ BranchesFit /\ SavedFit /\ TypesGrow /\ StoredFit /\ Branches' = Branches
  BY <1>1, <1>2, <1>3, <1>4, WritesTyped, Sizes
<1>6. FrontiersFit /\ WorkersFit /\ AgentsFit /\ ThreadsFit
  BY <1>3, <1>5, FrontierStays, WorkerStays, RestFits
<1>7. CallFits
  <2>1. call' \in CallSet(Branches, Events, Checkpoints) /\ call'.pc = "invoked"
    BY <1>1, <1>2, Sizes, SmallIds DEF CallSet
  <2> QED
    BY <1>5, <2>1 DEF CallFits, TypesGrow
<1> QED
  BY <1>3, <1>4, <1>5, <1>6, <1>7, Sizes, SmallIds, StepFits DEF StepTyped

LEMMA WorkerInvokesTyped ==
  ASSUME TypeInv, NEW w \in Workers, WorkerInvokes(w)
  PROVE  StepTyped
<1> DEFINE a == w[1]
           b == worker[w].thread
           from == IF w[2] = "router" THEN LatestCheckpoint(b, a) ELSE worker[w].from
           given == Projected(w)
           next == [worker[w] EXCEPT !.pc = "completing"]
<1>1. /\ a \in Agents /\ b \in Branches /\ worker[w].branch \in Branches
      /\ worker[w].from \in Checkpoints /\ worker[w].pc = "invoking"
      /\ worker[w] \in WorkerSet(Branches, Events, Checkpoints, RunIds)
  BY WorkersAre DEF WorkerInvokes
<1>2. from \in Checkpoints
  BY <1>1, LatestIs
<1>3. given \in SUBSET Events
  BY <1>1, LatestIs, Sizes DEF Projected, Events
<1>4. /\ Writes(b, a, from, given)
      /\ worker' = [worker EXCEPT ![w] = next]
      /\ UNCHANGED <<events, branches, current, agent, thread, frontiers, runs, call, restarts, limits>>
  BY <1>1, WorkersAre DEF WorkerInvokes
<1>5. RunsFit
  BY <1>4, StoresFit
<1> HIDE DEF a, b, from, given
<1>6. EventsFit /\ BranchesFit /\ SavedFit /\ TypesGrow /\ StoredFit /\ Branches' = Branches
  BY <1>1, <1>2, <1>3, <1>4, <1>5, WritesTyped
<1>7. WorkerFits(next)
  <2>1. WorkerFits(worker[w])
    BY <1>6, WorkerStays
  <2> QED
    BY <1>1, <2>1 DEF WorkerFits, WorkerSet
<1> HIDE DEF next
<1>8. WorkersFit
  BY <1>4, <1>6, <1>7, WorkerSetTo
<1>9. FrontiersFit /\ CallFits /\ AgentsFit /\ ThreadsFit
  BY <1>4, <1>6, FrontierStays, RestFits
<1> QED
  BY <1>4, <1>5, <1>6, <1>8, <1>9, Sizes, SmallIds, StepFits DEF StepTyped

LEMMA RunAdded ==
  ASSUME TypeInv, NEW a \in Agents, NEW lane \in Lanes, NEW b \in Branches, NEW low \in Events,
         NEW snapshot \in Events,
         SaveRun(Len(runs) + 1, NewRun(a, lane, b, low, snapshot))
  PROVE  /\ RunsFit /\ Len(runs') = Len(runs) + 1
         /\ runs'[Len(runs) + 1] = NewRun(a, lane, b, low, snapshot)
         /\ \A r \in 1 .. Len(runs) : runs'[r] = runs[r]
         /\ LET run == runs'[Len(runs) + 1]
            IN  /\ run.agent = a /\ run.lane = lane /\ run.branch = b /\ run.low = low
                /\ run.snapshot = snapshot /\ run.status = "running" /\ run.commit = "pending"
                /\ run.stable = NoCheckpoint /\ run.latest = NoCheckpoint
<1> DEFINE run == NewRun(a, lane, b, low, snapshot)
           r   == Len(runs) + 1
<1>0. Len(runs) \in Nat /\ r \in 1 .. Len(runs) + 1
  BY Sizes
<1>1. run \in RunSet(Branches, Events, Checkpoints)
  BY SmallIds DEF NewRun, RunSet, Statuses, Commits
<1> HIDE DEF run
<1>2. /\ runs' \in Seq(RunSet(Branches, Events, Checkpoints)) /\ Len(runs') = Len(runs) + 1
      /\ runs'[Len(runs) + 1] = run
      /\ \A q \in 1 .. Len(runs) : runs'[q] = runs[q]
  <2>1. SaveRun(r, run)
    BY DEF run
  <2> HIDE DEF r
  <2>2. /\ runs' \in Seq(RunSet(Branches, Events, Checkpoints))
        /\ Len(runs') = IF r = Len(runs) + 1 THEN r ELSE Len(runs)
        /\ runs'[r] = run
        /\ \A q \in 1 .. Len(runs) : q # r => runs'[q] = runs[q]
    BY <1>0, <1>1, <2>1, RunSaved
  <2> QED
    BY <1>0, <2>2 DEF r
<1>3. RunsFit
  BY <1>0, <1>2 DEF RunsFit, RunsKept, RunKept
<1> QED
  BY <1>2, <1>3 DEF run, NewRun

LEMMA InjectTyped ==
  ASSUME TypeInv, NEW a \in Agents, InjectStarts(a)
  PROVE  StepTyped
<1> DEFINE w == <<a, "inject">>
           b == current
           k == Greatest(UsableFrontiers(b, a))
           f == frontiers[k]
           r == Len(runs) + 1
           seen == Latest(b)
           next == [pc |-> "invoking", branch |-> b, run |-> r, low |-> seen, snapshot |-> seen,
                    from |-> Len(saved) + 1, thread |-> f.thread]
           s == MarkRunStarted(agent[b][a], r, seen)
<1>0. w \in Workers /\ b \in Branches /\ seen \in Events /\ Len(runs) \in Nat /\ Len(saved) \in Nat
      /\ "inject" \in Lanes
  BY Sizes, LatestIs DEF Workers, Lanes
<1>1. k \in UsableFrontiers(b, a) /\ k \in 1 .. Len(frontiers)
  <2>1. UsableFrontiers(b, a) \in SUBSET (0 .. Len(frontiers)) /\ 0 \notin UsableFrontiers(b, a)
    BY Sizes DEF UsableFrontiers, FrontiersOf
  <2>2. /\ k \in UsableFrontiers(b, a) \union {0} /\ \A y \in UsableFrontiers(b, a) : y <= k
    BY <2>1, Sizes, GreatestIs
  <2>3. UsableFrontiers(b, a) # {}
    BY DEF InjectStarts
  <2> HIDE DEF k
  <2>4. k # 0
    <3>1. \A y \in UsableFrontiers(b, a) : y \in 0 .. Len(frontiers) /\ y # 0
      BY <2>1
    <3> QED
      BY <2>2, <2>3, <3>1, Sizes
  <2> QED
    BY <2>1, <2>2, <2>4, Sizes
<1>2. f.thread = b /\ f.branch = b /\ f.checkpoint \in Checkpoints
  BY <1>1, FrontiersAre, Sizes DEF UsableFrontiers, FrontiersOf, Checkpoints
<1>3. /\ Writes(b, a, f.checkpoint, {})
      /\ SaveRun(Len(runs) + 1, NewRun(a, "inject", b, seen, seen))
      /\ SaveAgentState(b, a, s)
      /\ worker' = [worker EXCEPT ![w] = next]
      /\ UNCHANGED <<events, branches, current, thread, frontiers, call, restarts, limits>>
  BY <1>2 DEF InjectStarts
<1> HIDE DEF b, k, seen
<1>4. RunsFit /\ Len(runs') = r
  <2>1. RunsFit /\ Len(runs') = Len(runs) + 1
    BY <1>0, <1>3, RunAdded
  <2> QED
    BY <2>1
<1>5. /\ EventsFit /\ BranchesFit /\ SavedFit /\ TypesGrow /\ StoredFit /\ Branches' = Branches
      /\ Events' = Events /\ Checkpoints' = 0 .. Len(saved) + 1 /\ RunIds' = 0 .. Len(runs')
  <2> DEFINE cp == f.checkpoint
  <2> HIDE DEF f, cp
  <2>1. cp \in Checkpoints /\ Writes(b, a, cp, {}) /\ {} \in SUBSET Events
    BY <1>2, <1>3 DEF cp
  <2> QED
    BY <1>0, <1>3, <1>4, <2>1, WritesTyped
<1>6. r \in RunIds' /\ r # NoRun /\ Len(saved) + 1 \in Checkpoints'
  BY <1>0, <1>4, <1>5 DEF NoRun
<1>7. WorkersFit
  <2>1. next \in WorkerSet(Branches', Events', Checkpoints', RunIds')
    BY <1>0, <1>2, <1>5, <1>6 DEF WorkerSet
  <2>2. WorkerFits(next)
    BY <1>2, <1>6, <2>1 DEF WorkerFits
  <2> HIDE DEF next, w
  <2> QED
    BY <1>0, <1>3, <1>5, <2>2, WorkerSetTo
<1>8. AgentsFit
  <2>1. agent \in [Branches -> [Agents -> DeliverySet(Events', RunIds')]]
    BY <1>5, ThreadsAre DEF TypesGrow
  <2>2. agent[b][a] \in DeliverySet(Events', RunIds')
    BY <1>0, <2>1
  <2>3. s \in DeliverySet(Events', RunIds')
    <3>1. /\ Events' \in SUBSET Nat /\ 0 \in Events' /\ 0 \in RunIds' /\ seen \in Events'
          /\ r \in RunIds'
      BY <1>0, <1>5, <1>6, SmallIds
    <3> HIDE DEF r
    <3> QED
      BY <2>2, <3>1, DeliverySetKept
  <2> HIDE DEF s
  <2> QED
    BY <1>0, <1>3, <1>5, <2>1, <2>3, AgentSaved DEF AgentsFit
<1>9. FrontiersFit /\ CallFits /\ ThreadsFit
  BY <1>3, <1>5, FrontierStays, RestFits
<1> QED
  BY <1>3, <1>4, <1>5, <1>7, <1>8, <1>9, Sizes, SmallIds, StepFits DEF StepTyped

LEMMA ChosenTyped ==
  ASSUME TypeInv, NEW a \in Agents, WorkerChosen(a) \/ WorkerReads(a)
  PROVE  StepTyped
<1> DEFINE w == <<a, "router">>
           chosen == [worker[w] EXCEPT !.pc = "reading"]
           read == [worker[w] EXCEPT !.pc = "starting", !.branch = current, !.thread = current,
                      !.low = agent[current][a].lastDelivered, !.snapshot = Latest(current)]
           s == agent[current][a]
           done == CompleteRun(s, IF s.currentRun = NoRun THEN BlankRun ELSE s.currentRun,
                               s.lastDelivered, FALSE)
<1>0. /\ w \in Workers /\ worker[w] \in WorkerSet(Branches, Events, Checkpoints, RunIds)
      /\ current \in Branches /\ Latest(current) \in Events
      /\ s \in DeliverySet(Events, RunIds) /\ s.lastDelivered \in Events
  <2>1. w \in Workers
    BY DEF Workers, Lanes
  <2>2. s \in DeliverySet(Events, RunIds)
    BY Sizes, ThreadsAre
  <2> QED
    BY <2>1, <2>2, WorkersAre, Sizes, LatestIs DEF DeliverySet, DeliveryStates
<1>1. UNCHANGED <<events, branches, current, thread, saved, stored, frontiers, runs, call, restarts,
                  limits>>
  BY DEF WorkerChosen, WorkerReads
<1>2. EventsFit /\ BranchesFit /\ SavedFit /\ RunsFit
  BY <1>1, StoresFit
<1>3. TypesGrow /\ Branches' = Branches /\ Events' = Events /\ RunIds' = RunIds
  BY <1>1, <1>2, FitGrows
<1>4. FrontiersFit /\ CallFits /\ ThreadsFit /\ StoredFit
  BY <1>1, <1>2, <1>3, FrontierStays, RestFits
<1>5. /\ \/ worker' = [worker EXCEPT ![w] = chosen] \/ worker' = [worker EXCEPT ![w] = read]
         \/ worker' = [worker EXCEPT ![w] = IdleWorker]
      /\ UNCHANGED agent \/ SaveAgentState(current, a, done)
  BY <1>0, WorkersAre DEF WorkerChosen, WorkerReads
<1>6. WorkerFits(chosen) /\ WorkerFits(read) /\ WorkerFits(IdleWorker)
  <2>1. WorkerFits(worker[w])
    BY <1>0, <1>3, WorkerStays
  <2>2. /\ chosen \in WorkerSet(Branches, Events, Checkpoints, RunIds)
        /\ chosen.pc = "reading" /\ chosen.thread = worker[w].thread
        /\ chosen.branch = worker[w].branch
    BY <1>0 DEF WorkerSet
  <2>3. /\ read \in WorkerSet(Branches, Events, Checkpoints, RunIds)
        /\ read.pc = "starting" /\ read.thread = current /\ read.branch = current
    BY <1>0 DEF WorkerSet
  <2>4. IdleWorker \in WorkerSet(Branches, Events, Checkpoints, RunIds)
    BY SmallIds, IdleFits
  <2>5. IdleWorker.thread = IdleWorker.branch /\ IdleWorker.pc = "idle"
    BY DEF IdleWorker
  <2> HIDE DEF chosen, read, w
  <2> QED
    BY <1>3, <2>1, <2>2, <2>3, <2>4, <2>5 DEF WorkerFits, TypesGrow
<1>7. WorkersFit
  <2> HIDE DEF chosen, read, w
  <2> QED
    BY <1>0, <1>3, <1>5, <1>6, WorkerSetTo
<1>8. AgentsFit
  <2>1. CASE UNCHANGED agent
    BY <1>1, <1>3, <2>1, RestFits
  <2>2. CASE SaveAgentState(current, a, done)
    <3>1. done \in DeliverySet(Events, RunIds)
      BY <1>0, SmallIds, DeliverySetKept
    <3>2. agent \in [Branches -> [Agents -> DeliverySet(Events, RunIds)]]
      BY ThreadsAre
    <3> HIDE DEF done
    <3> QED
      BY <1>0, <1>3, <2>2, <3>1, <3>2, AgentSaved DEF AgentsFit
  <2> QED
    BY <1>5, <2>1, <2>2
<1> QED
  BY <1>1, <1>2, <1>3, <1>4, <1>7, <1>8, Sizes, SmallIds, StepFits DEF StepTyped

LEMMA StartTyped ==
  ASSUME TypeInv, NEW a \in Agents, WorkerStartsRun(a)
  PROVE  StepTyped
<1> DEFINE w == <<a, "router">>
           b == worker[w].branch
           r == Len(runs) + 1
           low == worker[w].low
           seen == worker[w].snapshot
           s == MarkRunStarted(agent[b][a], r, seen)
           next == [worker[w] EXCEPT !.pc = "invoking", !.run = r]
<1>0. /\ w \in Workers /\ worker[w] \in WorkerSet(Branches, Events, Checkpoints, RunIds)
      /\ b \in Branches /\ seen \in Events /\ low \in Events /\ Len(runs) \in Nat
      /\ worker[w].thread = b /\ "router" \in Lanes
  <2>1. w \in Workers /\ "router" \in Lanes
    BY DEF Workers, Lanes
  <2> QED
    BY <2>1, WorkersAre, Sizes
<1>1. UNCHANGED <<events, branches, current, saved, frontiers, call, restarts, limits>>
  BY DEF WorkerStartsRun
<1>2. EventsFit /\ BranchesFit /\ SavedFit
  BY <1>1, StoresFit
<1>3. CASE worker' = [worker EXCEPT ![w] = IdleWorker] /\ UNCHANGED <<agent, thread, stored, runs>>
  <2>1. RunsFit
    BY <1>3, StoresFit
  <2>2. TypesGrow
    BY <1>2, <2>1, FitGrows
  <2>3. WorkerFits(IdleWorker)
    <3>1. IdleWorker \in WorkerSet(Branches, Events, Checkpoints, RunIds)
      BY SmallIds, IdleFits
    <3>2. IdleWorker.thread = IdleWorker.branch /\ IdleWorker.pc = "idle"
      BY DEF IdleWorker
    <3> QED
      BY <2>2, <3>1, <3>2 DEF WorkerFits, TypesGrow
  <2>4. WorkersFit
    BY <1>0, <1>3, <2>2, <2>3, WorkerSetTo
  <2>5. FrontiersFit /\ CallFits /\ ThreadsFit /\ StoredFit /\ AgentsFit
    BY <1>1, <1>2, <1>3, <2>2, FrontierStays, RestFits
  <2> QED
    BY <1>1, <1>2, <2>1, <2>2, <2>4, <2>5, Sizes, SmallIds, StepFits DEF StepTyped, TypesGrow
<1>4. CASE /\ EnsureThread(b, a, r) /\ SaveRun(r, NewRun(a, "router", b, low, seen))
           /\ SaveAgentState(b, a, s)
           /\ worker' = [worker EXCEPT ![w].pc = "invoking", ![w].run = r]
  <2>0. worker' = [worker EXCEPT ![w] = next]
    BY <1>0, <1>4, WorkersAre
  <2>1. RunsFit /\ Len(runs') = r
    <3> HIDE DEF b, low, seen
    <3>1. RunsFit /\ Len(runs') = Len(runs) + 1
      BY <1>0, <1>4, RunAdded
    <3> QED
      BY <3>1
  <2>2. /\ TypesGrow /\ Branches' = Branches /\ Events' = Events /\ Checkpoints' = Checkpoints
        /\ RunIds' = 0 .. r
    BY <1>1, <1>2, <2>1, FitGrows
  <2>3. r \in RunIds' /\ r # NoRun /\ RunIds \subseteq RunIds' /\ 0 \in RunIds'
    BY <1>0, <2>2 DEF NoRun, TypesGrow
  <2>4. WorkersFit
    <3>1. worker[w] \in WorkerSet(Branches', Events', Checkpoints', RunIds')
      BY <1>0, <2>2 DEF TypesGrow
    <3>2. /\ next \in WorkerSet(Branches', Events', Checkpoints', RunIds')
          /\ next.thread = b /\ next.branch = b /\ next.run = r
      BY <1>0, <2>3, <3>1 DEF WorkerSet
    <3> HIDE DEF next, w, r
    <3>3. WorkerFits(next)
      BY <2>3, <3>2 DEF WorkerFits
    <3> QED
      BY <1>0, <2>0, <2>2, <3>3, WorkerSetTo
  <2>5. AgentsFit
    <3>1. agent \in [Branches -> [Agents -> DeliverySet(Events', RunIds')]]
      BY <2>2, ThreadsAre DEF TypesGrow
    <3>2. agent[b][a] \in DeliverySet(Events', RunIds')
      BY <1>0, <3>1
    <3>3. s \in DeliverySet(Events', RunIds')
      <4>1. /\ Events' \in SUBSET Nat /\ 0 \in Events' /\ 0 \in RunIds' /\ seen \in Events'
            /\ r \in RunIds'
        BY <1>0, <2>2, <2>3, SmallIds
      <4> HIDE DEF r
      <4> QED
        BY <3>2, <4>1, DeliverySetKept
    <3> HIDE DEF s
    <3> QED
      BY <1>0, <1>4, <2>2, <3>1, <3>3, AgentSaved DEF AgentsFit
  <2>6. ThreadsFit /\ StoredFit
    <3> HIDE DEF r, b
    <3>1. /\ thread' \in [Branches -> [Agents -> ThreadSet(RunIds')]]
          /\ stored' \in [Branches -> [Agents -> SUBSET (1 .. Len(saved))]]
      BY <1>0, <1>4, <2>3, ThreadEnsured
    <3> QED
      BY <1>1, <2>2, <3>1 DEF ThreadsFit, StoredFit
  <2>7. FrontiersFit /\ CallFits
    BY <1>1, <2>2, FrontierStays, RestFits
  <2> QED
    BY <1>1, <1>2, <2>1, <2>2, <2>4, <2>5, <2>6, <2>7, Sizes, SmallIds, StepFits DEF StepTyped
<1> QED
  BY <1>3, <1>4 DEF WorkerStartsRun

\* What is recorded at the end of a run, and its frontier.
LastRead(r) == Greatest({i \in Visible(runs[r].branch) : i <= runs[r].snapshot})

TerminalRecord(r, status) ==
  [event |-> LastRead(r), agent |-> runs[r].agent, branch |-> runs[r].branch,
   thread |-> runs[r].branch, checkpoint |-> LatestCheckpoint(runs[r].branch, runs[r].agent),
   run |-> r, usable |-> SettledRun(r, status).stable # NoCheckpoint]

LEMMA SettledIs ==
  ASSUME TypeInv, NEW r \in 1 .. Len(runs), NEW status \in Statuses
  PROVE  LET run == SettledRun(r, status)
             latest == LatestCheckpoint(runs[r].branch, runs[r].agent)
         IN  /\ run \in RunSet(Branches, Events, Checkpoints)
             /\ run.agent = runs[r].agent /\ run.lane = runs[r].lane /\ run.branch = runs[r].branch
             /\ run.low = runs[r].low /\ run.snapshot = runs[r].snapshot
             /\ runs[r].commit = "orphaned" => run = runs[r]
             /\ runs[r].commit # "orphaned" =>
                  /\ run.status = status /\ run.commit = "committed" /\ run.latest = latest
                  /\ run.stable = IF Stable(status) THEN latest ELSE runs[r].stable
             /\ LastRead(r) \in Events
             /\ LastRead(r) # NoEvent => LastRead(r) \in Visible(runs[r].branch)
             /\ LastRead(r) <= runs[r].snapshot
             /\ \A i \in Visible(runs[r].branch) : i <= runs[r].snapshot => i <= LastRead(r)
             /\ \/ TerminalFrontier(r, status) = frontiers
                \/ /\ runs[r].commit # "orphaned" /\ status # "success" /\ LastRead(r) # NoEvent
                   /\ latest # NoCheckpoint
                   /\ TerminalFrontier(r, status) = RecordFrontier(TerminalRecord(r, status))
<1> DEFINE run == SettledRun(r, status)
           latest == LatestCheckpoint(runs[r].branch, runs[r].agent)
           read == {i \in Visible(runs[r].branch) : i <= runs[r].snapshot}
<1>1. /\ runs[r] \in RunSet(Branches, Events, Checkpoints)
      /\ runs[r].agent \in Agents /\ runs[r].branch \in Branches /\ runs[r].snapshot \in Events
  BY RunsAre
<1>2. latest \in Checkpoints
  BY <1>1, LatestIs
<1>3. /\ run \in RunSet(Branches, Events, Checkpoints)
      /\ run.agent = runs[r].agent /\ run.lane = runs[r].lane /\ run.branch = runs[r].branch
      /\ run.low = runs[r].low /\ run.snapshot = runs[r].snapshot
      /\ runs[r].commit = "orphaned" => run = runs[r]
      /\ runs[r].commit # "orphaned" =>
           /\ run.status = status /\ run.commit = "committed" /\ run.latest = latest
           /\ run.stable = IF Stable(status) THEN latest ELSE runs[r].stable
  <2>1. CASE runs[r].commit = "orphaned"
    BY <1>1, <2>1 DEF SettledRun
  <2>2. CASE runs[r].commit # "orphaned"
    <3>1. run = [runs[r] EXCEPT !.status = status, !.commit = "committed", !.latest = latest,
                   !.stable = IF Stable(status) THEN latest ELSE @]
      BY <2>2 DEF SettledRun
    <3> HIDE DEF run, latest
    <3> QED
      BY <1>1, <1>2, <2>2, <3>1 DEF RunSet, Commits
  <2> QED
    BY <2>1, <2>2
<1>4. /\ LastRead(r) \in Events /\ LastRead(r) \in read \union {0}
      /\ \A i \in read : i <= LastRead(r)
  <2>1. read \in SUBSET (0 .. Len(events)) /\ Len(events) \in Nat
    BY <1>1, LatestIs, Sizes
  <2> QED
    BY <2>1, GreatestIs DEF LastRead, Events
<1>5. /\ LastRead(r) # NoEvent => LastRead(r) \in Visible(runs[r].branch)
      /\ LastRead(r) <= runs[r].snapshot
      /\ \A i \in Visible(runs[r].branch) : i <= runs[r].snapshot => i <= LastRead(r)
  <2>1. 0 <= runs[r].snapshot
    BY <1>1, SmallIds
  <2> QED
    BY <1>4, <2>1 DEF NoEvent
<1>6. ASSUME TerminalFrontier(r, status) # frontiers
      PROVE  /\ runs[r].commit # "orphaned" /\ status # "success" /\ LastRead(r) # NoEvent
             /\ latest # NoCheckpoint
             /\ TerminalFrontier(r, status) = RecordFrontier(TerminalRecord(r, status))
  <2>1. LastRead(r) = Greatest({i \in Visible(run.branch) : i <= run.snapshot})
    BY <1>3 DEF LastRead
  <2>2. /\ runs[r].commit # "orphaned" /\ status # "success" /\ LastRead(r) # NoEvent
        /\ run.latest # NoCheckpoint
    BY <1>6, <2>1 DEF TerminalFrontier
  <2>3. TerminalFrontier(r, status) =
          RecordFrontier([event |-> LastRead(r), agent |-> run.agent, branch |-> run.branch,
                          thread |-> run.branch, checkpoint |-> run.latest, run |-> r,
                          usable |-> run.stable # NoCheckpoint])
    BY <2>1, <2>2 DEF TerminalFrontier
  <2> QED
    BY <1>3, <2>2, <2>3 DEF TerminalRecord
<1> QED
  BY <1>3, <1>4, <1>5, <1>6

LEMMA SettleTyped ==
  ASSUME TypeInv, NEW w \in Workers, worker[w].pc \in {"invoking", "completing"},
         NEW status \in Statuses, Settles(w, status)
  PROVE  StepTyped
<1> DEFINE a    == w[1]
           b    == worker[w].branch
           r    == worker[w].run
           run  == SettledRun(r, status)
           seen == worker[w].snapshot
           delivered == status \notin {"failed", "stopped"}
           done == CompleteRun(agent[b][a], r, seen, delivered)
           cleared == ClearRunAgentState(done, r, seen, status)
           s    == IF runs[r].commit = "orphaned" THEN done ELSE cleared
           f    == TerminalRecord(r, status)
           next == [worker[w] EXCEPT !.pc = "replying"]
<1>0. /\ a \in Agents /\ b \in Branches /\ r \in 1 .. Len(runs) /\ seen \in Events
      /\ worker[w] \in WorkerSet(Branches, Events, Checkpoints, RunIds)
  BY WorkersAre
<1>1. /\ SaveAgentState(b, a, s)
      /\ SaveRun(r, run)
      /\ frontiers' = TerminalFrontier(r, status)
      /\ worker' = [worker EXCEPT ![w] = next] \/ worker' = [worker EXCEPT ![w] = IdleWorker]
      /\ UNCHANGED <<events, branches, current, thread, saved, stored, call, restarts, limits>>
  BY WorkersAre DEF Settles
<1>2. EventsFit /\ BranchesFit /\ SavedFit
  BY <1>1, StoresFit
<1>3. RunsFit /\ Len(runs') = Len(runs)
  <2>1. /\ run \in RunSet(Branches, Events, Checkpoints)
        /\ run.agent = runs[r].agent /\ run.lane = runs[r].lane /\ run.branch = runs[r].branch
        /\ run.low = runs[r].low /\ run.snapshot = runs[r].snapshot
    BY <1>0, SettledIs
  <2> HIDE DEF run, r
  <2>2. /\ runs' \in Seq(RunSet(Branches, Events, Checkpoints)) /\ Len(runs') = Len(runs)
        /\ runs'[r] = run
        /\ \A q \in 1 .. Len(runs) : q # r => runs'[q] = runs[q]
    BY <1>0, <1>1, <2>1, RunSaved, Sizes
  <2> QED
    BY <2>1, <2>2, Sizes DEF RunsFit, RunsKept, RunKept
<1>4. TypesGrow /\ Branches' = Branches /\ Events' = Events /\ RunIds' = RunIds
      /\ Checkpoints' = Checkpoints
  BY <1>1, <1>2, <1>3, FitGrows DEF RunIds
<1>5. FrontiersFit
  <2>1. CASE frontiers' = frontiers
    BY <1>4, <2>1, FrontierStays
  <2>2. CASE frontiers' # frontiers
    <3>1. /\ LastRead(r) \in Events /\ LastRead(r) # NoEvent
          /\ LatestCheckpoint(runs[r].branch, runs[r].agent) # NoCheckpoint
          /\ frontiers' = RecordFrontier(f)
      BY <1>0, <1>1, <2>2, SettledIs
    <3>2. /\ runs[r].agent \in Agents /\ runs[r].branch \in Branches
          /\ LatestCheckpoint(runs[r].branch, runs[r].agent) \in Checkpoints
          /\ r \in RunIds /\ r # NoRun
      BY <1>0, RunsAre, LatestIs, Sizes DEF RunIds, NoRun
    <3>3. FrontierFits(f)
      BY <1>4, <3>1, <3>2 DEF FrontierFits, FrontierSet, TerminalRecord
    <3> HIDE DEF f
    <3> QED
      BY <1>4, <3>1, <3>3, FrontierAdded
  <2> QED
    BY <2>1, <2>2
<1>6. WorkersFit
  <2>1. WorkerFits(next)
    <3>1. WorkerFits(worker[w])
      BY <1>4, WorkerStays
    <3>2. worker[w].run # NoRun
      BY <1>0, Sizes DEF NoRun
    <3> QED
      BY <1>0, <3>1, <3>2 DEF WorkerFits, WorkerSet
  <2>2. WorkerFits(IdleWorker)
    <3>1. IdleWorker \in WorkerSet(Branches, Events, Checkpoints, RunIds)
      BY SmallIds, IdleFits
    <3>2. IdleWorker.thread = IdleWorker.branch /\ IdleWorker.pc = "idle"
      BY DEF IdleWorker
    <3> QED
      BY <1>4, <3>1, <3>2 DEF WorkerFits, TypesGrow
  <2> HIDE DEF next
  <2> QED
    BY <1>1, <1>4, <2>1, <2>2, WorkerSetTo
<1>7. AgentsFit
  <2>1. agent \in [Branches -> [Agents -> DeliverySet(Events, RunIds)]]
    BY ThreadsAre
  <2>2. agent[b][a] \in DeliverySet(Events, RunIds) /\ delivered \in BOOLEAN
    BY <1>0, <2>1
  <2> HIDE DEF b, a, seen, r, delivered
  <2>3. done \in DeliverySet(Events, RunIds)
    BY <1>0, <2>2, SmallIds, DeliverySetKept
  <2>4. cleared \in DeliverySet(Events, RunIds)
    <3> HIDE DEF done
    <3> QED
      BY <1>0, <2>3, SmallIds, DeliverySetKept
  <2>5. s \in DeliverySet(Events, RunIds)
    BY <2>3, <2>4
  <2> HIDE DEF s
  <2> QED
    BY <1>0, <1>1, <1>4, <2>1, <2>5, AgentSaved DEF AgentsFit
<1>8. CallFits /\ ThreadsFit /\ StoredFit
  BY <1>1, <1>2, <1>4, RestFits
<1> QED
  BY <1>1, <1>2, <1>3, <1>4, <1>5, <1>6, <1>7, <1>8, Sizes, SmallIds, StepFits DEF StepTyped

\* A process that reconciles, and one that starts.
LEMMA ReconcileTyped ==
  ASSUME TypeInv, NEW w \in Workers, WorkerCallsRelationTool(w)
  PROVE  StepTyped
<1>1. /\ Reconcile(thread)
      /\ UNCHANGED <<events, branches, current, saved, stored, frontiers, worker, call, restarts,
                     limits>>
  BY DEF WorkerCallsRelationTool
<1>2. /\ RunsKept /\ Len(runs') = Len(runs) /\ runs' \in Seq(RunSet(Branches, Events, Checkpoints))
      /\ agent' \in [Branches -> [Agents -> DeliverySet(Events, RunIds)]]
      /\ thread' \in [Branches -> [Agents -> ThreadSet(RunIds)]]
  BY <1>1, ThreadsAre, RunsReconciled
<1>3. EventsFit /\ BranchesFit /\ SavedFit /\ RunsFit
  BY <1>1, <1>2, StoresFit, Sizes DEF RunsFit
<1>4. TypesGrow /\ Branches' = Branches
  BY <1>1, <1>3, FitGrows
<1>5. FrontiersFit /\ WorkersFit /\ CallFits /\ StoredFit
  BY <1>1, <1>3, <1>4, FrontierStays, WorkerStays, RestFits
<1>6. AgentsFit /\ ThreadsFit
  BY <1>2, <1>4 DEF AgentsFit, ThreadsFit, TypesGrow
<1> QED
  BY <1>1, <1>3, <1>4, <1>5, <1>6, Sizes, SmallIds, StepFits DEF StepTyped

LEMMA RestartIs ==
  ASSUME TypeInv, Restart
  PROVE  \E threads \in [Branches -> [Agents -> ThreadSet(RunIds)]] :
           /\ Reconcile(threads)
           /\ stored' \in [Branches -> [Agents -> SUBSET (1 .. Len(saved))]]
           /\ \A b \in Branches, a \in Agents :
                \/ threads[b][a] = thread[b][a] /\ stored'[b][a] = stored[b][a]
                \/ /\ worker[<<a, "router">>].pc = "starting"
                   /\ worker[<<a, "router">>].branch = b
                   /\ ~ForkRefused(b, a) /\ thread[b][a].status # "active"
                   /\ threads[b][a].status = "active"
                   /\ stored'[b][a] = ForkedCheckpoints(b, a)
<1> DEFINE Cut(cut, b, a) == /\ a \in cut /\ worker[<<a, "router">>].branch = b
                             /\ thread[b][a].status # "active"
           lost == [status |-> "active", commit |-> LostRun]
           rows(cut) == [b \in Branches |-> [a \in Agents |->
                           IF Cut(cut, b, a) THEN lost ELSE thread[b][a]]]
           held(cut) == [b \in Branches |-> [a \in Agents |->
                           IF Cut(cut, b, a) THEN ForkedCheckpoints(b, a) ELSE stored[b][a]]]
<1>1. PICK cut \in {{}} \union {{a} : a \in Interrupted} :
        Reconcile(rows(cut)) /\ stored' = held(cut)
  BY DEF Restart
<1>2. \A a \in cut : a \in Interrupted
  OBVIOUS
<1>3. lost \in ThreadSet(RunIds) /\ lost.status = "active"
  BY DEF ThreadSet
<1> HIDE DEF lost
<1>4. \A b \in Branches, a \in Agents :
        (IF Cut(cut, b, a) THEN lost ELSE thread[b][a]) \in ThreadSet(RunIds)
  BY <1>3, ThreadsAre
<1>5. \A b \in Branches, a \in Agents :
        (IF Cut(cut, b, a) THEN ForkedCheckpoints(b, a) ELSE stored[b][a]) \in SUBSET (1 .. Len(saved))
  BY ForkedCheckpointsType, ThreadsAre
<1>6. ASSUME NEW b \in Branches, NEW a \in Agents
      PROVE  \/ rows(cut)[b][a] = thread[b][a] /\ held(cut)[b][a] = stored[b][a]
             \/ /\ worker[<<a, "router">>].pc = "starting"
                /\ worker[<<a, "router">>].branch = b
                /\ ~ForkRefused(b, a) /\ thread[b][a].status # "active"
                /\ rows(cut)[b][a].status = "active"
                /\ held(cut)[b][a] = ForkedCheckpoints(b, a)
  <2>1. CASE Cut(cut, b, a)
    <3>1. a \in Interrupted
      BY <1>2, <2>1
    <3>2. rows(cut)[b][a] = lost /\ held(cut)[b][a] = ForkedCheckpoints(b, a)
      BY <2>1
    <3> QED
      BY <1>3, <2>1, <3>1, <3>2 DEF Interrupted
  <2>2. CASE ~Cut(cut, b, a)
    BY <2>2
  <2> QED
    BY <2>1, <2>2
<1>7. /\ rows(cut) \in [Branches -> [Agents -> ThreadSet(RunIds)]]
      /\ held(cut) \in [Branches -> [Agents -> SUBSET (1 .. Len(saved))]]
  <2> HIDE DEF Cut
  <2> QED
    BY <1>4, <1>5
<1> HIDE DEF rows, held
<1> QED
  BY <1>1, <1>6, <1>7

LEMMA RestartTyped ==
  ASSUME TypeInv, Restart
  PROVE  StepTyped
<1>1. /\ restarts' = restarts + 1 /\ restarts < limits.restarts
      /\ worker' = [w \in Workers |-> IdleWorker] /\ call' = IdleCall
      /\ UNCHANGED <<events, branches, current, saved, frontiers, limits>>
  BY DEF Restart
<1>2. PICK threads \in [Branches -> [Agents -> ThreadSet(RunIds)]] :
        /\ Reconcile(threads)
        /\ stored' \in [Branches -> [Agents -> SUBSET (1 .. Len(saved))]]
  BY RestartIs
<1>3. /\ RunsKept /\ Len(runs') = Len(runs) /\ runs' \in Seq(RunSet(Branches, Events, Checkpoints))
      /\ agent' \in [Branches -> [Agents -> DeliverySet(Events, RunIds)]]
      /\ thread' \in [Branches -> [Agents -> ThreadSet(RunIds)]]
  BY <1>2, RunsReconciled
<1>4. EventsFit /\ BranchesFit /\ SavedFit /\ RunsFit
  BY <1>1, <1>3, StoresFit, Sizes DEF RunsFit
<1>5. TypesGrow /\ Branches' = Branches
  BY <1>1, <1>4, FitGrows
<1>6. IdleWorker \in WorkerSet(Branches, Events, Checkpoints, RunIds)
      /\ IdleCall \in CallSet(Branches, Events, Checkpoints)
      /\ IdleWorker.thread = IdleWorker.branch /\ IdleWorker.pc = "idle" /\ IdleCall.pc = "idle"
  BY SmallIds, IdleFits DEF IdleWorker, IdleCall
<1>7. WorkersFit /\ CallFits
  BY <1>1, <1>5, <1>6 DEF WorkersFit, WorkerFits, CallFits, TypesGrow
<1>8. FrontiersFit /\ AgentsFit /\ ThreadsFit /\ StoredFit
  BY <1>1, <1>2, <1>3, <1>5, FrontierStays DEF AgentsFit, ThreadsFit, StoredFit, TypesGrow
<1>9. restarts' \in 0 .. limits.restarts
  <2>1. limits.restarts \in Nat
    BY BranchesAssumption DEF TypeInv, TypeOK
  <2> QED
    BY <1>1, <2>1, SmallIds
<1> QED
  BY <1>1, <1>4, <1>5, <1>7, <1>8, <1>9, Sizes, StepFits DEF StepTyped

LEMMA OutcomesAre == \A w \in Workers : Outcomes(w) \subseteq Statuses
BY DEF Outcomes, Statuses

LEMMA TypedStep ==
  ASSUME TypeInv, [Next]_vars
  PROVE  StepTyped
<1>1. ASSUME NEW w \in Workers, WorkerCompletes(w) \/ WorkerRaises(w)
      PROVE  StepTyped
  <2>1. PICK status \in Statuses : Settles(w, status)
    BY <1>1, OutcomesAre DEF WorkerCompletes, WorkerRaises, Statuses
  <2> QED
    BY <1>1, <2>1, SettleTyped DEF WorkerCompletes, WorkerRaises
<1>2. ASSUME NEW a \in Agents, WorkerSkips(a)
      PROVE  StepTyped
  <2>1. <<a, "router">> \in Workers /\ "skipped" \in Statuses
    BY DEF Workers, Lanes, Statuses
  <2> QED
    BY <1>2, <2>1, SettleTyped DEF WorkerSkips
<1>3. ASSUME NEW a \in Agents,
             \/ CreateBranchFromCheckpoint(a) \/ ResumeInvokes(a) \/ InjectStarts(a)
             \/ WorkerChosen(a) \/ WorkerReads(a) \/ WorkerStartsRun(a) \/ WorkerSkips(a)
      PROVE  StepTyped
  BY <1>2, <1>3, BranchFromCheckpointTyped, ResumeInvokesTyped, InjectTyped, ChosenTyped, StartTyped
<1>4. ASSUME NEW w \in Workers,
             \/ WorkerInvokes(w) \/ WorkerCallsRelationTool(w) \/ WorkerCompletes(w)
             \/ WorkerRaises(w) \/ WorkerReplies(w)
      PROVE  StepTyped
  BY <1>1, <1>4, WorkerInvokesTyped, ReconcileTyped, ReplyTyped
<1> QED
  BY <1>3, <1>4, HumanAppendTyped, EditTyped, ControlTyped, EditAppendsTyped, ResumeAppendsTyped,
     ResumeCreatesTyped, RestartTyped
  DEF Next

LEMMA InitTyped == Init => TypeInv
<1> SUFFICES ASSUME Init PROVE TypeInv
  OBVIOUS
<1>1. /\ events = <<>> /\ branches = <<>> /\ saved = <<>> /\ frontiers = <<>> /\ runs = <<>>
      /\ current = Main /\ worker = [w \in Workers |-> IdleWorker] /\ call = IdleCall
      /\ restarts = 0 /\ limits \in Limits
      /\ agent = [b \in {Main} |-> [a \in Agents |-> NewDeliveryState]]
      /\ thread = [b \in {Main} |-> [a \in Agents |-> NoThread]]
      /\ stored = [b \in {Main} |-> [a \in Agents |-> {}]]
  BY DEF Init
<1>2. /\ Len(events) = 0 /\ Len(branches) = 0 /\ Len(saved) = 0 /\ Len(frontiers) = 0
      /\ Len(runs) = 0
  BY <1>1
<1>3. Branches = {0} /\ Events = {0} /\ Checkpoints = {0} /\ RunIds = {0}
  BY <1>2 DEF Branches, Events, Checkpoints, RunIds
<1>4. /\ IdleWorker \in WorkerSet(Branches, Events, Checkpoints, RunIds)
      /\ IdleCall \in CallSet(Branches, Events, Checkpoints)
      /\ IdleWorker.thread = IdleWorker.branch /\ IdleWorker.pc = "idle" /\ IdleCall.pc = "idle"
  BY <1>3, IdleFits DEF IdleWorker, IdleCall
<1>5. NewDeliveryState \in DeliverySet(Events, RunIds) /\ NoThread \in ThreadSet(RunIds)
  BY <1>3 DEF NewDeliveryState, DeliverySet, DeliveryStates, NoThread, ThreadSet, NoSeq, NoRun
<1>6. restarts \in 0 .. limits.restarts
  <2>1. limits.restarts \in Nat
    BY <1>1, BranchesAssumption
  <2> QED
    BY <1>1, <2>1
<1>7. Typed(Branches, Events, Checkpoints, RunIds)
  <2>1. /\ events \in Seq(EventSet(Branches, Events, RunIds))
        /\ branches \in Seq(BranchSet(Branches, Events, Checkpoints))
        /\ saved \in Seq(CheckpointSet(Events, Checkpoints))
        /\ frontiers \in Seq(FrontierSet(Branches, Events, Checkpoints, RunIds))
        /\ runs \in Seq(RunSet(Branches, Events, Checkpoints))
    BY <1>1
  <2>2. /\ agent \in [Branches -> [Agents -> DeliverySet(Events, RunIds)]]
        /\ thread \in [Branches -> [Agents -> ThreadSet(RunIds)]]
        /\ stored \in [Branches -> [Agents -> SUBSET Checkpoints]]
    BY <1>1, <1>3, <1>5 DEF Main
  <2>3. /\ worker \in [Workers -> WorkerSet(Branches, Events, Checkpoints, RunIds)]
        /\ call \in CallSet(Branches, Events, Checkpoints) /\ current \in Branches
    BY <1>1, <1>3, <1>4 DEF Main
  <2> QED
    BY <2>1, <2>2, <2>3 DEF Typed
<1>8. TypeOK
  BY <1>1, <1>6, <1>7, TypedIs
<1>9. Elders /\ References
  <2>1. Elders
    BY <1>2 DEF Elders
  <2>2. \A b \in Branches, a \in Agents : NoCheckpoint \notin stored[b][a]
    BY <1>1, <1>3 DEF Main
  <2>3. \A w \in Workers : worker[w] = IdleWorker
    BY <1>1
  <2>4. \A w \in Workers :
          /\ worker[w].thread = worker[w].branch
          /\ worker[w].pc \in {"invoking", "completing", "replying"} => worker[w].run # NoRun
    BY <1>4, <2>3
  <2>5. call.pc \notin {"edited", "editing"} /\ 1 .. Len(frontiers) = {}
    BY <1>1, <1>2, <1>4
  <2> QED
    BY <2>1, <2>2, <2>4, <2>5 DEF References
<1> QED
  BY <1>8, <1>9 DEF TypeInv

\* The stores, and the threads at work, refer to what exists: whatever is created, forked,
\* replayed, given up or cut short, no record points to an event, a branch, a checkpoint or a
\* run that was never written.
THEOREM TypeOKCorrect == Spec => []TypeOK
<1>1. TypeInv /\ [Next]_vars => TypeInv'
  BY TypedStep DEF StepTyped
<1>2. TypeInv => TypeOK
  BY DEF TypeInv
<1> QED
  BY <1>1, <1>2, InitTyped, PTL DEF Spec

----------------------------------------------------------------------------
(* A record that is final stays.                                            *)

IsRunRecord(run) == "commit" \in DOMAIN run /\ run.commit \in Commits

RunRecords ==
  /\ \E S : runs \in Seq(S)
  /\ \A r \in 1 .. Len(runs) : IsRunRecord(runs[r])

WorkerFields == {"pc", "branch", "run", "low", "snapshot", "thread"}

WorkerRecords ==
  /\ DOMAIN worker = Workers
  /\ \A w \in Workers : WorkerFields \subseteq DOMAIN worker[w]

\* Where the thread of a worker holds a run whose end it has still to record.
AtWork(w) == worker[w].pc \in {"invoking", "completing"}

\* A run has one thread, and is not committed as long as that is at work on it.
WorkersOwnRecords ==
  /\ \A w \in Workers : AtWork(w) =>
       worker[w].run \in 1 .. Len(runs) /\ runs[worker[w].run].commit # "committed"
  /\ \A v, w \in Workers : AtWork(v) /\ AtWork(w) /\ worker[v].run = worker[w].run => v = w

RunsInv == RunRecords /\ WorkerRecords /\ WorkersOwnRecords

\* Between two states, records that are final stay.
FinalKept == \A r \in 1 .. Len(runs) : runs[r].commit # "pending" => runs'[r] = runs[r]

\* _save_run changes one record or adds one.
LEMMA SaveRunChangesOne ==
  ASSUME RunRecords, NEW r \in 1 .. Len(runs) + 1, NEW run, IsRunRecord(run), SaveRun(r, run)
  PROVE  /\ RunRecords' /\ Len(runs) \in Nat
         /\ Len(runs') = IF r = Len(runs) + 1 THEN r ELSE Len(runs)
         /\ runs'[r] = run
         /\ \A q \in 1 .. Len(runs) : q # r => runs'[q] = runs[q]
<1>1. PICK S : runs \in Seq(S)
  BY DEF RunRecords
<1> DEFINE n == Later(r, Len(runs))
<1>2. Len(runs) \in Nat /\ n \in Nat /\ n = IF r = Len(runs) + 1 THEN r ELSE Len(runs)
  BY <1>1 DEF Later
<1>3. runs' = [q \in 1 .. n |-> IF q = r THEN run ELSE runs[q]]
  BY DEF SaveRun
<1>4. \A q \in 1 .. n : (IF q = r THEN run ELSE runs[q]) \in S \union {run}
  BY <1>1, <1>2
<1>5. runs' \in Seq(S \union {run}) /\ Len(runs') = n
  BY <1>2, <1>3, <1>4
<1>6. \A q \in 1 .. n : IsRunRecord(runs'[q])
  BY <1>2, <1>3 DEF RunRecords
<1> QED
  <2>1. RunRecords'
    BY <1>5, <1>6 DEF RunRecords
  <2> QED
    BY <2>1, <1>2, <1>3, <1>5

\* Steps that leave the runs alone, and no thread comes to be at work by them.
LEMMA RunsStay ==
  ASSUME RunsInv, UNCHANGED runs, WorkerRecords',
         \A w \in Workers : AtWork(w)' => AtWork(w) /\ worker'[w].run = worker[w].run
  PROVE  RunsInv' /\ FinalKept
BY DEF RunsInv, RunRecords, WorkersOwnRecords, FinalKept

LEMMA IdleWorkerFits == WorkerFields \subseteq DOMAIN IdleWorker /\ IdleWorker.pc = "idle"
BY DEF WorkerFields, IdleWorker

\* One worker changes, and its record stays one.
LEMMA WorkerChanges ==
  ASSUME RunsInv, NEW w \in Workers, NEW to, worker' = [worker EXCEPT ![w] = to],
         WorkerFields \subseteq DOMAIN to
  PROVE  /\ WorkerRecords' /\ worker'[w] = to
         /\ \A v \in Workers : v # w => worker'[v] = worker[v]
BY DEF RunsInv, WorkerRecords

\* A thread that is not at work on a run afterwards, or on the one it was at work on before.
LEMMA WorkerLeavesRuns ==
  ASSUME RunsInv, NEW w \in Workers, NEW to, worker' = [worker EXCEPT ![w] = to], UNCHANGED runs,
         WorkerFields \subseteq DOMAIN to,
         to.pc \in {"invoking", "completing"} => AtWork(w) /\ to.run = worker[w].run
  PROVE  RunsInv' /\ FinalKept
<1>1. /\ WorkerRecords' /\ worker'[w] = to
      /\ \A v \in Workers : v # w => worker'[v] = worker[v]
  BY WorkerChanges
<1>2. \A v \in Workers : AtWork(v)' => AtWork(v) /\ worker'[v].run = worker[v].run
  BY <1>1 DEF AtWork
<1> QED
  BY <1>1, <1>2, RunsStay

\* A worker starts a run of its own.
LEMMA StartKeepsRuns ==
  ASSUME RunsInv, NEW w \in Workers, NEW run, IsRunRecord(run), run.commit = "pending",
         SaveRun(Len(runs) + 1, run), NEW to, worker' = [worker EXCEPT ![w] = to],
         WorkerFields \subseteq DOMAIN to,
         to.run = Len(runs) + 1
  PROVE  RunsInv' /\ FinalKept
<1> DEFINE r == Len(runs) + 1
<1>1. Len(runs) \in Nat /\ r \in 1 .. r
  BY DEF RunsInv, RunRecords
<1>2. /\ RunRecords' /\ Len(runs') = r /\ runs'[r] = run
      /\ \A q \in 1 .. Len(runs) : q # r => runs'[q] = runs[q]
  BY <1>1, SaveRunChangesOne DEF RunsInv
<1>3. /\ WorkerRecords' /\ worker'[w] = to
      /\ \A v \in Workers : v # w => worker'[v] = worker[v]
  BY WorkerChanges
<1>4. FinalKept
  BY <1>1, <1>2 DEF FinalKept
<1>5. WorkersOwnRecords'
  BY <1>1, <1>2, <1>3 DEF RunsInv, WorkersOwnRecords, AtWork
<1> QED
  BY <1>2, <1>3, <1>4, <1>5 DEF RunsInv

\* reconcile_incomplete_commits gives up runs that are pending, and no others.
LEMMA ReconcileKeepsRuns ==
  ASSUME RunRecords, NEW threads, Reconcile(threads)
  PROVE  /\ RunRecords' /\ Len(runs') = Len(runs)
         /\ \A r \in 1 .. Len(runs) : runs[r].commit # "committed" => runs'[r].commit # "committed"
         /\ FinalKept
<1>1. PICK S : runs \in Seq(S)
  BY DEF RunRecords
<1> DEFINE orphan(r) ==
             [runs[r] EXCEPT !.status = "failed", !.commit = "orphaned",
                             !.latest = LatestCheckpoint(runs[r].branch, runs[r].agent)]
           next(r) == IF runs[r].commit = "pending" THEN orphan(r) ELSE runs[r]
<1>2. runs' = [r \in 1 .. Len(runs) |-> next(r)]
  BY DEF Reconcile
<1>3. \A r \in 1 .. Len(runs) : IsRunRecord(orphan(r)) /\ orphan(r).commit = "orphaned"
  BY DEF RunRecords, IsRunRecord, Commits
<1> HIDE DEF orphan
<1>4. runs' \in Seq(S \union {orphan(r) : r \in 1 .. Len(runs)}) /\ Len(runs') = Len(runs)
  BY <1>1, <1>2
<1> QED
  BY <1>2, <1>3, <1>4 DEF RunRecords, FinalKept

\* The end of a run is recorded by the thread at work on it, which is then done with it.
LEMMA SettlesKeepsRuns ==
  ASSUME RunsInv, NEW w \in Workers, AtWork(w), NEW status, Settles(w, status)
  PROVE  RunsInv' /\ FinalKept
<1> DEFINE r  == worker[w].run
           to == worker'[w]
<1>1. r \in 1 .. Len(runs) /\ runs[r].commit # "committed" /\ Len(runs) \in Nat
  BY DEF RunsInv, RunRecords, WorkersOwnRecords
<1>2. /\ IsRunRecord(SettledRun(r, status))
      /\ runs[r].commit # "pending" => SettledRun(r, status) = runs[r]
  BY <1>1 DEF RunsInv, RunRecords, IsRunRecord, SettledRun, Commits
<1>3. SaveRun(r, SettledRun(r, status)) /\ r \in 1 .. Len(runs) + 1 /\ r # Len(runs) + 1
  BY <1>1 DEF Settles
<1>4. /\ RunRecords' /\ Len(runs') = Len(runs)
      /\ runs'[r] = SettledRun(r, status)
      /\ \A q \in 1 .. Len(runs) : q # r => runs'[q] = runs[q]
  <2> HIDE DEF r
  <2> QED
    BY <1>1, <1>2, <1>3, SaveRunChangesOne DEF RunsInv
<1>5. /\ WorkerRecords' /\ ~AtWork(w)'
      /\ \A v \in Workers : v # w => worker'[v] = worker[v]
  <2>1. ASSUME NEW next, next \in {[worker[w] EXCEPT !.pc = "replying"], IdleWorker}
        PROVE  /\ WorkerFields \subseteq DOMAIN next
               /\ next.pc \notin {"invoking", "completing"}
    <3>1. LET replying == [worker[w] EXCEPT !.pc = "replying"]
          IN  WorkerFields \subseteq DOMAIN replying /\ replying.pc = "replying"
      BY DEF RunsInv, WorkerRecords, WorkerFields
    <3> QED
      BY <2>1, <3>1, IdleWorkerFits
  <2>2. PICK next \in {[worker[w] EXCEPT !.pc = "replying"], IdleWorker} :
          worker' = [worker EXCEPT ![w] = next]
    BY DEF Settles
  <2>3. WorkerFields \subseteq DOMAIN next /\ next.pc \notin {"invoking", "completing"}
    BY <2>1
  <2> QED
    BY <2>2, <2>3, WorkerChanges DEF AtWork
<1>6. FinalKept
  BY <1>2, <1>4 DEF FinalKept
<1>7. WorkersOwnRecords'
  BY <1>1, <1>4, <1>5 DEF RunsInv, WorkersOwnRecords, AtWork
<1> QED
  BY <1>4, <1>5, <1>6, <1>7 DEF RunsInv

LEMMA AgentsKeepRuns ==
  ASSUME RunsInv, NEW a \in Agents,
         \/ InjectStarts(a) \/ WorkerChosen(a) \/ WorkerReads(a) \/ WorkerStartsRun(a)
         \/ WorkerSkips(a)
  PROVE  RunsInv' /\ FinalKept
<1> DEFINE w == <<a, "router">>
           v == <<a, "inject">>
<1>1. w \in Workers /\ v \in Workers
  BY DEF Workers, Lanes
<1>2. Len(runs) \in Nat
  BY DEF RunsInv, RunRecords
<1>3. \A pc : WorkerFields \subseteq DOMAIN [worker[w] EXCEPT !.pc = pc]
  BY <1>1 DEF RunsInv, WorkerRecords
<1>4. ASSUME NEW agentOf, NEW lane, NEW b, NEW low, NEW snapshot
      PROVE  /\ IsRunRecord(NewRun(agentOf, lane, b, low, snapshot))
             /\ NewRun(agentOf, lane, b, low, snapshot).commit = "pending"
  BY DEF IsRunRecord, NewRun, Commits
<1> HIDE DEF w, v
<1>5. CASE WorkerChosen(a)
  <2>1. UNCHANGED runs /\ worker' = [worker EXCEPT ![w] = [worker[w] EXCEPT !.pc = "reading"]]
    BY <1>1, <1>5 DEF WorkerChosen, w
  <2>2. [worker[w] EXCEPT !.pc = "reading"].pc = "reading"
    BY <1>1 DEF RunsInv, WorkerRecords
  <2> QED
    BY <1>1, <1>3, <2>1, <2>2, WorkerLeavesRuns
<1>6. CASE WorkerReads(a)
  <2> DEFINE read == [worker[w] EXCEPT !.pc = "starting", !.branch = current, !.thread = current,
                        !.low = agent[current][a].lastDelivered, !.snapshot = Latest(current)]
  <2>1. PICK next \in {read, IdleWorker} : worker' = [worker EXCEPT ![w] = next]
    BY <1>1, <1>6 DEF WorkerReads, w
  <2>2. WorkerFields \subseteq DOMAIN read /\ read.pc = "starting"
    BY <1>1 DEF RunsInv, WorkerRecords, WorkerFields
  <2>3. UNCHANGED runs
    BY <1>6 DEF WorkerReads
  <2> QED
    BY <1>1, <2>1, <2>2, <2>3, IdleWorkerFits, WorkerLeavesRuns
<1>7. CASE WorkerStartsRun(a)
  <2>1. CASE UNCHANGED runs /\ worker' = [worker EXCEPT ![w] = IdleWorker]
    BY <1>1, <2>1, IdleWorkerFits, WorkerLeavesRuns
  <2>2. ASSUME NEW run, IsRunRecord(run), run.commit = "pending", SaveRun(Len(runs) + 1, run),
               worker' = [worker EXCEPT ![w].pc = "invoking", ![w].run = Len(runs) + 1]
        PROVE  RunsInv' /\ FinalKept
    <3> DEFINE next == [worker[w] EXCEPT !.pc = "invoking", !.run = Len(runs) + 1]
    <3>1. worker' = [worker EXCEPT ![w] = next]
      BY <1>1, <2>2 DEF RunsInv, WorkerRecords
    <3>2. /\ WorkerFields \subseteq DOMAIN next
          /\ next.run = Len(runs) + 1
      BY <1>1 DEF RunsInv, WorkerRecords
    <3> QED
      BY <1>1, <2>2, <3>1, <3>2, StartKeepsRuns
  <2> QED
    BY <1>4, <1>7, <2>1, <2>2 DEF WorkerStartsRun, w
<1>8. CASE WorkerSkips(a)
  BY <1>1, <1>8, SettlesKeepsRuns DEF WorkerSkips, AtWork, w
<1>9. CASE InjectStarts(a)
  <2>1. PICK run : IsRunRecord(run) /\ run.commit = "pending" /\ SaveRun(Len(runs) + 1, run)
    BY <1>4, <1>9 DEF InjectStarts
  <2>2. PICK next : /\ worker' = [worker EXCEPT ![v] = next]
                    /\ WorkerFields \subseteq DOMAIN next
                    /\ next.run = Len(runs) + 1
    <3> DEFINE b == current
               f == frontiers[Greatest(UsableFrontiers(b, a))]
               started == [pc |-> "invoking", branch |-> b, run |-> Len(runs) + 1,
                           low |-> Latest(b), snapshot |-> Latest(b),
                           from |-> Len(saved) + 1, thread |-> f.thread]
    <3>1. worker' = [worker EXCEPT ![v] = started]
      BY <1>9 DEF InjectStarts, v
    <3>2. WorkerFields \subseteq DOMAIN started /\ started.run = Len(runs) + 1
      BY DEF WorkerFields
    <3> QED
      BY <3>1, <3>2
  <2> QED
    BY <1>1, <2>1, <2>2, StartKeepsRuns
<1> QED
  BY <1>5, <1>6, <1>7, <1>8, <1>9

LEMMA WorkersKeepRuns ==
  ASSUME RunsInv, NEW w \in Workers,
         \/ WorkerInvokes(w) \/ WorkerCallsRelationTool(w) \/ WorkerCompletes(w)
         \/ WorkerRaises(w) \/ WorkerReplies(w)
  PROVE  RunsInv' /\ FinalKept
<1>1. CASE WorkerInvokes(w)
  <2> DEFINE next == [worker[w] EXCEPT !.pc = "completing"]
  <2>1. /\ UNCHANGED runs /\ AtWork(w)
        /\ worker' = [worker EXCEPT ![w] = next]
    BY <1>1 DEF WorkerInvokes, AtWork, RunsInv, WorkerRecords
  <2>2. /\ WorkerFields \subseteq DOMAIN next
        /\ next.run = worker[w].run
    BY DEF RunsInv, WorkerRecords, WorkerFields
  <2> QED
    BY <2>1, <2>2, WorkerLeavesRuns
<1>2. CASE WorkerCallsRelationTool(w)
  <2>1. UNCHANGED worker /\ Reconcile(thread)
    BY <1>2 DEF WorkerCallsRelationTool
  <2> QED
    BY <2>1, ReconcileKeepsRuns DEF RunsInv, WorkerRecords, WorkersOwnRecords, AtWork
<1>3. CASE WorkerCompletes(w) \/ WorkerRaises(w)
  <2>1. AtWork(w) /\ \E status : Settles(w, status)
    BY <1>3 DEF WorkerCompletes, WorkerRaises, AtWork
  <2> QED
    BY <2>1, SettlesKeepsRuns
<1>4. CASE WorkerReplies(w)
  <2>1. UNCHANGED runs /\ worker' = [worker EXCEPT ![w] = IdleWorker]
    BY <1>4 DEF WorkerReplies
  <2> QED
    BY <2>1, IdleWorkerFits, WorkerLeavesRuns
<1> QED
  BY <1>1, <1>2, <1>3, <1>4

LEMMA RestartKeepsRuns ==
  ASSUME RunsInv, Restart
  PROVE  RunsInv' /\ FinalKept
<1>1. worker' = [w \in Workers |-> IdleWorker] /\ \E threads : Reconcile(threads)
  BY DEF Restart
<1>2. RunRecords' /\ FinalKept
  BY <1>1, ReconcileKeepsRuns DEF RunsInv
<1>3. WorkerRecords' /\ WorkersOwnRecords'
  BY <1>1, IdleWorkerFits DEF WorkerRecords, WorkersOwnRecords, AtWork
<1> QED
  BY <1>2, <1>3 DEF RunsInv

LEMMA RunsStep ==
  ASSUME RunsInv, [Next]_vars
  PROVE  RunsInv' /\ FinalKept
<1>1. CASE UNCHANGED <<runs, worker>>
  BY <1>1, RunsStay DEF RunsInv, WorkerRecords, AtWork
<1>2. CASE AppendHumanMessage
  BY <1>1, <1>2 DEF AppendHumanMessage
<1>3. ASSUME NEW b \in Branches, SwitchBranch(b) \/ ArchiveBranch(b) PROVE RunsInv' /\ FinalKept
  BY <1>1, <1>3 DEF SwitchBranch, ArchiveBranch
<1>4. ASSUME NEW i \in 1 .. Len(events), EditCreatesBranch(i) PROVE RunsInv' /\ FinalKept
  BY <1>1, <1>4 DEF EditCreatesBranch
<1>5. CASE \/ CallSwitchesBranch \/ EditAppends \/ ResumeFails \/ ResumeCreatesBranch
           \/ ResumeAppends
  BY <1>1, <1>5
  DEF CallSwitchesBranch, EditAppends, ResumeFails, ResumeCreatesBranch, ResumeAppends
<1>6. ASSUME NEW a \in Agents, CreateBranchFromCheckpoint(a) \/ ResumeInvokes(a)
      PROVE  RunsInv' /\ FinalKept
  BY <1>1, <1>6 DEF CreateBranchFromCheckpoint, ResumeInvokes
<1>7. CASE UNCHANGED vars
  BY <1>1, <1>7 DEF vars
<1> QED
  BY <1>2, <1>3, <1>4, <1>5, <1>6, <1>7, AgentsKeepRuns, WorkersKeepRuns, RestartKeepsRuns
  DEF Next

LEMMA RunsInvariant == Spec => []RunsInv
<1>1. Init => RunsInv
  <2> SUFFICES ASSUME Init PROVE RunsInv
    OBVIOUS
  <2>1. runs = <<>> /\ worker = [w \in Workers |-> IdleWorker]
    BY DEF Init
  <2>2. runs \in Seq({}) /\ Len(runs) = 0
    BY <2>1
  <2> QED
    BY <2>1, <2>2, IdleWorkerFits
    DEF RunsInv, RunRecords, WorkerRecords, WorkersOwnRecords, AtWork
<1> QED
  BY <1>1, RunsStep, PTL DEF Spec

\* A record that is final stays (_save_run and its callers): the thread that ends a run given
\* up leaves it given up, two threads never end one run, and a process or a relation tool
\* that reconciles passes the runs by that are settled.
THEOREM CommitIsFinalCorrect == Spec => CommitIsFinal
<1>1. RunsInv /\ [Next]_vars => [FinalKept]_vars
  BY RunsStep
<1> QED
  BY <1>1, RunsInvariant, PTL DEF Spec, CommitIsFinal, FinalKept
=============================================================================
