---------------------------- MODULE TeamPackages ----------------------------
(***************************************************************************)
(* The packages of teams a workspace installs: their trees and the skills  *)
(* they share, the lock file that says what is installed, the contents the *)
(* user trusts, and the gate a team passes before it is instantiated.      *)
(*                                                                         *)
(* The command line runs one command at a time, which may be cut at any    *)
(* step; Studio may instantiate a team at any moment.  A directory is      *)
(* replaced in two steps and so is the lock file.  A content hash stands   *)
(* for the content hashed.                                                 *)
(***************************************************************************)
EXTENDS Naturals, FiniteSets

CONSTANTS
  Packages,      \* the names of packages
  Inside,        \* Inside[p]: the packages whose name, hence directory, lies in that of p
  Releases,      \* what sources hold: the versions of all packages
  PackageOf,     \* the package a release is of
  Risky,         \* the releases whose teams the risk scanner flags
  Skills,        \* the ids of skills
  Commits,       \* the commits of skill repositories
  SkillsOf,      \* SkillsOf[r][s]: the commit of skill s that release r depends on
  PackageLimits  \* bounds: how many commands are given, and how many are cut

None   == "none"     \* no directory, no dependency
Torn   == "torn"     \* a directory removed or copied in part
Nobody == "nobody"

ASSUME PackagesAssumption ==
  /\ {None, Torn} \cap (Releases \union Commits) = {}
  /\ Nobody \notin Packages
  /\ Packages \cap Skills = {}
  /\ Inside \in [Packages -> SUBSET Packages]
  /\ \A p, q \in Packages : q \in Inside[p] => q # p /\ Inside[q] = {}
  /\ \A p, q, r \in Packages : r \in Inside[p] /\ r \in Inside[q] => p = q
  /\ PackageOf \in [Releases -> Packages]
  /\ Risky \subseteq Releases
  /\ SkillsOf \in [Releases -> [Skills -> Commits \union {None}]]
  /\ PackageLimits \subseteq [commands : Nat, cuts : Nat]

VARIABLES
  tree,      \* .coding-agents/packages: the release in each directory
  skill,     \* .coding-agents/skills: the commit of each skill
  lock,      \* team-lock.json: the entries of the locked packages
  readable,  \* the lock file parses
  trusted,   \* trust.json: pairs of a package and a content
  command,   \* the command under way
  instance,  \* the last team instantiated: the package it is taken for and its content
  complete,  \* history: the contents whose install wrote its entry
  damaged,   \* history: packages and skills changed since their entry, see below
  spent      \* how many commands were given and cut, and their bounds

packageVars == <<tree, skill, lock, readable, trusted, command, instance, complete, damaged, spent>>

Within(p) == {p} \union Inside[p]

\* hash_directory of a package's directory, which holds the packages inside it.
HashOf(t, p) == [q \in Within(p) |-> t[q]]

SkillsIn(skills) == {s \in Skills : skills[s] # None}

\* The command under way: the entry it makes, what it still has to replace or to
\* remove, what it has begun to replace, and the packages update has not reached.
Idle == [pc |-> "idle", package |-> Nobody, release |-> None, left |-> {}, begun |-> {},
         rest |-> {}]

PackagesInit ==
  /\ tree     = [p \in Packages |-> None]
  /\ skill    = [s \in Skills |-> None]
  /\ lock     = [p \in {} |-> None]
  /\ readable = TRUE
  /\ trusted  = {}
  /\ command  = Idle
  /\ instance = [package |-> Nobody, content |-> None, risky |-> FALSE]
  /\ complete = {}
  /\ damaged  = {}
  /\ \E limit \in PackageLimits : spent = [commands |-> 0, cuts |-> 0, limit |-> limit]

At(pc) == command.pc = pc

Goes(pc) == command' = [command EXCEPT !.pc = pc]

----------------------------------------------------------------------------
(* install and update.                                                      *)

\* Mutation of Conflict: the packages locked are not looked at.
NoConflict(r) == FALSE

\* _ensure_no_skill_conflicts refuses: another package locks a skill at another commit.
Conflict(r) ==
  \E p \in DOMAIN lock \ {PackageOf[r]} : \E s \in SkillsIn(SkillsOf[r]) :
     lock[p].skills[s] \notin {None, SkillsOf[r][s]}

\* The package and its skills are resolved, validated and staged; nothing has changed.
StartsInstall(r, rest) ==
  /\ readable
  /\ ~Conflict(r)
  /\ command' = [pc |-> "remove", package |-> PackageOf[r], release |-> r,
                 left |-> SkillsIn(SkillsOf[r]), begun |-> {}, rest |-> rest]

Gives == spent.commands < spent.limit.commands /\ spent' = [spent EXCEPT !.commands = @ + 1]

\* install of a source; one that is refused changes nothing.
InstallCommand ==
  /\ At("idle") /\ Gives
  /\ \E r \in Releases : StartsInstall(r, {})
  /\ UNCHANGED <<tree, skill, lock, readable, trusted, instance, complete, damaged>>

\* update of one package or of all: each is installed again from its source.
UpdateCommand ==
  /\ At("idle") /\ Gives /\ readable
  /\ \E ps \in {{p} : p \in DOMAIN lock} \union {DOMAIN lock} :
        ps # {} /\ command' = [Idle EXCEPT !.pc = "next", !.rest = ps]
  /\ UNCHANGED <<tree, skill, lock, readable, trusted, instance, complete, damaged>>

UpdatesNext ==
  /\ At("next")
  /\ \E p \in command.rest : \E r \in {r \in Releases : PackageOf[r] = p} :
        StartsInstall(r, command.rest \ {p})
  /\ UNCHANGED <<tree, skill, lock, readable, trusted, instance, complete, damaged, spent>>

\* A source that fails, or a conflict, ends update: the packages left are not updated.
UpdateGivesUp ==
  /\ At("next")
  /\ command' = Idle
  /\ UNCHANGED <<tree, skill, lock, readable, trusted, instance, complete, damaged, spent>>

\* rmtree of a package's directory, before its end.
TreeWithout(p) ==
  [q \in Packages |-> IF q = p THEN Torn ELSE IF q \in Inside[p] THEN None ELSE tree[q]]

\* The packages whose directory holds the one of p, or lies in it.
Overlapping(p) == Inside[p] \union {q \in Packages : p \in Inside[q]}

\* _replace_tree of the package: the old tree goes.
RemovesTree ==
  /\ At("remove")
  /\ tree' = TreeWithout(command.package)
  /\ command' = [command EXCEPT !.pc = "copy", !.begun = {command.package}]
  /\ damaged' = damaged \union Overlapping(command.package)
  /\ UNCHANGED <<skill, lock, readable, trusted, instance, complete, spent>>

\* _replace_tree of the package: the new tree is there, and is hashed.
CopiesTree ==
  /\ At("copy")
  /\ tree' = [tree EXCEPT ![command.package] = command.release]
  /\ Goes("skills")
  /\ UNCHANGED <<skill, lock, readable, trusted, instance, complete, damaged, spent>>

\* _commit_skill_dependency: one skill after the other.
RemovesSkill ==
  /\ At("skills")
  /\ \E s \in command.left \ command.begun :
       /\ skill' = [skill EXCEPT ![s] = Torn]
       /\ command' = [command EXCEPT !.pc = "skill", !.begun = @ \union {s}]
  /\ UNCHANGED <<tree, lock, readable, trusted, instance, complete, damaged, spent>>

CopiesSkill ==
  /\ At("skill")
  /\ \E s \in command.left \cap command.begun :
       /\ skill' = [skill EXCEPT ![s] = SkillsOf[command.release][s]]
       /\ command' = [command EXCEPT !.pc = "skills", !.left = @ \ {s}]
  /\ UNCHANGED <<tree, lock, readable, trusted, instance, complete, damaged, spent>>

\* Mutation of EntryOf: the entry carries the content the package had.
StaleEntry(p, r) ==
  [integrity |-> IF p \in DOMAIN lock THEN lock[p].integrity ELSE HashOf(tree, p),
   skills |-> SkillsOf[r]]

EntryOf(p, r) == [integrity |-> HashOf(tree, p), skills |-> SkillsOf[r]]

\* write_text opens the file, which empties it, ...
OpensLock(pc, then) ==
  /\ At(pc)
  /\ readable' = FALSE
  /\ Goes(then)

\* ... and writes it.
WritesLock(pc, entries) ==
  /\ At(pc)
  /\ lock' = entries
  /\ readable' = TRUE

InstallOpensLock ==
  /\ command.left = {}
  /\ OpensLock("skills", "locking")
  /\ UNCHANGED <<tree, skill, lock, trusted, instance, complete, damaged, spent>>

\* upsert_package, the last step of install; update goes on to its next package.
InstallWritesLock ==
  LET p     == command.package
      entry == EntryOf(p, command.release)
  IN /\ WritesLock("locking", [q \in DOMAIN lock \union {p} |-> IF q = p THEN entry ELSE lock[q]])
     /\ command' = IF command.rest = {} THEN Idle
                   ELSE [Idle EXCEPT !.pc = "next", !.rest = command.rest]
     /\ complete' = complete \union {<<p, entry.integrity>>}
     /\ damaged' = damaged \ command.begun
     /\ UNCHANGED <<tree, skill, trusted, instance, spent>>

----------------------------------------------------------------------------
(* uninstall.                                                               *)

\* The entry goes first; what is left to remove is the package's skills.
UninstallCommand ==
  /\ At("idle") /\ Gives /\ readable
  /\ \E p \in DOMAIN lock :
       command' = [Idle EXCEPT !.pc = "unlock", !.package = p, !.left = SkillsIn(lock[p].skills)]
  /\ UNCHANGED <<tree, skill, lock, readable, trusted, instance, complete, damaged>>

UninstallOpensLock ==
  /\ OpensLock("unlock", "unlocking")
  /\ UNCHANGED <<tree, skill, lock, trusted, instance, complete, damaged, spent>>

UninstallWritesLock ==
  /\ WritesLock("unlocking", [q \in DOMAIN lock \ {command.package} |-> lock[q]])
  /\ Goes("rmtree")
  /\ UNCHANGED <<tree, skill, trusted, instance, complete, damaged, spent>>

RemovesPackage ==
  /\ At("rmtree")
  /\ tree' = [TreeWithout(command.package) EXCEPT ![command.package] = None]
  /\ damaged' = damaged \union Overlapping(command.package)
  /\ Goes("rmskills")
  /\ UNCHANGED <<skill, lock, readable, trusted, instance, complete, spent>>

\* Mutation of InUse: the skills of the packages left are not looked at.
NotInUse(s) == FALSE

\* _remaining_skill_dependency_paths.
InUse(s) == \E p \in DOMAIN lock : lock[p].skills[s] # None

\* _remove_unused_skill_dependencies.
RemovesUnusedSkill ==
  /\ At("rmskills")
  /\ \E s \in command.left :
       /\ skill' = [skill EXCEPT ![s] = IF InUse(s) THEN @ ELSE None]
       /\ command' = [command EXCEPT !.left = @ \ {s}]
  /\ UNCHANGED <<tree, lock, readable, trusted, instance, complete, damaged, spent>>

UninstallEnds ==
  /\ At("rmskills") /\ command.left = {}
  /\ command' = Idle
  /\ UNCHANGED <<tree, skill, lock, readable, trusted, instance, complete, damaged, spent>>

----------------------------------------------------------------------------
(* Failures.                                                                *)

\* The user, or a full disk, ends a command before its end.
CutCommand ==
  /\ ~At("idle")
  /\ spent.cuts < spent.limit.cuts
  /\ spent' = [spent EXCEPT !.cuts = @ + 1]
  /\ command' = Idle
  /\ damaged' = damaged \union command.begun \union
                IF At("rmtree") THEN Overlapping(command.package) ELSE {}
  /\ tree' \in IF At("rmtree") THEN {tree, TreeWithout(command.package)} ELSE {tree}
  /\ UNCHANGED <<skill, lock, readable, trusted, instance, complete>>

\* No command reads a torn lock file; the user deletes it, and it is empty.
DeleteLock ==
  /\ At("idle") /\ ~readable
  /\ lock' = [p \in {} |-> None]
  /\ readable' = TRUE
  /\ UNCHANGED <<tree, skill, trusted, command, instance, complete, damaged, spent>>

----------------------------------------------------------------------------
(* Trust, and the teams that run.                                           *)

\* team trust: what is trusted is the content locked now.
TrustCommand ==
  /\ At("idle") /\ readable
  /\ \E p \in DOMAIN lock : trusted' = trusted \union {<<p, lock[p].integrity>>}
  /\ UNCHANGED <<tree, skill, lock, readable, command, instance, complete, damaged, spent>>

\* A trust file written in part is read as an empty one.
TrustCut ==
  /\ spent.cuts < spent.limit.cuts
  /\ spent' = [spent EXCEPT !.cuts = @ + 1]
  /\ trusted' = {}
  /\ UNCHANGED <<tree, skill, lock, readable, command, instance, complete, damaged>>

\* package_for_team_file: entries are sorted by name, so a package before those inside it.
Owners(p) ==
  LET holding == {q \in DOMAIN lock : p \in Within(q)}
  IN IF ~readable THEN {}
     ELSE IF holding \subseteq {p} THEN holding ELSE holding \ {p}

\* Mutation of Verified: the content on disk is not hashed.
LockedIsTrusted(p) == <<p, lock[p].integrity>> \in trusted

\* _verified_package_integrity, then is_trusted.
Verified(p) ==
  HashOf(tree, p) = lock[p].integrity /\ <<p, lock[p].integrity>> \in trusted

\* Its agents select the skills the package depends on: the resolver finds each.
SkillsFound(r, owner) ==
  \A s \in SkillsIn(SkillsOf[r]) : lock[owner].skills[s] # None /\ skill[s] # None

\* instantiate, up to the graphs: the team is loaded, then _enforce_package_trust.  Of a
\* torn tree any team may load, flagged or not.
Instantiate(p) ==
  /\ tree[p] # None
  /\ \E owner \in Owners(p), risky \in BOOLEAN :
       /\ tree[p] # Torn => /\ risky = (tree[p] \in Risky)
                            /\ SkillsFound(tree[p], owner)
       /\ risky => Verified(owner)
       /\ instance' = [package |-> owner, content |-> tree[p], risky |-> risky]
  /\ UNCHANGED <<tree, skill, lock, readable, trusted, command, complete, damaged, spent>>

PackagesNext ==
  \/ InstallCommand
  \/ UpdateCommand
  \/ UpdatesNext
  \/ UpdateGivesUp
  \/ RemovesTree
  \/ CopiesTree
  \/ RemovesSkill
  \/ CopiesSkill
  \/ InstallOpensLock
  \/ InstallWritesLock
  \/ UninstallCommand
  \/ UninstallOpensLock
  \/ UninstallWritesLock
  \/ RemovesPackage
  \/ RemovesUnusedSkill
  \/ UninstallEnds
  \/ CutCommand
  \/ DeleteLock
  \/ TrustCommand
  \/ TrustCut
  \/ \E p \in Packages : Instantiate(p)

PackagesSpec == PackagesInit /\ [][PackagesNext]_packageVars

----------------------------------------------------------------------------
(* Properties.                                                              *)

Contents == Releases \union {None, Torn}

PackagesTypeOK ==
  /\ tree \in [Packages -> Contents]
  /\ skill \in [Skills -> Commits \union {None, Torn}]
  /\ DOMAIN lock \subseteq Packages
  /\ \A p \in DOMAIN lock : /\ lock[p].integrity \in [Within(p) -> Contents]
                            /\ lock[p].skills \in [Skills -> Commits \union {None}]
  /\ readable \in BOOLEAN
  /\ command.package \in Packages \union {Nobody}
  /\ command.left \subseteq Skills
  /\ command.begun \subseteq Packages \union Skills
  /\ command.rest \subseteq Packages
  /\ damaged \subseteq Packages \union Skills

\* No command is replacing the package or the skill x.
Settled(x) == x \notin damaged \union command.begun

\* The directory of a locked package holds what its entry was hashed from, and each skill it
\* depends on is on disk at the commit of its entry, whatever other packages that share the
\* skill do, unless a command that changed them was cut, or a package inside or around the
\* directory came or went since.
LockedPackagesIntact ==
  \A p \in DOMAIN lock :
    /\ Settled(p) => HashOf(tree, p) = lock[p].integrity
    /\ \A s \in SkillsIn(lock[p].skills) : Settled(s) => skill[s] = lock[p].skills[s]

\* A team with executable surfaces that is instantiated out of a package is one whose
\* content an install wrote to the lock file in full: never a torn tree, never another
\* release than the one trusted.
RiskyTeamsAreComplete ==
  instance.risky => \E c \in complete :
     c[1] = instance.package /\ \E q \in Within(c[1]) : c[2][q] = instance.content
=============================================================================
