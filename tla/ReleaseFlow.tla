----------------------------- MODULE ReleaseFlow -----------------------------
(***************************************************************************)
(* The two workflows that publish the repository: release-check.yml, run   *)
(* for an event of a pull request, and release.yml, run for each merge     *)
(* into main.  Pull requests are open side by side, a check that passed is *)
(* not repeated when main moves on, and the runs of release.yml are not    *)
(* ordered.                                                                *)
(*                                                                         *)
(* A tree is what the workflows read of a commit: VERSION, DFC_VERSION and *)
(* the sections of CHANGELOG.md.                                           *)
(***************************************************************************)
EXTENDS Naturals, Sequences, FiniteSets

CONSTANTS PullRequests,
          MaxVersion,   \* bound on VERSION
          Dfcs,         \* what DFC_VERSION may be
          MaxEvents,    \* bound: pushes to and labelings of open pull requests
          MaxFaults     \* bound: runs of release.yml that fail

ASSUME ReleaseAssumption ==
  /\ MaxVersion \in Nat /\ MaxEvents \in Nat /\ MaxFaults \in Nat
  /\ Dfcs \subseteq Nat /\ Dfcs # {}

VARIABLES main,      \* the trees of main's commits, oldest first
          pr,        \* pull request -> its state
          job,       \* commit of main -> where its run of release.yml is
          released,  \* tag -> the commit it was released at, 0: none
          bounds     \* events and faults so far (bounded)

vars == <<main, pr, job, released, bounds>>

Versions == 1 .. MaxVersion
Tags == Versions \X Dfcs
Tag(tree) == <<tree.ver, tree.dfc>>

(* An entry of the changelog: the version it has in "## [ver]", whether    *)
(* this starts the line or stands further on (as in "### [ver]"), and who  *)
(* wrote it: a pull request made on top of another has the other's text.   *)
Forms == {"heading", "mention"}
Entry(ver, form, by) == [ver |-> ver, form |-> form, by |-> by]

Closed == [at |-> "closed"]
Tip == main[Len(main)]

-----------------------------------------------------------------------------

(* Git's merge of a request's branch into main: a file changed on one side *)
(* only is taken from that side, and one changed differently on both       *)
(* sides, or in the changelog at its top, is a conflict.                   *)
Base(r) == main[r.base]

Merged3(base, mine, theirs) == IF mine = base THEN theirs ELSE mine

Merged(r) ==
  [ver |-> Merged3(Base(r).ver, r.ver, Tip.ver),
   dfc |-> Merged3(Base(r).dfc, r.dfc, Tip.dfc),
   log |-> Tip.log \cup r.adds]

Clash(base, mine, theirs) == mine # base /\ theirs # base /\ mine # theirs

Conflicts(r) ==
  \/ Clash(Base(r).ver, r.ver, Tip.ver)
  \/ Clash(Base(r).dfc, r.dfc, Tip.dfc)
  \/ r.adds # {} /\ Clash(Base(r).log, Base(r).log \cup r.adds, Tip.log)

-----------------------------------------------------------------------------

(* An author pushes edits on top of some commit of main, with an entry for *)
(* their version or with none.  The workflow is given the branch's merge   *)
(* with the main of now; with a conflict there is none, and no run.        *)
Edit(p, oldest) ==
  \E base \in oldest .. Len(main), ver \in Versions, dfc \in Dfcs, label \in BOOLEAN,
     form \in Forms \cup {"none"}, by \in PullRequests :
    LET adds == IF form = "none" THEN {} ELSE {Entry(ver, form, by)}
        branch == [base |-> base, ver |-> ver, dfc |-> dfc, adds |-> adds]
    IN  pr' = [pr EXCEPT ![p] =
                 [at |-> "open", base |-> base, ver |-> ver, dfc |-> dfc, adds |-> adds,
                  label |-> label, check |-> IF Conflicts(branch) THEN "none" ELSE "pending",
                  head |-> Merged(branch)]]

Event == bounds.events < MaxEvents /\ bounds' = [bounds EXCEPT !.events = @ + 1]

(* opened, reopened *)
Open(p) ==
  /\ pr[p].at = "closed" /\ Edit(p, 1)
  /\ UNCHANGED <<main, job, released, bounds>>

(* synchronize: the branch stays where it was or is rebased. *)
Push(p) ==
  /\ pr[p].at = "open" /\ Event /\ Edit(p, pr[p].base)
  /\ UNCHANGED <<main, job, released>>

(* labeled, unlabeled: checked again, on the merge with the main of now,   *)
(* which a conflict leaves undone.                                         *)
Label(p) ==
  /\ pr[p].at = "open" /\ Event /\ ~Conflicts(pr[p])
  /\ pr' = [pr EXCEPT ![p].label = ~ @, ![p].check = "pending", ![p].head = Merged(pr[p])]
  /\ UNCHANGED <<main, job, released>>

(* Variant for checking: any other version counts as a bump.               *)
ReleasableIfDifferent(new) ==
  /\ new.ver # Tip.ver
  /\ released[Tag(new)] = 0
  /\ \E s \in new.log : s.ver = new.ver

(* What the step asks of the checked-out merge, reading main only now;     *)
(* grep finds "## [ver]" wherever it stands.                               *)
Releasable(new) ==
  /\ new.ver > Tip.ver
  /\ released[Tag(new)] = 0
  /\ \E s \in new.log : s.ver = new.ver

LeavesVersions(new) == new.ver = Tip.ver /\ new.dfc = Tip.dfc

Check(p) ==
  /\ pr[p].at = "open" /\ pr[p].check = "pending"
  /\ pr' = [pr EXCEPT ![p].check =
              IF IF pr[p].label THEN LeavesVersions(pr[p].head) ELSE Releasable(pr[p].head)
                THEN "passed" ELSE "failed"]
  /\ UNCHANGED <<main, job, released, bounds>>

(* The protected branch takes what passed and does not conflict.           *)
Merge(p) ==
  /\ pr[p].at = "open" /\ pr[p].check = "passed" /\ ~Conflicts(pr[p])
  /\ main' = Append(main, Merged(pr[p]))
  /\ job' = Append(job, "queued")
  /\ pr' = [pr EXCEPT ![p] = [at |-> "merged"]]
  /\ UNCHANGED <<released, bounds>>

-----------------------------------------------------------------------------

(* The section awk takes for the notes begins with a heading.              *)
HasSection(tree) == \E s \in tree.log : s.ver = tree.ver /\ s.form = "heading"

(* Variant for checking: a version below a published one is skipped.       *)
ViewNewest(c) ==
  /\ job[c] = "queued"
  /\ job' = [job EXCEPT ![c] =
               IF \E t \in Tags : released[t] # 0 /\ t[1] >= main[c].ver THEN "done"
               ELSE IF HasSection(main[c]) THEN "create" ELSE "failed"]
  /\ UNCHANGED <<main, pr, released, bounds>>

(* gh release view, then the changelog's section.                          *)
View(c) ==
  /\ job[c] = "queued"
  /\ job' = [job EXCEPT ![c] =
               IF released[Tag(main[c])] # 0 THEN "done"
               ELSE IF HasSection(main[c]) THEN "create" ELSE "failed"]
  /\ UNCHANGED <<main, pr, released, bounds>>

(* gh release create, which fails when another run was faster.             *)
Create(c) ==
  /\ job[c] = "create"
  /\ IF released[Tag(main[c])] = 0
       THEN /\ released' = [released EXCEPT ![Tag(main[c])] = c]
            /\ job' = [job EXCEPT ![c] = "done"]
       ELSE /\ job' = [job EXCEPT ![c] = "failed"]
            /\ UNCHANGED released
  /\ UNCHANGED <<main, pr, bounds>>

(* The runner, or GitHub's API, fails. *)
Fault(c) ==
  /\ job[c] \in {"queued", "create"}
  /\ bounds.faults < MaxFaults
  /\ bounds' = [bounds EXCEPT !.faults = @ + 1]
  /\ job' = [job EXCEPT ![c] = "broken"]
  /\ UNCHANGED <<main, pr, released>>

Run(c) == View(c) \/ Create(c)

-----------------------------------------------------------------------------

(* Version 1 is released at main's first commit.                           *)
Init ==
  \E dfc \in Dfcs :
    /\ main = <<[ver |-> 1, dfc |-> dfc, log |-> {}]>>
    /\ pr = [p \in PullRequests |-> Closed]
    /\ job = <<"done">>
    /\ released = [t \in Tags |-> IF t = <<1, dfc>> THEN 1 ELSE 0]
    /\ bounds = [events |-> 0, faults |-> 0]

Next ==
  \/ \E p \in PullRequests : Open(p) \/ Push(p) \/ Label(p) \/ Check(p) \/ Merge(p)
  \/ \E c \in DOMAIN main : Run(c) \/ Fault(c)

(* The commits main may come to have: a pull request is merged once.       *)
Commits == 1 .. 1 + Cardinality(PullRequests)

(* GitHub runs what it has queued; nothing is assumed of the authors.      *)
Spec == Init /\ [][Next]_vars /\ \A c \in Commits : WF_vars(c \in DOMAIN main /\ Run(c))

-----------------------------------------------------------------------------

(* However pull requests overlap, however old the check that let one in    *)
(* and in whatever order the runs finish, VERSION never goes back on main, *)
(* and a release is at a commit that has its version, its DFC version and  *)
(* its changelog section (release-check.yml's comparison with main, git's  *)
(* conflicts, release.yml's tag and notes).                                *)
ReleasesFollowMain ==
  /\ \A c \in 2 .. Len(main) : main[c - 1].ver <= main[c].ver
  /\ \A t \in Tags : released[t] # 0 =>
       /\ Tag(main[released[t]]) = t
       /\ t[1] > 1 => HasSection(main[released[t]])

(* Every version that reaches main with a section is published in the end, *)
(* by its own run or a later one's, unless its own run breaks down         *)
(* (release.yml's run for each merge into main).                           *)
EveryVersionPublished ==
  \A c \in Commits :
    c \in DOMAIN main ~>
      /\ c \in DOMAIN main
      /\ \/ released[Tag(main[c])] # 0
         \/ job[c] = "broken"
         \/ ~ HasSection(main[c])
=============================================================================
