------------------------- MODULE ReleaseFlowProofs -------------------------
(***************************************************************************)
(* For any number of pull requests, versions, pushes and failing runs: the *)
(* version on main never goes back, and every release is at a commit that  *)
(* carries it.                                                             *)
(***************************************************************************)
EXTENDS ReleaseFlow, TLAPS

Sections == [ver : Nat, form : Forms, by : PullRequests]
Tree == [ver : Nat, dfc : Nat, log : SUBSET Sections]
Request == [at : {"open"}, base : Nat, ver : Nat, dfc : Nat, adds : SUBSET Sections,
            label : BOOLEAN, check : {"none", "pending", "passed", "failed"}, head : Tree]

(* main, and where the run of each of its commits is. *)
MainInv ==
  /\ main \in Seq(Tree) /\ Len(main) >= 1
  /\ Len(job) = Len(main)
  /\ released \in [Tags -> Nat]

(* The version never goes back: between any two commits, since what lets a *)
(* pull request in compares it with some tip between its base and now.     *)
VersionsGrow == \A c, d \in 1 .. Len(main) : c <= d => main[c].ver <= main[d].ver

(* A request that changes the version was checked with its own, which was  *)
(* then the highest of all.                                                *)
RequestInv ==
  /\ DOMAIN pr = PullRequests
  /\ \A p \in PullRequests : pr[p].at = "open" =>
       /\ pr[p] \in Request
       /\ pr[p].base \in 1 .. Len(main)
       /\ pr[p].ver # Base(pr[p]).ver => pr[p].head.ver = pr[p].ver
       /\ pr[p].check = "passed" => pr[p].ver >= Base(pr[p]).ver

(* A run that creates a release has found the section, and a release is at *)
(* a commit with its tag.                                                  *)
JobInv == \A c \in 1 .. Len(main) : job[c] = "create" => HasSection(main[c])

ReleaseInv ==
  \A t \in Tags : released[t] # 0 =>
    /\ released[t] \in 1 .. Len(main)
    /\ Tag(main[released[t]]) = t
    /\ t[1] > 1 => HasSection(main[released[t]])

IInv == MainInv /\ VersionsGrow /\ RequestInv /\ JobInv /\ ReleaseInv

-----------------------------------------------------------------------------

(* The invariant holds initially. *)
LEMMA InitInv == Init => IInv
<1>. SUFFICES ASSUME Init PROVE IInv
  OBVIOUS
<1>1. PICK dfc \in Dfcs : /\ main = <<[ver |-> 1, dfc |-> dfc, log |-> {}]>>
                          /\ pr = [p \in PullRequests |-> Closed]
                          /\ job = <<"done">>
                          /\ released = [t \in Tags |-> IF t = <<1, dfc>> THEN 1 ELSE 0]
  BY DEF Init
<1>2. Len(main) = 1 /\ Len(job) = 1 /\ main[1] = [ver |-> 1, dfc |-> dfc, log |-> {}] /\ job[1] = "done"
  BY <1>1
<1>3. MainInv
  <2>1. main[1] \in Tree
    BY <1>2, ReleaseAssumption DEF Tree
  <2>. QED BY <1>1, <1>2, <2>1 DEF MainInv
<1>4. VersionsGrow /\ JobInv
  BY <1>2 DEF VersionsGrow, JobInv
<1>5. RequestInv
  BY <1>1 DEF RequestInv, Closed
<1>6. ReleaseInv
  BY <1>1, <1>2 DEF ReleaseInv, Tag
<1>. QED BY <1>3, <1>4, <1>5, <1>6 DEF IInv

(* Trees are records of their types. *)
LEMMA TipIsATree ==
  ASSUME MainInv
  PROVE  Len(main) \in Nat /\ Tip \in Tree /\ \A c \in 1 .. Len(main) : main[c] \in Tree
BY DEF MainInv, Tip

(* What a request changes, on top of a commit of main. *)
Branch(r) ==
  /\ r.base \in 1 .. Len(main) /\ r.ver \in Nat /\ r.dfc \in Nat
  /\ r.adds \in SUBSET Sections

(* A merge is a tree, with the version of whoever changed it. *)
LEMMA MergedIsATree ==
  ASSUME MainInv, NEW r, Branch(r)
  PROVE  /\ Base(r) \in Tree /\ Merged(r) \in Tree
         /\ r.ver # Base(r).ver => Merged(r).ver = r.ver
<1>1. Base(r) \in Tree /\ Tip \in Tree
  BY TipIsATree DEF Base, Branch
<1>2. Tip.log \cup r.adds \in SUBSET Sections
  BY <1>1 DEF Tree, Branch
<1>. QED BY <1>1, <1>2 DEF Merged, Merged3, Tree, Branch

(* An open request is one. *)
LEMMA RequestIsABranch ==
  ASSUME IInv, NEW p \in PullRequests, pr[p].at = "open"
  PROVE  MainInv /\ Branch(pr[p])
BY DEF IInv, RequestInv, Request, Branch

(* Where main, the jobs and the releases stay, so does what is said of     *)
(* them.                                                                   *)
LEMMA MainUntouched ==
  ASSUME IInv, UNCHANGED <<main, job, released>>
  PROVE  MainInv' /\ VersionsGrow' /\ JobInv' /\ ReleaseInv'
BY DEF IInv, MainInv, VersionsGrow, JobInv, ReleaseInv, HasSection, Tag

(* A push starts over: the check is pending or not to be had, and the head *)
(* is the branch's merge with the main of now.                             *)
LEMMA EditKeepsInv ==
  ASSUME IInv, NEW p \in PullRequests, NEW oldest \in 1 .. Len(main), Edit(p, oldest),
         UNCHANGED <<main, job, released>>
  PROVE  IInv'
<1>. DEFINE adds(ver, form, by) == IF form = "none" THEN {} ELSE {Entry(ver, form, by)}
            branch(base, ver, dfc, form, by) ==
              [base |-> base, ver |-> ver, dfc |-> dfc, adds |-> adds(ver, form, by)]
            check(r) == IF Conflicts(r) THEN "none" ELSE "pending"
<1>1. PICK base \in oldest .. Len(main), ver \in Versions, dfc \in Dfcs, label \in BOOLEAN,
           form \in Forms \cup {"none"}, by \in PullRequests :
        pr' = [pr EXCEPT ![p] =
                 [at |-> "open", base |-> base, ver |-> ver, dfc |-> dfc,
                  adds |-> adds(ver, form, by), label |-> label,
                  check |-> check(branch(base, ver, dfc, form, by)),
                  head |-> Merged(branch(base, ver, dfc, form, by))]]
  BY DEF Edit
<1>. DEFINE b   == branch(base, ver, dfc, form, by)
            new == [at |-> "open", base |-> base, ver |-> ver, dfc |-> dfc,
                    adds |-> adds(ver, form, by), label |-> label, check |-> check(b),
                    head |-> Merged(b)]
<1>2. ver \in Nat /\ dfc \in Nat
  BY ReleaseAssumption DEF Versions
<1>3. adds(ver, form, by) \in SUBSET Sections
  BY <1>2 DEF Sections, Entry
<1>4. Len(main) \in Nat /\ base \in 1 .. Len(main) /\ MainInv
  BY TipIsATree DEF IInv
<1>5. /\ Merged(b) \in Tree
      /\ ver # Base(b).ver => Merged(b).ver = ver
  <2>1. Branch(b)
    BY <1>2, <1>3, <1>4 DEF Branch
  <2>2. b.ver = ver
    OBVIOUS
  <2>. HIDE DEF b
  <2>. QED BY <1>4, <2>1, <2>2, MergedIsATree
<1>6. new \in Request
  <2>1. check(b) \in {"none", "pending"}
    OBVIOUS
  <2>. HIDE DEF check, b, adds
  <2>. QED BY <1>2, <1>3, <1>4, <1>5, <2>1 DEF Request
<1>7. pr' = [pr EXCEPT ![p] = new]
  BY <1>1
<1>8. /\ new.at = "open" /\ new.base = base /\ new.check # "passed"
      /\ new.ver = ver /\ new.head = Merged(b) /\ Base(b) = main[base]
  BY DEF Base
<1>. HIDE DEF new, b
<1>9. DOMAIN pr' = PullRequests /\ pr'[p] = new /\ \A q \in PullRequests \ {p} : pr'[q] = pr[q]
  BY <1>7 DEF IInv, RequestInv
<1>10. RequestInv'
  <2>1. ASSUME NEW q \in PullRequests, pr'[q].at = "open"
        PROVE  /\ pr'[q] \in Request
               /\ pr'[q].base \in 1 .. Len(main')
               /\ pr'[q].ver # Base(pr[q])'.ver => pr'[q].head.ver = pr'[q].ver
               /\ pr'[q].check = "passed" => pr'[q].ver >= Base(pr[q])'.ver
    <3>1. CASE q = p
      BY <3>1, <1>4, <1>5, <1>6, <1>8, <1>9 DEF Base
    <3>2. CASE q # p
      BY <2>1, <3>2, <1>9 DEF IInv, RequestInv, Base
    <3>. QED BY <3>1, <3>2
  <2>. QED BY <2>1, <1>9 DEF RequestInv
<1>. QED BY <1>10, MainUntouched DEF IInv

(* A new label has the merge with the main of now checked.                 *)
LEMMA LabelKeepsInv ==
  ASSUME IInv, NEW p \in PullRequests, Label(p)
  PROVE  IInv'
<1>1. pr[p].at = "open" /\ UNCHANGED <<main, job, released>>
  BY DEF Label
<1>2. pr[p] \in Request /\ pr[p].base \in 1 .. Len(main)
  BY <1>1 DEF IInv, RequestInv
<1>3. /\ Merged(pr[p]) \in Tree
      /\ pr[p].ver # Base(pr[p]).ver => Merged(pr[p]).ver = pr[p].ver
  BY <1>1, RequestIsABranch, MergedIsATree
<1>4. PICK label \in BOOLEAN :
        pr' = [pr EXCEPT ![p] = [pr[p] EXCEPT !.label = label, !.check = "pending", !.head = Merged(pr[p])]]
  BY DEF Label
<1>. DEFINE new == [pr[p] EXCEPT !.label = label, !.check = "pending", !.head = Merged(pr[p])]
<1>5. new \in Request
  BY <1>2, <1>3 DEF Request
<1>6. /\ new.at = "open" /\ new.base = pr[p].base /\ new.check = "pending"
      /\ new.ver = pr[p].ver /\ new.head = Merged(pr[p])
  BY <1>2 DEF Request
<1>. HIDE DEF new
<1>7. DOMAIN pr' = PullRequests /\ pr'[p] = new /\ \A q \in PullRequests \ {p} : pr'[q] = pr[q]
  BY <1>4 DEF IInv, RequestInv, new
<1>8. RequestInv'
  <2>1. ASSUME NEW q \in PullRequests, pr'[q].at = "open"
        PROVE  /\ pr'[q] \in Request
               /\ pr'[q].base \in 1 .. Len(main')
               /\ pr'[q].ver # Base(pr[q])'.ver => pr'[q].head.ver = pr'[q].ver
               /\ pr'[q].check = "passed" => pr'[q].ver >= Base(pr[q])'.ver
    <3>1. CASE q = p
      BY <3>1, <1>1, <1>2, <1>3, <1>5, <1>6, <1>7 DEF Base
    <3>2. CASE q # p
      BY <2>1, <3>2, <1>1, <1>7 DEF IInv, RequestInv, Base
    <3>. QED BY <3>1, <3>2
  <2>. QED BY <2>1, <1>7 DEF RequestInv
<1>. QED BY <1>1, <1>8, MainUntouched DEF IInv

(* What passed was checked against a tip that is at least the base: the    *)
(* version the request changed to is not below its base's.                 *)
LEMMA CheckKeepsInv ==
  ASSUME IInv, NEW p \in PullRequests, Check(p)
  PROVE  IInv'
<1>1. pr[p].at = "open" /\ UNCHANGED <<main, job, released>>
  BY DEF Check
<1>2. /\ pr[p] \in Request /\ pr[p].base \in 1 .. Len(main)
      /\ pr[p].ver # Base(pr[p]).ver => pr[p].head.ver = pr[p].ver
  BY <1>1 DEF IInv, RequestInv
<1>3. PICK verdict \in {"passed", "failed"} :
        /\ pr' = [pr EXCEPT ![p] = [pr[p] EXCEPT !.check = verdict]]
        /\ verdict = "passed" => LeavesVersions(pr[p].head) \/ Releasable(pr[p].head)
  <2>1. CASE IF pr[p].label THEN LeavesVersions(pr[p].head) ELSE Releasable(pr[p].head)
    BY <2>1 DEF Check
  <2>2. CASE ~ IF pr[p].label THEN LeavesVersions(pr[p].head) ELSE Releasable(pr[p].head)
    BY <2>2 DEF Check
  <2>. QED BY <2>1, <2>2
<1>4. verdict = "passed" => pr[p].ver >= Base(pr[p]).ver
  <2>1. Base(pr[p]).ver \in Nat /\ Tip.ver \in Nat /\ Base(pr[p]).ver <= Tip.ver
    <3>1. Len(main) \in 1 .. Len(main) /\ pr[p].base <= Len(main)
      BY <1>2, TipIsATree DEF IInv, MainInv
    <3>. QED BY <1>2, <3>1, TipIsATree DEF IInv, VersionsGrow, Base, Tip, Tree
  <2>2. verdict = "passed" => pr[p].head.ver >= Tip.ver
    BY <1>2, <1>3, <2>1 DEF LeavesVersions, Releasable, Request, Tree
  <2>. QED BY <1>2, <2>1, <2>2 DEF Request, Tree
<1>. DEFINE new == [pr[p] EXCEPT !.check = verdict]
<1>5. new \in Request
  BY <1>2 DEF Request
<1>6. /\ new.at = "open" /\ new.base = pr[p].base /\ new.check = verdict
      /\ new.ver = pr[p].ver /\ new.head = pr[p].head
  BY <1>1, <1>2 DEF Request
<1>. HIDE DEF new
<1>7. DOMAIN pr' = PullRequests /\ pr'[p] = new /\ \A q \in PullRequests \ {p} : pr'[q] = pr[q]
  BY <1>3 DEF IInv, RequestInv, new
<1>8. RequestInv'
  <2>1. ASSUME NEW q \in PullRequests, pr'[q].at = "open"
        PROVE  /\ pr'[q] \in Request
               /\ pr'[q].base \in 1 .. Len(main')
               /\ pr'[q].ver # Base(pr[q])'.ver => pr'[q].head.ver = pr'[q].ver
               /\ pr'[q].check = "passed" => pr'[q].ver >= Base(pr[q])'.ver
    <3>1. CASE q = p
      BY <3>1, <1>1, <1>2, <1>4, <1>5, <1>6, <1>7 DEF Base
    <3>2. CASE q # p
      BY <2>1, <3>2, <1>1, <1>7 DEF IInv, RequestInv, Base
    <3>. QED BY <3>1, <3>2
  <2>. QED BY <2>1, <1>7 DEF RequestInv
<1>. QED BY <1>1, <1>8, MainUntouched DEF IInv

(* A merge takes over the version of one side: main's, or the request's    *)
(* when main still has the base's or the same one.                         *)
LEMMA MergeKeepsInv ==
  ASSUME IInv, NEW p \in PullRequests, Merge(p)
  PROVE  IInv'
<1>1. /\ pr[p].at = "open" /\ pr[p].check = "passed" /\ ~ Conflicts(pr[p])
      /\ main' = Append(main, Merged(pr[p])) /\ job' = Append(job, "queued") /\ released' = released
      /\ pr' = [pr EXCEPT ![p] = [at |-> "merged"]]
  BY DEF Merge
<1>2. /\ pr[p] \in Request /\ pr[p].ver >= Base(pr[p]).ver
      /\ Base(pr[p]) \in Tree /\ Merged(pr[p]) \in Tree /\ Tip \in Tree /\ Len(main) \in Nat
  BY <1>1, RequestIsABranch, MergedIsATree, TipIsATree DEF IInv, RequestInv
<1>3. /\ main' \in Seq(Tree) /\ Len(main') = Len(main) + 1 /\ main'[Len(main) + 1] = Merged(pr[p])
      /\ \A c \in 1 .. Len(main) : main'[c] = main[c]
  BY <1>1, <1>2 DEF IInv, MainInv
<1>4. Len(job') = Len(main') /\ job'[Len(main) + 1] = "queued"
      /\ \A c \in 1 .. Len(main) : job'[c] = job[c]
  BY <1>1, <1>2, <1>3 DEF IInv, MainInv
<1>5. MainInv'
  BY <1>1, <1>2, <1>3, <1>4 DEF IInv, MainInv
<1>6. Merged(pr[p]).ver >= Tip.ver
  BY <1>1, <1>2 DEF Conflicts, Clash, Merged, Merged3, Request, Tree
<1>7. VersionsGrow'
  <2>1. \A c \in 1 .. Len(main) : main[c].ver \in Nat /\ main[c].ver <= Tip.ver
    BY <1>2, TipIsATree DEF IInv, MainInv, VersionsGrow, Tip, Tree
  <2>2. Merged(pr[p]).ver \in Nat /\ Tip.ver \in Nat
    BY <1>2 DEF Tree
  <2>. QED BY <1>2, <1>3, <1>6, <2>1, <2>2, SMTT(30) DEF IInv, VersionsGrow
<1>8. RequestInv'
  <2>1. DOMAIN pr' = PullRequests /\ pr'[p].at = "merged"
        /\ \A q \in PullRequests \ {p} : pr'[q] = pr[q]
    BY <1>1 DEF IInv, RequestInv
  <2>2. ASSUME NEW q \in PullRequests, pr'[q].at = "open"
        PROVE  /\ pr'[q] \in Request
               /\ pr'[q].base \in 1 .. Len(main')
               /\ pr'[q].ver # Base(pr[q])'.ver => pr'[q].head.ver = pr'[q].ver
               /\ pr'[q].check = "passed" => pr'[q].ver >= Base(pr[q])'.ver
    BY <2>1, <2>2, <1>2, <1>3 DEF IInv, RequestInv, Base
  <2>. QED BY <2>1, <2>2 DEF RequestInv
<1>9. JobInv'
  BY <1>2, <1>3, <1>4 DEF IInv, JobInv, HasSection
<1>10. ReleaseInv'
  BY <1>1, <1>2, <1>3 DEF IInv, ReleaseInv, HasSection, Tag
<1>. QED BY <1>5, <1>7, <1>8, <1>9, <1>10 DEF IInv

(* A run of release.yml, or its failure. *)
LEMMA RunKeepsInv ==
  ASSUME IInv, NEW c \in DOMAIN main, Run(c) \/ Fault(c)
  PROVE  IInv'
<1>1. UNCHANGED <<main, pr>>
  BY DEF Run, View, Create, Fault
<1>2. c \in 1 .. Len(main) /\ Len(main) \in Nat
  BY TipIsATree DEF IInv, MainInv
<1>3. PICK next : job' = [job EXCEPT ![c] = next] /\ (next = "create" => HasSection(main[c]))
  BY DEF Run, View, Create, Fault, HasSection
<1>4. Len(job') = Len(main) /\ job'[c] = next /\ \A d \in (1 .. Len(main)) \ {c} : job'[d] = job[d]
  BY <1>2, <1>3 DEF IInv, MainInv
<1>5. JobInv'
  BY <1>1, <1>3, <1>4 DEF IInv, JobInv, HasSection
<1>6. CASE released' = released
  BY <1>1, <1>4, <1>5, <1>6 DEF IInv, MainInv, VersionsGrow, RequestInv, ReleaseInv, HasSection, Tag, Base
<1>7. CASE job[c] = "create" /\ released' = [released EXCEPT ![Tag(main[c])] = c]
  <2>1. \A t \in Tags : released'[t] = IF t = Tag(main[c]) THEN c ELSE released[t]
    BY <1>7 DEF IInv, MainInv
  <2>2. MainInv' /\ VersionsGrow' /\ RequestInv'
    <3>1. released' \in [Tags -> Nat]
      <4>1. released \in [Tags -> Nat] /\ c \in Nat
        BY <1>2 DEF IInv, MainInv
      <4>. QED BY <4>1, <1>7
    <3>. QED BY <1>1, <1>4, <3>1 DEF IInv, MainInv, VersionsGrow, RequestInv, Base
  <2>3. ReleaseInv'
    BY <1>1, <1>2, <1>7, <2>1 DEF IInv, ReleaseInv, JobInv, HasSection, Tag
  <2>. QED BY <1>5, <2>2, <2>3 DEF IInv
<1>. QED BY <1>6, <1>7 DEF Run, View, Create, Fault

(* The inductive invariant of main, the pull requests, the runs and the    *)
(* releases (release-check.yml, release.yml).                              *)
THEOREM ReleaseInvariance == Spec => []IInv
<1>1. IInv /\ [Next]_vars => IInv'
  <2>. SUFFICES ASSUME IInv, [Next]_vars PROVE IInv'
    OBVIOUS
  <2>1. ASSUME NEW p \in PullRequests, Open(p) \/ Push(p) \/ Label(p) \/ Check(p) \/ Merge(p)
        PROVE  IInv'
    <3>1. CASE Open(p)
      <4>1. 1 \in 1 .. Len(main)
        BY TipIsATree DEF IInv, MainInv
      <4>. QED BY <3>1, <4>1, EditKeepsInv DEF Open
    <3>2. CASE Push(p)
      <4>1. pr[p].base \in 1 .. Len(main)
        BY <3>2 DEF Push, IInv, RequestInv
      <4>. QED BY <3>2, <4>1, EditKeepsInv DEF Push
    <3>. QED BY <2>1, <3>1, <3>2, LabelKeepsInv, CheckKeepsInv, MergeKeepsInv
  <2>2. CASE UNCHANGED vars
    <3>1. RequestInv'
      BY <2>2 DEF vars, IInv, RequestInv, Base
    <3>. QED BY <2>2, <3>1, MainUntouched DEF vars, IInv
  <2>. QED BY <2>1, <2>2, RunKeepsInv DEF Next
<1>. QED BY <1>1, InitInv, PTL DEF Spec

(* VERSION never goes back on main, and a release is at a commit that has  *)
(* its version, DFC version and changelog section.                         *)
THEOREM ReleasesAreMains == Spec => []ReleasesFollowMain
<1>1. ASSUME IInv PROVE ReleasesFollowMain
  <2>1. ASSUME NEW c \in 2 .. Len(main)
        PROVE  main[c - 1].ver <= main[c].ver
    <3>1. c - 1 \in 1 .. Len(main) /\ c \in 1 .. Len(main) /\ c - 1 <= c
      BY <1>1, TipIsATree DEF IInv
    <3>. QED BY <1>1, <3>1 DEF IInv, VersionsGrow
  <2>2. ASSUME NEW t \in Tags, released[t] # 0
        PROVE  /\ Tag(main[released[t]]) = t
               /\ t[1] > 1 => HasSection(main[released[t]])
    BY <1>1, <2>2 DEF IInv, ReleaseInv
  <2>. QED BY <2>1, <2>2 DEF ReleasesFollowMain
<1>. QED BY <1>1, ReleaseInvariance, PTL
=============================================================================
