--------------------------- MODULE LandingProofs ---------------------------
(***************************************************************************)
(* Landing, for any commands, commits and bounds: what is pushed a green   *)
(* pass left, run.json says where to put a half-done landing back, no push *)
(* replaces what someone else pushed.  And the lock a landing takes on its *)
(* worktree first: for any number of takers and whoever dies, it excludes, *)
(* and no live owner loses it, until a process dies inside the guard.      *)
(***************************************************************************)
EXTENDS Landing, FileLock, TLAPS

-----------------------------------------------------------------------------
(* The inductive invariant                                                 *)

Made == DOMAIN commits
Active(p) == IF p = Runner THEN at[p].pc # "off" ELSE Locked(p)

(* What a run remembers are commits there are; what it says was pushed was *)
(* pushed, and the tip it says a pass was green on a green pass left.      *)
RunTyped(r) ==
    /\ r.landingFrom \in Made \cup {NONE}
    /\ r.pushed \in published \cup {NONE}
    /\ r.checked.tip \in green \cup {NONE}

(* A landing past its rebase has the tip to go back to, one about to push  *)
(* has the tip it pushes.                                                  *)
ProcTyped(p) ==
    /\ RunTyped(ctx(p))
    /\ at[p].pc \in IF p = Runner THEN Place \ {"read"} ELSE Place \ {"boot", "booted", "work"}
    /\ at[p].from \in Made \cup {NONE}
    /\ at[p].pc \in {"rebase", "gate", "back"} => at[p].from # NONE
    /\ at[p].pc = "push" => at[p].tip \in Made
    /\ at[p].pc = "pushed" => at[p].tip \in published

Typed == TypeOK /\ RunTyped(file) /\ \A p \in Proc : ProcTyped(p)

(* The runner's run is running; a landing by hand has a completed one,     *)
(* which stays completed until a later run takes its place.                *)
Running ==
    at[Runner].pc # "off" =>
        file.status = "running" /\ ctx(Runner).status = "running" /\ ctx(Runner).id = file.id
Completed(l) ==
    /\ at[l].pc # "off" =>
          /\ ctx(l).status = "completed" /\ ctx(l).id <= file.id
          /\ ctx(l).id = file.id => file.status = "completed"
    /\ Locked(l) => ctx(l).id = file.id
OneLocked == \A k, l \in Lander : Locked(k) /\ Locked(l) => k = l

Turns == Running /\ OneLocked /\ \A l \in Lander : Completed(l)

(* The process at work has in memory the tip that run.json has.            *)
InStep == \A p \in Proc : Active(p) => ctx(p).landingFrom = file.landingFrom

L == file.landingFrom
Recoverable ==
    IF L = NONE THEN ~half /\ head \in {left} \cup published ELSE L \in {left} \cup published

(* From the final gates on, the commit that goes out or is put back is one *)
(* a green pass left.                                                      *)
Landable ==
    file.status = "completed" \/ at[Runner].pc \notin {"off", "boot", "booted", "work"}
        => (IF L = NONE THEN head ELSE L) \in green

(* Where a landing is says how head, the tip to go back to and what was    *)
(* pushed hang together.                                                   *)
PlaceInv(p) ==
    LET pc == at[p].pc
        from == at[p].from
    IN  /\ pc \in {"booted", "recovered"} => L # NONE /\ head = L /\ ~half
        /\ pc \in {"work", "fetch"} => L = NONE
        /\ pc \in {"rebase", "gate", "back"} => L = from /\ ~half
        /\ pc = "rebase" => head = from
        /\ pc = "tip" => ~half /\ head \in green /\ L = from
        /\ pc \in {"push", "pushed"} => ~half /\ head \in green /\ at[p].tip = head
        /\ pc = "pushed" => head \in published
        /\ pc \in {"view", "create"} => L = NONE
        /\ pc = "record" /\ at[p].ok => L = NONE

Kept ==
    /\ published \subseteq green
    /\ InStep /\ Recoverable /\ Landable
    /\ \A p \in Proc : Active(p) => PlaceInv(p)

IInv == Typed /\ Turns /\ (~outdated => Kept)

-----------------------------------------------------------------------------
(* Facts about single steps                                                *)

(* A commit made is the next number, and every other keeps its own.        *)
MakeMakes ==
    /\ commits' \in Seq([base : 0 .. BASES, by : {"run", "other"}]) /\ Len(commits') <= COMMITS
    /\ Made' = Made \cup {Fresh} /\ Fresh \in Commit /\ Fresh \notin Made

LEMMA MakeAdds ==
    ASSUME TypeOK, NEW on \in 0 .. BASES, NEW by \in {"run", "other"}, Make(on, by)
    PROVE  MakeMakes
PROOF
<1> USE LandingAssumption DEF TypeOK
<1>1. commits' = Append(commits, [base |-> on, by |-> by]) /\ Fresh <= COMMITS
  BY DEF Make
<1>2. [base |-> on, by |-> by] \in [base : 0 .. BASES, by : {"run", "other"}]
  OBVIOUS
<1>3. /\ commits' \in Seq([base : 0 .. BASES, by : {"run", "other"}])
      /\ Len(commits') = Len(commits) + 1
  BY <1>1, <1>2
<1>4. Made = 1 .. Len(commits) /\ Made' = 1 .. Len(commits')
  BY <1>3 DEF Made
<1>5. Len(commits) \in Nat
  OBVIOUS
<1> QED
  BY <1>1, <1>3, <1>4, <1>5 DEF Fresh, Commit, MakeMakes

(* A step of p leaves every other process where it is.                     *)
Alone(p) == at' \in [Proc -> Process] /\ \A q \in Proc \ {p} : at'[q] = at[q]
SameBut(p) == ctx(p)' = ctx(p) /\ at'[p].from = at[p].from /\ at'[p].tip = at[p].tip

LEMMA Becomes ==
    ASSUME at \in [Proc -> Process], NEW p \in Proc, NEW s \in Process, at' = [at EXCEPT ![p] = s]
    PROVE  Alone(p) /\ at'[p] = s
PROOF
BY DEF Alone

LEMMA GoStep ==
    ASSUME Typed, NEW p \in Proc, NEW from \in Place, NEW to \in Place, Go(p, from, to)
    PROVE  /\ Alone(p) /\ at[p].pc = from /\ at'[p].pc = to /\ SameBut(p)
           /\ at'[p].ok = at[p].ok
PROOF
<1>1. at \in [Proc -> Process] /\ at[p] \in Process
  BY DEF Typed, TypeOK
<1>2. at[p].pc = from /\ at' = [at EXCEPT ![p] = [at[p] EXCEPT !.pc = to]]
  BY DEF Go
<1>3. [at[p] EXCEPT !.pc = to] \in Process
  BY <1>1 DEF Process
<1> QED
  BY <1>1, <1>2, <1>3 DEF Alone, SameBut, ctx, Process

(* A save, and what it leaves of the process that made it.                 *)
Saved(p, from, to, run) ==
    /\ Alone(p) /\ at[p].pc = from /\ at'[p].pc = to /\ at'[p].run = run /\ file' = run
    /\ at'[p].from = at[p].from /\ at'[p].tip = at[p].tip /\ at'[p].ok = at[p].ok

LEMMA SaveStep ==
    ASSUME Typed, NEW p \in Proc, NEW from \in Place, NEW to \in Place, NEW run \in Run,
           Save(p, from, to, run)
    PROVE  Saved(p, from, to, run)
PROOF
<1>1. at \in [Proc -> Process] /\ at[p] \in Process
  BY DEF Typed, TypeOK
<1>2. at[p].pc = from /\ at' = [at EXCEPT ![p] = [at[p] EXCEPT !.pc = to, !.run = run]]
  BY DEF Save
<1>3. [at[p] EXCEPT !.pc = to, !.run = run] \in Process
  BY <1>1 DEF Process
<1> QED
  BY <1>1, <1>2, <1>3 DEF Save, Saved, Alone, ctx, Process

LEMMA EndStep ==
    ASSUME Typed, NEW p \in Proc, NEW from \in Place, NotLanded(p, from) \/ Landed(p, from)
    PROVE  /\ Alone(p) /\ at[p].pc = from /\ at'[p].pc = "record" /\ SameBut(p)
           /\ NotLanded(p, from) => ~at'[p].ok
PROOF
<1>1. at \in [Proc -> Process] /\ at[p] \in Process
  BY DEF Typed, TypeOK
<1>2. PICK ok \in BOOLEAN :
         /\ at' = [at EXCEPT ![p] = [at[p] EXCEPT !.pc = "record", !.ok = ok]]
         /\ NotLanded(p, from) => ~ok
  BY DEF NotLanded, Landed
<1>3. [at[p] EXCEPT !.pc = "record", !.ok = ok] \in Process
  BY <1>1 DEF Process, Place
<1>4. Alone(p) /\ at[p].pc = from /\ at'[p].pc = "record" /\ SameBut(p) /\ at'[p].ok = ok
  BY <1>1, <1>2, <1>3 DEF Alone, SameBut, ctx, Process, NotLanded, Landed
<1> QED
  BY <1>2, <1>4

(* What a step must show to be typed: what it does to the world around the *)
(* processes, to run.json, and to the process that takes it.               *)
WorldTyped ==
    /\ commits \in Seq([base : 0 .. BASES, by : {"run", "other"}]) /\ Len(commits) <= COMMITS
    /\ base \in 0 .. BASES
    /\ head \in Made /\ half \in BOOLEAN /\ tree \in Tree
    /\ remote \in {NONE} \cup Made /\ pr \in BOOLEAN
    /\ stop \in BOOLEAN /\ lands \in 0 .. LATER /\ crashes \in 0 .. CRASHES
    /\ left \in Made /\ green \subseteq Made /\ published \subseteq Made
    /\ outdated \in BOOLEAN
Grows == Made \subseteq Made' /\ published \subseteq published' /\ green \subseteq green'
Around == WorldTyped' /\ Grows /\ file' \in Run /\ RunTyped(file)'

LEMMA EntryOf ==
    ASSUME NEW S, NEW s \in Seq(S), NEW i \in 1 .. Len(s)
    PROVE  s[i] \in S
PROOF
OBVIOUS

LEMMA TypedWorld ==
    ASSUME Typed
    PROVE  /\ WorldTyped /\ file \in Run /\ RunTyped(file)
           /\ \A p \in Proc : at[p] \in Process /\ ctx(p) \in Run /\ ProcTyped(p)
           /\ Made \subseteq Commit /\ NONE \notin Made
           /\ \A c \in Made : commits[c].base \in 0 .. BASES
PROOF
<1>1. /\ WorldTyped /\ file \in Run /\ RunTyped(file)
      /\ \A p \in Proc : at[p] \in Process /\ ctx(p) \in Run /\ ProcTyped(p)
  BY DEF Typed, TypeOK, WorldTyped, Made, Process, ctx
<1>2. Made = 1 .. Len(commits) /\ Len(commits) \in Nat /\ Len(commits) <= COMMITS
  BY <1>1 DEF WorldTyped, Made
<1>3. ASSUME NEW c \in Made PROVE commits[c].base \in 0 .. BASES
  <2>1. commits[c] \in [base : 0 .. BASES, by : {"run", "other"}]
    <3>1. commits \in Seq([base : 0 .. BASES, by : {"run", "other"}])
      BY <1>1 DEF WorldTyped
    <3>2. c \in 1 .. Len(commits)
      BY <1>2
    <3> QED
      BY <3>1, <3>2, EntryOf
  <2> QED
    BY <2>1
<1> QED
  BY <1>1, <1>2, <1>3, LandingAssumption DEF Commit, NONE

LEMMA TypedFrame ==
    ASSUME Typed, NEW p \in Proc, Alone(p), Around, ProcTyped(p)'
    PROVE  Typed'
PROOF
<1>1. TypeOK'
  BY DEF Alone, Around, WorldTyped, Made, TypeOK
<1>2. ASSUME NEW q \in Proc \ {p} PROVE ProcTyped(q)'
  <2>1. ProcTyped(q) /\ at'[q] = at[q] /\ Grows
    BY <1>2 DEF Typed, Alone, Around
  <2> QED
    BY <2>1 DEF ProcTyped, RunTyped, ctx, Grows, NONE
<1> QED
  BY <1>1, <1>2 DEF Typed, Around

(* A step that moves no process is typed if what it moves is.              *)
LEMMA TypedAside ==
    ASSUME Typed, at' = at, Around
    PROVE  Typed'
PROOF
<1>1. Runner \in Proc /\ Alone(Runner)
  BY DEF Typed, TypeOK, Proc, Alone
<1>2. ProcTyped(Runner)'
  BY <1>1 DEF Typed, Around, ProcTyped, RunTyped, ctx, Grows, NONE
<1> QED
  BY <1>1, <1>2, TypedFrame

(* A process that leaves has nothing in memory.                            *)
LEMMA ExitStep ==
    ASSUME Typed, NEW p \in Proc, NEW from, Exit(p, from)
    PROVE  /\ Alone(p) /\ at[p].pc = from /\ at'[p].pc = "off" /\ ProcTyped(p)'
           /\ stop' \in BOOLEAN
PROOF
<1>1. at \in [Proc -> Process] /\ stop \in BOOLEAN
  BY DEF Typed, TypeOK
<1>2. NewRun(1, NONE, FALSE) \in Run /\ 0 \in 0 .. BASES
  BY LandingAssumption DEF NewRun, NoPass, Run, Fingerprint, Tree, Rev
<1>3. Idle \in Process /\ Idle.pc = "off" /\ Idle.from = NONE /\ Idle.run = NewRun(1, NONE, FALSE)
  BY <1>2 DEF Idle, Process, Place, Rev
<1>4. at[p].pc = from /\ at' = [at EXCEPT ![p] = Idle] /\ stop' = (stop /\ p # Runner)
  BY DEF Exit
<1>5. Alone(p) /\ at'[p] = Idle
  BY <1>1, <1>3, <1>4, Becomes
<1>6. RunTyped(NewRun(1, NONE, FALSE))'
  BY DEF RunTyped, NewRun, NoPass, NONE
<1>7. ProcTyped(p)'
  BY <1>3, <1>5, <1>6 DEF ProcTyped, ctx, Place, NONE, RunTyped, NewRun, NoPass
<1> QED
  BY <1>1, <1>3, <1>4, <1>5, <1>7

(* A pass leaves a tip there is, which a green one puts among its own.     *)
LEMMA PassStep ==
    ASSUME Typed, Green \/ Red
    PROVE  /\ commits' \in Seq([base : 0 .. BASES, by : {"run", "other"}]) /\ Len(commits') <= COMMITS
           /\ Made \subseteq Made' /\ head' \in Made' /\ tree' \in Tree
           /\ head' \in Commit /\ [tip |-> head', tree |-> tree'] \in Fingerprint
           /\ green \subseteq green' /\ green' \subseteq Made'
           /\ Green => head' \in green'
PROOF
<1>1. /\ WorldTyped /\ Made \subseteq Commit /\ commits[head].base \in 0 .. BASES
  BY TypedWorld DEF WorldTyped
<1>2. Make(commits[head].base, "run") => MakeMakes
  BY <1>1, MakeAdds DEF Typed, MakeMakes
<1>3. \/ commits' = commits /\ head' = head
      \/ MakeMakes /\ head' = Fresh
  BY <1>2 DEF Green, Red
<1>4. /\ commits' \in Seq([base : 0 .. BASES, by : {"run", "other"}]) /\ Len(commits') <= COMMITS
      /\ Made \subseteq Made' /\ head' \in Made' /\ head' \in Commit
  BY <1>1, <1>3 DEF WorldTyped, MakeMakes, Made
<1>5. tree' \in Tree
  BY <1>1 DEF Green, Red, Tree, WorldTyped
<1>6. green' = green \cup {head'} \/ (Red /\ green' = green)
  BY DEF Green, Red
<1>7. green \subseteq Made
  BY <1>1 DEF WorldTyped
<1>8. [tip |-> head', tree |-> tree'] \in Fingerprint
  BY <1>4, <1>5 DEF Fingerprint, Rev
<1>9. Green => head' \in green'
  BY DEF Green
<1> QED
  BY <1>4, <1>5, <1>6, <1>7, <1>8, <1>9

LEMMA TypedStep ==
    ASSUME Typed, [Next]_vars
    PROVE  Typed'
PROOF
<1> USE DEF keepTree, keepRemote, keepRun, given
<1>w. /\ WorldTyped /\ file \in Run /\ RunTyped(file)
      /\ \A p \in Proc : at[p] \in Process /\ ctx(p) \in Run /\ ProcTyped(p)
      /\ Made \subseteq Commit /\ NONE \notin Made
      /\ \A c \in Made : commits[c].base \in 0 .. BASES
  BY TypedWorld
<1>r. Runner \in Proc /\ Lander \subseteq Proc /\ Runner \notin Lander
  BY LandingAssumption DEF Proc
<1>1. CASE Boot
  <2>1. PICK run : run = [file EXCEPT !.status = "running"] /\ Save(Runner, "off", "boot", run)
    BY <1>1 DEF Boot
  <2>2. run \in Run /\ RunTyped(run)'
    BY <1>w, <1>r, <2>1, <1>1 DEF Boot, Run, Rev, Commit, ProcTyped, RunTyped, NONE, Made
  <2>3. Save(Runner, "off", "boot", run)
    BY <2>1
  <2>4. /\ Alone(Runner) /\ at'[Runner].pc = "boot" /\ at'[Runner].run = run /\ file' = run
        /\ at'[Runner].from = at[Runner].from
    <3>1. Saved(Runner, "off", "boot", run)
      BY <1>r, <2>2, <2>3, SaveStep DEF Place
    <3> QED
      BY <3>1 DEF Saved
  <2>5. Around
    BY <1>1, <1>w, <2>2, <2>4 DEF Boot, Around, WorldTyped, Grows, RunTyped, Made, NONE
  <2>6. ProcTyped(Runner)'
    BY <1>w, <1>r, <2>2, <2>4, <2>5
       DEF ctx, ProcTyped, RunTyped, SameBut, Grows, Around, Place, NONE, Made
  <2> QED
    BY <1>r, <2>1, <2>2, <2>3, <2>4, <2>5, <2>6, TypedFrame
<1>2. CASE BootRestore
  <2>1. /\ Alone(Runner) /\ at[Runner].pc = "boot" /\ at'[Runner].pc \in {"work", "booted"}
        /\ SameBut(Runner)
    BY <1>2, <1>r, GoStep, EndStep DEF BootRestore, Restore, Place
  <2>2. Around
    BY <1>2, <1>w, <1>r
       DEF BootRestore, Restore, ProcTyped, Around, WorldTyped, Grows, RunTyped, Made, NONE, Tree
  <2>3. ProcTyped(Runner)'
    BY <1>w, <1>r, <2>1, <2>2
       DEF ctx, ProcTyped, RunTyped, SameBut, Grows, Around, Place, NONE, Made
  <2> QED
    BY <1>r, <2>1, <2>2, <2>3, TypedFrame
<1>3. CASE BootRestored
  <2>1. PICK run : run = [ctx(Runner) EXCEPT !.landingFrom = NONE] /\ Save(Runner, "booted", "work", run)
    BY <1>3 DEF BootRestored
  <2>2. run \in Run /\ RunTyped(run)'
    BY <1>w, <1>r, <2>1, <1>3 DEF BootRestored, Run, Rev, Commit, ProcTyped, RunTyped, NONE, Made
  <2>3. Save(Runner, "booted", "work", run)
    BY <2>1
  <2>4. /\ Alone(Runner) /\ at'[Runner].pc = "work" /\ at'[Runner].run = run /\ file' = run
        /\ at'[Runner].from = at[Runner].from
    <3>1. Saved(Runner, "booted", "work", run)
      BY <1>r, <2>2, <2>3, SaveStep DEF Place
    <3> QED
      BY <3>1 DEF Saved
  <2>5. Around
    BY <1>3, <1>w, <2>2, <2>4 DEF BootRestored, Around, WorldTyped, Grows, RunTyped, Made, NONE
  <2>6. ProcTyped(Runner)'
    BY <1>w, <1>r, <2>2, <2>4, <2>5
       DEF ctx, ProcTyped, RunTyped, SameBut, Grows, Around, Place, NONE, Made
  <2> QED
    BY <1>r, <2>1, <2>2, <2>3, <2>4, <2>5, <2>6, TypedFrame
<1>4. CASE BootFailed
  <2>1. Alone(Runner) /\ ProcTyped(Runner)' /\ stop' \in BOOLEAN
    BY <1>4, <1>r, ExitStep DEF BootFailed
  <2>2. file' \in Run /\ RunTyped(file)'
    BY <1>4, <1>w, <1>r
       DEF BootFailed, Unrestored, Run, Rev, Commit, ProcTyped, RunTyped, NONE, Made
  <2>3. head' \in Made /\ half' \in BOOLEAN /\ tree' \in Tree /\ commits' = commits
    BY <1>4, <1>w, <1>r DEF BootFailed, Unrestored, ProcTyped, RunTyped, WorldTyped, Tree
  <2>4. Around
    BY <1>4, <1>w, <2>1, <2>2, <2>3
       DEF BootFailed, Unrestored, Around, WorldTyped, Grows, RunTyped, Made, NONE
  <2> QED
    BY <1>r, <2>1, <2>4, TypedFrame
<1>5. CASE Work
  <2>1. at' = at /\ commits[head].base \in 0 .. BASES
    BY <1>5, <1>w DEF Work, WorldTyped
  <2>2. Make(commits[head].base, "run") => MakeMakes
    BY <2>1, MakeAdds DEF Typed, MakeMakes
  <2>3. /\ tree' \in Tree
        /\ \/ commits' = commits /\ head' = head
           \/ MakeMakes /\ head' = Fresh
    BY <1>5, <2>2 DEF Work, Tree
  <2>4. Around
    BY <1>5, <1>w, <2>3 DEF Work, MakeMakes, Around, WorldTyped, Grows, RunTyped, Made, NONE
  <2> QED
    BY <2>1, <2>4, TypedAside
<1>6. CASE FinalGates
  <2>1. Green \/ Red
    BY <1>6 DEF FinalGates
  <2>2. WorldTyped' /\ Grows
    <3>1. stop' \in BOOLEAN
      BY <1>6, <1>w DEF FinalGates, Exit, WorldTyped
    <3> QED
      BY <1>6, <1>w, <2>1, <3>1, PassStep DEF FinalGates, WorldTyped, Grows, Made
  <2>3. CASE Green /\ Save(Runner, "work", "work", Checked(Runner))
    <3>1. PICK run : run = Checked(Runner) /\ Save(Runner, "work", "work", run)
      BY <2>3
    <3>2. run \in Run /\ RunTyped(run)'
      BY <1>w, <1>r, <2>2, <2>3, <3>1, PassStep
         DEF Checked, Grows, Run, ProcTyped, RunTyped
    <3>3. Save(Runner, "work", "work", run)
      BY <3>1
    <3>4. /\ Alone(Runner) /\ at'[Runner].pc = "work" /\ at'[Runner].run = run /\ file' = run
          /\ at'[Runner].from = at[Runner].from
      <4>1. Saved(Runner, "work", "work", run)
        BY <1>r, <3>2, <3>3, SaveStep DEF Place
      <4> QED
        BY <4>1 DEF Saved
    <3>5. Around
      BY <2>2, <3>2, <3>4 DEF Around, RunTyped
    <3>6. ProcTyped(Runner)'
      BY <1>w, <1>r, <3>2, <3>4, <3>5
         DEF ctx, ProcTyped, RunTyped, SameBut, Grows, Around, Place, NONE, Made
    <3> QED
      BY <1>r, <3>4, <3>5, <3>6, TypedFrame
  <2>4. CASE /\ Red /\ Exit(Runner, "work")
             /\ file' = [Unchecked(Runner) EXCEPT !.status = "stopped"]
    <3>1. Alone(Runner) /\ ProcTyped(Runner)'
      BY <1>r, <2>4, ExitStep
    <3>2. file' \in Run /\ RunTyped(file)'
      BY <1>w, <1>r, <2>2, <2>4
         DEF Unchecked, NoPass, Grows, Run, Fingerprint, Tree, Rev, ProcTyped, RunTyped
    <3> QED
      BY <1>r, <2>2, <3>1, <3>2, TypedFrame DEF Around
  <2> QED
    BY <1>6, <2>3, <2>4 DEF FinalGates
<1>7. CASE StartLanding
  <2>1. Alone(Runner) /\ at[Runner].pc = "work" /\ at'[Runner].pc \in {"recover"} /\ SameBut(Runner)
    BY <1>7, <1>r, GoStep, EndStep DEF StartLanding, Place
  <2>2. Around
    BY <1>7, <1>w, <1>r
       DEF StartLanding, ProcTyped, Around, WorldTyped, Grows, RunTyped, Made, NONE
  <2>3. ProcTyped(Runner)'
    BY <1>w, <1>r, <2>1, <2>2
       DEF ctx, ProcTyped, RunTyped, SameBut, Grows, Around, Place, NONE, Made
  <2> QED
    BY <1>r, <2>1, <2>2, <2>3, TypedFrame
<1>8. CASE Stop
  <2>1. Alone(Runner) /\ ProcTyped(Runner)' /\ stop' \in BOOLEAN
    BY <1>8, <1>r, ExitStep DEF Stop
  <2>2. file' \in Run /\ RunTyped(file)'
    BY <1>8, <1>w, <1>r DEF Stop, Run, Rev, Commit, ProcTyped, RunTyped, NONE, Made
  <2>3. Around
    BY <1>8, <1>w, <2>1, <2>2 DEF Stop, Around, WorldTyped, Grows, RunTyped, Made, NONE
  <2> QED
    BY <1>r, <2>1, <2>3, TypedFrame
<1>9. CASE AskStop
  <2>1. at' = at
    BY <1>9 DEF AskStop
  <2>2. Around
    BY <1>9, <1>w DEF AskStop, Around, WorldTyped, Grows, RunTyped, Made, NONE
  <2> QED
    BY <1>r, <2>1, <2>2, TypedAside
<1>10. ASSUME NEW l \in Lander, Read(l) PROVE Typed'
  <2>1. at[l] \in Process /\ l \in Proc /\ file \in Run
    BY <1>w, <1>r DEF Typed, TypeOK
  <2>2. [at[l] EXCEPT !.pc = "read", !.run = file] \in Process
    BY <2>1 DEF Process, Place
  <2>3. at' = [at EXCEPT ![l] = [at[l] EXCEPT !.pc = "read", !.run = file]]
    BY <1>10 DEF Read
  <2>4. Alone(l) /\ at'[l] = [at[l] EXCEPT !.pc = "read", !.run = file]
    BY <2>1, <2>2, <2>3, Becomes DEF Typed, TypeOK
  <2>5. Around
    <3>1. lands' \in 0 .. LATER
      BY <1>10, <1>w, LandingAssumption DEF Read, WorldTyped, Run
    <3> QED
      BY <1>10, <1>w, <3>1 DEF Read, Around, WorldTyped, Grows, RunTyped, Made, NONE
  <2>6. ProcTyped(l)'
    BY <1>w, <1>r, <2>1, <2>4, <2>5
       DEF Process, ctx, ProcTyped, RunTyped, SameBut, Grows, Around, Place, NONE, Made
  <2> QED
    BY <2>1, <2>4, <2>5, <2>6, TypedFrame
<1>11. ASSUME NEW l \in Lander, TakeLock(l) PROVE Typed'
  <2>1. l \in Proc /\ stop' \in BOOLEAN
    BY <1>11, <1>w, <1>r DEF TakeLock, Exit, WorldTyped
  <2>2. Around
    BY <1>11, <1>w, <2>1 DEF TakeLock, Around, WorldTyped, Grows, RunTyped, Made, NONE
  <2>3. CASE Go(l, "read", "recover")
    <3>1. Alone(l) /\ at'[l].pc = "recover" /\ SameBut(l)
      BY <1>r, <2>3, GoStep DEF Place
    <3>2. ProcTyped(l)'
      BY <1>w, <1>r, <2>2, <3>1
         DEF ctx, ProcTyped, RunTyped, SameBut, Grows, Around, Place, NONE, Made
    <3> QED
      BY <2>1, <2>2, <3>1, <3>2, TypedFrame
  <2>4. CASE Exit(l, "read")
    BY <2>1, <2>2, <2>4, ExitStep, TypedFrame
  <2> QED
    BY <1>11, <2>3, <2>4 DEF TakeLock
<1>12. ASSUME NEW p \in Proc, Recover(p) PROVE Typed'
  <2>1. /\ Alone(p) /\ at[p].pc = "recover" /\ SameBut(p)
        /\ at'[p].pc \in {"fetch", "recovered", "record"}
    BY <1>12, <1>r, GoStep, EndStep DEF Recover, Restore, Place
  <2>2. head' \in Made /\ half' \in BOOLEAN /\ tree' \in Tree /\ commits' = commits
    BY <1>12, <1>w, <1>r
       DEF Recover, Restore, Unrestored, ProcTyped, RunTyped, WorldTyped, Tree
  <2>3. left' = left /\ outdated' = outdated
    BY <1>12 DEF Recover, Restore, Unrestored
  <2>4. Around
    BY <1>12, <1>w, <2>2, <2>3 DEF Recover, Around, WorldTyped, Grows, RunTyped, Made, NONE
  <2>5. ProcTyped(p)'
    BY <1>w, <1>r, <2>1, <2>4
       DEF ctx, ProcTyped, RunTyped, SameBut, Grows, Around, Place, NONE, Made
  <2> QED
    BY <1>r, <2>1, <2>4, <2>5, TypedFrame
<1>13. ASSUME NEW p \in Proc, Recovered(p) PROVE Typed'
  <2>1. PICK run : run = [ctx(p) EXCEPT !.landingFrom = NONE] /\ Save(p, "recovered", "fetch", run)
    BY <1>13 DEF Recovered
  <2>2. run \in Run /\ RunTyped(run)'
    BY <1>w, <1>r, <2>1, <1>13 DEF Recovered, Run, Rev, Commit, ProcTyped, RunTyped, NONE, Made
  <2>3. Save(p, "recovered", "fetch", run)
    BY <2>1
  <2>4. Alone(p) /\ at'[p].pc = "fetch" /\ at'[p].run = run /\ file' = run /\ at'[p].from = at[p].from
    <3>1. Saved(p, "recovered", "fetch", run)
      BY <1>r, <2>2, <2>3, SaveStep DEF Place
    <3> QED
      BY <3>1 DEF Saved
  <2>5. Around
    BY <1>13, <1>w, <2>2, <2>4 DEF Recovered, Around, WorldTyped, Grows, RunTyped, Made, NONE
  <2>6. ProcTyped(p)'
    BY <1>w, <1>r, <2>2, <2>4, <2>5
       DEF ctx, ProcTyped, RunTyped, SameBut, Grows, Around, Place, NONE, Made
  <2> QED
    BY <1>r, <2>1, <2>2, <2>3, <2>4, <2>5, <2>6, TypedFrame
<1>14. ASSUME NEW p \in Proc, Fetch(p) PROVE Typed'
  <2>1. at[p] \in Process /\ base \in 0 .. BASES /\ head \in Rev \ {NONE} /\ ctx(p) \in Run
    BY <1>w DEF WorldTyped, Rev
  <2>2. CASE NotLanded(p, "fetch") /\ file' = file
    <3>1. Alone(p) /\ at'[p].pc = "record" /\ SameBut(p)
      BY <2>2, EndStep DEF Place
    <3>2. Around
      BY <1>14, <1>w, <2>2 DEF Fetch, Around, WorldTyped, Grows, RunTyped, Made, NONE
    <3>3. ProcTyped(p)'
      BY <1>w, <1>r, <3>1, <3>2
         DEF ctx, ProcTyped, RunTyped, SameBut, Grows, Around, Place, NONE, Made
    <3> QED
      BY <3>1, <3>2, <3>3, TypedFrame
  <2>3. CASE at' = [at EXCEPT ![p].pc = "tip", ![p].onto = base, ![p].from = NONE] /\ file' = file
    <3>1. at' = [at EXCEPT ![p] = [at[p] EXCEPT !.pc = "tip", !.onto = base, !.from = NONE]]
      BY <2>3
    <3>2. [at[p] EXCEPT !.pc = "tip", !.onto = base, !.from = NONE] \in Process
      BY <2>1 DEF Process, Place, Rev
    <3>3. Alone(p) /\ at'[p] = [at[p] EXCEPT !.pc = "tip", !.onto = base, !.from = NONE]
      BY <2>1, <3>1, <3>2, Becomes DEF Typed, TypeOK
    <3>4. Around
      BY <1>14, <1>w, <2>3 DEF Fetch, Around, WorldTyped, Grows, RunTyped, Made, NONE
    <3>5. ProcTyped(p)'
      BY <1>w, <1>r, <2>1, <3>3, <3>4
         DEF Process, ctx, ProcTyped, RunTyped, SameBut, Grows, Around, Place, NONE, Made
    <3> QED
      BY <3>3, <3>4, <3>5, TypedFrame
  <2>4. CASE /\ file' = [ctx(p) EXCEPT !.landingFrom = head]
             /\ at' = [at EXCEPT ![p].pc = "rebase", ![p].run = file', ![p].onto = base, ![p].from = head]
    <3>1. PICK run : run = [ctx(p) EXCEPT !.landingFrom = head] /\ file' = run
      BY <2>4
    <3>2. run \in Run /\ RunTyped(run)'
      BY <1>14, <1>w, <2>1, <3>1 DEF Fetch, WorldTyped, Run, ProcTyped, RunTyped, Made
    <3>3. at' = [at EXCEPT ![p] = [at[p] EXCEPT !.pc = "rebase", !.run = run, !.onto = base, !.from = head]]
      BY <2>4, <3>1
    <3>4. [at[p] EXCEPT !.pc = "rebase", !.run = run, !.onto = base, !.from = head] \in Process
      BY <2>1, <3>2 DEF Process, Place
    <3>5. Alone(p) /\ at'[p] = [at[p] EXCEPT !.pc = "rebase", !.run = run, !.onto = base, !.from = head]
      BY <2>1, <3>3, <3>4, Becomes DEF Typed, TypeOK
    <3>6. at'[p].pc = "rebase" /\ at'[p].run = run /\ at'[p].from = head
      BY <2>1, <3>5 DEF Process
    <3>7. Around
      BY <1>14, <1>w, <3>1, <3>2 DEF Fetch, Around, WorldTyped, Grows, RunTyped, Made, NONE
    <3>8. ProcTyped(p)'
      BY <1>w, <1>r, <2>1, <3>2, <3>6, <3>7
         DEF WorldTyped, ctx, ProcTyped, RunTyped, SameBut, Grows, Around, Place, NONE, Made
    <3> QED
      BY <3>5, <3>7, <3>8, TypedFrame
  <2> QED
    BY <1>14, <2>2, <2>3, <2>4 DEF Fetch
<1>15. ASSUME NEW p \in Proc, Rebase(p) PROVE Typed'
  <2>1. /\ Alone(p) /\ at[p].pc = "rebase" /\ at'[p].pc \in {"gate", "record"} /\ SameBut(p)
    BY <1>15, <1>r, GoStep, EndStep DEF Rebase, Place
  <2>2. at[p].onto \in 0 .. BASES
    BY DEF Typed, TypeOK, Process
  <2>3. \/ commits' = commits /\ head' = head
        \/ MakeMakes /\ head' = Fresh
    BY <1>15, <2>2, MakeAdds DEF Rebase, Typed, MakeMakes
  <2>4. half' \in BOOLEAN
    BY <1>15, <1>w DEF Rebase, WorldTyped
  <2>5. Around
    BY <1>15, <1>w, <2>3, <2>4
       DEF Rebase, MakeMakes, Around, WorldTyped, Grows, RunTyped, Made, NONE
  <2>6. ProcTyped(p)'
    BY <1>w, <1>r, <2>1, <2>5
       DEF ctx, ProcTyped, RunTyped, SameBut, Grows, Around, Place, NONE, Made
  <2> QED
    BY <1>r, <2>1, <2>5, <2>6, TypedFrame
<1>16. ASSUME NEW p \in Proc, Gate(p) PROVE Typed'
  <2>1. PICK run, to :
           /\ to \in {"back", "tip"}
           /\ Save(p, "gate", to, run)
           /\ \/ Green /\ run = Checked(p)
              \/ Red /\ run = Unchecked(p)
    BY <1>16 DEF Gate
  <2>2. WorldTyped' /\ Grows
    BY <1>16, <1>w, <2>1, PassStep DEF Gate, WorldTyped, Grows, Made
  <2>3. run \in Run /\ RunTyped(run)'
    <3>1. Green \/ Red
      BY <2>1
    <3>2. NoPass \in Fingerprint /\ NoPass.tip = NONE
      BY DEF NoPass, Fingerprint, Tree, Rev
    <3>3. ctx(p) \in Run /\ RunTyped(ctx(p))
      BY <1>w DEF ProcTyped
    <3> QED
      BY <2>1, <2>2, <3>1, <3>2, <3>3, PassStep DEF Checked, Unchecked, Grows, Run, RunTyped
  <2>4. Save(p, "gate", to, run) /\ to \in {"back", "tip"}
    BY <2>1
  <2>5. /\ Alone(p) /\ at[p].pc = "gate" /\ at'[p].pc = to /\ at'[p].run = run /\ file' = run
        /\ at'[p].from = at[p].from
    <3>1. Saved(p, "gate", to, run)
      BY <1>r, <2>3, <2>4, SaveStep DEF Place
    <3> QED
      BY <3>1 DEF Saved
  <2>6. Around
    BY <2>2, <2>3, <2>5 DEF Around, RunTyped
  <2>7. ProcTyped(p)'
    BY <1>w, <1>r, <2>3, <2>4, <2>5, <2>6
       DEF ctx, ProcTyped, RunTyped, SameBut, Grows, Around, Place, NONE, Made
  <2> QED
    BY <1>r, <2>5, <2>6, <2>7, TypedFrame
<1>17. ASSUME NEW p \in Proc, PutBack(p) PROVE Typed'
  <2>1. Alone(p) /\ at[p].pc = "back" /\ at'[p].pc = "record" /\ SameBut(p)
    BY <1>17, <1>r, EndStep DEF PutBack, Place
  <2>2. head' \in Made /\ tree' \in Tree
    BY <1>17, <1>w, <2>1 DEF PutBack, ProcTyped, WorldTyped, Tree
  <2>3. Around
    BY <1>17, <1>w, <2>2 DEF PutBack, Around, WorldTyped, Grows, RunTyped, Made, NONE
  <2>4. ProcTyped(p)'
    BY <1>w, <1>r, <2>1, <2>3
       DEF ctx, ProcTyped, RunTyped, SameBut, Grows, Around, Place, NONE, Made
  <2> QED
    BY <1>r, <2>1, <2>3, <2>4, TypedFrame
<1>18. ASSUME NEW p \in Proc, Tip(p) PROVE Typed'
  <2>1. at[p] \in Process /\ head \in Rev /\ at[p].pc = "tip"
    BY <1>18, <1>w DEF WorldTyped, Rev, Tip, Go, NotLanded
  <2>2. Around
    BY <1>18, <1>w DEF Tip, Around, WorldTyped, Grows, RunTyped, Made, NONE
  <2>3. CASE at' = [at EXCEPT ![p].pc = "push", ![p].tip = head]
    <3>1. at' = [at EXCEPT ![p] = [at[p] EXCEPT !.pc = "push", !.tip = head]]
      BY <2>3
    <3>2. [at[p] EXCEPT !.pc = "push", !.tip = head] \in Process
      BY <2>1 DEF Process, Place
    <3>3. Alone(p) /\ at'[p] = [at[p] EXCEPT !.pc = "push", !.tip = head]
      BY <2>1, <3>1, <3>2, Becomes DEF Typed, TypeOK
    <3>4. ProcTyped(p)'
      BY <1>w, <1>r, <2>1, <2>2, <3>3
         DEF Process, WorldTyped, ctx, ProcTyped, RunTyped, SameBut, Grows, Around, Place, NONE,
             Made
    <3> QED
      BY <2>2, <3>3, <3>4, TypedFrame
  <2>4. CASE at[p].from # NONE /\ Go(p, "tip", "back")
    <3>1. Alone(p) /\ at'[p].pc = "back" /\ SameBut(p)
      BY <2>4, GoStep DEF Place
    <3>2. ProcTyped(p)'
      BY <1>w, <1>r, <2>2, <2>4, <3>1
         DEF ctx, ProcTyped, RunTyped, SameBut, Grows, Around, Place, NONE, Made
    <3> QED
      BY <2>2, <3>1, <3>2, TypedFrame
  <2>5. CASE NotLanded(p, "tip")
    <3>1. Alone(p) /\ at'[p].pc = "record" /\ SameBut(p)
      BY <2>5, EndStep DEF Place
    <3>2. ProcTyped(p)'
      BY <1>w, <1>r, <2>2, <3>1
         DEF ctx, ProcTyped, RunTyped, SameBut, Grows, Around, Place, NONE, Made
    <3> QED
      BY <2>2, <3>1, <3>2, TypedFrame
  <2> QED
    BY <1>18, <2>3, <2>4, <2>5 DEF Tip
<1>19. ASSUME NEW p \in Proc, Push(p) PROVE Typed'
  <2>1. Alone(p) /\ at[p].pc = "push" /\ at'[p].pc \in {"pushed", "record"} /\ SameBut(p)
    BY <1>19, <1>r, GoStep, EndStep DEF Push, Place
  <2>2. Around
    BY <1>19, <1>w, <1>r DEF Push, ProcTyped, Around, WorldTyped, Grows, RunTyped, Made, NONE
  <2>3. at'[p].pc = "pushed" => at[p].tip \in published'
    BY <1>19, EndStep, <2>1 DEF Push, Place
  <2>4. ProcTyped(p)'
    BY <1>w, <1>r, <2>1, <2>2, <2>3
       DEF ctx, ProcTyped, RunTyped, SameBut, Grows, Around, Place, NONE, Made
  <2> QED
    BY <1>r, <2>1, <2>2, <2>4, TypedFrame
<1>20. ASSUME NEW p \in Proc, Pushed(p) PROVE Typed'
  <2>1. at[p] \in Process /\ ctx(p) \in Run /\ at[p].tip \in published /\ published \subseteq Made
    BY <1>20, <1>w DEF WorldTyped, Pushed, ProcTyped
  <2>2. PICK run, to :
           /\ to \in {"record", "view"}
           /\ run = [ctx(p) EXCEPT !.pushed = at[p].tip, !.landingFrom = NONE] /\ file' = run
           /\ at' = [at EXCEPT ![p] = [at[p] EXCEPT !.pc = to, !.run = run, !.ok = FALSE]]
    BY <1>20 DEF Pushed
  <2>3. to \in {"record", "view"}
    BY <2>2
  <2>4. run \in Run /\ RunTyped(run)'
    BY <1>20, <1>w, <2>1, <2>2
       DEF Pushed, WorldTyped, Run, Process, Rev, ProcTyped, RunTyped, Made
  <2>5. [at[p] EXCEPT !.pc = to, !.run = run, !.ok = FALSE] \in Process
    BY <2>1, <2>4, <2>3 DEF Process, Place
  <2>6. Alone(p) /\ at'[p] = [at[p] EXCEPT !.pc = to, !.run = run, !.ok = FALSE]
    BY <2>1, <2>2, <2>5, Becomes DEF Typed, TypeOK
  <2>7. at'[p].pc = to /\ at'[p].run = run /\ at'[p].from = at[p].from
    BY <2>1, <2>6 DEF Process
  <2>8. Around
    BY <1>20, <1>w, <2>2, <2>4 DEF Pushed, Around, WorldTyped, Grows, RunTyped, Made, NONE
  <2>9. ProcTyped(p)'
    BY <1>w, <1>r, <2>4, <2>7, <2>8, <2>3
       DEF ctx, ProcTyped, RunTyped, SameBut, Grows, Around, Place, NONE, Made
  <2> QED
    BY <2>6, <2>8, <2>9, TypedFrame
<1>21. ASSUME NEW p \in Proc, View(p) PROVE Typed'
  <2>1. Alone(p) /\ at[p].pc = "view" /\ at'[p].pc \in {"create", "record"} /\ SameBut(p)
    BY <1>21, <1>r, GoStep, EndStep DEF View, Place
  <2>2. Around
    BY <1>21, <1>w, <1>r DEF View, ProcTyped, Around, WorldTyped, Grows, RunTyped, Made, NONE
  <2>3. ProcTyped(p)'
    BY <1>w, <1>r, <2>1, <2>2
       DEF ctx, ProcTyped, RunTyped, SameBut, Grows, Around, Place, NONE, Made
  <2> QED
    BY <1>r, <2>1, <2>2, <2>3, TypedFrame
<1>22. ASSUME NEW p \in Proc, Create(p) PROVE Typed'
  <2>1. Alone(p) /\ at[p].pc = "create" /\ at'[p].pc \in {"record"} /\ SameBut(p)
    BY <1>22, <1>r, GoStep, EndStep DEF Create, Place
  <2>2. Around
    BY <1>22, <1>w, <1>r DEF Create, ProcTyped, Around, WorldTyped, Grows, RunTyped, Made, NONE
  <2>3. ProcTyped(p)'
    BY <1>w, <1>r, <2>1, <2>2
       DEF ctx, ProcTyped, RunTyped, SameBut, Grows, Around, Place, NONE, Made
  <2> QED
    BY <1>r, <2>1, <2>2, <2>3, TypedFrame
<1>23. ASSUME NEW p \in Proc, Record(p) PROVE Typed'
  <2>0. PICK from \in {NONE, ctx(p).landingFrom} :
           /\ from = NONE => settled(p)
           /\ Save(p, "record", "report",
                   [ctx(p) EXCEPT !.landing = IF at[p].ok THEN "ok" ELSE "failed",
                                  !.pr = @ \/ at[p].ok,
                                  !.landingFrom = from])
    BY <1>23 DEF Record
  <2>1. PICK run :
           /\ run = [ctx(p) EXCEPT !.landing = IF at[p].ok THEN "ok" ELSE "failed",
                                   !.pr = @ \/ at[p].ok,
                                   !.landingFrom = from]
           /\ Save(p, "record", "report", run)
    BY <2>0
  <2>2. run \in Run /\ RunTyped(run)'
    BY <1>w, <1>r, <2>1, <1>23 DEF Record, Run, Rev, Commit, ProcTyped, RunTyped, NONE, Made
  <2>3. Save(p, "record", "report", run)
    BY <2>1
  <2>4. Alone(p) /\ at'[p].pc = "report" /\ at'[p].run = run /\ file' = run /\ at'[p].from = at[p].from
    <3>1. Saved(p, "record", "report", run)
      BY <1>r, <2>2, <2>3, SaveStep DEF Place
    <3> QED
      BY <3>1 DEF Saved
  <2>5. Around
    BY <1>23, <1>w, <2>2, <2>4 DEF Record, Around, WorldTyped, Grows, RunTyped, Made, NONE
  <2>6. ProcTyped(p)'
    BY <1>w, <1>r, <2>2, <2>4, <2>5
       DEF ctx, ProcTyped, RunTyped, SameBut, Grows, Around, Place, NONE, Made
  <2> QED
    BY <1>r, <2>1, <2>2, <2>3, <2>4, <2>5, <2>6, TypedFrame
<1>24. ASSUME NEW p \in Proc, Report(p) PROVE Typed'
  <2>1. Alone(p) /\ ProcTyped(p)' /\ stop' \in BOOLEAN
    BY <1>24, ExitStep DEF Report
  <2>2. file' \in Run /\ RunTyped(file)'
    <3>1. commits' = commits /\ published' = published /\ green' = green
      BY <1>24 DEF Report
    <3>2. CASE p = Runner
      BY <1>24, <1>w, <3>1, <3>2 DEF Report, Run, ProcTyped, RunTyped, Made
    <3>3. CASE p # Runner
      BY <1>24, <1>w, <3>1, <3>3 DEF Report, WorldTyped, RunTyped, Made
    <3> QED
      BY <3>2, <3>3
  <2>3. Around
    BY <1>24, <1>w, <2>1, <2>2 DEF Report, Around, WorldTyped, Grows, RunTyped, Made, NONE
  <2> QED
    BY <2>1, <2>3, TypedFrame
<1>25. ASSUME NEW p \in Proc, Crash(p) PROVE Typed'
  <2>1. Alone(p) /\ ProcTyped(p)' /\ stop' \in BOOLEAN
    BY <1>25, ExitStep DEF Crash
  <2>2. half' \in BOOLEAN
    BY <1>25, <1>w DEF Crash, WorldTyped
  <2>3. Around
    BY <1>25, <1>w, <2>1, <2>2, LandingAssumption
       DEF Crash, Around, WorldTyped, Grows, RunTyped, Made, NONE
  <2> QED
    BY <2>1, <2>3, TypedFrame
<1>26. CASE StartRun
  <2>1. at' = at
    BY <1>26 DEF StartRun
  <2>2. /\ file' \in Run /\ file'.landingFrom = NONE /\ file'.checked.tip = NONE
        /\ file'.pushed = file.pushed
    <3>1. file.id \in 1 .. LATER + 1 /\ lands \in Nat /\ file.pushed \in Rev /\ file.pr \in BOOLEAN
      BY <1>w DEF Run, WorldTyped
    <3>2. file' = NewRun(file.id + 1, file.pushed, file.pr) /\ file.id + lands <= LATER
      BY <1>26 DEF StartRun
    <3>3. file.id + 1 \in 1 .. LATER + 1
      BY <3>1, <3>2, LandingAssumption
    <3> QED
      BY <3>1, <3>2, <3>3 DEF NewRun, NoPass, Run, Fingerprint, Tree, Rev
  <2>3. Around
    BY <1>26, <1>w, <2>2 DEF StartRun, Around, WorldTyped, Grows, RunTyped, Made, NONE
  <2> QED
    BY <2>1, <2>3, TypedAside
<1>27. CASE BaseMoves
  <2>1. at' = at
    BY <1>27 DEF BaseMoves
  <2>2. Around
    BY <1>27, <1>w, LandingAssumption
       DEF BaseMoves, Around, WorldTyped, Grows, RunTyped, Made, NONE
  <2> QED
    BY <1>r, <2>1, <2>2, TypedAside
<1>28. CASE OtherPushes
  <2>1. at' = at
    BY <1>28 DEF OtherPushes
  <2>2. (IF remote = NONE THEN 0 ELSE commits[remote].base) \in 0 .. BASES
    BY <1>w, LandingAssumption DEF WorldTyped
  <2>3. MakeMakes
    BY <1>28, <2>2, MakeAdds DEF OtherPushes, Typed, MakeMakes
  <2>4. Around
    BY <1>28, <1>w, <2>3
       DEF OtherPushes, MakeMakes, Around, WorldTyped, Grows, RunTyped, Made, NONE
  <2> QED
    BY <2>1, <2>4, TypedAside
<1>29. CASE UNCHANGED vars
  BY <1>29 DEF vars, Typed, TypeOK, RunTyped, ProcTyped, ctx, Made
<1> QED
  BY <1>1, <1>2, <1>3, <1>4, <1>5, <1>6, <1>7, <1>8, <1>9, <1>10, <1>11, <1>12, <1>13, <1>14,
     <1>15, <1>16, <1>17, <1>18, <1>19, <1>20, <1>21, <1>22, <1>23, <1>24, <1>25, <1>26, <1>27,
     <1>28, <1>29
     DEF Next

-----------------------------------------------------------------------------
(* Turns: one process is at work on the worktree at a time                 *)

LEMMA ActiveRun ==
    ASSUME Typed, Turns, NEW p \in Proc, Active(p)
    PROVE  /\ ctx(p).id = file.id /\ ctx(p).status = file.status
           /\ file.status = IF p = Runner THEN "running" ELSE "completed"
PROOF
<1>1. Runner \notin Lander /\ Proc = Lander \cup {Runner}
  BY LandingAssumption DEF Proc
<1>2. CASE p = Runner
  BY <1>2 DEF Turns, Running, Active
<1>3. CASE p # Runner
  <2>1. p \in Lander /\ Locked(p) /\ Completed(p)
    BY <1>1, <1>3 DEF Turns, Active
  <2> QED
    BY <1>3, <2>1 DEF Completed, Locked
<1> QED
  BY <1>2, <1>3

LEMMA OneActive ==
    ASSUME Typed, Turns, NEW p \in Proc, NEW q \in Proc, Active(p), Active(q)
    PROVE  p = q
PROOF
<1>1. Runner \notin Lander /\ Proc = Lander \cup {Runner}
  BY LandingAssumption DEF Proc
<1>2. file.status = (IF p = Runner THEN "running" ELSE "completed")
  BY ActiveRun
<1>3. file.status = (IF q = Runner THEN "running" ELSE "completed")
  BY ActiveRun
<1> QED
  BY <1>1, <1>2, <1>3 DEF Active, Turns, OneLocked

(* The process at work moves on, or ends, and the run stays as it is.      *)
LEMMA TurnsKept ==
    ASSUME Typed, Turns, NEW p \in Proc, Active(p), Alone(p),
           at'[p].pc # "read",
           file'.id = file.id, file'.status = file.status,
           at'[p].run.id = ctx(p).id, at'[p].run.status = ctx(p).status
    PROVE  Turns'
PROOF
<1>1. Runner \notin Lander /\ Proc = Lander \cup {Runner}
  BY LandingAssumption DEF Proc
<1>2. ctx(p).id = file.id /\ ctx(p).status = file.status
  BY ActiveRun
<1>3. Running'
  BY <1>1, <1>2 DEF Turns, Running, Alone, Active, ctx
<1>4. ASSUME NEW l \in Lander PROVE Completed(l)' /\ (Locked(l)' => Locked(l))
  <2>1. CASE l = p
    BY <1>1, <2>1 DEF Turns, Completed, Locked, Active, ctx
  <2>2. CASE l # p
    <3>1. at'[l] = at[l] /\ Completed(l)
      BY <1>1, <2>2 DEF Turns, Alone
    <3> QED
      BY <3>1 DEF Completed, Locked, ctx
  <2> QED
    BY <2>1, <2>2
<1>5. OneLocked'
  BY <1>4 DEF Turns, OneLocked
<1> QED
  BY <1>3, <1>4, <1>5 DEF Turns

(* The runner starts or ends, which leaves the run its id.                 *)
LEMMA TurnsRunner ==
    ASSUME Typed, Turns, Alone(Runner), file'.id = file.id,
           file.status # "completed",
           at'[Runner].pc # "off" =>
               file'.status = "running" /\ at'[Runner].run = file'
    PROVE  Turns'
PROOF
<1>1. Runner \notin Lander /\ Proc = Lander \cup {Runner}
  BY LandingAssumption DEF Proc
<1>2. Running'
  BY DEF Running, ctx
<1>3. ASSUME NEW l \in Lander PROVE Completed(l)' /\ (Locked(l)' => Locked(l))
  <2>1. at'[l] = at[l] /\ Completed(l)
    BY <1>1 DEF Turns, Alone
  <2> QED
    BY <2>1 DEF Completed, Locked, ctx
<1>4. OneLocked'
  BY <1>3 DEF Turns, OneLocked
<1> QED
  BY <1>2, <1>3, <1>4 DEF Turns

(* A landing that ends or dies leaves the run as it is.                    *)
LEMMA TurnsLander ==
    ASSUME Typed, Turns, NEW p \in Lander, Alone(p), at'[p].pc = "off", file' = file
    PROVE  Turns'
PROOF
<1>1. Runner \notin Lander /\ Proc = Lander \cup {Runner}
  BY LandingAssumption DEF Proc
<1>2. ASSUME NEW l \in Lander PROVE Completed(l)' /\ (Locked(l)' => Locked(l))
  <2>1. CASE l = p
    BY <2>1 DEF Completed, Locked
  <2>2. CASE l # p
    <3>1. at'[l] = at[l] /\ Completed(l)
      BY <1>1, <2>2 DEF Turns, Alone
    <3> QED
      BY <3>1 DEF Completed, Locked, ctx
  <2> QED
    BY <2>1, <2>2
<1>3. Running'
  BY <1>1 DEF Turns, Running, Alone, ctx
<1>4. OneLocked'
  BY <1>2 DEF Turns, OneLocked
<1> QED
  BY <1>2, <1>3, <1>4 DEF Turns

(* A step that moves nobody.                                               *)
LEMMA TurnsAside ==
    ASSUME Turns, at' = at, file' = file
    PROVE  Turns'
PROOF
BY DEF Turns, Running, Completed, OneLocked, Locked, ctx

LEMMA TurnsStep ==
    ASSUME Typed, Turns, [Next]_vars
    PROVE  Turns'
PROOF
<1> USE DEF keepRun, given
<1>w. file \in Run /\ \A p \in Proc : at[p] \in Process /\ ctx(p) \in Run /\ ProcTyped(p)
  BY TypedWorld
<1>r. Runner \in Proc /\ Lander \subseteq Proc /\ Runner \notin Lander /\ Proc = Lander \cup {Runner}
  BY LandingAssumption DEF Proc
<1>a. \A p \in Proc : Active(p) =>
          /\ ctx(p).id = file.id /\ ctx(p).status = file.status
          /\ file.status = IF p = Runner THEN "running" ELSE "completed"
  BY ActiveRun
<1>l. \A l \in Lander : at[l].pc \notin {"off", "read"} => Active(l)
  BY <1>r DEF Active, Locked
<1>p. \A p \in Proc : at[p].pc \notin {"off", "read"} => Active(p)
  BY <1>r, <1>l DEF Active
<1>1. CASE Boot
  <2>1. PICK run : run = [file EXCEPT !.status = "running"] /\ Save(Runner, "off", "boot", run)
    BY <1>1 DEF Boot
  <2>2. run \in Run /\ run.id = file.id /\ run.status = "running"
    BY <1>w, <2>1 DEF Run
  <2>3. Save(Runner, "off", "boot", run)
    BY <2>1
  <2>4. Alone(Runner) /\ at'[Runner].pc = "boot" /\ file' = run /\ at'[Runner].run = run
    <3>1. Saved(Runner, "off", "boot", run)
      BY <1>r, <2>2, <2>3, SaveStep DEF Place
    <3> QED
      BY <3>1 DEF Saved
  <2>5. file.status # "completed"
    BY <1>1 DEF Boot
  <2> QED
    BY <2>2, <2>4, <2>5, TurnsRunner
<1>2. CASE BootRestore
  <2>1. Alone(Runner) /\ at[Runner].pc = "boot" /\ at'[Runner].pc # "read" /\ SameBut(Runner)
    BY <1>2, <1>r, GoStep DEF BootRestore, Restore, Place
  <2>2. file' = file
    BY <1>2 DEF BootRestore
  <2> QED
    BY <1>p, <1>r, <2>1, <2>2, TurnsKept DEF SameBut, ctx
<1>3. CASE BootRestored
  <2>1. PICK run : run = [ctx(Runner) EXCEPT !.landingFrom = NONE] /\ Save(Runner, "booted", "work", run)
    BY <1>3 DEF BootRestored
  <2>2. run \in Run /\ run.id = ctx(Runner).id /\ run.status = ctx(Runner).status
    BY <1>w, <1>r, <2>1 DEF Run, Rev, NONE, Commit
  <2>3. Save(Runner, "booted", "work", run)
    BY <2>1
  <2>4. /\ Alone(Runner) /\ at[Runner].pc = "booted" /\ at'[Runner].pc = "work" /\ file' = run
        /\ at'[Runner].run = run
    <3>1. Saved(Runner, "booted", "work", run)
      BY <1>r, <2>2, <2>3, SaveStep DEF Place
    <3> QED
      BY <3>1 DEF Saved
  <2> QED
    BY <1>a, <1>p, <1>r, <2>2, <2>4, TurnsKept
<1>4. CASE BootFailed
  <2>1. Alone(Runner) /\ at[Runner].pc = "boot" /\ at'[Runner].pc = "off"
    BY <1>4, <1>r, ExitStep DEF BootFailed
  <2>2. file'.id = ctx(Runner).id
    BY <1>4, <1>w, <1>r DEF BootFailed, Run
  <2> QED
    BY <1>a, <1>p, <1>r, <2>1, <2>2, TurnsRunner
<1>5. CASE Work
  BY <1>5, TurnsAside DEF Work
<1>6. CASE FinalGates
  <2>1. CASE Green /\ Save(Runner, "work", "work", Checked(Runner))
    <3>1. PICK run : run = Checked(Runner) /\ Save(Runner, "work", "work", run)
      BY <2>1
    <3>2. run \in Run /\ run.id = ctx(Runner).id /\ run.status = ctx(Runner).status
      BY <1>w, <1>r, <2>1, <3>1, PassStep DEF Checked, Run
    <3>3. Save(Runner, "work", "work", run)
      BY <3>1
    <3>4. /\ Alone(Runner) /\ at[Runner].pc = "work" /\ at'[Runner].pc = "work" /\ file' = run
          /\ at'[Runner].run = run
      <4>1. Saved(Runner, "work", "work", run)
        BY <1>r, <3>2, <3>3, SaveStep DEF Place
      <4> QED
        BY <4>1 DEF Saved
    <3> QED
      BY <1>a, <1>p, <1>r, <3>2, <3>4, TurnsKept
  <2>2. CASE /\ Exit(Runner, "work")
             /\ file' = [Unchecked(Runner) EXCEPT !.status = "stopped"]
    <3>1. Alone(Runner) /\ at[Runner].pc = "work" /\ at'[Runner].pc = "off"
      BY <1>r, <2>2, ExitStep
    <3>2. file'.id = ctx(Runner).id
      BY <1>w, <1>r, <2>2 DEF Unchecked, Run
    <3> QED
      BY <1>a, <1>p, <1>r, <3>1, <3>2, TurnsRunner
  <2> QED
    BY <1>6, <2>1, <2>2 DEF FinalGates
<1>7. CASE StartLanding
  <2>1. Alone(Runner) /\ at[Runner].pc = "work" /\ at'[Runner].pc # "read" /\ SameBut(Runner)
    BY <1>7, <1>r, GoStep DEF StartLanding, Place
  <2>2. file' = file
    BY <1>7 DEF StartLanding
  <2> QED
    BY <1>p, <1>r, <2>1, <2>2, TurnsKept DEF SameBut, ctx
<1>8. CASE Stop
  <2>1. Alone(Runner) /\ at[Runner].pc = "work" /\ at'[Runner].pc = "off"
    BY <1>8, <1>r, ExitStep DEF Stop
  <2>2. file'.id = ctx(Runner).id
    BY <1>8, <1>w, <1>r DEF Stop, Run
  <2> QED
    BY <1>a, <1>p, <1>r, <2>1, <2>2, TurnsRunner
<1>9. CASE AskStop
  BY <1>9, TurnsAside DEF AskStop
<1>10. ASSUME NEW l \in Lander, Read(l) PROVE Turns'
  <2>1. [at[l] EXCEPT !.pc = "read", !.run = file] \in Process
    BY <1>w, <1>r DEF Process, Place
  <2>2. /\ at[l].pc = "off" /\ file.status = "completed" /\ file' = file
        /\ at' = [at EXCEPT ![l] = [at[l] EXCEPT !.pc = "read", !.run = file]]
    BY <1>10 DEF Read
  <2>3. Alone(l) /\ at'[l] = [at[l] EXCEPT !.pc = "read", !.run = file]
    BY <1>r, <2>1, <2>2, Becomes DEF Typed, TypeOK
  <2>4. at'[l].pc = "read" /\ at'[l].run = file
    BY <1>w, <1>r, <2>3 DEF Process
  <2>5. Running'
    BY <1>r, <2>2, <2>3 DEF Turns, Running, Alone, ctx
  <2>6. file.id \in Nat
    BY <1>w DEF Run
  <2>7. ASSUME NEW k \in Lander PROVE Completed(k)' /\ (Locked(k)' => Locked(k))
    <3>1. CASE k = l
      BY <3>1, <2>2, <2>4, <2>6 DEF Completed, Locked, ctx
    <3>2. CASE k # l
      <4>1. at'[k] = at[k] /\ Completed(k)
        BY <1>r, <2>3, <3>2 DEF Turns, Alone
      <4> QED
        BY <2>2, <4>1 DEF Completed, Locked, ctx
    <3> QED
      BY <3>1, <3>2
  <2>8. OneLocked'
    BY <2>7 DEF Turns, OneLocked
  <2> QED
    BY <2>5, <2>7, <2>8 DEF Turns
<1>11. ASSUME NEW l \in Lander, TakeLock(l) PROVE Turns'
  <2>1. /\ Alone(l) /\ at[l].pc = "read" /\ file' = file
        /\ \/ at'[l].pc = "off"
           \/ /\ at'[l].pc = "recover" /\ SameBut(l)
              /\ file.id = ctx(l).id /\ ~ \E o \in Lander : Locked(o)
    BY <1>11, <1>r, GoStep, ExitStep DEF TakeLock, Place
  <2>2. Running'
    BY <1>r, <2>1 DEF Turns, Running, Alone, ctx
  <2>3. ASSUME NEW k \in Lander, k # l PROVE Completed(k)' /\ (Locked(k)' => Locked(k))
    <3>1. at'[k] = at[k] /\ Completed(k)
      BY <1>r, <2>1, <2>3 DEF Turns, Alone
    <3> QED
      BY <2>1, <3>1 DEF Completed, Locked, ctx
  <2>4. Completed(l)'
    BY <2>1 DEF Turns, Completed, Locked, SameBut, ctx
  <2>5. OneLocked'
    BY <2>1, <2>3 DEF Turns, OneLocked, Locked
  <2> QED
    BY <2>2, <2>3, <2>4, <2>5 DEF Turns
<1>12. ASSUME NEW p \in Proc, Recover(p) PROVE Turns'
  <2>1. Alone(p) /\ at[p].pc = "recover" /\ at'[p].pc # "read" /\ SameBut(p)
    BY <1>12, GoStep, EndStep DEF Recover, Restore, Place
  <2>2. file' = file
    BY <1>12 DEF Recover
  <2> QED
    BY <1>p, <2>1, <2>2, TurnsKept DEF SameBut, ctx
<1>13. ASSUME NEW p \in Proc, Recovered(p) PROVE Turns'
  <2>1. PICK run : run = [ctx(p) EXCEPT !.landingFrom = NONE] /\ Save(p, "recovered", "fetch", run)
    BY <1>13 DEF Recovered
  <2>2. run \in Run /\ run.id = ctx(p).id /\ run.status = ctx(p).status
    BY <1>w, <1>r, <2>1 DEF Run, Rev, NONE, Commit
  <2>3. Save(p, "recovered", "fetch", run)
    BY <2>1
  <2>4. /\ Alone(p) /\ at[p].pc = "recovered" /\ at'[p].pc = "fetch" /\ file' = run
        /\ at'[p].run = run
    <3>1. Saved(p, "recovered", "fetch", run)
      BY <1>r, <2>2, <2>3, SaveStep DEF Place
    <3> QED
      BY <3>1 DEF Saved
  <2> QED
    BY <1>a, <1>p, <1>r, <2>2, <2>4, TurnsKept
<1>14. ASSUME NEW p \in Proc, Fetch(p) PROVE Turns'
  <2>1. CASE NotLanded(p, "fetch") /\ file' = file
    <3>1. Alone(p) /\ at[p].pc = "fetch" /\ at'[p].pc # "read" /\ SameBut(p)
      BY <2>1, EndStep DEF Place
    <3> QED
      BY <1>p, <2>1, <3>1, TurnsKept DEF SameBut, ctx
  <2>2. CASE /\ at' = [at EXCEPT ![p].pc = "tip", ![p].onto = base, ![p].from = NONE] /\ file' = file
    <3>1. at' = [at EXCEPT ![p] = [at[p] EXCEPT !.pc = "tip", !.onto = base, !.from = NONE]]
      BY <2>2
    <3>2. [at[p] EXCEPT !.pc = "tip", !.onto = base, !.from = NONE] \in Process
      BY <1>w, TypedWorld DEF WorldTyped, Process, Place, Rev
    <3>3. Alone(p) /\ at'[p] = [at[p] EXCEPT !.pc = "tip", !.onto = base, !.from = NONE]
      BY <3>1, <3>2, Becomes DEF Typed, TypeOK
    <3>4. at[p].pc = "fetch" /\ at'[p].pc = "tip" /\ at'[p].run = ctx(p)
      BY <1>14, <1>w, <3>3 DEF Fetch, Process, ctx
    <3> QED
      BY <1>p, <2>2, <3>3, <3>4, TurnsKept
  <2>3. CASE /\ file' = [ctx(p) EXCEPT !.landingFrom = head]
             /\ at' = [at EXCEPT ![p].pc = "rebase", ![p].run = file', ![p].onto = base,
                                 ![p].from = head]
    <3>1. PICK run : run = [ctx(p) EXCEPT !.landingFrom = head] /\ file' = run
      BY <2>3
    <3>2. run \in Run /\ run.id = ctx(p).id /\ run.status = ctx(p).status
      BY <1>w, <3>1, TypedWorld DEF WorldTyped, Run, Rev
    <3>3. at' = [at EXCEPT ![p] = [at[p] EXCEPT !.pc = "rebase", !.run = run, !.onto = base, !.from = head]]
      BY <2>3, <3>1
    <3>4. [at[p] EXCEPT !.pc = "rebase", !.run = run, !.onto = base, !.from = head] \in Process
      BY <1>w, <3>2, TypedWorld DEF WorldTyped, Process, Place, Rev
    <3>5. Alone(p) /\ at'[p] = [at[p] EXCEPT !.pc = "rebase", !.run = run, !.onto = base, !.from = head]
      BY <3>3, <3>4, Becomes DEF Typed, TypeOK
    <3>6. at[p].pc = "fetch" /\ at'[p].pc = "rebase" /\ at'[p].run = run
      BY <1>14, <1>w, <3>5 DEF Fetch, Process
    <3> QED
      BY <1>a, <1>p, <3>1, <3>2, <3>5, <3>6, TurnsKept
  <2> QED
    BY <1>14, <2>1, <2>2, <2>3 DEF Fetch
<1>15. ASSUME NEW p \in Proc, Rebase(p) PROVE Turns'
  <2>1. Alone(p) /\ at[p].pc = "rebase" /\ at'[p].pc # "read" /\ SameBut(p)
    BY <1>15, GoStep, EndStep DEF Rebase, Place
  <2>2. file' = file
    BY <1>15 DEF Rebase
  <2> QED
    BY <1>p, <2>1, <2>2, TurnsKept DEF SameBut, ctx
<1>16. ASSUME NEW p \in Proc, Gate(p) PROVE Turns'
  <2>1. PICK run, to :
           /\ to \in {"back", "tip"} /\ Save(p, "gate", to, run) /\ (Green \/ Red)
           /\ run = Checked(p) \/ run = Unchecked(p)
    BY <1>16 DEF Gate
  <2>2. run \in Run /\ run.id = ctx(p).id /\ run.status = ctx(p).status
    <3>1. NoPass \in Fingerprint /\ [tip |-> head', tree |-> tree'] \in Fingerprint
      BY <2>1, PassStep DEF NoPass, Fingerprint, Tree, Rev
    <3> QED
      BY <1>w, <2>1, <3>1 DEF Checked, Unchecked, Run
  <2>3. Save(p, "gate", to, run) /\ to \in {"back", "tip"}
    BY <2>1
  <2>4. /\ Alone(p) /\ at[p].pc = "gate" /\ at'[p].pc = to /\ file' = run
        /\ at'[p].run = run
    <3>1. Saved(p, "gate", to, run)
      BY <2>2, <2>3, SaveStep DEF Place
    <3> QED
      BY <3>1 DEF Saved
  <2> QED
    BY <1>a, <1>p, <2>2, <2>3, <2>4, TurnsKept
<1>17. ASSUME NEW p \in Proc, PutBack(p) PROVE Turns'
  <2>1. Alone(p) /\ at[p].pc = "back" /\ at'[p].pc # "read" /\ SameBut(p)
    BY <1>17, EndStep DEF PutBack, Place
  <2>2. file' = file
    BY <1>17 DEF PutBack
  <2> QED
    BY <1>p, <2>1, <2>2, TurnsKept DEF SameBut, ctx
<1>18. ASSUME NEW p \in Proc, Tip(p) PROVE Turns'
  <2>1. at[p].pc = "tip" /\ file' = file
    BY <1>18 DEF Tip
  <2>2. Alone(p) /\ at'[p].pc # "read" /\ at'[p].run = ctx(p)
    <3>1. CASE at' = [at EXCEPT ![p].pc = "push", ![p].tip = head]
      <4>1. at' = [at EXCEPT ![p] = [at[p] EXCEPT !.pc = "push", !.tip = head]]
        BY <3>1
      <4>2. [at[p] EXCEPT !.pc = "push", !.tip = head] \in Process
        BY <1>w, TypedWorld DEF WorldTyped, Process, Place, Rev
      <4>3. Alone(p) /\ at'[p] = [at[p] EXCEPT !.pc = "push", !.tip = head]
        BY <4>1, <4>2, Becomes DEF Typed, TypeOK
      <4> QED
        BY <1>w, <4>3 DEF Process, ctx
    <3>2. CASE Go(p, "tip", "back")
      BY <3>2, GoStep DEF Place, SameBut, ctx
    <3>3. CASE NotLanded(p, "tip")
      BY <3>3, EndStep DEF Place, SameBut, ctx
    <3> QED
      BY <1>18, <3>1, <3>2, <3>3 DEF Tip
  <2> QED
    BY <1>p, <2>1, <2>2, TurnsKept
<1>19. ASSUME NEW p \in Proc, Push(p) PROVE Turns'
  <2>1. Alone(p) /\ at[p].pc = "push" /\ at'[p].pc # "read" /\ SameBut(p)
    BY <1>19, GoStep, EndStep DEF Push, Place
  <2>2. file' = file
    BY <1>19 DEF Push
  <2> QED
    BY <1>p, <2>1, <2>2, TurnsKept DEF SameBut, ctx
<1>20. ASSUME NEW p \in Proc, Pushed(p) PROVE Turns'
  <2>1. PICK run, to :
           /\ to \in {"record", "view"}
           /\ run = [ctx(p) EXCEPT !.pushed = at[p].tip, !.landingFrom = NONE] /\ file' = run
           /\ at' = [at EXCEPT ![p] = [at[p] EXCEPT !.pc = to, !.run = run, !.ok = FALSE]]
    BY <1>20 DEF Pushed
  <2>2. run \in Run /\ run.id = ctx(p).id /\ run.status = ctx(p).status
    BY <1>w, <2>1 DEF Run, Rev, Process
  <2>3. to \in {"record", "view"}
    BY <2>1
  <2>4. [at[p] EXCEPT !.pc = to, !.run = run, !.ok = FALSE] \in Process
    BY <1>w, <2>2, <2>3 DEF Process, Place
  <2>5. Alone(p) /\ at'[p] = [at[p] EXCEPT !.pc = to, !.run = run, !.ok = FALSE]
    BY <2>1, <2>4, Becomes DEF Typed, TypeOK
  <2>6. at[p].pc = "pushed" /\ at'[p].pc = to /\ at'[p].run = run
    BY <1>20, <1>w, <2>5 DEF Pushed, Process
  <2> QED
    BY <1>a, <1>p, <2>1, <2>2, <2>3, <2>5, <2>6, TurnsKept
<1>21. ASSUME NEW p \in Proc, View(p) PROVE Turns'
  <2>1. Alone(p) /\ at[p].pc = "view" /\ at'[p].pc # "read" /\ SameBut(p)
    BY <1>21, GoStep, EndStep DEF View, Place
  <2>2. file' = file
    BY <1>21 DEF View
  <2> QED
    BY <1>p, <2>1, <2>2, TurnsKept DEF SameBut, ctx
<1>22. ASSUME NEW p \in Proc, Create(p) PROVE Turns'
  <2>1. Alone(p) /\ at[p].pc = "create" /\ at'[p].pc # "read" /\ SameBut(p)
    BY <1>22, EndStep DEF Create, Place
  <2>2. file' = file
    BY <1>22 DEF Create
  <2> QED
    BY <1>p, <2>1, <2>2, TurnsKept DEF SameBut, ctx
<1>23. ASSUME NEW p \in Proc, Record(p) PROVE Turns'
  <2>0. PICK from \in {NONE, ctx(p).landingFrom} :
           /\ from = NONE => settled(p)
           /\ Save(p, "record", "report",
                   [ctx(p) EXCEPT !.landing = IF at[p].ok THEN "ok" ELSE "failed",
                                  !.pr = @ \/ at[p].ok,
                                  !.landingFrom = from])
    BY <1>23 DEF Record
  <2>1. PICK run :
           /\ run = [ctx(p) EXCEPT !.landing = IF at[p].ok THEN "ok" ELSE "failed",
                                   !.pr = @ \/ at[p].ok,
                                   !.landingFrom = from]
           /\ Save(p, "record", "report", run)
    BY <2>0
  <2>2. run \in Run /\ run.id = ctx(p).id /\ run.status = ctx(p).status
    BY <1>w, <2>0, <2>1 DEF Run, Rev
  <2>3. Save(p, "record", "report", run)
    BY <2>1
  <2>4. /\ Alone(p) /\ at[p].pc = "record" /\ at'[p].pc = "report" /\ file' = run
        /\ at'[p].run = run
    <3>1. Saved(p, "record", "report", run)
      BY <2>2, <2>3, SaveStep DEF Place
    <3> QED
      BY <3>1 DEF Saved
  <2> QED
    BY <1>a, <1>p, <2>2, <2>4, TurnsKept
<1>24. ASSUME NEW p \in Proc, Report(p) PROVE Turns'
  <2>1. Alone(p) /\ at[p].pc = "report" /\ at'[p].pc = "off"
    BY <1>24, ExitStep DEF Report
  <2>2. CASE p = Runner
    <3>1. file'.id = ctx(p).id
      BY <1>24, <1>w, <2>2 DEF Report, Run
    <3> QED
      BY <1>a, <1>p, <2>1, <2>2, <3>1, TurnsRunner
  <2>3. CASE p # Runner
    BY <1>24, <1>r, <2>1, <2>3, TurnsLander DEF Report
  <2> QED
    BY <2>2, <2>3
<1>25. ASSUME NEW p \in Proc, Crash(p) PROVE Turns'
  <2>1. Alone(p) /\ at[p].pc # "off" /\ at'[p].pc = "off" /\ file' = file
    BY <1>25, ExitStep DEF Crash
  <2>2. CASE p = Runner
    <3>1. file.status # "completed"
      BY <1>a, <2>1, <2>2 DEF Active
    <3> QED
      BY <2>1, <2>2, <3>1, TurnsRunner
  <2>3. CASE p # Runner
    BY <1>r, <2>1, <2>3, TurnsLander
  <2> QED
    BY <2>2, <2>3
<1>26. CASE StartRun
  <2>1. /\ at' = at /\ file' = NewRun(file.id + 1, file.pushed, file.pr)
        /\ at[Runner].pc = "off" /\ \A l \in Lander : ~Locked(l)
    BY <1>26 DEF StartRun
  <2>2. file.id \in Nat /\ file'.id = file.id + 1
    BY <1>w, <2>1 DEF Run, NewRun
  <2>3. ASSUME NEW l \in Lander PROVE Completed(l)'
    <3>1. Completed(l) /\ ctx(l).id \in Nat
      BY <1>w, <1>r DEF Turns, Run
    <3> QED
      BY <2>1, <2>2, <3>1 DEF Completed, Locked, ctx
  <2> QED
    BY <2>1, <2>3 DEF Turns, Running, OneLocked, Locked
<1>27. CASE BaseMoves
  BY <1>27, TurnsAside DEF BaseMoves
<1>28. CASE OtherPushes
  BY <1>28, TurnsAside DEF OtherPushes
<1>29. CASE UNCHANGED vars
  BY <1>29, TurnsAside DEF vars
<1> QED
  BY <1>1, <1>2, <1>3, <1>4, <1>5, <1>6, <1>7, <1>8, <1>9, <1>10, <1>11, <1>12, <1>13, <1>14,
     <1>15, <1>16, <1>17, <1>18, <1>19, <1>20, <1>21, <1>22, <1>23, <1>24, <1>25, <1>26, <1>27,
     <1>28, <1>29
     DEF Next
-----------------------------------------------------------------------------
(* Kept: what goes out is green, and what is half done can be put back     *)

LEMMA OneActiveNext ==
    ASSUME Turns', NEW p \in Proc, NEW q \in Proc, Active(p)', Active(q)'
    PROVE  p = q
PROOF
<1>1. Runner \notin Lander /\ Proc = Lander \cup {Runner}
  BY LandingAssumption DEF Proc
<1>2. ASSUME NEW l \in Lander, Locked(l)' PROVE at'[Runner].pc = "off"
  BY <1>2 DEF Turns, Running, Completed, Locked, ctx
<1> QED
  BY <1>1, <1>2 DEF Active, Turns, OneLocked

(* The process at work, or the one that begins, is all that need be looked *)
(* at.                                                                     *)
LEMMA KeptFrame ==
    ASSUME Typed, Turns, Turns', NEW p \in Proc, Alone(p),
           Active(p) \/ Active(p)', published' \subseteq green', Recoverable', Landable',
           Active(p)' => at'[p].run.landingFrom = file'.landingFrom /\ PlaceInv(p)'
    PROVE  Kept'
PROOF
<1>1. Runner \notin Lander /\ Proc = Lander \cup {Runner}
  BY LandingAssumption DEF Proc
<1>2. ASSUME NEW q \in Proc, Active(q)' PROVE q = p
  <2>1. CASE Active(p)'
    BY <1>2, <2>1, OneActiveNext
  <2>2. CASE Active(p) /\ q # p
    <3>1. at'[q] = at[q]
      BY <2>2 DEF Alone
    <3>2. Active(q)
      BY <1>2, <3>1 DEF Active, Locked
    <3> QED
      BY <2>2, <3>2, OneActive
  <2> QED
    BY <2>1, <2>2
<1> QED
  BY <1>2 DEF Kept, InStep, ctx

(* A step that leaves the worktree, run.json, what was published and who   *)
(* is at work as they are.                                                 *)
LEMMA KeptAside ==
    ASSUME Kept,
           file' = file, head' = head, half' = half, left' = left,
           published' = published, green' = green,
           \A p \in Proc : Active(p)' => at'[p] = at[p] /\ Active(p),
           at'[Runner].pc = at[Runner].pc
    PROVE  Kept'
PROOF
<1>1. published' \subseteq green' /\ Recoverable' /\ Landable'
  BY DEF Kept, Recoverable, Landable, L
<1>2. ASSUME NEW p \in Proc, Active(p)' PROVE ctx(p)'.landingFrom = file'.landingFrom /\ PlaceInv(p)'
  <2>1. at'[p] = at[p] /\ Active(p)
    BY <1>2
  <2>2. ctx(p).landingFrom = file.landingFrom /\ PlaceInv(p)
    BY <2>1 DEF Kept, InStep
  <2> QED
    BY <2>1, <2>2 DEF PlaceInv, L, ctx
<1> QED
  BY <1>1, <1>2 DEF Kept, InStep

LEMMA KeptStep ==
    ASSUME Typed, Turns, Turns', Kept, [Next]_vars, ~outdated'
    PROVE  Kept'
PROOF
<1> USE DEF keepTree, keepRemote, keepRun, given
<1>w. file \in Run /\ \A p \in Proc : at[p] \in Process /\ ctx(p) \in Run /\ ProcTyped(p)
  BY TypedWorld
<1>c. head \in Commit /\ Made \subseteq Commit /\ NONE \notin Commit
  BY TypedWorld DEF WorldTyped, Commit, NONE
<1>r. Runner \in Proc /\ Lander \subseteq Proc /\ Runner \notin Lander /\ Proc = Lander \cup {Runner}
  BY LandingAssumption DEF Proc
<1>a. \A p \in Proc : Active(p) =>
          /\ ctx(p).id = file.id /\ ctx(p).status = file.status
          /\ file.status = IF p = Runner THEN "running" ELSE "completed"
  BY ActiveRun
<1>p. \A p \in Proc : at[p].pc \notin {"off", "read"} => Active(p)
  BY <1>r DEF Active, Locked
<1>k. \A p \in Proc : Active(p) => ctx(p).landingFrom = L /\ PlaceInv(p)
  BY DEF Kept, InStep, L
<1>i. published \subseteq green /\ Recoverable /\ Landable
  BY DEF Kept
<1>g. \A p \in Proc : at[p].pc \notin {"off", "read", "boot", "booted", "work"} =>
          (IF L = NONE THEN head ELSE L) \in green
  BY <1>a, <1>i, <1>p, <1>r DEF Landable
<1>1. CASE Boot
  <2>1. PICK run : run = [file EXCEPT !.status = "running"] /\ Save(Runner, "off", "boot", run)
    BY <1>1 DEF Boot
  <2>2. Save(Runner, "off", "boot", run)
    BY <2>1
  <2>3. run \in Run /\ run.landingFrom = L /\ run.status = "running"
    BY <1>w, <1>r, <2>1, TypedWorld DEF WorldTyped, Run, Rev, NONE, Commit, L
  <2>4. /\ /\ Alone(Runner) /\ at[Runner].pc = "off" /\ at'[Runner].pc = "boot"
        /\ at'[Runner].run = run /\ file' = run
        /\ at'[Runner].from = at[Runner].from /\ at'[Runner].tip = at[Runner].tip
    <3>1. Saved(Runner, "off", "boot", run)
      BY <1>r, <2>2, <2>3, SaveStep DEF Place
    <3> QED
      BY <3>1 DEF Saved
  <2>5. published' \subseteq green' /\ Recoverable'
    BY <1>1, <1>c, <1>i, <1>k, <1>p, <1>r, <2>1, <2>2, <2>3, <2>4
       DEF Boot, Recoverable, Landable, PlaceInv, L, NONE
  <2>6. Landable'
    BY <1>1, <1>c, <1>i, <1>k, <1>p, <1>r, <2>1, <2>2, <2>3, <2>4, <1>g, <1>a
       DEF Boot, Recoverable, Landable, PlaceInv, L, NONE
  <2>7. at'[Runner].run.landingFrom = file'.landingFrom /\ PlaceInv(Runner)'
    BY <1>1, <1>c, <1>i, <1>k, <1>p, <1>r, <2>1, <2>2, <2>3, <2>4, <1>g, <1>w
       DEF Boot, ProcTyped, Recoverable, Landable, PlaceInv, L, NONE
  <2> QED
    BY <1>p, <1>r, <2>1, <2>2, <2>3, <2>4, <2>5, <2>6, <2>7, KeptFrame DEF Active
<1>2. CASE BootRestore
  <2>1. /\ /\ Alone(Runner) /\ at[Runner].pc = "boot" /\ at'[Runner].pc \in {"work", "booted"}
        /\ SameBut(Runner)
    BY <1>2, <1>r, GoStep DEF BootRestore, Restore, Place
  <2>2. /\ file' = file /\ at'[Runner].run = ctx(Runner) /\ at'[Runner].from = at[Runner].from
        /\ at'[Runner].tip = at[Runner].tip
    BY <1>2, <2>1 DEF BootRestore, SameBut, ctx
  <2>3. \/ ctx(Runner).landingFrom = NONE /\ at'[Runner].pc = "work"
        \/ ctx(Runner).landingFrom # NONE /\ at'[Runner].pc = "booted" /\ head' = ctx(Runner).landingFrom
    BY <1>2, <1>r, GoStep DEF BootRestore, Restore, Place
  <2>4. published' \subseteq green' /\ Recoverable'
    BY <1>2, <1>c, <1>i, <1>k, <1>p, <1>r, <2>1, <2>2, <2>3
       DEF BootRestore, Restore, Recoverable, Landable, PlaceInv, L, NONE
  <2>5. Landable'
    BY <1>2, <1>c, <1>i, <1>k, <1>p, <1>r, <2>1, <2>2, <2>3, <1>g, <1>a
       DEF BootRestore, Restore, Recoverable, Landable, PlaceInv, L, NONE
  <2>6. at'[Runner].run.landingFrom = file'.landingFrom /\ PlaceInv(Runner)'
    BY <1>2, <1>c, <1>i, <1>k, <1>p, <1>r, <2>1, <2>2, <2>3, <1>g, <1>w
       DEF BootRestore, ProcTyped, Restore, Recoverable, Landable, PlaceInv, L, NONE
  <2> QED
    BY <1>p, <1>r, <2>1, <2>2, <2>3, <2>4, <2>5, <2>6, KeptFrame DEF Active
<1>3. CASE BootRestored
  <2>1. PICK run : run = [ctx(Runner) EXCEPT !.landingFrom = NONE] /\ Save(Runner, "booted", "work", run)
    BY <1>3 DEF BootRestored
  <2>2. Save(Runner, "booted", "work", run)
    BY <2>1
  <2>3. run \in Run /\ run.landingFrom = NONE /\ run.status = ctx(Runner).status
    BY <1>w, <1>r, <2>1, TypedWorld DEF WorldTyped, Run, Rev, NONE, Commit, L
  <2>4. /\ /\ Alone(Runner) /\ at[Runner].pc = "booted" /\ at'[Runner].pc = "work"
        /\ at'[Runner].run = run /\ file' = run
        /\ at'[Runner].from = at[Runner].from /\ at'[Runner].tip = at[Runner].tip
    <3>1. Saved(Runner, "booted", "work", run)
      BY <1>r, <2>2, <2>3, SaveStep DEF Place
    <3> QED
      BY <3>1 DEF Saved
  <2>5. published' \subseteq green' /\ Recoverable'
    BY <1>3, <1>c, <1>i, <1>k, <1>p, <1>r, <2>1, <2>2, <2>3, <2>4
       DEF BootRestored, Recoverable, Landable, PlaceInv, L, NONE
  <2>6. Landable'
    BY <1>3, <1>c, <1>i, <1>k, <1>p, <1>r, <2>1, <2>2, <2>3, <2>4, <1>g, <1>a
       DEF BootRestored, Recoverable, Landable, PlaceInv, L, NONE
  <2>7. at'[Runner].run.landingFrom = file'.landingFrom /\ PlaceInv(Runner)'
    BY <1>3, <1>c, <1>i, <1>k, <1>p, <1>r, <2>1, <2>2, <2>3, <2>4, <1>g, <1>w
       DEF BootRestored, ProcTyped, Recoverable, Landable, PlaceInv, L, NONE
  <2> QED
    BY <1>p, <1>r, <2>1, <2>2, <2>3, <2>4, <2>5, <2>6, <2>7, KeptFrame DEF Active
<1>4. CASE BootFailed
  <2>1. Alone(Runner) /\ at[Runner].pc = "boot" /\ at'[Runner].pc = "off"
    BY <1>4, <1>r, ExitStep DEF BootFailed
  <2>2. file'.landingFrom = ctx(Runner).landingFrom /\ file'.status = "failed"
    BY <1>4, <1>w, <1>r DEF BootFailed, Run
  <2>3. L # NONE /\ file'.landingFrom = L
    BY <1>4, <1>k, <1>p, <1>r, <2>1, <2>2 DEF BootFailed, Unrestored
  <2>4. published' \subseteq green' /\ Recoverable' /\ Landable'
    BY <1>4, <1>i, <2>1, <2>2, <2>3
       DEF BootFailed, Unrestored, Recoverable, Landable, L
  <2> QED
    BY <1>p, <1>r, <2>1, <2>4, KeptFrame DEF Active
<1>5. CASE Work
  <2>1. /\ at[Runner].pc = "work" /\ at' = at /\ file' = file /\ head' = left' /\ half' = half
        /\ green' = green /\ published' = published
    BY <1>5 DEF Work
  <2>2. Alone(Runner) /\ Active(Runner) /\ L = NONE /\ file.status = "running"
    BY <1>a, <1>k, <1>p, <1>r, <2>1 DEF Alone, Typed, TypeOK, PlaceInv
  <2>3. published' \subseteq green' /\ Recoverable' /\ Landable'
    BY <1>i, <2>1, <2>2 DEF Recoverable, Landable, L
  <2>4. at'[Runner].run.landingFrom = file'.landingFrom /\ PlaceInv(Runner)'
    BY <1>k, <1>r, <2>1, <2>2 DEF PlaceInv, L, ctx
  <2> QED
    BY <1>r, <2>2, <2>3, <2>4, KeptFrame
<1>6. CASE FinalGates
  <2>1. at[Runner].pc = "work" /\ Active(Runner) /\ L = NONE /\ ~half
    BY <1>6, <1>i, <1>k, <1>p, <1>r DEF FinalGates, Save, Exit, PlaceInv, Recoverable
  <2>2. published' = published /\ half' = half /\ left' = head' /\ green \subseteq green'
    BY <1>6, PassStep DEF FinalGates
  <2>3. CASE Green /\ Save(Runner, "work", "work", Checked(Runner))
    <3>1. PICK run : run = Checked(Runner) /\ Save(Runner, "work", "work", run)
      BY <2>3
    <3>2. run \in Run /\ run.landingFrom = ctx(Runner).landingFrom /\ run.status = ctx(Runner).status
      BY <1>w, <1>r, <2>3, <3>1, PassStep DEF Checked, Run
    <3>3. Save(Runner, "work", "work", run)
      BY <3>1
    <3>4. Alone(Runner) /\ at'[Runner].pc = "work" /\ at'[Runner].run = run /\ file' = run
      <4>1. Saved(Runner, "work", "work", run)
        BY <1>r, <3>2, <3>3, SaveStep DEF Place
      <4> QED
        BY <4>1 DEF Saved
    <3>5. run.landingFrom = NONE /\ run.status = "running"
      BY <1>a, <1>k, <1>r, <2>1, <3>2
    <3>6. published' \subseteq green' /\ Recoverable' /\ Landable'
      BY <1>i, <2>1, <2>2, <3>4, <3>5 DEF Recoverable, Landable, L
    <3>7. at'[Runner].run.landingFrom = file'.landingFrom /\ PlaceInv(Runner)'
      BY <3>4, <3>5 DEF PlaceInv, L
    <3> QED
      BY <1>r, <2>1, <3>4, <3>6, <3>7, KeptFrame
  <2>4. CASE /\ Exit(Runner, "work")
             /\ file' = [Unchecked(Runner) EXCEPT !.status = "stopped"]
    <3>1. Alone(Runner) /\ at'[Runner].pc = "off"
      BY <1>r, <2>4, ExitStep
    <3>2. file'.landingFrom = NONE /\ file'.status = "stopped"
      BY <1>k, <1>r, <1>w, <2>1, <2>4 DEF Unchecked, Run
    <3>3. published' \subseteq green' /\ Recoverable' /\ Landable'
      BY <1>i, <2>1, <2>2, <3>1, <3>2 DEF Recoverable, Landable, L
    <3> QED
      BY <1>r, <2>1, <3>1, <3>3, KeptFrame DEF Active
  <2> QED
    BY <1>6, <2>3, <2>4 DEF FinalGates
<1>7. CASE StartLanding
  <2>1. /\ Alone(Runner) /\ at[Runner].pc = "work" /\ at'[Runner].pc \in {"recover"} /\ SameBut(Runner)
    BY <1>7, <1>r, GoStep DEF StartLanding, Place
  <2>2. /\ file' = file /\ at'[Runner].run = ctx(Runner) /\ at'[Runner].from = at[Runner].from
        /\ at'[Runner].tip = at[Runner].tip
    BY <1>7, <2>1 DEF StartLanding, SameBut, ctx
  <2>3. head \in green /\ L = NONE
    BY <1>7, <1>c, <1>k, <1>p, <1>r, <1>w, <2>1
       DEF StartLanding, checked, ProcTyped, RunTyped, PlaceInv
  <2>4. published' \subseteq green' /\ Recoverable'
    BY <1>7, <1>c, <1>i, <1>k, <1>p, <1>r, <2>1, <2>2, <2>3
       DEF StartLanding, Recoverable, Landable, PlaceInv, L, NONE
  <2>5. Landable'
    BY <1>7, <1>c, <1>i, <1>k, <1>p, <1>r, <2>1, <2>2, <2>3, <1>g, <1>a
       DEF StartLanding, Recoverable, Landable, PlaceInv, L, NONE
  <2>6. at'[Runner].run.landingFrom = file'.landingFrom /\ PlaceInv(Runner)'
    BY <1>7, <1>c, <1>i, <1>k, <1>p, <1>r, <2>1, <2>2, <2>3, <1>g, <1>w
       DEF StartLanding, ProcTyped, Recoverable, Landable, PlaceInv, L, NONE
  <2> QED
    BY <1>p, <1>r, <2>1, <2>2, <2>3, <2>4, <2>5, <2>6, KeptFrame DEF Active
<1>8. CASE Stop
  <2>1. Alone(Runner) /\ at[Runner].pc = "work" /\ at'[Runner].pc = "off"
    BY <1>8, <1>r, ExitStep DEF Stop
  <2>2. file'.landingFrom = L /\ file'.status = "stopped"
    BY <1>8, <1>k, <1>p, <1>w, <1>r, <2>1 DEF Stop, Run
  <2>3. published' \subseteq green' /\ Recoverable' /\ Landable'
    BY <1>8, <1>i, <2>1, <2>2 DEF Stop, Recoverable, Landable, L
  <2> QED
    BY <1>p, <1>r, <2>1, <2>3, KeptFrame DEF Active
<1>9. CASE AskStop
  BY <1>9, KeptAside DEF AskStop, Active, Locked
<1>10. ASSUME NEW l \in Lander, Read(l) PROVE Kept'
  <2>1. [at[l] EXCEPT !.pc = "read", !.run = file] \in Process
    BY <1>w, <1>r DEF Process, Place
  <2>2. at' = [at EXCEPT ![l] = [at[l] EXCEPT !.pc = "read", !.run = file]]
    BY <1>10 DEF Read
  <2>3. Alone(l) /\ at'[l] = [at[l] EXCEPT !.pc = "read", !.run = file]
    BY <1>r, <2>1, <2>2, Becomes DEF Typed, TypeOK
  <2>4. at'[l].pc = "read"
    BY <1>w, <1>r, <2>3 DEF Process
  <2>5. \A p \in Proc : Active(p)' => at'[p] = at[p] /\ Active(p)
    BY <1>r, <2>3, <2>4 DEF Active, Locked, Alone
  <2> QED
    BY <1>10, <1>r, <2>3, <2>5, KeptAside DEF Read, Alone
<1>11. ASSUME NEW l \in Lander, TakeLock(l) PROVE Kept'
  <2>1. Alone(l) /\ file' = file
    BY <1>11, <1>r, GoStep, ExitStep DEF TakeLock, Place
  <2>2. CASE at'[l].pc = "recover" /\ SameBut(l) /\ ctx(l).landingFrom = file.landingFrom
    <3>1. Active(l)'
      BY <1>r, <2>2 DEF Active, Locked
    <3>2. at[Runner].pc = "off"
      BY <1>r, <2>1, <2>2, <3>1 DEF Turns, Running, Completed, Locked, Active, Alone, ctx
    <3>3. published' \subseteq green' /\ Recoverable' /\ Landable'
      BY <1>11, <1>i, <1>r, <2>1, <3>2 DEF TakeLock, Recoverable, Landable, L, Alone
    <3>4. at'[l].run.landingFrom = file'.landingFrom /\ PlaceInv(l)'
      BY <2>1, <2>2 DEF PlaceInv, SameBut, ctx
    <3> QED
      BY <1>r, <2>1, <3>1, <3>3, <3>4, KeptFrame
  <2>3. CASE at'[l].pc = "off" /\ outdated' = outdated
    <3>1. \A p \in Proc : Active(p)' => at'[p] = at[p] /\ Active(p)
      BY <1>r, <2>1, <2>3 DEF Active, Locked, Alone
    <3> QED
      BY <1>11, <1>r, <2>1, <3>1, KeptAside DEF TakeLock, Alone
  <2> QED
    BY <1>11, <1>r, <2>2, <2>3, GoStep, ExitStep DEF TakeLock, Place
<1>12. ASSUME NEW p \in Proc, Recover(p) PROVE Kept'
  <2>1. /\ /\ Alone(p) /\ at[p].pc = "recover" /\ at'[p].pc \in {"fetch", "recovered", "record"}
        /\ SameBut(p)
    BY <1>12, <1>r, GoStep, EndStep DEF Recover, Restore, Place
  <2>2. file' = file /\ at'[p].run = ctx(p) /\ at'[p].from = at[p].from /\ at'[p].tip = at[p].tip
    BY <1>12, <2>1 DEF Recover, SameBut, ctx
  <2>3. \/ ctx(p).landingFrom = NONE /\ at'[p].pc = "fetch"
        \/ ctx(p).landingFrom # NONE /\ at'[p].pc = "recovered" /\ head' = ctx(p).landingFrom /\ half' = FALSE
        \/ ctx(p).landingFrom # NONE /\ at'[p].pc = "record" /\ ~at'[p].ok
    BY <1>12, <1>r, GoStep, EndStep DEF Recover, Restore, Unrestored, Place
  <2>4. published' \subseteq green' /\ Recoverable'
    <3>1. L = ctx(p).landingFrom
      BY <1>k, <1>p, <2>1
    <3>2. /\ left' = left /\ published' = published /\ green' = green
          /\ ctx(p).landingFrom = NONE => head' = head /\ half' = half
      BY <1>12, <2>1 DEF Recover, Restore, Unrestored
    <3> QED
      BY <1>i, <2>2, <3>1, <3>2 DEF Recoverable, L
  <2>5. Landable'
    BY <1>12, <1>c, <1>i, <1>k, <1>p, <1>r, <2>1, <2>2, <2>3, <1>g, <1>a
       DEF Recover, Restore, Unrestored, Recoverable, Landable, PlaceInv, L, NONE
  <2>6. at'[p].run.landingFrom = file'.landingFrom /\ PlaceInv(p)'
    BY <1>12, <1>c, <1>i, <1>k, <1>p, <1>r, <2>1, <2>2, <2>3, <1>g, <1>w
       DEF Recover, ProcTyped, Restore, Recoverable, Landable, PlaceInv, L, NONE
  <2> QED
    BY <1>p, <1>r, <2>1, <2>2, <2>3, <2>4, <2>5, <2>6, KeptFrame DEF Active
<1>13. ASSUME NEW p \in Proc, Recovered(p) PROVE Kept'
  <2>1. PICK run : run = [ctx(p) EXCEPT !.landingFrom = NONE] /\ Save(p, "recovered", "fetch", run)
    BY <1>13 DEF Recovered
  <2>2. Save(p, "recovered", "fetch", run)
    BY <2>1
  <2>3. run \in Run /\ run.landingFrom = NONE /\ run.status = ctx(p).status
    BY <1>w, <1>r, <2>1, TypedWorld DEF WorldTyped, Run, Rev, NONE, Commit, L
  <2>4. /\ Alone(p) /\ at[p].pc = "recovered" /\ at'[p].pc = "fetch" /\ at'[p].run = run /\ file' = run
        /\ at'[p].from = at[p].from /\ at'[p].tip = at[p].tip
    <3>1. Saved(p, "recovered", "fetch", run)
      BY <1>r, <2>2, <2>3, SaveStep DEF Place
    <3> QED
      BY <3>1 DEF Saved
  <2>5. published' \subseteq green' /\ Recoverable'
    BY <1>13, <1>c, <1>i, <1>k, <1>p, <1>r, <2>1, <2>2, <2>3, <2>4
       DEF Recovered, Recoverable, Landable, PlaceInv, L, NONE
  <2>6. Landable'
    BY <1>13, <1>c, <1>i, <1>k, <1>p, <1>r, <2>1, <2>2, <2>3, <2>4, <1>g, <1>a
       DEF Recovered, Recoverable, Landable, PlaceInv, L, NONE
  <2>7. at'[p].run.landingFrom = file'.landingFrom /\ PlaceInv(p)'
    BY <1>13, <1>c, <1>i, <1>k, <1>p, <1>r, <2>1, <2>2, <2>3, <2>4, <1>g, <1>w
       DEF Recovered, ProcTyped, Recoverable, Landable, PlaceInv, L, NONE
  <2> QED
    BY <1>p, <1>r, <2>1, <2>2, <2>3, <2>4, <2>5, <2>6, <2>7, KeptFrame DEF Active
<1>14. ASSUME NEW p \in Proc, Fetch(p) PROVE Kept'
  <2>1. /\ at[p].pc = "fetch" /\ Active(p) /\ L = NONE /\ ctx(p).landingFrom = NONE /\ head \in green
        /\ published \subseteq green /\ ~half /\ head \in {left} \cup published
    BY <1>14, <1>g, <1>i, <1>k, <1>p DEF Fetch, PlaceInv, Recoverable
  <2>2. head' = head /\ half' = half /\ left' = left /\ green' = green /\ published' = published
    BY <1>14 DEF Fetch
  <2>3. CASE NotLanded(p, "fetch") /\ file' = file
    <3>1. Alone(p) /\ at'[p].pc = "record" /\ SameBut(p) /\ ~at'[p].ok
      BY <2>3, EndStep DEF Place
    <3>2. published' \subseteq green' /\ Recoverable' /\ Landable'
      BY <1>i, <2>1, <2>2, <2>3 DEF Recoverable, Landable, L
    <3>3. at'[p].run.landingFrom = file'.landingFrom /\ PlaceInv(p)'
      BY <2>1, <2>3, <3>1 DEF PlaceInv, SameBut, L, ctx
    <3> QED
      BY <2>1, <3>1, <3>2, <3>3, KeptFrame
  <2>4. CASE /\ at' = [at EXCEPT ![p].pc = "tip", ![p].onto = base, ![p].from = NONE] /\ file' = file
    <3>1. at' = [at EXCEPT ![p] = [at[p] EXCEPT !.pc = "tip", !.onto = base, !.from = NONE]]
      BY <2>4
    <3>2. [at[p] EXCEPT !.pc = "tip", !.onto = base, !.from = NONE] \in Process
      BY <1>w, TypedWorld DEF WorldTyped, Process, Place, Rev
    <3>3. Alone(p) /\ at'[p] = [at[p] EXCEPT !.pc = "tip", !.onto = base, !.from = NONE]
      BY <3>1, <3>2, Becomes DEF Typed, TypeOK
    <3>4. at'[p].pc = "tip" /\ at'[p].run = ctx(p) /\ at'[p].from = NONE
      BY <1>w, <3>3 DEF Process, ctx
    <3>5. published' \subseteq green' /\ Recoverable' /\ Landable'
      BY <1>i, <2>1, <2>2, <2>4 DEF Recoverable, Landable, L
    <3>6. at'[p].run.landingFrom = file'.landingFrom /\ PlaceInv(p)'
      BY <2>1, <2>2, <2>4, <3>4 DEF PlaceInv, L
    <3> QED
      BY <2>1, <3>3, <3>5, <3>6, KeptFrame
  <2>5. CASE /\ file' = [ctx(p) EXCEPT !.landingFrom = head]
             /\ at' = [at EXCEPT ![p].pc = "rebase", ![p].run = file', ![p].onto = base,
                                 ![p].from = head]
    <3>1. PICK run : run = [ctx(p) EXCEPT !.landingFrom = head] /\ file' = run
      BY <2>5
    <3>2. run \in Run /\ run.landingFrom = head
      BY <1>c, <1>w, <3>1 DEF Run, Rev
    <3>3. at' = [at EXCEPT ![p] = [at[p] EXCEPT !.pc = "rebase", !.run = run, !.onto = base, !.from = head]]
      BY <2>5, <3>1
    <3>4. [at[p] EXCEPT !.pc = "rebase", !.run = run, !.onto = base, !.from = head] \in Process
      BY <1>w, <3>2, TypedWorld DEF WorldTyped, Process, Place, Rev
    <3>5. Alone(p) /\ at'[p] = [at[p] EXCEPT !.pc = "rebase", !.run = run, !.onto = base, !.from = head]
      BY <3>3, <3>4, Becomes DEF Typed, TypeOK
    <3>6. at'[p].pc = "rebase" /\ at'[p].run = run /\ at'[p].from = head
      BY <1>w, <3>5 DEF Process
    <3>7. published' \subseteq green' /\ Recoverable' /\ Landable'
      BY <1>c, <1>i, <2>1, <2>2, <3>1, <3>2 DEF Recoverable, Landable, L
    <3>8. at'[p].run.landingFrom = file'.landingFrom /\ PlaceInv(p)'
      BY <2>1, <2>2, <3>1, <3>2, <3>6 DEF PlaceInv, L
    <3> QED
      BY <2>1, <3>5, <3>7, <3>8, KeptFrame
  <2> QED
    BY <1>14, <2>3, <2>4, <2>5 DEF Fetch
<1>15. ASSUME NEW p \in Proc, Rebase(p) PROVE Kept'
  <2>1. /\ Alone(p) /\ at[p].pc = "rebase" /\ at'[p].pc \in {"gate", "record"} /\ SameBut(p)
    BY <1>15, <1>r, GoStep, EndStep DEF Rebase, Place
  <2>2. file' = file /\ at'[p].run = ctx(p) /\ at'[p].from = at[p].from /\ at'[p].tip = at[p].tip
    BY <1>15, <2>1 DEF Rebase, SameBut, ctx
  <2>3. \/ at'[p].pc = "gate" /\ half' = half
        \/ at'[p].pc = "record" /\ ~at'[p].ok
    BY <1>15, GoStep, EndStep DEF Rebase, Place
  <2>4. published' \subseteq green' /\ Recoverable'
    BY <1>15, <1>c, <1>i, <1>k, <1>p, <1>r, <2>1, <2>2, <2>3
       DEF Rebase, Recoverable, Landable, PlaceInv, L, NONE
  <2>5. Landable'
    BY <1>15, <1>c, <1>i, <1>k, <1>p, <1>r, <2>1, <2>2, <2>3, <1>g, <1>a
       DEF Rebase, Recoverable, Landable, PlaceInv, L, NONE
  <2>6. at'[p].run.landingFrom = file'.landingFrom /\ PlaceInv(p)'
    BY <1>15, <1>c, <1>i, <1>k, <1>p, <1>r, <2>1, <2>2, <2>3, <1>g, <1>w
       DEF Rebase, ProcTyped, Recoverable, Landable, PlaceInv, L, NONE
  <2> QED
    BY <1>p, <1>r, <2>1, <2>2, <2>3, <2>4, <2>5, <2>6, KeptFrame DEF Active
<1>16. ASSUME NEW p \in Proc, Gate(p) PROVE Kept'
  <2>1. PICK run, to :
           /\ Save(p, "gate", to, run)
           /\ \/ Green /\ run = Checked(p) /\ to \in {"back", "tip"}
              \/ Red /\ run = Unchecked(p) /\ to = "back"
    BY <1>16 DEF Gate
  <2>2. run \in Run /\ run.landingFrom = ctx(p).landingFrom /\ run.status = ctx(p).status
    <3>1. NoPass \in Fingerprint /\ [tip |-> head', tree |-> tree'] \in Fingerprint
      BY <2>1, PassStep DEF NoPass, Fingerprint, Tree, Rev
    <3> QED
      BY <1>w, <2>1, <3>1 DEF Checked, Unchecked, Run
  <2>3. /\ Save(p, "gate", to, run) /\ to \in {"back", "tip"} /\ green \subseteq green'
        /\ to = "tip" => head' \in green'
    BY <2>1, PassStep
  <2>4. /\ Alone(p) /\ at[p].pc = "gate" /\ at'[p].pc = to /\ at'[p].run = run /\ file' = run
        /\ at'[p].from = at[p].from
    <3>1. Saved(p, "gate", to, run)
      BY <2>2, <2>3, SaveStep DEF Place
    <3> QED
      BY <3>1 DEF Saved
  <2>5. Active(p) /\ L = at[p].from /\ ctx(p).landingFrom = L /\ L # NONE /\ L \in green /\ ~half
    BY <1>g, <1>k, <1>p, <1>w, <2>4 DEF PlaceInv, ProcTyped
  <2>6. published' = published /\ half' = half /\ left' = left
    BY <1>16 DEF Gate
  <2>7. published' \subseteq green' /\ Recoverable' /\ Landable'
    BY <1>i, <2>2, <2>3, <2>4, <2>5, <2>6 DEF Recoverable, Landable, L
  <2>8. at'[p].run.landingFrom = file'.landingFrom /\ PlaceInv(p)'
    BY <2>2, <2>3, <2>4, <2>5, <2>6 DEF PlaceInv, L
  <2> QED
    BY <2>4, <2>5, <2>7, <2>8, KeptFrame
<1>17. ASSUME NEW p \in Proc, PutBack(p) PROVE Kept'
  <2>1. /\ Alone(p) /\ at[p].pc = "back" /\ at'[p].pc \in {"record"} /\ SameBut(p)
    BY <1>17, <1>r, EndStep DEF PutBack, Place
  <2>2. file' = file /\ at'[p].run = ctx(p) /\ at'[p].from = at[p].from /\ at'[p].tip = at[p].tip
    BY <1>17, <2>1 DEF PutBack, SameBut, ctx
  <2>3. ~at'[p].ok /\ at[p].from # NONE /\ L = at[p].from
    BY <1>17, <1>w, <1>k, <1>p, <2>1, EndStep DEF PutBack, Place, ProcTyped, PlaceInv
  <2>4. published' \subseteq green' /\ Recoverable'
    BY <1>17, <1>c, <1>i, <1>k, <1>p, <1>r, <2>1, <2>2, <2>3
       DEF PutBack, Recoverable, Landable, PlaceInv, L, NONE
  <2>5. Landable'
    BY <1>17, <1>c, <1>i, <1>k, <1>p, <1>r, <2>1, <2>2, <2>3, <1>g, <1>a
       DEF PutBack, Recoverable, Landable, PlaceInv, L, NONE
  <2>6. at'[p].run.landingFrom = file'.landingFrom /\ PlaceInv(p)'
    BY <1>17, <1>c, <1>i, <1>k, <1>p, <1>r, <2>1, <2>2, <2>3, <1>g, <1>w
       DEF PutBack, ProcTyped, Recoverable, Landable, PlaceInv, L, NONE
  <2> QED
    BY <1>p, <1>r, <2>1, <2>2, <2>3, <2>4, <2>5, <2>6, KeptFrame DEF Active
<1>18. ASSUME NEW p \in Proc, Tip(p) PROVE Kept'
  <2>1. /\ at[p].pc = "tip" /\ Active(p) /\ ctx(p).landingFrom = L
        /\ ~half /\ head \in green /\ L = at[p].from
    BY <1>18, <1>k, <1>p DEF Tip, Go, NotLanded, PlaceInv
  <2>2. /\ file' = file /\ head' = head /\ half' = half /\ left' = left
        /\ green' = green /\ published' = published
    BY <1>18 DEF Tip
  <2>3. published' \subseteq green' /\ Recoverable'
    BY <1>i, <2>2 DEF Recoverable, L
  <2>4. Landable'
    BY <1>g, <2>1, <2>2 DEF Landable, L
  <2>5. /\ Alone(p) /\ at'[p].run = ctx(p) /\ at'[p].from = at[p].from
        /\ \/ at'[p].pc = "push" /\ at'[p].tip = head
           \/ at'[p].pc = "back"
           \/ at'[p].pc = "record" /\ ~at'[p].ok
    <3>1. CASE at' = [at EXCEPT ![p].pc = "push", ![p].tip = head]
      <4>1. at' = [at EXCEPT ![p] = [at[p] EXCEPT !.pc = "push", !.tip = head]]
        BY <3>1
      <4>2. [at[p] EXCEPT !.pc = "push", !.tip = head] \in Process
        BY <1>w, TypedWorld DEF WorldTyped, Process, Place, Rev
      <4>3. Alone(p) /\ at'[p] = [at[p] EXCEPT !.pc = "push", !.tip = head]
        BY <4>1, <4>2, Becomes DEF Typed, TypeOK
      <4> QED
        BY <1>w, <4>3 DEF Process, ctx
    <3>2. CASE Go(p, "tip", "back")
      BY <3>2, GoStep DEF Place, SameBut, ctx
    <3>3. CASE NotLanded(p, "tip")
      BY <3>3, EndStep DEF Place, SameBut, ctx
    <3> QED
      BY <1>18, <3>1, <3>2, <3>3 DEF Tip
  <2>6. at'[p].run.landingFrom = file'.landingFrom /\ PlaceInv(p)'
    BY <2>1, <2>2, <2>5 DEF PlaceInv, L
  <2> QED
    BY <2>1, <2>3, <2>4, <2>5, <2>6, KeptFrame
<1>19. ASSUME NEW p \in Proc, Push(p) PROVE Kept'
  <2>1. /\ Alone(p) /\ at[p].pc = "push" /\ at'[p].pc \in {"pushed", "record"} /\ SameBut(p)
    BY <1>19, <1>r, GoStep, EndStep DEF Push, Place
  <2>2. file' = file /\ at'[p].run = ctx(p) /\ at'[p].from = at[p].from /\ at'[p].tip = at[p].tip
    BY <1>19, <2>1 DEF Push, SameBut, ctx
  <2>3. \/ at'[p].pc = "pushed" /\ published' = published \cup {at[p].tip}
        \/ at'[p].pc = "record" /\ ~at'[p].ok
    BY <1>19, GoStep, EndStep DEF Push, Place
  <2>4. published' \subseteq green' /\ Recoverable'
    BY <1>19, <1>c, <1>i, <1>k, <1>p, <1>r, <2>1, <2>2, <2>3
       DEF Push, Recoverable, Landable, PlaceInv, L, NONE
  <2>5. Landable'
    BY <1>19, <1>c, <1>i, <1>k, <1>p, <1>r, <2>1, <2>2, <2>3, <1>g, <1>a
       DEF Push, Recoverable, Landable, PlaceInv, L, NONE
  <2>6. at'[p].run.landingFrom = file'.landingFrom /\ PlaceInv(p)'
    BY <1>19, <1>c, <1>i, <1>k, <1>p, <1>r, <2>1, <2>2, <2>3, <1>g, <1>w
       DEF Push, ProcTyped, Recoverable, Landable, PlaceInv, L, NONE
  <2> QED
    BY <1>p, <1>r, <2>1, <2>2, <2>3, <2>4, <2>5, <2>6, KeptFrame DEF Active
<1>20. ASSUME NEW p \in Proc, Pushed(p) PROVE Kept'
  <2>1. PICK run, to :
           /\ to \in {"record", "view"}
           /\ run = [ctx(p) EXCEPT !.pushed = at[p].tip, !.landingFrom = NONE] /\ file' = run
           /\ at' = [at EXCEPT ![p] = [at[p] EXCEPT !.pc = to, !.run = run, !.ok = FALSE]]
    BY <1>20 DEF Pushed
  <2>2. run \in Run /\ run.landingFrom = NONE
    BY <1>w, <2>1 DEF Run, Rev, Process
  <2>3. to \in {"record", "view"}
    BY <2>1
  <2>4. [at[p] EXCEPT !.pc = to, !.run = run, !.ok = FALSE] \in Process
    BY <1>w, <2>2, <2>3 DEF Process, Place
  <2>5. Alone(p) /\ at'[p] = [at[p] EXCEPT !.pc = to, !.run = run, !.ok = FALSE]
    BY <2>1, <2>4, Becomes DEF Typed, TypeOK
  <2>6. at[p].pc = "pushed" /\ at'[p].pc = to /\ at'[p].run = run /\ ~at'[p].ok /\ file' = run
    BY <1>20, <1>w, <2>1, <2>5 DEF Pushed, Process
  <2>7. Active(p) /\ ~half /\ head \in green /\ head \in published
    BY <1>k, <1>p, <2>6 DEF PlaceInv
  <2>8. /\ published' = published /\ head' = head /\ half' = half /\ left' = left /\ green' = green
    BY <1>20 DEF Pushed
  <2>9. published' \subseteq green' /\ Recoverable' /\ Landable'
    BY <1>i, <2>2, <2>6, <2>7, <2>8 DEF Recoverable, Landable, L
  <2>10. at'[p].run.landingFrom = file'.landingFrom /\ PlaceInv(p)'
    BY <2>2, <2>3, <2>6 DEF PlaceInv, L
  <2> QED
    BY <2>5, <2>7, <2>9, <2>10, KeptFrame
<1>21. ASSUME NEW p \in Proc, View(p) PROVE Kept'
  <2>1. /\ Alone(p) /\ at[p].pc = "view" /\ at'[p].pc \in {"create", "record"} /\ SameBut(p)
    BY <1>21, <1>r, GoStep, EndStep DEF View, Place
  <2>2. file' = file /\ at'[p].run = ctx(p) /\ at'[p].from = at[p].from /\ at'[p].tip = at[p].tip
    BY <1>21, <2>1 DEF View, SameBut, ctx
  <2>3. published' \subseteq green' /\ Recoverable'
    BY <1>21, <1>c, <1>i, <1>k, <1>p, <1>r, <2>1, <2>2
       DEF View, Recoverable, Landable, PlaceInv, L, NONE
  <2>4. Landable'
    BY <1>21, <1>c, <1>i, <1>k, <1>p, <1>r, <2>1, <2>2, <1>g, <1>a
       DEF View, Recoverable, Landable, PlaceInv, L, NONE
  <2>5. at'[p].run.landingFrom = file'.landingFrom /\ PlaceInv(p)'
    BY <1>21, <1>c, <1>i, <1>k, <1>p, <1>r, <2>1, <2>2, <1>g, <1>w
       DEF View, ProcTyped, Recoverable, Landable, PlaceInv, L, NONE
  <2> QED
    BY <1>p, <1>r, <2>1, <2>2, <2>3, <2>4, <2>5, KeptFrame DEF Active
<1>22. ASSUME NEW p \in Proc, Create(p) PROVE Kept'
  <2>1. /\ Alone(p) /\ at[p].pc = "create" /\ at'[p].pc \in {"record"} /\ SameBut(p)
    BY <1>22, <1>r, EndStep DEF Create, Place
  <2>2. file' = file /\ at'[p].run = ctx(p) /\ at'[p].from = at[p].from /\ at'[p].tip = at[p].tip
    BY <1>22, <2>1 DEF Create, SameBut, ctx
  <2>3. published' \subseteq green' /\ Recoverable'
    BY <1>22, <1>c, <1>i, <1>k, <1>p, <1>r, <2>1, <2>2
       DEF Create, Recoverable, Landable, PlaceInv, L, NONE
  <2>4. Landable'
    BY <1>22, <1>c, <1>i, <1>k, <1>p, <1>r, <2>1, <2>2, <1>g, <1>a
       DEF Create, Recoverable, Landable, PlaceInv, L, NONE
  <2>5. at'[p].run.landingFrom = file'.landingFrom /\ PlaceInv(p)'
    BY <1>22, <1>c, <1>i, <1>k, <1>p, <1>r, <2>1, <2>2, <1>g, <1>w
       DEF Create, ProcTyped, Recoverable, Landable, PlaceInv, L, NONE
  <2> QED
    BY <1>p, <1>r, <2>1, <2>2, <2>3, <2>4, <2>5, KeptFrame DEF Active
<1>23. ASSUME NEW p \in Proc, Record(p) PROVE Kept'
  <2>0. PICK from \in {NONE, ctx(p).landingFrom} :
           /\ from = NONE => settled(p)
           /\ Save(p, "record", "report",
                   [ctx(p) EXCEPT !.landing = IF at[p].ok THEN "ok" ELSE "failed",
                                  !.pr = @ \/ at[p].ok,
                                  !.landingFrom = from])
    BY <1>23 DEF Record
  <2>1. PICK run :
           /\ run = [ctx(p) EXCEPT !.landing = IF at[p].ok THEN "ok" ELSE "failed",
                                   !.pr = @ \/ at[p].ok,
                                   !.landingFrom = from]
           /\ Save(p, "record", "report", run)
    BY <2>0
  <2>2. /\ run \in Run
        /\ \/ run.landingFrom = ctx(p).landingFrom
           \/ run.landingFrom = NONE /\ settled(p)
    BY <1>w, <2>0, <2>1 DEF Run, Rev
  <2>3. Save(p, "record", "report", run)
    BY <2>1
  <2>4. /\ Alone(p) /\ at[p].pc = "record" /\ at'[p].pc = "report" /\ file' = run
        /\ at'[p].run = run
    <3>1. Saved(p, "record", "report", run)
      BY <2>2, <2>3, SaveStep DEF Place
    <3> QED
      BY <3>1 DEF Saved
  <2>5. /\ Active(p) /\ ctx(p).landingFrom = L /\ (at[p].ok => L = NONE)
        /\ (IF L = NONE THEN head ELSE L) \in green
    BY <1>g, <1>k, <1>p, <2>4 DEF PlaceInv
  <2>6. published' = published /\ head' = head /\ half' = half /\ left' = left /\ green' = green
    BY <1>23 DEF Record
  <2>7. \/ L = NONE /\ run.landingFrom = NONE
        \/ L # NONE /\ run.landingFrom = L
        \/ L # NONE /\ run.landingFrom = NONE /\ ~half /\ head = L
    BY <2>2, <2>5 DEF settled
  <2>8. published' \subseteq green' /\ Recoverable' /\ Landable'
    BY <1>i, <2>4, <2>5, <2>6, <2>7 DEF Recoverable, Landable, L
  <2>9. at'[p].run.landingFrom = file'.landingFrom /\ PlaceInv(p)'
    BY <2>4 DEF PlaceInv
  <2> QED
    BY <2>4, <2>5, <2>8, <2>9, KeptFrame
<1>24. ASSUME NEW p \in Proc, Report(p) PROVE Kept'
  <2>1. Alone(p) /\ at[p].pc = "report" /\ at'[p].pc = "off"
    BY <1>24, ExitStep DEF Report
  <2>2. Active(p) /\ ctx(p).landingFrom = L /\ (IF L = NONE THEN head ELSE L) \in green
    BY <1>g, <1>k, <1>p, <2>1
  <2>3. published' = published /\ head' = head /\ half' = half /\ left' = left /\ green' = green
    BY <1>24 DEF Report
  <2>4. file'.landingFrom = L
    BY <1>24, <1>w, <2>2 DEF Report, Run, L
  <2>5. published' \subseteq green' /\ Recoverable' /\ Landable'
    BY <1>i, <2>2, <2>3, <2>4 DEF Recoverable, Landable, L
  <2>6. ~Active(p)'
    BY <2>1 DEF Active, Locked
  <2> QED
    BY <2>1, <2>2, <2>5, <2>6, KeptFrame
<1>25. ASSUME NEW p \in Proc, Crash(p) PROVE Kept'
  <2>1. /\ at[p].pc # "off" /\ file' = file /\ published' = published /\ head' = head
        /\ left' = left /\ green' = green /\ (half' = half \/ at[p].pc = "rebase")
    BY <1>25 DEF Crash
  <2>2. Alone(p) /\ at'[p].pc = "off"
    BY <1>25, ExitStep DEF Crash
  <2>3. ~Active(p)'
    BY <2>2 DEF Active, Locked
  <2>4. CASE Active(p)
    <3>1. half' = half \/ L # NONE
      BY <1>k, <1>p, <1>w, <2>1 DEF PlaceInv, ProcTyped
    <3>2. published' \subseteq green' /\ Recoverable'
      BY <1>i, <2>1, <3>1 DEF Recoverable, L
    <3>3. Landable'
      BY <1>i, <1>r, <2>1, <2>2 DEF Landable, L, Alone
    <3> QED
      BY <2>2, <2>3, <2>4, <3>2, <3>3, KeptFrame
  <2>5. CASE ~Active(p)
    <3>1. p # Runner /\ half' = half
      BY <1>p, <2>1, <2>5 DEF Active
    <3>2. \A q \in Proc : Active(q)' => at'[q] = at[q] /\ Active(q)
      BY <1>r, <2>2, <2>3 DEF Active, Locked, Alone
    <3> QED
      BY <1>r, <2>1, <2>2, <3>1, <3>2, KeptAside DEF Alone
  <2> QED
    BY <2>4, <2>5
<1>26. CASE StartRun
  <2>1. /\ at' = at /\ file'.landingFrom = NONE /\ file'.status = "running"
        /\ at[Runner].pc = "off" /\ ~half /\ \A l \in Lander : ~Locked(l)
    BY <1>26 DEF StartRun, NewRun
  <2>2. left' = head /\ head' = head /\ half' = half /\ published' = published /\ green' = green
    BY <1>26 DEF StartRun
  <2>3. \A p \in Proc : ~Active(p)'
    BY <1>r, <2>1 DEF Active, Locked
  <2> QED
    BY <1>i, <2>1, <2>2, <2>3 DEF Kept, InStep, Recoverable, Landable, L
<1>27. CASE BaseMoves
  BY <1>27, KeptAside DEF BaseMoves, Active, Locked
<1>28. CASE OtherPushes
  BY <1>28, KeptAside DEF OtherPushes, Active, Locked
<1>29. CASE UNCHANGED vars
  BY <1>29, KeptAside DEF vars, Active, Locked
<1> QED
  BY <1>1, <1>2, <1>3, <1>4, <1>5, <1>6, <1>7, <1>8, <1>9, <1>10, <1>11, <1>12, <1>13, <1>14,
     <1>15, <1>16, <1>17, <1>18, <1>19, <1>20, <1>21, <1>22, <1>23, <1>24, <1>25, <1>26, <1>27,
     <1>28, <1>29
     DEF Next

-----------------------------------------------------------------------------
(* Theorems                                                                *)

LEMMA OutdatedStays ==
    ASSUME Typed, [Next]_vars, outdated
    PROVE  outdated'
PROOF
BY DEF Next, vars, keepTree, Boot, BootRestore, BootRestored, BootFailed, Unrestored, Work,
       FinalGates, StartLanding, Stop, AskStop, Read, TakeLock, Recover, Recovered, Restore, Fetch, Rebase, Gate,
       PutBack, Tip, Push, Pushed, View, Create, Record, Report, Crash, StartRun, BaseMoves,
       OtherPushes

LEMMA InvInit == Init => IInv
PROOF
<1> SUFFICES ASSUME Init PROVE IInv
  OBVIOUS
<1>1. /\ file = [id |-> 1, status |-> "running", landingFrom |-> NONE, pushed |-> NONE,
                 pr |-> FALSE, landing |-> "none", checked |-> NoPass]
      /\ file \in Run
  BY LandingAssumption DEF Init, NewRun, NoPass, Run, Fingerprint, Tree, Rev, NONE
<1>2. Len(commits) = 1 /\ Made = {1}
      /\ commits \in Seq([base : 0 .. BASES, by : {"run", "other"}])
  BY LandingAssumption DEF Init, Made
<1>3. at \in [Proc -> Process]
  <2>1. Idle \in Process
    BY <1>1, LandingAssumption DEF Init, Idle, NewRun, Process, Place, Rev, NONE
  <2> QED
    BY <2>1 DEF Init
<1>4. \A p \in Proc : at[p].pc = "off" /\ ctx(p) = file /\ at[p].from = NONE
  BY DEF Init, Idle, ctx
<1>5. RunTyped(file)
  BY <1>1 DEF RunTyped, NoPass
<1>6. \A p \in Proc : ProcTyped(p)
  BY <1>4, <1>5 DEF ProcTyped, Place
<1>7. Typed
  <2>1. WorldTyped
    <3>1. /\ base = 0 /\ head = 1 /\ half = FALSE /\ tree \in Tree /\ remote = 0 /\ pr = FALSE /\ stop = FALSE
          /\ lands = 0 /\ crashes = 0 /\ left = 1 /\ green = {} /\ published = {} /\ outdated = FALSE
      BY DEF Init, Tree, NONE
    <3>2. 0 \in 0 .. BASES /\ 0 \in 0 .. LATER /\ 0 \in 0 .. CRASHES /\ 1 <= COMMITS
      BY LandingAssumption
    <3> QED
      BY <1>2, <3>1, <3>2 DEF WorldTyped, NONE
  <2>2. TypeOK
    BY <1>1, <1>3, <2>1 DEF TypeOK, WorldTyped, Made
  <2> QED
    BY <1>5, <1>6, <2>2 DEF Typed
<1>8. \A p \in Proc : ~Active(p)
  BY <1>4, LandingAssumption DEF Active, Locked, Proc
<1>9. Turns
  BY <1>4, LandingAssumption DEF Turns, Running, Completed, OneLocked, Locked, Proc
<1>10. Kept
  <2>1. at[Runner].pc = "off" /\ file.status = "running" /\ L = NONE
    BY <1>1, <1>4 DEF Proc, L
  <2>2. published = {} /\ green = {} /\ ~half /\ head = left
    BY DEF Init
  <2>3. Recoverable /\ Landable
    BY <2>1, <2>2 DEF Recoverable, Landable
  <2> QED
    BY <1>8, <2>2, <2>3 DEF Kept, InStep
<1> QED
  BY <1>7, <1>9, <1>10 DEF IInv

LEMMA InvStep == IInv /\ [Next]_vars => IInv'
PROOF
<1> SUFFICES ASSUME IInv, [Next]_vars PROVE IInv'
  OBVIOUS
<1>1. Typed' /\ Turns'
  BY TypedStep, TurnsStep DEF IInv
<1>2. ASSUME ~outdated' PROVE Kept'
  <2>1. ~outdated
    BY <1>2, OutdatedStays DEF IInv
  <2> QED
    BY <1>1, <1>2, <2>1, KeptStep DEF IInv
<1> QED
  BY <1>1, <1>2 DEF IInv

THEOREM Invariance == Spec => []IInv
PROOF
BY InvInit, InvStep, PTL DEF Spec

(* Every state is one of a landing the types describe.                     *)
THEOREM TypeCorrect == Spec => []TypeOK
PROOF
<1>1. IInv => TypeOK
  BY DEF IInv, Typed
<1> QED
  BY Invariance, <1>1, PTL

(* Only tips that a green pass left are pushed, by whichever landing, after*)
(* whatever deaths and failing git calls: the final gates or the landing's *)
(* own passed, on the tip itself or, when git refused to commit them, on   *)
(* changes beside it (checks.ts 33-42).                                    *)
THEOREM OnlyGreenPublished == Spec => []PublishedGreen
PROOF
<1>1. IInv => PublishedGreen
  BY DEF IInv, Kept, PublishedGreen
<1> QED
  BY Invariance, <1>1, PTL

(* run.json knows where to put the branch back whenever it is off the run's*)
(* work: it is saved before the rebase and dropped only once the branch is *)
(* there or published.                                                     *)
THEOREM AlwaysRecoverable == Spec => []LeftRecoverable
PROOF
<1>1. IInv => LeftRecoverable
  BY DEF IInv, Kept, Recoverable, L, LeftRecoverable
<1> QED
  BY Invariance, <1>1, PTL

(* A runner reaches its sessions and gates only on what it left or         *)
(* published: recovery comes before both.                                  *)
THEOREM NeverWorksHalfLanded == Spec => []WorksWhereItLeft
PROOF
<1>1. IInv => WorksWhereItLeft
  <2> SUFFICES ASSUME IInv, ~outdated, at[Runner].pc = "work"
      PROVE  ~half /\ head \in {left} \cup published
    BY DEF WorksWhereItLeft
  <2>1. Runner \in Proc /\ Active(Runner)
    BY DEF Proc, Active
  <2>2. L = NONE /\ Recoverable
    BY <2>1 DEF IInv, Kept, PlaceInv
  <2> QED
    BY <2>2 DEF Recoverable
<1> QED
  BY Invariance, <1>1, PTL

(* One process at a time has the worktree to land or to work in: a runner  *)
(* while the run is running, one landing by hand once it is completed.     *)
OneAtWork == \A p, q \in Proc : Active(p) /\ Active(q) => p = q
THEOREM OneAtATime == Spec => []OneAtWork
PROOF
<1>1. IInv => OneAtWork
  BY OneActive DEF IInv, OneAtWork
<1> QED
  BY Invariance, <1>1, PTL

(* No push replaces a commit that no landing pushed, outdated or not: the  *)
(* lease names what the run itself last pushed.                            *)
THEOREM OthersNeverOverwritten == Spec => OnlyOwnOverwritten
PROOF
<1>1. IInv /\ [Next]_vars =>
          [remote' # remote /\ remote' \in published' => remote \in published \cup {NONE}]_vars
  <2> SUFFICES ASSUME IInv, Next, remote' # remote, remote' \in published'
               PROVE  remote \in published \cup {NONE}
    BY DEF vars
  <2>1. CASE \E p \in Proc : Push(p)
    <3>1. PICK p \in Proc : Push(p)
      BY <2>1
    <3>2. RunTyped(ctx(p))
      BY DEF IInv, Typed, ProcTyped
    <3> QED
      BY <3>1, <3>2 DEF Push, lease, RunTyped
  <2>2. CASE OtherPushes
    <3>1. remote' = Fresh /\ published' = published
      BY <2>2 DEF OtherPushes
    <3>2. Fresh \notin Made /\ published \subseteq Made
      BY DEF IInv, Typed, TypeOK, Made, Fresh
    <3> QED
      BY <3>1, <3>2
  <2>3. CASE remote' = remote
    BY <2>3
  <2> QED
    BY <2>1, <2>2, <2>3
       DEF Next, keepRemote, Boot, BootRestore, BootRestored, BootFailed, Work, FinalGates,
           StartLanding, Stop, AskStop, Read, TakeLock, Recover, Recovered, Fetch, Rebase, Gate,
           PutBack, Tip, Pushed, View, Create, Record, Report, Crash, StartRun, BaseMoves
<1> QED
  BY Invariance, <1>1, PTL DEF Spec, OnlyOwnOverwritten

-----------------------------------------------------------------------------
(* The lock: types                                                         *)

LEMMA NextAttemptType ==
    ASSUME LockTypeOK, NEW p \in Taker, NEW from, NextAttempt(p, from)
    PROVE  /\ stage' \in [Taker -> {"idle", "create", "read", "judge", "guard", "readGuard",
                                   "judgeGuard", "checkGuard", "clearGuard", "done"}
                                  \cup InGuard \cup Holding]
           /\ attempt' \in [Taker -> 0 .. ATTEMPTS - 1]
           /\ round' \in [Taker -> 0 .. ATTEMPTS - 1]
           /\ UNCHANGED <<seen, held, alive, guardLost>>
  <1> USE FileLockAssumption DEF LockTypeOK, NextAttempt, Step, Goes
  <1>1. CASE attempt[p] + 1 < ATTEMPTS
    BY <1>1
  <1>2. CASE ~(attempt[p] + 1 < ATTEMPTS)
    BY <1>2
  <1> QED
    BY <1>1, <1>2

LEMMA NextRoundType ==
    ASSUME LockTypeOK, NEW p \in Taker, NEW from, NextRound(p, from)
    PROVE  /\ stage' \in [Taker -> {"idle", "create", "read", "judge", "guard", "readGuard",
                                   "judgeGuard", "checkGuard", "clearGuard", "done"}
                                  \cup InGuard \cup Holding]
           /\ attempt' \in [Taker -> 0 .. ATTEMPTS - 1]
           /\ round' \in [Taker -> 0 .. ATTEMPTS - 1]
           /\ UNCHANGED <<seen, held, alive, guardLost>>
  <1>1. CASE RoundsLeft(p)
    BY <1>1, FileLockAssumption DEF LockTypeOK, NextRound, RoundsLeft, Step, Goes
  <1>2. CASE ~RoundsLeft(p)
    BY <1>2, NextAttemptType DEF NextRound
  <1> QED
    BY <1>1, <1>2

LEMMA LockInitType == LockInit => LockTypeOK
  <1>1. 0 \in 0 .. ATTEMPTS - 1 /\ Gone \subseteq Taker
    BY FileLockAssumption
  <1> QED
    BY <1>1 DEF LockInit, LockTypeOK

LEMMA LockNextType == LockTypeOK /\ [LockNext]_lockVars => LockTypeOK'
  <1> SUFFICES ASSUME LockTypeOK, [LockNext]_lockVars
               PROVE  LockTypeOK'
    OBVIOUS
  <1>1. ASSUME NEW p \in Taker, Begin(p) \/ Judge(p) \/ Check(p) \/ Release(p) \/ CheckMine(p)
        PROVE  LockTypeOK'
    BY <1>1 DEF LockTypeOK, Begin, Judge, Check, Release, CheckMine, Step, Goes, files, locals,
                InGuard, Holding
  <1>2. ASSUME NEW p \in Taker, CreateLock(p) \/ Remove(p) \/ Unlock(p)
        PROVE  LockTypeOK'
    BY <1>2 DEF LockTypeOK, CreateLock, Remove, Unlock, Step, Goes, files, locals, InGuard, Holding
  <1>3. ASSUME NEW p \in Taker, ReadLock(p)
        PROVE  LockTypeOK'
    <2>1. CASE lock # NoFile /\ Step(p, "read", "judge") /\ seen' = [seen EXCEPT ![p] = lock]
               /\ UNCHANGED <<files, attempt, round, held>>
      BY <2>1 DEF LockTypeOK, Step, Goes, files, InGuard, Holding
    <2>2. CASE NextAttempt(p, "read") /\ UNCHANGED files
      BY <2>2, NextAttemptType DEF LockTypeOK, files
    <2> QED
      BY <1>3, <2>1, <2>2 DEF ReadLock
  <1>4. ASSUME NEW p \in Taker, CreateGuard(p)
        PROVE  LockTypeOK'
    <2>1. MyGuard(p) \in Guard
      BY DEF LockTypeOK, MyGuard, Guard
    <2> QED
      BY <1>4, <2>1 DEF LockTypeOK, CreateGuard, Step, Goes, files, locals, InGuard, Holding
  <1>5. ASSUME NEW p \in Taker, Leave(p) \/ Unguard(p)
        PROVE  LockTypeOK'
    <2>1. CASE Step(p, "leave", "unguard") /\ UNCHANGED <<files, locals>>
      BY <2>1 DEF LockTypeOK, Step, Goes, files, locals, InGuard, Holding
    <2>2. CASE NextAttempt(p, "leave") /\ UNCHANGED files
      BY <2>2, NextAttemptType DEF LockTypeOK, files
    <2>3. CASE NextAttempt(p, "unguard") /\ guard' = NoFile /\ UNCHANGED lock
      BY <2>3, NextAttemptType DEF LockTypeOK
    <2> QED
      BY <1>5, <2>1, <2>2, <2>3 DEF Leave, Unguard
  <1>6. ASSUME NEW p \in Taker, ReadGuard(p)
        PROVE  LockTypeOK'
    <2>1. CASE guard # NoFile /\ Step(p, "readGuard", "judgeGuard")
               /\ held' = [held EXCEPT ![p] = guard] /\ UNCHANGED <<files, attempt, round, seen>>
      BY <2>1 DEF LockTypeOK, Step, Goes, files, InGuard, Holding
    <2>2. CASE NextRound(p, "readGuard") /\ UNCHANGED files
      BY <2>2, NextRoundType DEF LockTypeOK, files
    <2> QED
      BY <1>6, <2>1, <2>2 DEF ReadGuard
  <1>7. ASSUME NEW p \in Taker, JudgeGuard(p) \/ CheckGuard(p) \/ ClearGuard(p)
        PROVE  LockTypeOK'
    <2>1. CASE \/ Step(p, "judgeGuard", "checkGuard") /\ UNCHANGED <<files, locals>>
               \/ Step(p, "checkGuard", "clearGuard") /\ UNCHANGED <<files, locals>>
      BY <2>1 DEF LockTypeOK, Step, Goes, files, locals, InGuard, Holding
    <2>2. CASE \/ NextRound(p, "judgeGuard") /\ UNCHANGED files
               \/ NextRound(p, "checkGuard") /\ UNCHANGED files
               \/ NextRound(p, "clearGuard") /\ guard' = NoFile /\ UNCHANGED lock
      BY <2>2, NextRoundType DEF LockTypeOK, files
    <2> QED
      BY <1>7, <2>1, <2>2 DEF JudgeGuard, CheckGuard, ClearGuard
  <1>8. ASSUME NEW p \in Taker, Die(p)
        PROVE  LockTypeOK'
    BY <1>8 DEF LockTypeOK, Die, files, locals
  <1>9. CASE UNCHANGED lockVars
    BY <1>9 DEF LockTypeOK, lockVars, locals
  <1> QED
    BY <1>1, <1>2, <1>3, <1>4, <1>5, <1>6, <1>7, <1>8, <1>9 DEF LockNext, Take

(* Every variable keeps its type: the attempts of a take are bounded.      *)
THEOREM LockTypeCorrect == LockSpec => []LockTypeOK
  BY LockInitType, LockNextType, PTL DEF LockSpec

-----------------------------------------------------------------------------
(* The inductive invariant.                                                *)

TakingOver == {"guard", "readGuard", "judgeGuard", "checkGuard", "clearGuard"} \cup InGuard

(* A holder's lock is its own.                                             *)
LockHeld == \A p \in Taker : Holds(p) => lock = p

(* The guard on disk is of the one process inside it, and that one lives.  *)
GuardHeld == \A p \in Taker : p \in alive /\ stage[p] \in InGuard => guard = MyGuard(p)
GuardAlive ==
    guard # NoFile => ownerOf(guard) \in alive /\ stage[ownerOf(guard)] \in InGuard

(* A lock is judged by its owner and taken over from one that is gone.     *)
StaleIsGone == \A p \in Taker :
    /\ stage[p] = "judge" => seen[p] \in Taker
    /\ stage[p] \in TakingOver => seen[p] \in Taker \ alive

(* Nobody removes a lock that is not the one it saw, nor another's guard.  *)
RemovesStale == \A p \in Taker : p \in alive /\ stage[p] = "remove" => lock = seen[p]
HolderRead == \A p \in Taker :
    stage[p] \in {"judgeGuard", "checkGuard"} =>
        /\ held[p] \in Guard
        /\ stage[p] = "checkGuard" => ownerOf(held[p]) \notin alive
ClearsNone == \A p \in Taker : p \in alive => stage[p] # "clearGuard"

Unbroken ==
    /\ LockHeld
    /\ GuardHeld
    /\ GuardAlive
    /\ StaleIsGone
    /\ RemovesStale
    /\ HolderRead
    /\ ClearsNone

LockInv == LockTypeOK /\ (~guardLost => Unbroken)

(* The record that a process makes for a guard names it.                   *)
LEMMA GuardNames ==
    ASSUME LockTypeOK, NEW p \in Taker
    PROVE  /\ MyGuard(p) \in Guard /\ ownerOf(MyGuard(p)) = p /\ MyGuard(p) # NoFile
           /\ \A q \in Taker : MyGuard(p) = MyGuard(q) => p = q
  BY FileLockAssumption DEF LockTypeOK, MyGuard, Guard, ownerOf

(* A step that leaves both files and who lives alone, and moves p to a     *)
(* place from which nothing is promised, keeps the invariant.              *)
LEMMA PlainStep ==
    ASSUME LockTypeOK, Unbroken, NEW p \in Taker, p \in alive,
           NEW to, to # "judge", to \notin TakingOver \cup Holding,
           stage[p] \notin InGuard,
           stage' = [stage EXCEPT ![p] = to],
           UNCHANGED <<lock, guard, alive, seen, held>>,
           \A q \in Taker : q # p => attempt'[q] = attempt[q]
    PROVE  Unbroken'
  <1>1. stage'[p] = to /\ \A q \in Taker : q # p => stage'[q] = stage[q]
    BY DEF LockTypeOK
  <1>2. LockHeld'
    BY <1>1 DEF Unbroken, LockHeld, Holds
  <1>3. GuardHeld' /\ GuardAlive'
    BY <1>1, GuardNames
       DEF Unbroken, GuardHeld, GuardAlive, MyGuard, TakingOver, LockTypeOK, Guard, ownerOf
  <1>4. StaleIsGone' /\ RemovesStale' /\ HolderRead' /\ ClearsNone'
    BY <1>1 DEF Unbroken, StaleIsGone, RemovesStale, HolderRead, ClearsNone, TakingOver, InGuard
  <1> QED
    BY <1>2, <1>3, <1>4 DEF Unbroken

LEMMA NextAttemptKeeps ==
    ASSUME LockTypeOK, Unbroken, NEW p \in Taker, NEW from, from \notin InGuard,
           NextAttempt(p, from), UNCHANGED files
    PROVE  Unbroken'
  <1>1. \A q \in Taker : q # p => attempt'[q] = attempt[q]
    BY DEF NextAttempt, LockTypeOK
  <1>2. PICK to \in {"create", "done"} : stage' = [stage EXCEPT ![p] = to]
    BY DEF NextAttempt, Step, Goes
  <1>3. p \in alive /\ stage[p] \notin InGuard /\ UNCHANGED <<lock, guard, alive, seen, held>>
    BY DEF NextAttempt, Step, files
  <1>4. to \notin TakingOver \cup Holding
    BY DEF TakingOver, InGuard, Holding
  <1> QED
    BY <1>1, <1>2, <1>3, <1>4, PlainStep

LEMMA NextRoundKeeps ==
    ASSUME LockTypeOK, Unbroken, NEW p \in Taker, NEW from, from \in TakingOver \ InGuard,
           NextRound(p, from), UNCHANGED files
    PROVE  Unbroken'
  <1>1. CASE ~RoundsLeft(p)
    BY <1>1, NextAttemptKeeps DEF NextRound
  <1>2. CASE RoundsLeft(p)
    <2>1. /\ p \in alive /\ stage[p] = from /\ stage' = [stage EXCEPT ![p] = "guard"]
          /\ UNCHANGED <<lock, guard, alive, attempt, seen, held>>
      BY <1>2 DEF NextRound, Step, Goes, files
    <2>2. stage'[p] = "guard" /\ \A q \in Taker : q # p => stage'[q] = stage[q]
      BY <2>1 DEF LockTypeOK
    <2>3. LockHeld'
      BY <2>1, <2>2 DEF Unbroken, LockHeld, Holds, Holding
    <2>4. GuardHeld' /\ GuardAlive'
      BY <2>1, <2>2
         DEF Unbroken, GuardHeld, GuardAlive, MyGuard, InGuard, LockTypeOK, Guard, ownerOf
    <2>5. StaleIsGone' /\ RemovesStale' /\ HolderRead' /\ ClearsNone'
      BY <2>1, <2>2 DEF Unbroken, StaleIsGone, RemovesStale, HolderRead, ClearsNone,
                        TakingOver, InGuard
    <2> QED
      BY <2>3, <2>4, <2>5 DEF Unbroken
  <1> QED
    BY <1>1, <1>2

(* A call that changes neither file: p moves from one call to another.     *)
LEMMA CallKeeps ==
    ASSUME LockTypeOK, Unbroken, NEW p \in Taker, NEW from, NEW to,
           Step(p, from, to), UNCHANGED <<files, locals>>,
           to \in Holding => lock = p,
           from \in InGuard <=> to \in InGuard,
           to \in TakingOver => seen[p] \in Taker \ alive,
           to = "remove" => lock = seen[p],
           to \in {"judgeGuard", "checkGuard"} =>
               held[p] \in Guard /\ (to = "checkGuard" => ownerOf(held[p]) \notin alive),
           to \notin {"judge", "clearGuard"}
    PROVE  Unbroken'
  <1>1. /\ stage[p] = from /\ stage'[p] = to /\ \A q \in Taker : q # p => stage'[q] = stage[q]
        /\ UNCHANGED <<lock, guard, alive, attempt, seen, held>>
    BY DEF Step, Goes, LockTypeOK, files, locals
  <1>2. LockHeld'
    BY <1>1 DEF Unbroken, LockHeld, Holds
  <1>3. GuardHeld'
    BY <1>1 DEF Unbroken, GuardHeld, MyGuard
  <1>4. GuardAlive'
    BY <1>1 DEF Unbroken, GuardAlive, LockTypeOK, Guard, ownerOf
  <1>5. StaleIsGone' /\ RemovesStale' /\ HolderRead' /\ ClearsNone'
    BY <1>1 DEF Unbroken, StaleIsGone, RemovesStale, HolderRead, ClearsNone
  <1> QED
    BY <1>2, <1>3, <1>4, <1>5 DEF Unbroken

LEMMA BeginKeeps ==
    ASSUME LockTypeOK, Unbroken, NEW p \in Taker, Begin(p)
    PROVE  Unbroken'
  BY CallKeeps DEF Begin, Holding, TakingOver, InGuard

LEMMA CreateKeeps ==
    ASSUME LockTypeOK, Unbroken, NEW p \in Taker, CreateLock(p)
    PROVE  Unbroken'
  <1>1. CASE Step(p, "create", "read") /\ UNCHANGED <<files, locals>>
    BY <1>1, CallKeeps DEF Holding, TakingOver, InGuard
  <1>2. CASE lock = NoFile /\ Step(p, "create", "held") /\ lock' = p /\ UNCHANGED <<guard, locals>>
    <2>1. /\ stage[p] = "create" /\ stage'[p] = "held"
          /\ \A q \in Taker : q # p => stage'[q] = stage[q]
          /\ UNCHANGED <<guard, alive, attempt, seen, held>>
      BY <1>2 DEF Step, Goes, LockTypeOK, locals
    <2>2. LockHeld'
      BY <1>2, <2>1, FileLockAssumption DEF Unbroken, LockHeld, Holds
    <2>3. GuardHeld' /\ GuardAlive'
      BY <2>1 DEF Unbroken, GuardHeld, GuardAlive, MyGuard, InGuard, LockTypeOK, Guard, ownerOf
    <2>4. StaleIsGone' /\ HolderRead' /\ ClearsNone'
      BY <2>1 DEF Unbroken, StaleIsGone, HolderRead, ClearsNone, TakingOver, InGuard
    <2>5. RemovesStale'
      BY <1>2, <2>1, FileLockAssumption
         DEF Unbroken, StaleIsGone, RemovesStale, TakingOver, InGuard
    <2> QED
      BY <2>2, <2>3, <2>4, <2>5 DEF Unbroken
  <1> QED
    BY <1>1, <1>2 DEF CreateLock

LEMMA ReadKeeps ==
    ASSUME LockTypeOK, Unbroken, NEW p \in Taker, ReadLock(p)
    PROVE  Unbroken'
  <1>1. CASE NextAttempt(p, "read") /\ UNCHANGED files
    BY <1>1, NextAttemptKeeps DEF InGuard
  <1>2. CASE lock # NoFile /\ Step(p, "read", "judge") /\ seen' = [seen EXCEPT ![p] = lock]
             /\ UNCHANGED <<files, attempt, round, held>>
    <2>0. seen'[p] \in Taker
      BY <1>2 DEF LockTypeOK
    <2>1. /\ stage[p] = "read" /\ stage'[p] = "judge"
          /\ \A q \in Taker : q # p => stage'[q] = stage[q]
          /\ UNCHANGED <<lock, guard, alive, attempt, held>>
          /\ \A q \in Taker : q # p => seen'[q] = seen[q]
      BY <1>2 DEF Step, Goes, LockTypeOK, files
    <2>2. LockHeld'
      BY <2>1 DEF Unbroken, LockHeld, Holds, Holding
    <2>3. GuardHeld' /\ GuardAlive'
      BY <2>1 DEF Unbroken, GuardHeld, GuardAlive, MyGuard, InGuard, LockTypeOK, Guard, ownerOf
    <2>4. StaleIsGone' /\ RemovesStale' /\ HolderRead' /\ ClearsNone'
      BY <2>0, <2>1
         DEF Unbroken, StaleIsGone, RemovesStale, HolderRead, ClearsNone, TakingOver, InGuard
    <2> QED
      BY <2>2, <2>3, <2>4 DEF Unbroken
  <1> QED
    BY <1>1, <1>2 DEF ReadLock

LEMMA JudgeKeeps ==
    ASSUME LockTypeOK, Unbroken, NEW p \in Taker, Judge(p)
    PROVE  Unbroken'
  <1>0. seen[p] \in Taker
    BY DEF Judge, Step, Unbroken, StaleIsGone
  <1>1. CASE ~OwnerGone(p)
    BY <1>1, CallKeeps DEF Judge, Holding, TakingOver, InGuard
  <1>2. CASE OwnerGone(p)
    BY <1>0, <1>2, CallKeeps DEF Judge, OwnerGone, Holding, TakingOver, InGuard
  <1> QED
    BY <1>1, <1>2

LEMMA CreateGuardKeeps ==
    ASSUME LockTypeOK, Unbroken, NEW p \in Taker, CreateGuard(p)
    PROVE  Unbroken'
  <1>0. seen[p] \in Taker \ alive
    BY DEF CreateGuard, Step, Unbroken, StaleIsGone, TakingOver
  <1>1. CASE Step(p, "guard", "readGuard") /\ UNCHANGED <<files, locals>>
    BY <1>0, <1>1, CallKeeps DEF Holding, TakingOver, InGuard
  <1>2. CASE guard = NoFile /\ Step(p, "guard", "check") /\ guard' = MyGuard(p)
             /\ UNCHANGED <<lock, locals>>
    <2>1. /\ p \in alive /\ stage[p] = "guard" /\ stage'[p] = "check"
          /\ \A q \in Taker : q # p => stage'[q] = stage[q]
          /\ UNCHANGED <<lock, alive, attempt, seen, held>>
      BY <1>2 DEF Step, Goes, LockTypeOK, locals
    <2>2. LockHeld'
      BY <2>1 DEF Unbroken, LockHeld, Holds, Holding
    <2>3. GuardHeld'
      BY <1>2, <2>1, GuardNames DEF Unbroken, GuardHeld, MyGuard
    <2>4. GuardAlive'
      BY <1>2, <2>1, GuardNames DEF GuardAlive, InGuard, ownerOf
    <2>5. StaleIsGone' /\ RemovesStale' /\ HolderRead' /\ ClearsNone'
      BY <1>0, <2>1 DEF Unbroken, StaleIsGone, RemovesStale, HolderRead, ClearsNone
    <2> QED
      BY <2>2, <2>3, <2>4, <2>5 DEF Unbroken
  <1> QED
    BY <1>1, <1>2 DEF CreateGuard

LEMMA CheckKeeps ==
    ASSUME LockTypeOK, Unbroken, NEW p \in Taker, Check(p)
    PROVE  Unbroken'
  <1>0. seen[p] \in Taker \ alive
    BY DEF Check, Step, Unbroken, StaleIsGone, TakingOver, InGuard
  <1>1. CASE StillStale(p)
    BY <1>0, <1>1, CallKeeps DEF Check, StillStale, Holding, TakingOver, InGuard
  <1>2. CASE ~StillStale(p)
    BY <1>0, <1>2, CallKeeps DEF Check, Holding, TakingOver, InGuard
  <1> QED
    BY <1>1, <1>2

(* What is removed is the dead owner's lock, and nobody else removes it.   *)
LEMMA RemoveKeeps ==
    ASSUME LockTypeOK, Unbroken, NEW p \in Taker, Remove(p)
    PROVE  Unbroken'
  <1>1. /\ p \in alive /\ stage[p] = "remove" /\ stage'[p] = "leave" /\ lock' = NoFile
        /\ \A q \in Taker : q # p => stage'[q] = stage[q]
        /\ UNCHANGED <<guard, alive, attempt, seen, held>>
    BY DEF Remove, Step, Goes, LockTypeOK, locals
  <1>2. lock = seen[p] /\ seen[p] \in Taker \ alive
    BY <1>1 DEF Unbroken, RemovesStale, StaleIsGone, TakingOver, InGuard
  <1>3. LockHeld'
    BY <1>1, <1>2 DEF Unbroken, LockHeld, Holds, Holding
  <1>4. GuardHeld'
    BY <1>1 DEF Unbroken, GuardHeld, MyGuard, InGuard
  <1>5. GuardAlive'
    BY <1>1 DEF Unbroken, GuardAlive, LockTypeOK, Guard, ownerOf, InGuard
  <1>6. RemovesStale'
    <2> SUFFICES ASSUME NEW q \in Taker, q \in alive, stage'[q] = "remove"
                 PROVE  FALSE
      BY <1>1 DEF RemovesStale
    <2>1. q # p /\ stage[q] = "remove"
      BY <1>1
    <2>2. guard = MyGuard(p) /\ guard = MyGuard(q)
      BY <1>1, <2>1 DEF Unbroken, GuardHeld, InGuard
    <2> QED
      BY <2>1, <2>2, GuardNames
  <1>7. StaleIsGone' /\ HolderRead' /\ ClearsNone'
    BY <1>1 DEF Unbroken, StaleIsGone, HolderRead, ClearsNone, TakingOver, InGuard
  <1> QED
    BY <1>3, <1>4, <1>5, <1>6, <1>7 DEF Unbroken

LEMMA LeaveKeeps ==
    ASSUME LockTypeOK, Unbroken, NEW p \in Taker, Leave(p)
    PROVE  Unbroken'
  <1>0. p \in alive /\ stage[p] = "leave"
    BY DEF Leave, NextAttempt, Step
  <1>1. guard = MyGuard(p)
    BY <1>0 DEF Unbroken, GuardHeld, InGuard
  <1>2. seen[p] \in Taker \ alive
    BY <1>0 DEF Unbroken, StaleIsGone, TakingOver, InGuard
  <1>3. Step(p, "leave", "unguard") /\ UNCHANGED <<files, locals>>
    BY <1>1 DEF Leave
  <1> QED
    BY <1>2, <1>3, CallKeeps DEF Holding, TakingOver, InGuard

(* The guard that is removed is p's own, and nobody else is inside.        *)
LEMMA UnguardKeeps ==
    ASSUME LockTypeOK, Unbroken, NEW p \in Taker, Unguard(p)
    PROVE  Unbroken'
  <1>1. PICK to \in {"create", "done"} : stage' = [stage EXCEPT ![p] = to]
    BY DEF Unguard, NextAttempt, Step, Goes
  <1>2. /\ p \in alive /\ stage[p] = "unguard" /\ stage'[p] = to
        /\ \A q \in Taker : q # p => stage'[q] = stage[q]
        /\ guard' = NoFile /\ UNCHANGED <<lock, alive, seen, held>>
    BY <1>1 DEF Unguard, NextAttempt, Step, LockTypeOK
  <1>3. to \notin TakingOver \cup Holding \cup {"judge"}
    BY DEF TakingOver, InGuard, Holding
  <1>4. \A q \in Taker : q \in alive /\ stage[q] \in InGuard => q = p
    BY <1>2, GuardNames DEF Unbroken, GuardHeld, InGuard
  <1>5. LockHeld'
    BY <1>2, <1>3 DEF Unbroken, LockHeld, Holds
  <1>6. GuardHeld' /\ GuardAlive'
    BY <1>2, <1>3, <1>4 DEF GuardHeld, GuardAlive, TakingOver
  <1>7. StaleIsGone' /\ RemovesStale' /\ HolderRead' /\ ClearsNone'
    BY <1>2, <1>3
       DEF Unbroken, StaleIsGone, RemovesStale, HolderRead, ClearsNone, TakingOver, InGuard
  <1> QED
    BY <1>5, <1>6, <1>7 DEF Unbroken

LEMMA ReadGuardKeeps ==
    ASSUME LockTypeOK, Unbroken, NEW p \in Taker, ReadGuard(p)
    PROVE  Unbroken'
  <1>1. CASE NextRound(p, "readGuard") /\ UNCHANGED files
    BY <1>1, NextRoundKeeps DEF TakingOver, InGuard
  <1>2. CASE guard # NoFile /\ Step(p, "readGuard", "judgeGuard")
             /\ held' = [held EXCEPT ![p] = guard] /\ UNCHANGED <<files, attempt, round, seen>>
    <2>1. /\ stage[p] = "readGuard" /\ stage'[p] = "judgeGuard"
          /\ \A q \in Taker : q # p => stage'[q] = stage[q] /\ held'[q] = held[q]
          /\ UNCHANGED <<lock, guard, alive, attempt, seen>>
          /\ held'[p] \in Guard
      BY <1>2 DEF Step, Goes, LockTypeOK, files
    <2>2. LockHeld'
      BY <2>1 DEF Unbroken, LockHeld, Holds, Holding
    <2>3. GuardHeld' /\ GuardAlive'
      BY <2>1 DEF Unbroken, GuardHeld, GuardAlive, MyGuard, InGuard, LockTypeOK, Guard, ownerOf
    <2>4. StaleIsGone' /\ RemovesStale' /\ HolderRead' /\ ClearsNone'
      BY <2>1 DEF Unbroken, StaleIsGone, RemovesStale, HolderRead, ClearsNone, TakingOver, InGuard
    <2> QED
      BY <2>2, <2>3, <2>4 DEF Unbroken
  <1> QED
    BY <1>1, <1>2 DEF ReadGuard

LEMMA JudgeGuardKeeps ==
    ASSUME LockTypeOK, Unbroken, NEW p \in Taker, JudgeGuard(p)
    PROVE  Unbroken'
  <1>1. CASE NextRound(p, "judgeGuard") /\ UNCHANGED files
    BY <1>1, NextRoundKeeps DEF TakingOver, InGuard
  <1>2. CASE Step(p, "judgeGuard", "checkGuard") /\ HolderGone(p) /\ UNCHANGED <<files, locals>>
    <2>1. seen[p] \in Taker \ alive /\ held[p] \in Guard /\ ownerOf(held[p]) \notin alive
      BY <1>2 DEF Step, Unbroken, StaleIsGone, HolderRead, HolderGone, TakingOver
    <2> QED
      BY <1>2, <2>1, CallKeeps DEF Holding, TakingOver, InGuard
  <1> QED
    BY <1>1, <1>2 DEF JudgeGuard

(* A dead holder's guard is never there to clear.                          *)
LEMMA CheckGuardKeeps ==
    ASSUME LockTypeOK, Unbroken, NEW p \in Taker, CheckGuard(p)
    PROVE  Unbroken'
  <1>1. CASE NextRound(p, "checkGuard") /\ UNCHANGED files
    BY <1>1, NextRoundKeeps DEF TakingOver, InGuard
  <1>2. CASE guard = held[p] /\ Step(p, "checkGuard", "clearGuard")
    <2>1. guard \in Guard /\ ownerOf(guard) \notin alive
      BY <1>2 DEF Step, Unbroken, HolderRead
    <2>2. guard # NoFile
      BY <2>1, FileLockAssumption DEF Guard
    <2> QED
      BY <2>1, <2>2 DEF Unbroken, GuardAlive
  <1> QED
    BY <1>1, <1>2 DEF CheckGuard

LEMMA ClearGuardKeeps ==
    ASSUME LockTypeOK, Unbroken, NEW p \in Taker, ClearGuard(p)
    PROVE  Unbroken'
  BY DEF ClearGuard, NextRound, NextAttempt, Step, Unbroken, ClearsNone

LEMMA ReleaseKeeps ==
    ASSUME LockTypeOK, Unbroken, NEW p \in Taker, Release(p)
    PROVE  Unbroken'
  <1>1. lock = p
    BY DEF Release, Step, Unbroken, LockHeld, Holds, Holding
  <1> QED
    BY <1>1, CallKeeps DEF Release, Holding, TakingOver, InGuard

LEMMA CheckMineKeeps ==
    ASSUME LockTypeOK, Unbroken, NEW p \in Taker, CheckMine(p)
    PROVE  Unbroken'
  <1>1. lock = p
    BY DEF CheckMine, Step, Unbroken, LockHeld, Holds, Holding
  <1> QED
    BY <1>1, CallKeeps DEF CheckMine, Holding, TakingOver, InGuard

(* What a holder removes is its own lock, that nobody takes over.          *)
LEMMA UnlockKeeps ==
    ASSUME LockTypeOK, Unbroken, NEW p \in Taker, Unlock(p)
    PROVE  Unbroken'
  <1>1. /\ p \in alive /\ stage[p] = "unlock" /\ stage'[p] = "done" /\ lock' = NoFile
        /\ \A q \in Taker : q # p => stage'[q] = stage[q]
        /\ UNCHANGED <<guard, alive, attempt, seen, held>>
    BY DEF Unlock, Step, Goes, LockTypeOK, locals
  <1>2. lock = p
    BY <1>1 DEF Unbroken, LockHeld, Holds, Holding
  <1>3. LockHeld'
    BY <1>1, <1>2 DEF Unbroken, LockHeld, Holds, Holding
  <1>4. GuardHeld' /\ GuardAlive'
    BY <1>1 DEF Unbroken, GuardHeld, GuardAlive, MyGuard, InGuard, LockTypeOK, Guard, ownerOf
  <1>5. StaleIsGone' /\ HolderRead' /\ ClearsNone'
    BY <1>1 DEF Unbroken, StaleIsGone, HolderRead, ClearsNone, TakingOver, InGuard
  <1>6. RemovesStale'
    BY <1>1, <1>2 DEF Unbroken, RemovesStale, StaleIsGone, TakingOver, InGuard
  <1> QED
    BY <1>3, <1>4, <1>5, <1>6 DEF Unbroken

(* A process that dies outside the guard leaves its lock, and no guard.    *)
LEMMA DieKeeps ==
    ASSUME LockTypeOK, Unbroken, NEW p \in Taker, Die(p), stage[p] \notin InGuard
    PROVE  Unbroken'
  <1>1. alive' = alive \ {p} /\ UNCHANGED <<lock, guard, stage, attempt, round, seen, held>>
    BY DEF Die, files, locals
  <1>2. LockHeld' /\ GuardHeld' /\ RemovesStale' /\ ClearsNone'
    BY <1>1 DEF Unbroken, LockHeld, Holds, GuardHeld, MyGuard, RemovesStale, ClearsNone
  <1>3. GuardAlive'
    BY <1>1 DEF Unbroken, GuardAlive
  <1>4. StaleIsGone' /\ HolderRead'
    BY <1>1 DEF Unbroken, StaleIsGone, HolderRead
  <1> QED
    BY <1>2, <1>3, <1>4 DEF Unbroken

LEMMA LockInitInv == LockInit => LockInv
  <1> SUFFICES ASSUME LockInit
               PROVE  LockInv
    OBVIOUS
  <1>1. Unbroken
    BY DEF LockInit, Unbroken, LockHeld, Holds, Holding, GuardHeld, GuardAlive, StaleIsGone,
           RemovesStale, HolderRead, ClearsNone, TakingOver, InGuard
  <1> QED
    BY <1>1, LockInitType DEF LockInv

LEMMA LockNextInv == LockInv /\ [LockNext]_lockVars => LockInv'
  <1> SUFFICES ASSUME LockInv, [LockNext]_lockVars
               PROVE  LockInv'
    OBVIOUS
  <1>1. LockTypeOK'
    BY LockNextType DEF LockInv
  <1>2. ASSUME ~guardLost'
        PROVE  Unbroken'
    <2>1. CASE UNCHANGED lockVars
      <3>1. LockTypeOK /\ ~guardLost
        BY <1>2, <2>1 DEF LockInv, lockVars
      <3>2. Unbroken
        BY <3>1 DEF LockInv
      <3> QED
        BY <2>1, <3>2
           DEF lockVars, locals, Unbroken, LockHeld, Holds, GuardHeld, GuardAlive, MyGuard,
               StaleIsGone, RemovesStale, HolderRead, ClearsNone
    <2>2. ASSUME NEW p \in Taker, Die(p)
          PROVE  Unbroken'
      <3>1. LockTypeOK /\ ~guardLost /\ stage[p] \notin InGuard
        BY <1>2, <2>2 DEF LockInv, Die, LockTypeOK
      <3> QED
        BY <2>2, <3>1, DieKeeps DEF LockInv
    <2>3. ASSUME NEW p \in Taker, Begin(p) \/ Take(p) \/ Release(p) \/ CheckMine(p) \/ Unlock(p)
          PROVE  Unbroken'
      <3>1. guardLost' = guardLost
        BY <2>3
           DEF Begin, Take, Release, CheckMine, Unlock, CreateLock, ReadLock, Judge, CreateGuard,
               Check, Remove, Leave, Unguard, ReadGuard, JudgeGuard, CheckGuard, ClearGuard,
               NextRound, NextAttempt, Step
      <3>2. LockTypeOK /\ Unbroken
        BY <1>2, <3>1 DEF LockInv
      <3> QED
        BY <2>3, <3>2, BeginKeeps, CreateKeeps, ReadKeeps, JudgeKeeps, CreateGuardKeeps,
           CheckKeeps, RemoveKeeps, LeaveKeeps, UnguardKeeps, ReadGuardKeeps, JudgeGuardKeeps,
           CheckGuardKeeps, ClearGuardKeeps, ReleaseKeeps, CheckMineKeeps, UnlockKeeps
        DEF Take
    <2> QED
      BY <2>1, <2>2, <2>3 DEF LockNext
  <1> QED
    BY <1>1, <1>2 DEF LockInv

(* Whatever the processes and whoever dies, the invariant holds.           *)
THEOREM LockInvariance == LockSpec => []LockInv
  BY LockInitInv, LockNextInv, PTL DEF LockSpec

(* One process at most holds a worktree's lock, for any number of them and *)
(* of attempts: unless one died inside the guard.                          *)
THEOREM LockExcludes == LockSpec => []MutualExclusion
  <1>1. LockInv => MutualExclusion
    BY DEF LockInv, Unbroken, LockHeld, MutualExclusion
  <1> QED
    BY <1>1, LockInvariance, PTL

(* No process but a live owner removes its lock.                           *)
THEOREM LiveLocksStay == LockSpec => OnlyDeadLocksRemoved
  <1>1. ASSUME LockInv, [LockNext]_lockVars, ~guardLost, NEW p \in Taker,
               lock = p, p \in alive, lock' # p
        PROVE  stage[p] = "unlock" /\ stage'[p] = "done"
    <2>0. LockTypeOK /\ Unbroken
      BY <1>1 DEF LockInv
    <2>1. ASSUME NEW q \in Taker, CreateLock(q)
          PROVE  FALSE
      BY <1>1, <2>1, FileLockAssumption DEF CreateLock, files
    <2>2. ASSUME NEW q \in Taker, Remove(q)
          PROVE  FALSE
      BY <1>1, <2>0, <2>2 DEF Remove, Step, Unbroken, RemovesStale, StaleIsGone, TakingOver, InGuard
    <2>3. ASSUME NEW q \in Taker, Unlock(q)
          PROVE  stage[p] = "unlock" /\ stage'[p] = "done"
      <3>1. lock = q
        BY <2>0, <2>3 DEF Unlock, Step, Unbroken, LockHeld, Holds, Holding
      <3> QED
        BY <1>1, <2>0, <2>3, <3>1 DEF Unlock, Step, Goes, LockTypeOK
    <2>4. ASSUME NEW q \in Taker,
                 \/ Begin(q) \/ ReadLock(q) \/ Judge(q) \/ CreateGuard(q) \/ Check(q)
                 \/ Leave(q) \/ Unguard(q) \/ ReadGuard(q) \/ JudgeGuard(q) \/ CheckGuard(q)
                 \/ ClearGuard(q) \/ Release(q) \/ CheckMine(q) \/ Die(q)
          PROVE  FALSE
      BY <1>1, <2>4 DEF Begin, ReadLock, Judge, CreateGuard, Check, Leave, Unguard, ReadGuard,
                        JudgeGuard, CheckGuard, ClearGuard, Release, CheckMine, Die, files
    <2>5. CASE UNCHANGED lockVars
      BY <1>1, <2>5 DEF lockVars
    <2> QED
      BY <1>1, <2>1, <2>2, <2>3, <2>4, <2>5 DEF LockNext, Take
  <1>2. LockInv /\ [LockNext]_lockVars
        => [~guardLost => \A p \in Taker :
              lock = p /\ p \in alive /\ lock' # p =>
                stage[p] = "unlock" /\ stage'[p] = "done"]_lockVars
    BY <1>1
  <1> QED
    BY <1>2, LockInvariance, PTL DEF LockSpec, OnlyDeadLocksRemoved
=============================================================================
