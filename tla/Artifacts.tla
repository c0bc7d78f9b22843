------------------------------- MODULE Artifacts -------------------------------
(***************************************************************************)
(* artifacts.capture_bundle inside lifecycle.teardown_and_mark: what Pi    *)
(* leaves in io/ and in the git worktree, the bundle under meta/artifacts, *)
(* and the removal of the worktree, which makes the bundle the only copy   *)
(* of uncommitted work.  A teardown may crash or fail and be run again,    *)
(* and two of them may overlap: `finish` and the inline teardown of `reap` *)
(* take no lock.                                                           *)
(*                                                                         *)
(* Module FinishCmd has the Docker calls one by one; here they are a step. *)
(* recover runs between teardowns only (their overlap is FinishCmd's).     *)
(***************************************************************************)
EXTENDS Naturals

CONSTANTS
    Proc,      \* slots for concurrent teardowns of the task
    Item,      \* files and edits; a new version is a new item
    Faults,    \* what may fail: docker, git, capture, crash
    MaxWrites  \* bound: changes Pi makes

ASSUME WritesAssumption == MaxWrites \in Nat

VARIABLES
    kind,      \* project or generic
    work,      \* what Pi has left: log (terminal.log) and summary (summary.md),
               \* {} if missing, output (io/output), patch (edits of tracked
               \* files), untracked
    writes,    \* changes made so far
    wt,        \* the worktree is on disk
    up,        \* the task's container runs
    status,    \* active, refused (failed by a teardown) or settled
    bundle,    \* meta/artifacts, part by part
    pc, todo,  \* control point of each teardown; files it has yet to copy
    cut,       \* a step of its capture has failed
    lossy,     \* history: as it had before the worktree was removed
    overlap    \* history: two teardowns were under way at the same time

pi == <<kind, work, writes>>
history == <<lossy, overlap>>
vars == <<pi, wt, up, status, bundle, pc, todo, cut, history>>

Contents == [log : SUBSET Item, summary : SUBSET Item, output : SUBSET Item,
             patch : SUBSET Item, untracked : SUBSET Item]
Nothing == [log |-> {}, summary |-> {}, output |-> {}, patch |-> {}, untracked |-> {}]

Steps == {"idle", "verify", "log", "summary", "wipe", "link", "git", "diff", "list", "copy",
          "remove", "gitremove", "refuse", "mark"}

Init ==
    /\ kind \in {"project", "generic"}
    /\ work = Nothing /\ writes = 0
    /\ wt = (kind = "project")
    /\ up = TRUE /\ status = "active"
    /\ bundle = Nothing
    /\ pc = [p \in Proc |-> "idle"]
    /\ todo = [p \in Proc |-> {}]
    /\ cut = [p \in Proc |-> FALSE]
    /\ lossy = FALSE /\ overlap = FALSE

At(p, step) == pc[p] = step
Goto(p, step) == pc' = [pc EXCEPT ![p] = step]
Exit(p) ==
    /\ Goto(p, "idle")
    /\ todo' = [todo EXCEPT ![p] = {}]
    /\ cut' = [cut EXCEPT ![p] = FALSE]

InFlight == {p \in Proc : ~At(p, "idle")}
----------------------------------------------------------------------------
(* Pi, its container, and recover.                                         *)

Toggled(s, i) == IF i \in s THEN s \ {i} ELSE s \cup {i}

\* Pi writes or deletes a file of its io/ or, in a project task, of its work/.
PiWrites ==
    /\ up /\ writes < MaxWrites
    /\ writes' = writes + 1
    /\ \E i \in Item :
          \/ work' = [work EXCEPT !.log = Toggled(@, i)]
          \/ work' = [work EXCEPT !.summary = Toggled(@, i)]
          \/ work' = [work EXCEPT !.output = Toggled(@, i)]
          \/ wt /\ work' = [work EXCEPT !.patch = Toggled(@, i)]
          \/ wt /\ work' = [work EXCEPT !.untracked = Toggled(@, i)]
    /\ UNCHANGED <<kind, wt, up, status, bundle, pc, todo, cut, history>>

ContainerStops ==
    /\ up /\ up' = FALSE
    /\ UNCHANGED <<pi, wt, status, bundle, pc, todo, cut, history>>

\* An interrupted task comes back if its bind sources still exist.
Recover ==
    /\ ~up /\ status = "active" /\ InFlight = {}
    /\ kind = "project" => wt
    /\ up' = TRUE
    /\ UNCHANGED <<pi, wt, status, bundle, pc, todo, cut, history>>
----------------------------------------------------------------------------
(* teardown_and_mark up to the capture.                                    *)

\* By finish or by reap; a terminal status does not stop finish --force.
TeardownBegin(p) ==
    /\ At(p, "idle")
    /\ Goto(p, "verify")
    /\ overlap' = (overlap \/ InFlight # {})
    /\ UNCHANGED <<pi, wt, up, status, bundle, todo, cut, lossy>>

\* stop, remove and the verifying get; a failure is recorded as failed.
TeardownVerify(p) ==
    /\ At(p, "verify")
    /\ \/ up' = FALSE /\ Goto(p, "log")
       \/ "docker" \in Faults /\ up' \in {up, FALSE} /\ Goto(p, "refuse")
    /\ UNCHANGED <<pi, wt, status, bundle, todo, cut, history>>
----------------------------------------------------------------------------
(* capture_bundle.                                                         *)

\* A step of the capture that fails is logged (but for an exit status of
\* ls-files and a file that the wipe leaves), and the capture goes on ...
Fails(p) == "capture" \in Faults /\ cut' = [cut EXCEPT ![p] = TRUE]

\* ... except that an OSError of mkdir or of the walk ends all of it.
CaptureEnds(p) ==
    /\ pc[p] \in {"log", "summary", "wipe", "link"}
    /\ Fails(p)
    /\ Goto(p, "remove")
    /\ todo' = [todo EXCEPT ![p] = {}]
    /\ UNCHANGED <<pi, wt, up, status, bundle, history>>

\* Mutant: a copy that exists is not written again.
CopyIoFileOnce(p, file, next) ==
    /\ At(p, file)
    /\ bundle' = [bundle EXCEPT ![file] = IF @ = {} THEN work[file] ELSE @]
    /\ Goto(p, next)
    /\ UNCHANGED <<pi, wt, up, status, todo, cut, history>>

\* copy_io_file: a source that is gone leaves the copy of an earlier capture,
\* and so does a failing copy unless it has cut the file off.
CopyIoFile(p, file, next) ==
    /\ At(p, file)
    /\ \/ /\ bundle' = [bundle EXCEPT ![file] = IF work[file] = {} THEN @ ELSE work[file]]
          /\ UNCHANGED cut
       \/ Fails(p) /\ \E s \in {bundle[file], {}} : bundle' = [bundle EXCEPT ![file] = s]
    /\ Goto(p, next)
    /\ UNCHANGED <<pi, wt, up, status, todo, history>>

\* Each file for itself.
CopyIo(p) == CopyIoFile(p, "log", "summary") \/ CopyIoFile(p, "summary", "wipe")

\* Mutant: the output of an earlier capture is kept.
WipeOutputKept(p) ==
    /\ At(p, "wipe")
    /\ todo' = [todo EXCEPT ![p] = work.output]
    /\ Goto(p, "link")
    /\ UNCHANGED <<pi, wt, up, status, bundle, cut, history>>

\* replicate_output_tree removes what an earlier capture linked; what rmtree
\* cannot remove stays, without a warning (ignore_errors) ...
WipeOutput(p) ==
    /\ At(p, "wipe")
    /\ \/ bundle' = [bundle EXCEPT !.output = {}] /\ UNCHANGED cut
       \/ Fails(p) /\ \E s \in SUBSET bundle.output : bundle' = [bundle EXCEPT !.output = s]
    /\ todo' = [todo EXCEPT ![p] = work.output]
    /\ Goto(p, "link")
    /\ UNCHANGED <<pi, wt, up, status, history>>

\* Another teardown has removed the directory and not made it again.
DirectoryGone(p) ==
    \E q \in Proc \ {p} : At(q, "link") /\ todo[q] = work.output

\* ... and links file after file.
LinkOutput(p) ==
    /\ At(p, "link")
    /\ \E f \in todo[p] :
          /\ todo' = [todo EXCEPT ![p] = @ \ {f}]
          /\ \/ /\ bundle' = [bundle EXCEPT !.output = @ \cup {f}]
                /\ UNCHANGED cut
             \/ DirectoryGone(p) /\ UNCHANGED <<bundle, cut>>
             \/ Fails(p) /\ UNCHANGED bundle
    /\ UNCHANGED <<pi, wt, up, status, pc, history>>

\* Mutant: the path is not looked at.
GitCheckKind(p) ==
    /\ At(p, "link") /\ todo[p] = {}
    /\ Goto(p, IF kind = "project" THEN "diff" ELSE "remove")
    /\ UNCHANGED <<pi, wt, up, status, bundle, todo, cut, history>>

\* Git captures are for project tasks whose work_path exists.
GitCheck(p) ==
    /\ At(p, "link") /\ todo[p] = {}
    /\ Goto(p, IF kind = "project" /\ wt THEN "diff" ELSE "remove")
    /\ UNCHANGED <<pi, wt, up, status, bundle, todo, cut, history>>

\* git-status.txt, changed-files.txt and diff.patch are written with whatever
\* git printed: nothing, if the worktree has gone since GitCheck.
CaptureDiff(p) ==
    /\ At(p, "diff")
    /\ \/ /\ bundle' = [bundle EXCEPT !.patch = IF wt THEN work.patch ELSE {}]
          /\ cut' = [cut EXCEPT ![p] = @ \/ ~wt]
       \/ Fails(p) /\ \E s \in {bundle.patch, {}} :
             bundle' = [bundle EXCEPT !.patch = s]
    /\ Goto(p, "list")
    /\ UNCHANGED <<pi, wt, up, status, todo, history>>

\* git ls-files --others; if it fails there is nothing to copy.
ListUntracked(p) ==
    /\ At(p, "list")
    /\ \/ /\ todo' = [todo EXCEPT ![p] = IF wt THEN work.untracked ELSE {}]
          /\ UNCHANGED cut
       \/ Fails(p) /\ UNCHANGED todo
    /\ Goto(p, "copy")
    /\ UNCHANGED <<pi, wt, up, status, bundle, history>>

\* Mutant: the first file ends the loop.
CopyUntrackedFirst(p) ==
    /\ At(p, "copy")
    /\ \E f \in todo[p] :
          bundle' = [bundle EXCEPT !.untracked = IF wt THEN @ \cup {f} ELSE @]
    /\ todo' = [todo EXCEPT ![p] = {}]
    /\ UNCHANGED <<pi, wt, up, status, pc, cut, history>>

\* Copies of an earlier capture stay, whatever this one finds.
CopyUntracked(p) ==
    /\ At(p, "copy")
    /\ \E f \in todo[p] :
          /\ todo' = [todo EXCEPT ![p] = @ \ {f}]
          /\ \/ /\ bundle' = [bundle EXCEPT !.untracked =
                                IF wt THEN @ \cup {f} ELSE @]
                /\ UNCHANGED cut
             \/ Fails(p) /\ UNCHANGED bundle
    /\ UNCHANGED <<pi, wt, up, status, pc, history>>

CaptureDone(p) ==
    /\ At(p, "copy") /\ todo[p] = {}
    /\ Goto(p, "remove")
    /\ UNCHANGED <<pi, wt, up, status, bundle, todo, cut, history>>
----------------------------------------------------------------------------
(* The rest of teardown_and_mark.                                          *)

\* The policy, and worktree_remove's look at the path.
ChoosePolicy(p) ==
    /\ At(p, "remove")
    /\ \/ Goto(p, "mark")
       \/ wt /\ Goto(p, "gitremove")
    /\ UNCHANGED <<pi, wt, up, status, bundle, todo, cut, history>>

\* git worktree remove --force, which a path that has gone meanwhile fails.
GitRemove(p) ==
    /\ At(p, "gitremove")
    /\ \/ /\ wt /\ wt' = FALSE /\ lossy' = cut[p]
          /\ Goto(p, "mark")
       \/ /\ ~wt \/ "git" \in Faults
          /\ Goto(p, "refuse")
          /\ UNCHANGED <<wt, lossy>>
    /\ UNCHANGED <<pi, up, status, bundle, todo, cut, overlap>>

TeardownRefuse(p) ==
    /\ At(p, "refuse")
    /\ status' = "refused"
    /\ Exit(p)
    /\ UNCHANGED <<pi, wt, up, bundle, history>>

TeardownMark(p) ==
    /\ At(p, "mark")
    /\ status' = "settled"
    /\ Exit(p)
    /\ UNCHANGED <<pi, wt, up, bundle, history>>

Crash(p) ==
    /\ "crash" \in Faults
    /\ ~At(p, "idle")
    /\ Exit(p)
    /\ UNCHANGED <<pi, wt, up, status, bundle, history>>

Capture(p) ==
    \/ CaptureEnds(p) \/ CopyIo(p) \/ WipeOutput(p) \/ LinkOutput(p) \/ GitCheck(p)
    \/ CaptureDiff(p) \/ ListUntracked(p) \/ CopyUntracked(p) \/ CaptureDone(p)

Teardown(p) ==
    \/ TeardownBegin(p) \/ TeardownVerify(p) \/ Capture(p) \/ ChoosePolicy(p)
    \/ GitRemove(p) \/ TeardownRefuse(p) \/ TeardownMark(p)

Next == PiWrites \/ ContainerStops \/ Recover
        \/ \E p \in Proc : Teardown(p) \/ Crash(p)

Spec == Init /\ [][Next]_vars
----------------------------------------------------------------------------
(* Properties.                                                             *)

Removed == kind = "project" /\ ~wt

\* Past the capture, on the way to the terminal status.
Captured(p) == pc[p] \in {"remove", "gitremove", "mark"} /\ ~cut[p]

\* artifacts.py:281-288: an untracked file outlives its worktree in the bundle,
\* however teardowns overlap, die and are repeated, unless its capture failed.
UntrackedSurvives == Removed => work.untracked \subseteq bundle.untracked \/ lossy

\* lifecycle.py:997: uncommitted work outlives its worktree in diff.patch.
DiffSurvives == Removed => work.patch = bundle.patch \/ lossy

\* The same as long as teardowns follow one another.
DiffSurvivesAlone == overlap \/ DiffSurvives

\* artifacts.py:29-32: a repeated capture leaves no file in the bundle's output
\* that Pi has deleted since the capture before it, if it could remove them.
OutputFresh ==
    \A p \in Proc : Captured(p) => bundle.output \subseteq work.output

\* artifacts.py:162-165: of teardowns that follow one another the last one has
\* all of io/output, and terminal.log and summary.md as Pi left them.  (One that
\* Pi has deleted keeps its copy of an earlier capture, artifacts.py:131-132.)
BundleComplete ==
    overlap \/ \A p \in Proc : Captured(p) =>
        /\ bundle.output = work.output
        /\ work.log # {} => bundle.log = work.log
        /\ work.summary # {} => bundle.summary = work.summary
==============================================================================
