---------------------------- MODULE ArtifactsProofs ----------------------------
(***************************************************************************)
(* Theorems about the artifact bundle: for any number of overlapping       *)
(* teardowns, any files and any faults.                                    *)
(***************************************************************************)
EXTENDS Artifacts, TLAPS

TypeInv ==
    /\ work \in Contents /\ bundle \in Contents
    /\ wt \in BOOLEAN /\ up \in BOOLEAN
    /\ lossy \in BOOLEAN /\ overlap \in BOOLEAN
    /\ pc \in [Proc -> Steps]
    /\ todo \in [Proc -> SUBSET Item]
    /\ cut \in [Proc -> BOOLEAN]

\* While Pi's container runs, no teardown is past its verification, and the
\* worktree is there.
PiInv ==
    up => /\ ~Removed
          /\ \A p \in Proc : pc[p] \in {"idle", "verify", "refuse"}

\* What a teardown has copied so far of the untracked files, and the bundle of
\* a worktree that has been removed.
UntrackedInv ==
    /\ UntrackedSurvives
    /\ kind = "project" /\ wt =>
         \A p \in Proc : ~cut[p] =>
            /\ At(p, "copy") => work.untracked \subseteq bundle.untracked \cup todo[p]
            /\ pc[p] \in {"remove", "gitremove"}
                  => work.untracked \subseteq bundle.untracked

\* From the wipe on the bundle's output has only files that io/output has.
OutputInv ==
    \A p \in Proc :
        /\ At(p, "link") => todo[p] \subseteq work.output
        /\ ~cut[p] /\ pc[p] \in Steps \ {"idle", "verify", "refuse", "log", "summary", "wipe"}
             => bundle.output \subseteq work.output

\* Teardowns that never overlapped: one is under way, and the diff it has
\* captured is the worktree's.
AloneInv ==
    overlap \/
        /\ \A p, q \in InFlight : p = q
        /\ DiffSurvives
        /\ \A p \in Proc :
             /\ At(p, "diff") => ~Removed
             /\ pc[p] \in {"list", "copy", "remove", "gitremove"} /\ ~cut[p] /\ ~Removed
                  /\ kind = "project" => work.patch = bundle.patch

\* ... and so are the files of io/ it has copied and linked.
CompleteInv ==
    overlap \/
        /\ \A p, q \in InFlight : p = q
        /\ \A p \in Proc : ~cut[p] =>
             /\ pc[p] \in Steps \ {"idle", "verify", "refuse", "log"} /\ work.log # {}
                  => bundle.log = work.log
             /\ pc[p] \in Steps \ {"idle", "verify", "refuse", "log", "summary"}
                /\ work.summary # {} => bundle.summary = work.summary
             /\ At(p, "link") => work.output \subseteq bundle.output \cup todo[p]
             /\ pc[p] \in Steps \ {"idle", "verify", "refuse", "log", "summary", "wipe", "link"}
                  => work.output \subseteq bundle.output

Inv == TypeInv /\ PiInv /\ UntrackedInv /\ OutputInv /\ AloneInv /\ CompleteInv
----------------------------------------------------------------------------
(* One lemma per part of the invariant, one step per action.               *)

\* Types.
LEMMA TypeStep ==
    ASSUME TypeInv, [Next]_vars PROVE TypeInv'
<1> USE DEF TypeInv, Contents, Steps, At, Goto, pi, history
<1>1. CASE PiWrites
    BY <1>1 DEF PiWrites, Toggled
<1>2. CASE ContainerStops
    BY <1>2 DEF ContainerStops
<1>3. CASE Recover
    BY <1>3 DEF Recover
<1>4. ASSUME NEW p \in Proc, Teardown(p) \/ Crash(p) PROVE TypeInv'
  <2>1. CASE TeardownBegin(p)
    BY <2>1 DEF TeardownBegin
  <2>2. CASE TeardownVerify(p)
    BY <2>2 DEF TeardownVerify
  <2>3. CASE CaptureEnds(p)
    BY <2>3 DEF CaptureEnds, Fails
  <2>4. CASE CopyIo(p)
    <3>1. PICK f \in {"log", "summary"}, s \in SUBSET Item : bundle' = [bundle EXCEPT ![f] = s]
        <4>1. work.log \in SUBSET Item /\ work.summary \in SUBSET Item
              /\ bundle.log \in SUBSET Item /\ bundle.summary \in SUBSET Item
            OBVIOUS
        <4>2. CASE CopyIoFile(p, "log", "summary")
            BY <4>1, <4>2 DEF CopyIoFile
        <4>3. CASE CopyIoFile(p, "summary", "wipe")
            BY <4>1, <4>3 DEF CopyIoFile
        <4> QED
            BY <2>4, <4>2, <4>3 DEF CopyIo
    <3>2. bundle' \in Contents
        BY <3>1
    <3>3. cut' \in [Proc -> BOOLEAN] /\ pc' \in [Proc -> Steps]
        BY <2>4 DEF CopyIo, CopyIoFile, Fails
    <3> QED
        BY <2>4, <3>2, <3>3 DEF CopyIo, CopyIoFile
  <2>5. CASE WipeOutput(p)
    BY <2>5 DEF WipeOutput, Fails
  <2>6. CASE LinkOutput(p)
    <3>1. PICK f \in todo[p] : bundle' \in {bundle, [bundle EXCEPT !.output = @ \cup {f}]}
        BY <2>6 DEF LinkOutput
    <3>2. bundle' \in Contents
        BY <3>1
    <3>3. cut' \in [Proc -> BOOLEAN] /\ todo' \in [Proc -> SUBSET Item]
        BY <2>6 DEF LinkOutput, Fails
    <3> QED
        BY <2>6, <3>2, <3>3 DEF LinkOutput
  <2>7. CASE GitCheck(p)
    BY <2>7 DEF GitCheck
  <2>8. CASE CaptureDiff(p)
    <3>1. PICK s \in {work.patch, bundle.patch, {}} : bundle' = [bundle EXCEPT !.patch = s]
        BY <2>8 DEF CaptureDiff
    <3>2. bundle' \in Contents
        BY <3>1
    <3>3. cut' \in [Proc -> BOOLEAN]
        BY <2>8 DEF CaptureDiff, Fails
    <3> QED
        BY <2>8, <3>2, <3>3 DEF CaptureDiff
  <2>9. CASE ListUntracked(p)
    BY <2>9 DEF ListUntracked, Fails
  <2>10. CASE CopyUntracked(p)
    <3>1. PICK f \in todo[p] :
            bundle' \in {bundle, [bundle EXCEPT !.untracked = @ \cup {f}],
                        [bundle EXCEPT !.untracked = @]}
        BY <2>10 DEF CopyUntracked
    <3>2. bundle' \in Contents
        BY <3>1
    <3>3. cut' \in [Proc -> BOOLEAN] /\ todo' \in [Proc -> SUBSET Item]
        BY <2>10 DEF CopyUntracked, Fails
    <3> QED
        BY <2>10, <3>2, <3>3 DEF CopyUntracked
  <2>11. CASE CaptureDone(p)
    BY <2>11 DEF CaptureDone
  <2>12. CASE ChoosePolicy(p)
    BY <2>12 DEF ChoosePolicy
  <2>13. CASE GitRemove(p)
    BY <2>13 DEF GitRemove
  <2>14. CASE TeardownRefuse(p)
    BY <2>14 DEF TeardownRefuse, Exit
  <2>15. CASE TeardownMark(p)
    BY <2>15 DEF TeardownMark, Exit
  <2>16. CASE Crash(p)
    BY <2>16 DEF Crash, Exit
  <2> QED
    BY <1>4, <2>1, <2>2, <2>3, <2>4, <2>5, <2>6, <2>7, <2>8, <2>9, <2>10, <2>11, <2>12, <2>13, <2>14, <2>15, <2>16 DEF Teardown, Capture
<1>5. CASE UNCHANGED vars
    BY <1>5 DEF vars
<1> QED
    BY <1>1, <1>2, <1>3, <1>4, <1>5 DEF Next

\* A container comes up between teardowns only, and with the worktree there.
LEMMA PiStep ==
    ASSUME TypeInv, PiInv, [Next]_vars PROVE PiInv'
<1> USE DEF TypeInv, Steps, PiInv, Removed, InFlight, At, Goto, pi, history
<1>1. CASE PiWrites
    BY <1>1 DEF PiWrites, Toggled
<1>2. CASE ContainerStops
    BY <1>2 DEF ContainerStops
<1>3. CASE Recover
    BY <1>3 DEF Recover
<1>4. ASSUME NEW p \in Proc, Teardown(p) \/ Crash(p) PROVE PiInv'
  <2>1. CASE TeardownBegin(p)
    BY <2>1 DEF TeardownBegin
  <2>2. CASE TeardownVerify(p)
    BY <2>2 DEF TeardownVerify
  <2>3. CASE CaptureEnds(p)
    BY <2>3 DEF CaptureEnds, Fails
  <2>4. CASE CopyIo(p)
    BY <2>4 DEF CopyIo, CopyIoFile, Fails
  <2>5. CASE WipeOutput(p)
    BY <2>5 DEF WipeOutput, Fails
  <2>6. CASE LinkOutput(p)
    BY <2>6 DEF LinkOutput, Fails
  <2>7. CASE GitCheck(p)
    BY <2>7 DEF GitCheck
  <2>8. CASE CaptureDiff(p)
    BY <2>8 DEF CaptureDiff, Fails
  <2>9. CASE ListUntracked(p)
    BY <2>9 DEF ListUntracked, Fails
  <2>10. CASE CopyUntracked(p)
    BY <2>10 DEF CopyUntracked, Fails
  <2>11. CASE CaptureDone(p)
    BY <2>11 DEF CaptureDone
  <2>12. CASE ChoosePolicy(p)
    BY <2>12 DEF ChoosePolicy
  <2>13. CASE GitRemove(p)
    BY <2>13 DEF GitRemove
  <2>14. CASE TeardownRefuse(p)
    BY <2>14 DEF TeardownRefuse, Exit
  <2>15. CASE TeardownMark(p)
    BY <2>15 DEF TeardownMark, Exit
  <2>16. CASE Crash(p)
    BY <2>16 DEF Crash, Exit
  <2> QED
    BY <1>4, <2>1, <2>2, <2>3, <2>4, <2>5, <2>6, <2>7, <2>8, <2>9, <2>10, <2>11, <2>12, <2>13, <2>14, <2>15, <2>16 DEF Teardown, Capture
<1>5. CASE UNCHANGED vars
    BY <1>5 DEF vars
<1> QED
    BY <1>1, <1>2, <1>3, <1>4, <1>5 DEF Next

\* Copies are only added, and the worktree's files stand still meanwhile.
LEMMA UntrackedStep ==
    ASSUME TypeInv, PiInv, UntrackedInv, [Next]_vars PROVE UntrackedInv'
<1> USE DEF TypeInv, Contents, Steps, PiInv, Removed, UntrackedInv, UntrackedSurvives, At, Goto, pi, history
<1>1. CASE PiWrites
    BY <1>1 DEF PiWrites, Toggled
<1>2. CASE ContainerStops
    BY <1>2 DEF ContainerStops
<1>3. CASE Recover
    BY <1>3 DEF Recover
<1>4. ASSUME NEW p \in Proc, Teardown(p) \/ Crash(p) PROVE UntrackedInv'
  <2>1. CASE TeardownBegin(p)
    BY <2>1 DEF TeardownBegin
  <2>2. CASE TeardownVerify(p)
    BY <2>2 DEF TeardownVerify
  <2>3. CASE CaptureEnds(p)
    BY <2>3 DEF CaptureEnds, Fails
  <2>4. CASE CopyIo(p)
    BY <2>4 DEF CopyIo, CopyIoFile, Fails
  <2>5. CASE WipeOutput(p)
    BY <2>5 DEF WipeOutput, Fails
  <2>6. CASE LinkOutput(p)
    BY <2>6 DEF LinkOutput, Fails
  <2>7. CASE GitCheck(p)
    BY <2>7 DEF GitCheck
  <2>8. CASE CaptureDiff(p)
    BY <2>8 DEF CaptureDiff, Fails
  <2>9. CASE ListUntracked(p)
    BY <2>9 DEF ListUntracked, Fails
  <2>10. CASE CopyUntracked(p)
    BY <2>10 DEF CopyUntracked, Fails
  <2>11. CASE CaptureDone(p)
    BY <2>11 DEF CaptureDone
  <2>12. CASE ChoosePolicy(p)
    BY <2>12 DEF ChoosePolicy
  <2>13. CASE GitRemove(p)
    BY <2>13 DEF GitRemove
  <2>14. CASE TeardownRefuse(p)
    BY <2>14 DEF TeardownRefuse, Exit
  <2>15. CASE TeardownMark(p)
    BY <2>15 DEF TeardownMark, Exit
  <2>16. CASE Crash(p)
    BY <2>16 DEF Crash, Exit
  <2> QED
    BY <1>4, <2>1, <2>2, <2>3, <2>4, <2>5, <2>6, <2>7, <2>8, <2>9, <2>10, <2>11, <2>12, <2>13, <2>14, <2>15, <2>16 DEF Teardown, Capture
<1>5. CASE UNCHANGED vars
    BY <1>5 DEF vars
<1> QED
    BY <1>1, <1>2, <1>3, <1>4, <1>5 DEF Next

\* Every teardown links files that io/output has.
LEMMA OutputStep ==
    ASSUME TypeInv, PiInv, OutputInv, [Next]_vars PROVE OutputInv'
<1> USE DEF TypeInv, Contents, Steps, PiInv, OutputInv, At, Goto, pi, history
<1>1. CASE PiWrites
    BY <1>1 DEF PiWrites, Toggled
<1>2. CASE ContainerStops
    BY <1>2 DEF ContainerStops
<1>3. CASE Recover
    BY <1>3 DEF Recover
<1>4. ASSUME NEW p \in Proc, Teardown(p) \/ Crash(p) PROVE OutputInv'
  <2>1. CASE TeardownBegin(p)
    BY <2>1 DEF TeardownBegin
  <2>2. CASE TeardownVerify(p)
    BY <2>2 DEF TeardownVerify
  <2>3. CASE CaptureEnds(p)
    BY <2>3 DEF CaptureEnds, Fails
  <2>4. CASE CopyIo(p)
    BY <2>4 DEF CopyIo, CopyIoFile, Fails
  <2>5. CASE WipeOutput(p)
    BY <2>5 DEF WipeOutput, Fails
  <2>6. CASE LinkOutput(p)
    BY <2>6 DEF LinkOutput, Fails
  <2>7. CASE GitCheck(p)
    BY <2>7 DEF GitCheck
  <2>8. CASE CaptureDiff(p)
    BY <2>8 DEF CaptureDiff, Fails
  <2>9. CASE ListUntracked(p)
    BY <2>9 DEF ListUntracked, Fails
  <2>10. CASE CopyUntracked(p)
    BY <2>10 DEF CopyUntracked, Fails
  <2>11. CASE CaptureDone(p)
    BY <2>11 DEF CaptureDone
  <2>12. CASE ChoosePolicy(p)
    BY <2>12 DEF ChoosePolicy
  <2>13. CASE GitRemove(p)
    BY <2>13 DEF GitRemove
  <2>14. CASE TeardownRefuse(p)
    BY <2>14 DEF TeardownRefuse, Exit
  <2>15. CASE TeardownMark(p)
    BY <2>15 DEF TeardownMark, Exit
  <2>16. CASE Crash(p)
    BY <2>16 DEF Crash, Exit
  <2> QED
    BY <1>4, <2>1, <2>2, <2>3, <2>4, <2>5, <2>6, <2>7, <2>8, <2>9, <2>10, <2>11, <2>12, <2>13, <2>14, <2>15, <2>16 DEF Teardown, Capture
<1>5. CASE UNCHANGED vars
    BY <1>5 DEF vars
<1> QED
    BY <1>1, <1>2, <1>3, <1>4, <1>5 DEF Next

\* A second teardown is noticed when it begins.
LEMMA AloneStep ==
    ASSUME TypeInv, PiInv, AloneInv, [Next]_vars PROVE AloneInv'
<1> USE DEF TypeInv, Contents, Steps, PiInv, Removed, AloneInv, DiffSurvives, InFlight, At, Goto, pi, history
<1>1. CASE PiWrites
    BY <1>1 DEF PiWrites, Toggled
<1>2. CASE ContainerStops
    BY <1>2 DEF ContainerStops
<1>3. CASE Recover
    BY <1>3 DEF Recover
<1>4. ASSUME NEW p \in Proc, Teardown(p) \/ Crash(p) PROVE AloneInv'
  <2>1. CASE TeardownBegin(p)
    BY <2>1 DEF TeardownBegin
  <2>2. CASE TeardownVerify(p)
    <3>1. /\ pc'[p] \in {"log", "refuse"} /\ ~At(p, "idle")
          /\ \A q \in Proc \ {p} : pc'[q] = pc[q]
          /\ UNCHANGED <<kind, work, bundle, wt, cut, lossy, overlap>>
        BY <2>2 DEF TeardownVerify
    <3> QED
        BY <3>1
  <2>3. CASE CaptureEnds(p)
    BY <2>3 DEF CaptureEnds, Fails
  <2>4. CASE CopyIo(p)
    BY <2>4 DEF CopyIo, CopyIoFile, Fails
  <2>5. CASE WipeOutput(p)
    BY <2>5 DEF WipeOutput, Fails
  <2>6. CASE LinkOutput(p)
    BY <2>6 DEF LinkOutput, Fails
  <2>7. CASE GitCheck(p)
    BY <2>7 DEF GitCheck
  <2>8. CASE CaptureDiff(p)
    BY <2>8 DEF CaptureDiff, Fails
  <2>9. CASE ListUntracked(p)
    BY <2>9 DEF ListUntracked, Fails
  <2>10. CASE CopyUntracked(p)
    BY <2>10 DEF CopyUntracked, Fails
  <2>11. CASE CaptureDone(p)
    BY <2>11 DEF CaptureDone
  <2>12. CASE ChoosePolicy(p)
    BY <2>12 DEF ChoosePolicy
  <2>13. CASE GitRemove(p)
    BY <2>13 DEF GitRemove
  <2>14. CASE TeardownRefuse(p)
    BY <2>14 DEF TeardownRefuse, Exit
  <2>15. CASE TeardownMark(p)
    BY <2>15 DEF TeardownMark, Exit
  <2>16. CASE Crash(p)
    BY <2>16 DEF Crash, Exit
  <2> QED
    BY <1>4, <2>1, <2>2, <2>3, <2>4, <2>5, <2>6, <2>7, <2>8, <2>9, <2>10, <2>11, <2>12, <2>13, <2>14, <2>15, <2>16 DEF Teardown, Capture
<1>5. CASE UNCHANGED vars
    BY <1>5 DEF vars
<1> QED
    BY <1>1, <1>2, <1>3, <1>4, <1>5 DEF Next

\* The directory is only gone under another teardown.
LEMMA CompleteStep ==
    ASSUME TypeInv, PiInv, CompleteInv, [Next]_vars PROVE CompleteInv'
<1> USE DEF TypeInv, Contents, Steps, PiInv, CompleteInv, InFlight, At, Goto, pi, history
<1>1. CASE PiWrites
    BY <1>1 DEF PiWrites, Toggled
<1>2. CASE ContainerStops
    BY <1>2 DEF ContainerStops
<1>3. CASE Recover
    BY <1>3 DEF Recover
<1>4. ASSUME NEW p \in Proc, Teardown(p) \/ Crash(p) PROVE CompleteInv'
  <2>1. CASE TeardownBegin(p)
    <3>1. /\ pc' = [pc EXCEPT ![p] = "verify"] /\ pc[p] = "idle"
          /\ overlap' = (overlap \/ InFlight # {})
          /\ UNCHANGED <<work, bundle, todo, cut>>
        BY <2>1 DEF TeardownBegin
    <3>2. CASE overlap'
        BY <3>2
    <3>3. CASE ~overlap'
      <4>1. ~overlap /\ \A q \in Proc : pc[q] = "idle"
          BY <3>1, <3>3
      <4>2. pc'[p] = "verify" /\ \A q \in Proc \ {p} : pc'[q] = "idle"
          BY <3>1, <4>1
      <4> QED
          BY <4>2
    <3> QED
        BY <3>2, <3>3
  <2>2. CASE TeardownVerify(p)
    <3>1. /\ pc'[p] \in {"log", "refuse"}
          /\ \A q \in Proc \ {p} : pc'[q] = pc[q]
          /\ p \in InFlight
          /\ UNCHANGED <<work, bundle, todo, cut, overlap>>
        BY <2>2 DEF TeardownVerify
    <3> QED
        BY <3>1
  <2>3. CASE CaptureEnds(p)
    BY <2>3 DEF CaptureEnds, Fails
  <2>4. CASE CopyIo(p)
    BY <2>4 DEF CopyIo, CopyIoFile, Fails
  <2>5. CASE WipeOutput(p)
    BY <2>5 DEF WipeOutput, Fails
  <2>6. CASE LinkOutput(p)
    BY <2>6 DEF LinkOutput, Fails, DirectoryGone
  <2>7. CASE GitCheck(p)
    BY <2>7 DEF GitCheck
  <2>8. CASE CaptureDiff(p)
    BY <2>8 DEF CaptureDiff, Fails
  <2>9. CASE ListUntracked(p)
    BY <2>9 DEF ListUntracked, Fails
  <2>10. CASE CopyUntracked(p)
    BY <2>10 DEF CopyUntracked, Fails
  <2>11. CASE CaptureDone(p)
    BY <2>11 DEF CaptureDone
  <2>12. CASE ChoosePolicy(p)
    BY <2>12 DEF ChoosePolicy
  <2>13. CASE GitRemove(p)
    BY <2>13 DEF GitRemove
  <2>14. CASE TeardownRefuse(p)
    BY <2>14 DEF TeardownRefuse, Exit
  <2>15. CASE TeardownMark(p)
    BY <2>15 DEF TeardownMark, Exit
  <2>16. CASE Crash(p)
    BY <2>16 DEF Crash, Exit
  <2> QED
    BY <1>4, <2>1, <2>2, <2>3, <2>4, <2>5, <2>6, <2>7, <2>8, <2>9, <2>10, <2>11, <2>12, <2>13, <2>14, <2>15, <2>16 DEF Teardown, Capture
<1>5. CASE UNCHANGED vars
    BY <1>5 DEF vars
<1> QED
    BY <1>1, <1>2, <1>3, <1>4, <1>5 DEF Next

\* The initial states and every step.
THEOREM InvHolds == Spec => []Inv
<1>1. Init => Inv
  <2> SUFFICES ASSUME Init PROVE Inv
    OBVIOUS
  <2>1. TypeInv
    BY DEF Init, TypeInv, Contents, Nothing, Steps
  <2>2. PiInv
    BY DEF Init, PiInv, Removed
  <2>3. UntrackedInv /\ OutputInv
    BY DEF Init, UntrackedInv, UntrackedSurvives, Removed, OutputInv, Steps, At
  <2>4. AloneInv
    BY DEF Init, AloneInv, DiffSurvives, Removed, InFlight, At
  <2>5. CompleteInv
    BY DEF Init, CompleteInv, Steps, InFlight, At
  <2> QED
    BY <2>1, <2>2, <2>3, <2>4, <2>5 DEF Inv
<1>2. Inv /\ [Next]_vars => Inv'
    BY TypeStep, PiStep, UntrackedStep, OutputStep, AloneStep, CompleteStep
       DEF Inv
<1> QED
    BY <1>1, <1>2, PTL DEF Spec

\* artifacts.py:281-288: no overlap, crash or repetition of teardowns loses an
\* untracked file that was there when the worktree was removed, without a warning.
THEOREM UntrackedHolds == Spec => []UntrackedSurvives
<1>1. Inv => UntrackedSurvives
    BY DEF Inv, UntrackedInv
<1> QED
    BY <1>1, InvHolds, PTL

\* lifecycle.py:997: teardowns one after another, with crashes and failures in
\* between, keep the diff of the worktree they have removed.
THEOREM DiffHolds == Spec => []DiffSurvivesAlone
<1>1. Inv => DiffSurvivesAlone
    BY DEF Inv, AloneInv, DiffSurvivesAlone
<1> QED
    BY <1>1, InvHolds, PTL

\* artifacts.py:29-32: no deleted output file stays in the bundle of a capture
\* that could remove the one before it.
THEOREM OutputHolds == Spec => []OutputFresh
<1>1. Inv => OutputFresh
    BY DEF Inv, OutputInv, OutputFresh, Captured, Steps
<1> QED
    BY <1>1, InvHolds, PTL

\* artifacts.py:162-165, 178-180: teardowns one after another leave in the bundle
\* all of io/output, and every file of io/ that is there, as Pi left them.
THEOREM CompleteHolds == Spec => []BundleComplete
<1>1. Inv => BundleComplete
  <2> SUFFICES ASSUME Inv, ~overlap, NEW p \in Proc, Captured(p)
               PROVE  /\ bundle.output = work.output
                      /\ work.log # {} => bundle.log = work.log
                      /\ work.summary # {} => bundle.summary = work.summary
    BY DEF BundleComplete
  <2>1. bundle.output \subseteq work.output
    BY DEF Inv, OutputInv, Captured, Steps
  <2> QED
    BY <2>1 DEF Inv, CompleteInv, Captured, Steps
<1> QED
    BY <1>1, InvHolds, PTL
=============================================================================
