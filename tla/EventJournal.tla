----------------------------- MODULE EventJournal -----------------------------
(***************************************************************************)
(* io/.naiw/events.jsonl at the level of bytes: naiw-signal's single       *)
(* os.write per event, events_tail.tail_events, and the compare-and-set    *)
(* with which concurrent list and reap passes move events_offset.          *)
(*                                                                         *)
(* The bytes of an event are two cells, the last of which ends with the    *)
(* newline: a reader that calls lstat while the kernel is still copying a  *)
(* write sees the first one alone, and so does everybody after a short     *)
(* write.  Writes are serialised by the kernel (O_APPEND).  Events that a  *)
(* pass holds back (module ListCmd) are not the subject here: every pass   *)
(* that wins the compare-and-set consumes what it read.                    *)
(***************************************************************************)
EXTENDS Naturals, Sequences, SequencesExt, FiniteSetsExt

CONSTANTS
    Reader,       \* concurrent passes
    MaxEvents,    \* bound: naiw-signal calls, numbered from 1
    ShortWrites,  \* TRUE: the disk may fill up in the middle of a write
    Recreations   \* TRUE: Pi may delete the journal

ASSUME JournalAssumption ==
    /\ MaxEvents \in Nat
    /\ ShortWrites \in BOOLEAN /\ Recreations \in BOOLEAN

VARIABLES
    file,       \* the cells of events.jsonl; << >> also when it is missing
    signals,    \* naiw-signal calls so far
    writing,    \* TRUE: the last call's write is in progress
    offset,     \* events_offset in task.json
    received,   \* history: the events of every pass that won, in order
    deleted,    \* history: the journal has been deleted at least once
    stale,      \* history: passes that began before the last deletion or move
                \* of the offset
    mixed,      \* history: such a pass has found its offset unmoved, and won
    pc, start, size, batch  \* control point and locals of each pass

locals == <<pc, start, size, batch>>
deletions == <<deleted, stale, mixed>>
vars == <<file, signals, writing, offset, received, deletions, locals>>

Event == 1..MaxEvents
Cell(e, last) == [event |-> e, last |-> last]

Init ==
    /\ file = << >> /\ signals = 0 /\ writing = FALSE
    /\ offset = 0 /\ received = << >>
    /\ deleted = FALSE /\ stale = {} /\ mixed = FALSE
    /\ pc = [r \in Reader |-> "idle"]
    /\ start = [r \in Reader |-> 0]
    /\ size = [r \in Reader |-> 0]
    /\ batch = [r \in Reader |-> [next |-> 0, events |-> << >>]]
----------------------------------------------------------------------------
(* writer.append_event                                                     *)

WriteFirstBytes ==
    /\ ~writing
    /\ signals < MaxEvents
    /\ signals' = signals + 1
    /\ file' = Append(file, Cell(signals + 1, FALSE))
    /\ writing' = TRUE
    /\ UNCHANGED <<offset, received, deletions, locals>>

\* The rest of the line; the exit status that an fsync decides reaches nobody.
WriteRest ==
    /\ writing
    /\ file' = Append(file, Cell(signals, TRUE))
    /\ writing' = FALSE
    /\ UNCHANGED <<signals, offset, received, deletions, locals>>

\* os.write returned early: exit 1, and the fragment stays in the file.
WriteShort ==
    /\ ShortWrites
    /\ writing
    /\ writing' = FALSE
    /\ UNCHANGED <<file, signals, offset, received, deletions, locals>>

Busy == {r \in Reader : pc[r] # "idle"}

\* Pi owns io/.naiw and may delete the journal.
Recreate ==
    /\ Recreations
    /\ ~writing
    /\ file' = << >>
    /\ deleted' = TRUE
    /\ stale' = Busy
    /\ UNCHANGED <<signals, writing, offset, received, mixed, locals>>
----------------------------------------------------------------------------
(* events_tail.tail_events and the mutator of list_cmd._reconcile_one.     *)

At(r, point) == pc[r] = point
Goto(r, point) == pc' = [pc EXCEPT ![r] = point]

\* Places in the cells c where a line ends that holds one event and no more.
GoodLines(c) ==
    {i \in 2..Len(c) :
        /\ c[i].last /\ ~c[i - 1].last
        /\ c[i].event = c[i - 1].event
        /\ i > 2 => c[i - 2].last}

\* The valid events among the complete lines of c, in file order: what the loop
\* over the lines has collected after the first n cells.
EventsUpTo(c) ==
    LET events[n \in 0..Len(c)] ==
          IF n = 0 THEN << >>
          ELSE IF n \in GoodLines(c) THEN Append(events[n - 1], c[n].event)
          ELSE events[n - 1]
    IN  events

EventsOf(c) == EventsUpTo(c)[Len(c)]

\* Mutant: a trailing fragment is consumed.
ConsumedWithFragment(c) == Len(c)

\* Bytes consumed: a trailing fragment is left for the next pass.
Consumed(c) == Max({0} \cup {i \in 1..Len(c) : c[i].last})

\* store.read_task: the offset this pass starts from.
ReadTask(r) ==
    /\ At(r, "idle")
    /\ start' = [start EXCEPT ![r] = offset]
    /\ Goto(r, "lstat")
    /\ UNCHANGED <<file, signals, writing, offset, received, deletions, size, batch>>

\* A missing file ends the tail with the offset it was given, an empty one
\* (Pi has truncated it, or the next signal is creating it) with 0.
Missing(r) ==
    /\ At(r, "lstat")
    /\ file = << >>
    /\ \E next \in {start[r], 0} :
          batch' = [batch EXCEPT ![r] = [next |-> next, events |-> << >>]]
    /\ Goto(r, "commit")
    /\ UNCHANGED <<file, signals, writing, offset, received, deletions, start, size>>

Lstat(r) ==
    /\ At(r, "lstat")
    /\ file # << >>
    /\ size' = [size EXCEPT ![r] = Len(file)]
    /\ Goto(r, "read")
    /\ UNCHANGED <<file, signals, writing, offset, received, deletions, start, batch>>

\* Mutant: a journal that has not grown is parsed again.
FromStart(r) == IF start[r] >= size[r] THEN 0 ELSE start[r]

\* A file shorter than the offset is parsed from its beginning.
From(r) == IF start[r] > size[r] THEN 0 ELSE start[r]

\* Mutant: a trailing fragment holds back the complete lines before it.
ReadChunkWhole(r) ==
    LET chunk == SubSeq(file, From(r) + 1, Min({size[r], Len(file)}))
        kept == IF Consumed(chunk) = Len(chunk) THEN chunk ELSE << >>
    IN  /\ At(r, "read")
        /\ batch' = [batch EXCEPT ![r] =
              [next |-> From(r) + Len(kept), events |-> EventsOf(kept)]]
        /\ Goto(r, "commit")
        /\ UNCHANGED <<file, signals, writing, offset, received, deletions, start, size>>

\* lseek and one read, up to the size lstat gave.
ReadChunk(r) ==
    LET chunk == SubSeq(file, From(r) + 1, Min({size[r], Len(file)}))
    IN  /\ At(r, "read")
        /\ batch' = [batch EXCEPT ![r] =
              [next |-> From(r) + Consumed(chunk), events |-> EventsOf(chunk)]]
        /\ Goto(r, "commit")
        /\ UNCHANGED <<file, signals, writing, offset, received, deletions, start, size>>

\* The locals are dead once the pass is over.
Finished(r) ==
    /\ Goto(r, "idle")
    /\ start' = [start EXCEPT ![r] = 0]
    /\ size' = [size EXCEPT ![r] = 0]
    /\ batch' = [batch EXCEPT ![r] = [next |-> 0, events |-> << >>]]

\* The mutator, under the task's flock.
Commit(r) ==
    /\ At(r, "commit")
    /\ IF offset = start[r]
       THEN /\ offset' = batch[r].next
            /\ received' = received \o batch[r].events
            /\ mixed' = (mixed \/ r \in stale)
            /\ stale' = (IF offset' = offset THEN stale ELSE Busy) \ {r}
       ELSE /\ stale' = stale \ {r}
            /\ UNCHANGED <<offset, received, mixed>>
    /\ Finished(r)
    /\ UNCHANGED <<file, signals, writing, deleted>>

Pass(r) == ReadTask(r) \/ Missing(r) \/ Lstat(r) \/ ReadChunk(r) \/ Commit(r)

Write == WriteFirstBytes \/ WriteRest \/ WriteShort

Next == Write \/ Recreate \/ \E r \in Reader : Pass(r)

Spec == Init /\ [][Next]_vars

\* The operator runs list or reap again and again.
FairSpec == Spec /\ \A r \in Reader : WF_vars(Pass(r))
----------------------------------------------------------------------------
(* Properties.                                                             *)

Readable == EventsOf(file)

Stream == INSTANCE EventStream WITH sent <- Readable

\* events_tail.py:3-5, list_cmd.py:245-258: however the passes overlap, every
\* well-formed line of the journal is consumed once and in order, until Pi
\* deletes the journal; nothing is lost but lines that a short write has spoilt.
FollowsStream == Stream!Init /\ [][deleted' \/ Stream!Next]_<<Readable, received>>

\* events_tail.py:82-87: no event is consumed twice, even when the journal is
\* deleted and starts again, unless a pass from before it wins after all.
NoDuplicates ==
    \A i, j \in DOMAIN received : received[i] = received[j] /\ i # j => mixed

\* Every well-formed line is consumed in the end, unless the journal goes.
AllReceived ==
    \A e \in Event :
        e \in ToSet(Readable) ~> e \in ToSet(received) \/ deleted
==============================================================================
