----------------------------- MODULE Checkpoints -----------------------------
(***************************************************************************)
(* Snapshots of files before the write tools change them, and their undo   *)
(* (deepseeknova-checkpoint/src/lib.rs, tools/src/fs.rs, the loading in    *)
(* runtime/src/lib.rs, cli/src/tui_undo.rs and `checkpoint` in             *)
(* cli/src/main.rs).                                                       *)
(*                                                                         *)
(* Every agent has a manager with a stack in memory, loaded from the file  *)
(* of lines when the agent is built; /undo and the subcommands load one of *)
(* their own each time.  Contents are numbers, Absent is a file that is    *)
(* not there.  The verifying and comparing commands change nothing and are *)
(* left out, and so is what bash, sub-agents and people write: their       *)
(* changes have no snapshot.                                               *)
(***************************************************************************)
EXTENDS Integers, FiniteSets, Sequences, SequencesExt

CONSTANTS
  Paths,         \* files of the workspace
  Agents,        \* agents built in this workspace: sessions, rebuilt chats, processes
  MaxSnapshots,  \* max_snapshots
  MaxCalls,      \* bound on the tool calls
  MaxStarts,     \* bound on the agents built
  MaxUndos       \* bound on the commands that undo or clear

ASSUME CheckpointAssumption ==
  {MaxSnapshots, MaxCalls, MaxStarts, MaxUndos} \subseteq Nat \ {0}
ASSUME AgentsAssumption == Agents \cap {"undo", "clear"} = {}

Absent == 0
Line(p, c) == [path |-> p, content |-> c]
NoCall == [what |-> "none"]
NoUndo == [at |-> "idle"]

VARIABLES
  disk,     \* the content of every file
  lines,    \* the snapshots in the file of lines
  ragged,   \* how that file ends: "no", "open" (no end of line) or "broken"
  manager,  \* per agent: on, the stack of snapshots, persisted_len
  call,     \* per agent: the tool call between its snapshot and its effect
  undo,     \* the command that is rolling back
  trail,    \* per file: its contents before each tool call that still stands
  raced,    \* files touched by two calls, or a call and an undo, at once
  marks,    \* what happened to the lines, see Told
  calls, starts, undos  \* counters of the bounds

counters == <<calls, starts, undos>>
checkpointVars == <<disk, lines, ragged, manager, call, undo, trail, raced, marks, counters>>

Off == [on |-> FALSE, stack |-> <<>>, persisted |-> 0, failed |-> <<>>]

CheckpointInit ==
  /\ disk = [p \in Paths |-> Absent]
  /\ lines = <<>> /\ ragged = "no"
  /\ manager = [a \in Agents |-> Off]
  /\ call = [a \in Agents |-> NoCall]
  /\ undo = NoUndo
  /\ trail = [p \in Paths |-> <<>>]
  /\ raced = {} /\ marks = {}
  /\ calls = 0 /\ starts = 0 /\ undos = 0

Newest(s, n) == IF Len(s) <= n THEN s ELSE SubSeq(s, Len(s) - n + 1, Len(s))

(* The files a call or the undo under way is about. *)
About(c) == {c.src, c.dst}
InCalls == UNION {About(call[a].what) : a \in {b \in Agents : call[b] # NoCall}}
Busy == InCalls \cup (IF undo = NoUndo THEN {} ELSE {l.path : l \in ToSet(undo.read)})

-----------------------------------------------------------------------------
(* What happens to the lines, for the properties:                          *)
(*   "company"  one was added or undone while somebody else held a copy    *)
(*   "forked"   they were written from a copy that was not up to date      *)
(*   "cut"      a rewrite or an undo of everything stopped half-way        *)
(*   "torn"     a save failed after a part was written, its agent goes on  *)
(*   "shed"     old ones were evicted, cleared or unreadable               *)
Company(me) ==
  \/ \E a \in Agents \ {me} : manager[a].on
  \/ me # "undo" /\ undo # NoUndo
Told(me, how) == marks' = marks \cup how \cup (IF Company(me) THEN {"company"} ELSE {})

-----------------------------------------------------------------------------
(* Seeded fault: the stack of a new agent is empty. *)
StartEmpty(a) ==
  /\ ~manager[a].on /\ starts < MaxStarts
  /\ manager' = [manager EXCEPT ![a] = [Off EXCEPT !.on = TRUE]]
  /\ starts' = starts + 1
  /\ UNCHANGED <<disk, lines, ragged, call, undo, trail, raced, marks, calls, undos>>

(* Building an agent: load_from, then with_persistence, which sets the     *)
(* length that is already in the file back to 0.  A file that cannot be    *)
(* read is a warning and an empty stack.                                   *)
Start(a) ==
  /\ ~manager[a].on /\ starts < MaxStarts
  /\ manager' = [manager EXCEPT ![a] =
       [Off EXCEPT !.on = TRUE, !.stack = IF ragged = "broken" THEN <<>> ELSE lines]]
  /\ starts' = starts + 1
  /\ UNCHANGED <<disk, lines, ragged, call, undo, trail, raced, marks, calls, undos>>

(* The session is dropped or the process dies, with or without a call.     *)
Stop(a) ==
  /\ manager[a].on
  /\ manager' = [manager EXCEPT ![a] = Off]
  /\ call' = [call EXCEPT ![a] = NoCall]
  /\ UNCHANGED <<disk, lines, ragged, undo, trail, raced, marks, counters>>

Stacked(a, new) == manager[a].stack \o new
Evicts(a, new) == Len(Stacked(a, new)) > MaxSnapshots
Kept(a, new) == Newest(Stacked(a, new), MaxSnapshots)
Unsaved(a, new) == SubSeq(Stacked(a, new), manager[a].persisted + 1, Len(Stacked(a, new)))
Rewrites(a, new) == Evicts(a, new) \/ manager[a].persisted = 0

(* Lines that an earlier save could not write may come too late. *)
Late(a) ==
  IF manager[a].failed # <<>> /\ ("company" \in marks \/ Company(a)) THEN {"forked"} ELSE {}

(* What a rewrite does to the lines, compared with one stack that all share. *)
Rewritten(a, new) ==
  LET shared == (IF ragged = "broken" THEN <<>> ELSE lines) \o manager[a].failed \o new
  IN  IF Kept(a, new) # Newest(shared, MaxSnapshots) THEN {"forked"}
      ELSE IF Kept(a, new) # shared \/ ragged = "broken" THEN {"shed"} ELSE {}

(* enforce_capacity and persist_incremental: a stack that lost its oldest  *)
(* entry, or of which nothing is in the file yet, replaces the file;       *)
(* otherwise what is not in it yet is appended.                            *)
Persist(a, new) ==
  IF Rewrites(a, new)
  THEN /\ lines' = Kept(a, new)
       /\ ragged' = "no"
       /\ Told(a, Late(a) \cup Rewritten(a, new))
  ELSE /\ lines' = lines \o Unsaved(a, new)
       /\ ragged' = IF ragged = "no" THEN "no" ELSE "broken"
       /\ Told(a, Late(a))

(* Write and edit change one file, delete removes one, move both.          *)
ToolCalls == {c \in [tool : {"write", "delete", "move"}, src : Paths, dst : Paths] :
                c.tool = "move" <=> c.src # c.dst}

(* Seeded fault: a move takes a snapshot of its source only. *)
SnapshotsOfSource(c) == <<Line(c.src, disk[c.src])>>

Snapshots(c) ==
  IF c.tool = "move" THEN <<Line(c.src, disk[c.src]), Line(c.dst, disk[c.dst])>>
  ELSE <<Line(c.src, disk[c.src])>>

(* The snapshot of a call, under the lock of the manager; a move takes two *)
(* under one lock.                                                         *)
Snapshot(a, c) ==
  /\ manager[a].on /\ call[a] = NoCall /\ calls < MaxCalls
  /\ LET new == Snapshots(c)
     IN  /\ Persist(a, new)
         /\ manager' = [manager EXCEPT ![a].stack = Kept(a, new),
                                       ![a].persisted = Len(Kept(a, new)),
                                       ![a].failed = <<>>]
  /\ call' = [call EXCEPT ![a] = [what |-> c, content |-> calls + 1]]
  /\ raced' = raced \cup (About(c) \cap Busy)
  /\ calls' = calls + 1
  /\ UNCHANGED <<disk, undo, trail, starts, undos>>

(* The file of lines cannot be opened: the call ends with the error, its    *)
(* first snapshot stays on the stack.                                      *)
SnapshotFails(a, c) ==
  /\ manager[a].on /\ call[a] = NoCall /\ calls < MaxCalls
  /\ LET new == <<Head(Snapshots(c))>>
     IN  manager' = [manager EXCEPT ![a].stack = Kept(a, new), ![a].failed = @ \o new]
  /\ calls' = calls + 1
  /\ UNCHANGED <<disk, lines, ragged, call, undo, trail, raced, marks, starts, undos>>

(* The first snapshot of a move is saved and the second cannot be. *)
SecondFails(a, c) ==
  /\ manager[a].on /\ call[a] = NoCall /\ calls < MaxCalls
  /\ Len(Snapshots(c)) = 2
  /\ LET new == <<Head(Snapshots(c))>>
         second == Tail(Snapshots(c))
     IN  /\ Persist(a, new)
         /\ manager' = [manager EXCEPT ![a].stack = Newest(Kept(a, new) \o second, MaxSnapshots),
                                       ![a].persisted = Len(Kept(a, new)),
                                       ![a].failed = second]
  /\ raced' = raced \cup (About(c) \cap Busy)
  /\ calls' = calls + 1
  /\ UNCHANGED <<disk, call, undo, trail, starts, undos>>

(* What a save that stops half-way leaves: a rewrite a first part, an      *)
(* append what was there and some of the rest.                             *)
PartWritten(a, new) ==
  LET rewrite == Rewrites(a, new)
      all == IF rewrite THEN Kept(a, new) ELSE lines \o Unsaved(a, new)
  IN  {SubSeq(all, 1, n) : n \in (IF rewrite THEN 0 ELSE Len(lines))..Len(all)}

(* Writing the lines fails after the file was opened, and maybe emptied:   *)
(* the call ends with the error, the agent goes on with its snapshot on    *)
(* the stack, and counts none of it as saved.  (A move whose second save   *)
(* ends so is left out.)                                                   *)
SnapshotTorn(a, c) ==
  /\ manager[a].on /\ call[a] = NoCall /\ calls < MaxCalls
  /\ LET new == <<Head(Snapshots(c))>>
     IN  /\ lines' \in PartWritten(a, new)
         /\ manager' = [manager EXCEPT ![a].stack = Kept(a, new), ![a].failed = @ \o new]
  /\ ragged' \in {"no", "open", "broken"}
  /\ Told(a, {"torn"})
  /\ calls' = calls + 1
  /\ UNCHANGED <<disk, call, undo, trail, raced, starts, undos>>

(* The process dies while it writes the lines: the last one may miss its   *)
(* end, and a rewrite leaves a first part.                                 *)
CrashInSnapshot(a, c) ==
  /\ manager[a].on /\ call[a] = NoCall /\ calls < MaxCalls
  /\ LET new == Snapshots(c)
         rewrite == Rewrites(a, new)
         all == IF rewrite THEN Kept(a, new) ELSE lines \o Unsaved(a, new)
     IN  /\ \E n \in (IF rewrite THEN 0 ELSE Len(lines) + 1)..Len(all) :
              /\ lines' = SubSeq(all, 1, n)
              /\ ragged' \in IF ~rewrite /\ ragged # "no" THEN {"broken"}
                             ELSE IF n = 0 THEN {"no"} ELSE {"no", "open"}
         /\ Told(a, IF rewrite \/ Unsaved(a, new) # new THEN {"cut"} ELSE {})
  /\ manager' = [manager EXCEPT ![a] = Off]
  /\ raced' = raced \cup (About(c) \cap Busy)
  /\ calls' = calls + 1
  /\ UNCHANGED <<disk, call, undo, trail, starts, undos>>

(* Files change; the trail is what the calls that stand have changed.      *)
Change(d) ==
  /\ disk' = d
  /\ trail' = [p \in Paths |-> IF d[p] # disk[p] THEN Append(trail[p], disk[p]) ELSE trail[p]]

(* The effect of the call.  Every write is new content; a file that is not *)
(* there can be neither deleted nor moved.                                 *)
Effect(a) ==
  /\ call[a] # NoCall
  /\ LET c == call[a].what
     IN  \/ /\ c.tool = "write"
            /\ Change([disk EXCEPT ![c.src] = call[a].content])
         \/ /\ c.tool = "delete" /\ disk[c.src] # Absent
            /\ Change([disk EXCEPT ![c.src] = Absent])
         \/ /\ c.tool = "move" /\ disk[c.src] # Absent
            /\ Change([disk EXCEPT ![c.dst] = disk[c.src], ![c.src] = Absent])
  /\ call' = [call EXCEPT ![a] = NoCall]
  /\ UNCHANGED <<lines, ragged, manager, undo, raced, marks, counters>>

(* An edit that does not fit, an I/O error, a cancellation: the snapshot   *)
(* stays.                                                                  *)
NoEffect(a) ==
  /\ call[a] # NoCall
  /\ call' = [call EXCEPT ![a] = NoCall]
  /\ UNCHANGED <<disk, lines, ragged, manager, undo, trail, raced, marks, counters>>

-----------------------------------------------------------------------------
(* /undo, /undo all, `checkpoint rollback` and `checkpoint clear`.         *)

Readable == ragged # "broken"

UndoBegin(all) ==
  /\ undo = NoUndo /\ undos < MaxUndos
  /\ Readable /\ lines # <<>>
  /\ undo' = [at |-> "restore", stack |-> lines, read |-> lines, all |-> all]
  /\ undos' = undos + 1
  /\ UNCHANGED <<disk, lines, ragged, manager, call, trail, raced, marks, calls, starts>>

(* rollback_inner: pop and restore; without --all once. *)
Restore ==
  /\ undo.at = "restore"
  /\ LET l == Last(undo.stack)
         p == l.path
     IN  /\ disk' = [disk EXCEPT ![p] = l.content]
         /\ trail' = IF disk[p] = l.content \/ trail[p] = <<>> THEN trail
                     ELSE [trail EXCEPT ![p] = Front(@)]
         /\ raced' = raced \cup ({p} \cap InCalls)
         /\ undo' = [undo EXCEPT !.stack = Front(@),
                        !.at = IF undo.all /\ Len(undo.stack) > 1 THEN "restore" ELSE "persist"]
  /\ Told("undo", {})
  /\ UNCHANGED <<lines, ragged, manager, call, counters>>

(* Restoring fails, or the process dies: nothing is written. *)
RestoreFails ==
  /\ undo # NoUndo
  /\ undo' = NoUndo
  /\ marks' = IF undo.all /\ undo.stack # undo.read THEN marks \cup {"cut"} ELSE marks
  /\ UNCHANGED <<disk, lines, ragged, manager, call, trail, raced, counters>>

UndoPersist ==
  /\ undo.at = "persist"
  /\ lines' = undo.stack /\ ragged' = "no"
  /\ undo' = NoUndo
  /\ Told("undo", IF lines # undo.read THEN {"forked"} ELSE {})
  /\ UNCHANGED <<disk, manager, call, trail, raced, counters>>

(* The process dies while it rewrites the file. *)
CrashInPersist ==
  /\ undo.at = "persist"
  /\ \E n \in 0..Len(undo.stack) :
       /\ lines' = SubSeq(undo.stack, 1, n)
       /\ ragged' \in IF n = 0 THEN {"no"} ELSE {"no", "open"}
  /\ undo' = NoUndo
  /\ Told("undo", {"cut"})
  /\ UNCHANGED <<disk, manager, call, trail, raced, counters>>

Clear ==
  /\ Readable /\ undos < MaxUndos
  /\ lines' = <<>> /\ ragged' = "no"
  /\ undos' = undos + 1
  /\ Told("clear", {"shed"})
  /\ UNCHANGED <<disk, manager, call, undo, trail, raced, calls, starts>>

-----------------------------------------------------------------------------
CheckpointNext ==
  \/ \E a \in Agents :
       \/ Start(a) \/ Stop(a) \/ Effect(a) \/ NoEffect(a)
       \/ \E c \in ToolCalls :
            \/ Snapshot(a, c) \/ SnapshotFails(a, c) \/ SecondFails(a, c)
            \/ SnapshotTorn(a, c) \/ CrashInSnapshot(a, c)
  \/ \E all \in BOOLEAN : UndoBegin(all)
  \/ Restore \/ RestoreFails \/ UndoPersist \/ CrashInPersist \/ Clear

CheckpointSpec == CheckpointInit /\ [][CheckpointNext]_checkpointVars

-----------------------------------------------------------------------------
Contents == 0..MaxCalls
CheckpointTypeOK ==
  /\ disk \in [Paths -> Contents]
  /\ \A l \in ToSet(lines) : l.path \in Paths /\ l.content \in Contents
  /\ ragged \in {"no", "open", "broken"}
  /\ \A a \in Agents :
       /\ manager[a].on \in BOOLEAN
       /\ manager[a].persisted \in 0..Len(manager[a].stack)
       /\ Len(manager[a].stack) <= MaxSnapshots \/ manager[a].persisted = 0
       /\ call[a] = NoCall \/ call[a].what \in ToolCalls
  /\ undo.at \in {"idle", "restore", "persist"}
  /\ \A p \in Paths : ToSet(trail[p]) \subseteq Contents
  /\ raced \subseteq Paths
  /\ marks \subseteq {"company", "forked", "cut", "torn", "shed"}

(* The contents a file goes back through when all is undone, one line      *)
(* after the other; a line that changes nothing does not count.            *)
Retraced(p) ==
  LET mine == SelectSeq(lines, LAMBDA l : l.path = p)
      past == <<disk[p]>> \o Reverse([i \in DOMAIN mine |-> mine[i].content])
      steps == {i \in 2..Len(past) : past[i] # past[i - 1]}
  IN  [k \in 1..Cardinality(steps) |->
         past[CHOOSE i \in steps : Cardinality({j \in steps : j <= i}) = k]]

-----------------------------------------------------------------------------
(* What is checked. *)

\* Undoing goes back through the calls that stand, the last one first, and through
\* all of them unless old lines were shed: whatever calls failed, were cancelled or
\* moved files, whatever saves and undos failed, and however often agents were
\* rebuilt.  It holds as long as nothing was written from an old copy and no save or
\* undo stopped half-way, for the files that no two of the calls and undos were about
\* at once.
UndoRetraces ==
  Readable /\ undo = NoUndo /\ marks \cap {"forked", "cut", "torn"} = {} =>
    \A p \in Paths \ raced :
      /\ IsPrefix(Retraced(p), Reverse(trail[p]))
      /\ "shed" \notin marks => Len(Retraced(p)) = Len(trail[p])

\* Lines are lost or come back only in company: one agent after the other, with undos
\* while there is none, never writes them from an old copy, whatever it has to
\* rewrite after a start, a save that could not open the file, or an eviction.  With
\* two about at once, and after a save that failed with a part written, it says
\* nothing: then the code does lose lines and bring back others.
ForksNeedCompany ==
  /\ CheckpointTypeOK
  /\ "forked" \in marks => marks \cap {"company", "torn"} # {}
=============================================================================
