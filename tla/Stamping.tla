------------------------------ MODULE Stamping ------------------------------
(***************************************************************************)
(* One note and the stamper (stamping.py) against the clock: `created` and  *)
(* `modified` in the front matter, the file's mtime, and MCP tools and      *)
(* devices that write the note between any two steps of stamp().            *)
(*                                                                         *)
(* Both stamps and the mtime gate go by whole seconds, so the clock does    *)
(* too: Tick may fall between any two steps, or never.                      *)
(***************************************************************************)
EXTENDS Integers

CONSTANTS
  Gone,       \* what is at the path when there is no file
  MaxClock,   \* bound: seconds that pass
  MaxWrites   \* bound: writes and deletions

ASSUME BoundsAssumption == {MaxClock, MaxWrites} \subseteq Nat

VARIABLES
  clock,    \* the current second
  note,     \* the file: its content, or Gone
  mtime,    \* its modification time
  pending,  \* MCP_WRITE events on the queue that name it
  call,     \* an MCP tool has written and its listeners have yet to run
  writes,   \* versions written so far
  pc,       \* what stamp() does next
  seen,     \* the content it has read
  ts        \* what now_utc() gave it

vars == <<clock, note, mtime, pending, call, writes, pc, seen, ts>>
file == <<note, mtime, call, writes>>

-----------------------------------------------------------------------------
(* A version of the note: who wrote it and when, the stamps it carries, and *)
(* whether its front matter is YAML at all.  `restamped` says that the      *)
(* stamps are the server's, not the writer's.                               *)

None   == -1       \* no stamp, or one _modified_epoch() cannot parse
Second == 0..MaxClock
Stamp  == {None} \cup 0..(MaxClock + 1)   \* a client's clock may be ahead by one

Versions == [ver : 0..MaxWrites, by : {"mcp", "device"}, at : Second,
             created : Stamp, modified : Stamp, yaml : BOOLEAN, restamped : BOOLEAN]

ASSUME GoneAssumption == Gone \notin Versions

First == [ver |-> 0, by |-> "device", at |-> 0, created |-> None, modified |-> None,
          yaml |-> TRUE, restamped |-> FALSE]

Init ==
  /\ clock = 0 /\ note = First /\ mtime = 0
  /\ pending = 0 /\ call = FALSE /\ writes = 0
  /\ pc = "idle" /\ seen = First /\ ts = 0

\* The stamps a writer may leave: none, those it found, or its own clock's.
Kept(field) == IF note = Gone THEN {} ELSE {note[field]}

Tick == /\ clock < MaxClock /\ clock' = clock + 1
        /\ UNCHANGED <<file, pending, pc, seen, ts>>

Writes(source) ==
  /\ writes < MaxWrites /\ writes' = writes + 1
  /\ \E c \in {None, clock} \cup Kept("created"), m \in {None, clock, clock + 1} \cup Kept("modified"),
        ok \in BOOLEAN :
       note' = [ver |-> writes + 1, by |-> source, at |-> clock, created |-> c, modified |-> m,
                yaml |-> ok, restamped |-> FALSE]
  /\ mtime' = clock

McpWrites ==
  /\ ~call /\ Writes("mcp") /\ call' = TRUE
  /\ UNCHANGED <<clock, pending, pc, seen, ts>>

DeviceWrites ==
  /\ Writes("device")
  /\ UNCHANGED <<clock, pending, call, pc, seen, ts>>

\* By a tool (whose event is not stamped) or by a device.
Deletes ==
  /\ note # Gone /\ writes < MaxWrites
  /\ note' = Gone /\ writes' = writes + 1
  /\ UNCHANGED <<clock, mtime, pending, call, pc, seen, ts>>

Notify ==
  /\ call /\ call' = FALSE /\ pending' = pending + 1
  /\ UNCHANGED <<clock, note, mtime, writes, pc, seen, ts>>

-----------------------------------------------------------------------------
(* stamp(), called by the worker for each MCP_WRITE event.                  *)

Take ==
  /\ pc = "idle" /\ pending > 0
  /\ pending' = pending - 1 /\ pc' = "read"
  /\ UNCHANGED <<clock, file, seen, ts>>

\* Nothing to stamp, or front matter that does not load: no stamp, no error.
Skip ==
  /\ pc = "read" /\ (note = Gone \/ (note # Gone /\ ~note.yaml))
  /\ pc' = "idle"
  /\ UNCHANGED <<clock, file, pending, seen, ts>>

\* Mutant: stamps from what an earlier call has read.
Read_Cached ==
  /\ pc = "read" /\ note # Gone /\ note.yaml
  /\ seen' = IF seen = First THEN note ELSE seen
  /\ pc' = "stat"
  /\ UNCHANGED <<clock, file, pending, ts>>

\* Mutant: does not ask whether there is a file.
Read_Missing ==
  /\ pc = "read" /\ seen' = note /\ pc' = "stat"
  /\ UNCHANGED <<clock, file, pending, ts>>

Read ==
  /\ pc = "read" /\ note # Gone /\ note.yaml
  /\ seen' = note /\ pc' = "stat"
  /\ UNCHANGED <<clock, file, pending, ts>>

\* Mutant: < for <=, so a stamp of the current second is not current.
Current_Strictly(modified) == modified # None /\ mtime < modified

\* Mutant: a stamp one second older than the file is current too.
Current_Leniently(modified) == modified # None /\ mtime <= modified + 1

\* The mtime gate is closed: `modified` is as new as the file.
Current(modified) == modified # None /\ mtime <= modified

\* path.stat(): the file may be gone by now, or another one.
Stat ==
  /\ pc = "stat"
  /\ pc' = IF note = Gone \/ Current(seen.modified) THEN "idle" ELSE "now"
  /\ UNCHANGED <<clock, file, pending, seen, ts>>

Now ==
  /\ pc = "now" /\ ts' = clock /\ pc' = "write"
  /\ UNCHANGED <<clock, file, pending, seen>>

\* Mutant: `created` is bumped as well.
Stamped_Created == [seen EXCEPT !.created = ts, !.modified = ts, !.restamped = TRUE]

Stamped == [seen EXCEPT !.created = IF seen.created = None THEN ts ELSE seen.created,
                        !.modified = ts, !.restamped = TRUE]

\* write_text(): what was read, with its stamps, over whatever is there by now.
Write ==
  /\ pc = "write"
  /\ note' = Stamped /\ mtime' = clock
  /\ pc' = "idle"
  /\ UNCHANGED <<clock, pending, call, writes, seen, ts>>

Environment == Tick \/ McpWrites \/ DeviceWrites \/ Deletes \/ Notify
Stamper     == Take \/ Skip \/ Read \/ Stat \/ Now \/ Write

Next == Environment \/ Stamper
Spec == Init /\ [][Next]_vars

-----------------------------------------------------------------------------
TypeOK ==
  /\ clock \in Second /\ mtime \in Second /\ ts \in Second
  /\ note \in Versions \cup {Gone} /\ seen \in Versions
  /\ pending \in Nat /\ call \in BOOLEAN /\ writes \in 0..MaxWrites
  /\ pc \in {"idle", "read", "stat", "now", "write"}

\* Once its events are handled, an MCP-written note says when it was last changed,
\* or later, whoever else wrote it meanwhile and however the clock ticked
\* (stamp: "stamped only when its mtime ... is strictly newer than `modified`").
Settled == pc = "idle" /\ pending = 0 /\ ~call
NoteIsDated ==
  Settled /\ note # Gone => (note.by = "mcp" /\ note.yaml => note.at <= note.modified)

\* Once a version of the note has a `created`, no stamp of that version changes it,
\* however often the stamper comes back to it (stamping.py: "`created` is set only
\* when missing").
CreatedIsKept ==
  [][note # Gone /\ note' # Gone /\ note'.ver = note.ver /\ note.created # None
       => note'.created = note.created]_vars

\* A client that supplies a current `modified` keeps its note byte for byte, unless
\* there was another write on top of it (stamp: "left byte-unchanged, which is what
\* keeps re-runs and client-supplied stamps from thrashing").
ClientStampIsKept ==
  [][note # Gone /\ note' # Gone /\ note'.ver = note.ver /\ note' # note
       => ~(~note.restamped /\ note.at <= note.modified)]_vars

\* The stamper may overwrite what was written while it worked, but never an MCP
\* write whose event it has already taken: that one is still on its way.
OverwrittenIsPending ==
  [][pc = "write" /\ pc' = "idle" /\ note # Gone /\ note.by = "mcp" /\ note'.ver # note.ver
       => pending > 0 \/ call]_vars

-----------------------------------------------------------------------------
(* What TLC refutes (see the README).                                       *)

\* "After a stamp, floor(mtime) == modified, so a re-run is a no-op" (stamp).
StampIsIdempotent ==
  [][note # Gone /\ note.restamped /\ note' # Gone /\ note'.ver = note.ver => note' = note]_vars

\* "Skips missing paths silently" (stamp): what is deleted stays deleted.
DeletedStaysDeleted == [][note = Gone /\ note' # Gone => writes' = writes + 1]_vars

\* "`created` is set only when missing", and then it is set.
NoteIsBorn ==
  Settled /\ note # Gone => (note.by = "mcp" /\ note.yaml => note.created # None)
=============================================================================
