--------------------------- MODULE Stamping_proofs ---------------------------
(***************************************************************************)
(* What the stamper promises, for any clock and any number of writes.       *)
(***************************************************************************)
EXTENDS Stamping, TLAPS

\* The stamper holds a version it has read.
Holding == pc \in {"stat", "now", "write"}

Dated(v) == v.by = "mcp" /\ v.yaml => v.at <= v.modified

\* Mtimes and stamps never run ahead of the clock nor behind the write.
InTime ==
  /\ mtime <= clock
  /\ note # Gone => note.at <= mtime /\ note.ver <= writes
  /\ note # Gone /\ ~note.restamped => mtime = note.at
  /\ Holding => seen.at <= mtime /\ seen.ver <= writes
  /\ pc = "write" => seen.at <= ts /\ ts <= clock

\* A version is one content until it is restamped: what the stamper holds is the
\* note, or the note is a later version.
SameVersion == Holding /\ note # Gone /\ note.ver = seen.ver => note = seen

\* A note that is not dated has a stamp still to come.
StampComes ==
  note # Gone /\ ~Dated(note) => pending > 0 \/ call \/ pc = "read" \/ (Holding /\ seen = note)

\* So has an MCP write the stamper has not read.
EventComes ==
  Holding /\ note # Gone /\ note.by = "mcp" /\ note.ver # seen.ver => pending > 0 \/ call

\* Past the gate, a note nobody has written since is not one its client stamped.
GateOpened ==
  pc \in {"now", "write"} /\ note # Gone /\ note.ver = seen.ver
    => ~(~seen.restamped /\ seen.at <= seen.modified)

IInv == TypeOK /\ InTime /\ SameVersion /\ StampComes /\ EventComes /\ GateOpened

-----------------------------------------------------------------------------
LEMMA InitIInv == Init => IInv
  <1> SUFFICES ASSUME Init PROVE IInv
    OBVIOUS
  <1>1. First \in Versions
    BY BoundsAssumption DEF First, Versions, Second, Stamp, None
  <1>2. TypeOK
    <2>1. 0 \in 0..MaxClock /\ 0 \in 0..MaxWrites
      BY BoundsAssumption
    <2>2. QED
      BY <1>1, <2>1 DEF Init, TypeOK, Second
  <1>3. QED
    BY <1>2 DEF Init, IInv, InTime, SameVersion, StampComes, EventComes, GateOpened,
                Holding, Dated, First, None

\* What a writer leaves.
LEMMA WritesMakes ==
  ASSUME TypeOK, NEW source \in {"mcp", "device"}, Writes(source)
  PROVE  /\ writes' = writes + 1 /\ writes' \in 0..MaxWrites /\ mtime' = clock
         /\ note' \in Versions /\ note'.ver = writes + 1 /\ note'.by = source
         /\ note'.at = clock /\ ~note'.restamped
  <1>1. PICK c \in {None, clock} \cup Kept("created"),
             m \in {None, clock, clock + 1} \cup Kept("modified"), ok \in BOOLEAN :
          note' = [ver |-> writes + 1, by |-> source, at |-> clock, created |-> c,
                   modified |-> m, yaml |-> ok, restamped |-> FALSE]
    BY DEF Writes
  <1>2. writes' = writes + 1 /\ writes' \in 0..MaxWrites /\ mtime' = clock
    BY BoundsAssumption DEF Writes, TypeOK
  <1>3. note # Gone => note \in Versions
    BY DEF TypeOK
  <1>4. c \in Stamp
    BY <1>3, BoundsAssumption DEF Kept, Versions, TypeOK, Stamp, Second
  <1>5. m \in Stamp
    BY <1>3, BoundsAssumption DEF Kept, Versions, TypeOK, Stamp, Second
  <1>6. note' \in Versions
    BY <1>1, <1>2, <1>4, <1>5 DEF Versions, TypeOK
  <1>7. QED
    BY <1>1, <1>2, <1>6

LEMMA WriterKeepsIInv ==
  ASSUME IInv, McpWrites \/ DeviceWrites
  PROVE  IInv'
  <1>1. PICK source \in {"mcp", "device"} :
          /\ Writes(source) /\ (source = "mcp" => call')
          /\ call' \in BOOLEAN
          /\ UNCHANGED <<clock, pending, pc, seen, ts>>
    BY DEF McpWrites, DeviceWrites, IInv, TypeOK
  <1>2. /\ writes' = writes + 1 /\ writes' \in 0..MaxWrites /\ mtime' = clock
        /\ note' \in Versions /\ note'.ver = writes + 1 /\ note'.by = source
        /\ note'.at = clock /\ ~note'.restamped
    BY <1>1, WritesMakes DEF IInv
  <1>3. writes \in Nat /\ mtime \in Nat /\ clock \in Nat /\ seen.ver \in Nat /\ seen.at \in Nat
    BY BoundsAssumption DEF IInv, TypeOK, Second, Versions
  <1>4. TypeOK'
    BY <1>1, <1>2 DEF IInv, TypeOK, Second
  <1>5. InTime'
    BY <1>1, <1>2, <1>3 DEF IInv, InTime, Holding
  <1>6. SameVersion' /\ GateOpened'
    BY <1>1, <1>2, <1>3 DEF IInv, InTime, SameVersion, GateOpened, Holding
  <1>7. StampComes' /\ EventComes'
    BY <1>1, <1>2 DEF StampComes, EventComes, Dated
  <1>8. QED
    BY <1>4, <1>5, <1>6, <1>7 DEF IInv

\* The rest of the environment writes nothing.
LEMMA OthersKeepIInv ==
  ASSUME IInv, Tick \/ Deletes \/ Notify
  PROVE  IInv'
  <1>1. CASE Tick
    <2>1. clock \in Nat /\ mtime \in Nat /\ ts \in Nat /\ clock' = clock + 1
      BY <1>1, BoundsAssumption DEF IInv, TypeOK, Second, Tick
    <2>2. TypeOK'
      BY <1>1, <2>1, BoundsAssumption DEF IInv, TypeOK, Second, Tick, file
    <2>3. InTime'
      BY <1>1, <2>1 DEF IInv, InTime, Holding, Tick, file
    <2>4. QED
      BY <1>1, <2>2, <2>3 DEF IInv, SameVersion, StampComes, EventComes, GateOpened, Holding,
                              Dated, Tick, file
  <1>2. CASE Deletes
    <2>1. TypeOK'
      BY <1>2, BoundsAssumption DEF IInv, TypeOK, Deletes
    <2>2. InTime'
      <3>1. seen.ver \in Nat /\ writes \in Nat
        BY BoundsAssumption DEF IInv, TypeOK, Versions
      <3>2. QED
        BY <1>2, <3>1 DEF IInv, InTime, Holding, Deletes
    <2>3. QED
      BY <1>2, <2>1, <2>2 DEF IInv, SameVersion, StampComes, EventComes, GateOpened, Deletes
  <1>3. CASE Notify
    <2>1. pending \in Nat /\ pending' = pending + 1
      BY <1>3 DEF IInv, TypeOK, Notify
    <2>2. TypeOK'
      <3>1. call' = FALSE
        BY <1>3 DEF Notify
      <3>2. pending' \in Nat
        BY <2>1
      <3>3. QED
        BY <1>3, <3>1, <3>2 DEF IInv, TypeOK, Notify
    <2>3. QED
      BY <1>3, <2>1, <2>2 DEF IInv, InTime, SameVersion, StampComes, EventComes, GateOpened,
                              Holding, Dated, Notify
  <1>4. QED
    BY <1>1, <1>2, <1>3

-----------------------------------------------------------------------------
LEMMA StamperKeepsIInv ==
  ASSUME IInv, Stamper
  PROVE  IInv'
  <1> USE DEF Holding, file
  <1>t. /\ clock \in Nat /\ mtime \in Nat /\ ts \in Nat /\ pending \in Nat /\ writes \in Nat
        /\ seen \in Versions /\ (note # Gone => note \in Versions)
    BY BoundsAssumption DEF IInv, TypeOK, Second
  <1>v. \A v \in Versions : v.at \in Nat /\ v.modified \in Int /\ v.ver \in Nat
    BY BoundsAssumption DEF Versions, Second, Stamp, None
  <1>1. CASE Take
    BY <1>1, <1>t DEF IInv, TypeOK, InTime, SameVersion, StampComes, EventComes, GateOpened,
                      Dated, Take
  <1>2. CASE Skip
    BY <1>2, <1>t DEF IInv, TypeOK, InTime, SameVersion, StampComes, EventComes, GateOpened,
                      Dated, Skip
  <1>3. CASE Read
    <2>1. seen' = note /\ note # Gone /\ note \in Versions /\ pc = "read" /\ pc' = "stat"
          /\ UNCHANGED <<clock, note, mtime, call, writes, pending, ts>>
      BY <1>3, <1>t DEF Read
    <2>2. TypeOK'
      BY <2>1 DEF IInv, TypeOK
    <2>t. InTime'
      BY <2>1 DEF IInv, InTime
    <2>3. SameVersion' /\ StampComes' /\ EventComes' /\ GateOpened'
      BY <2>1 DEF IInv, SameVersion, StampComes, EventComes, GateOpened, Dated
    <2>4. QED
      BY <2>2, <2>t, <2>3 DEF IInv
  <1>4. CASE Stat
    <2>1. pc = "stat" /\ pc' \in {"idle", "now"} /\ UNCHANGED <<clock, file, pending, seen, ts>>
      BY <1>4 DEF Stat
    <2>2. TypeOK' /\ InTime' /\ SameVersion' /\ EventComes'
      BY <2>1 DEF IInv, TypeOK, InTime, SameVersion, EventComes
    <2>3. StampComes'
      <3>1. SUFFICES ASSUME note # Gone, ~Dated(note), pc' = "idle", seen = note
                     PROVE  FALSE
        BY <2>1 DEF IInv, StampComes, Dated
      <3>2. Current(seen.modified)
        BY <1>4, <3>1 DEF Stat
      <3>3. QED
        BY <3>1, <3>2, <1>t, <1>v DEF Current, IInv, InTime, Dated
    <2>4. GateOpened'
      <3>1. SUFFICES ASSUME pc' = "now", note # Gone, note.ver = seen.ver,
                            ~seen.restamped, seen.at <= seen.modified
                     PROVE  FALSE
        BY <2>1 DEF GateOpened
      <3>2. note = seen /\ mtime = seen.at
        BY <2>1, <3>1 DEF IInv, SameVersion, InTime
      <3>3. Current(seen.modified)
        BY <3>1, <3>2, <1>t, <1>v DEF Current, None
      <3>4. QED
        BY <1>4, <3>1, <3>3 DEF Stat
    <2>5. QED
      BY <2>2, <2>3, <2>4 DEF IInv
  <1>5. CASE Now
    <2>1. seen.at <= clock
      BY <1>5, <1>t, <1>v DEF Now, IInv, InTime
    <2>2. QED
      BY <1>5, <1>t, <2>1 DEF IInv, TypeOK, InTime, SameVersion, StampComes, EventComes,
                              GateOpened, Dated, Now
  <1>6. CASE Write
    <2>1. /\ note' \in Versions /\ note'.ver = seen.ver /\ note'.at = seen.at
          /\ note'.modified = ts /\ note'.restamped
      <3>1. ts \in Second /\ ts \in Stamp
        BY BoundsAssumption DEF IInv, TypeOK, Second, Stamp
      <3>2. /\ Stamped.ver = seen.ver /\ Stamped.at = seen.at
            /\ Stamped.modified = ts /\ Stamped.restamped
        BY <1>t DEF Stamped, Versions
      <3>3. Stamped \in Versions
        BY <3>1, <1>t DEF Stamped, Versions
      <3>4. QED
        BY <1>6, <3>2, <3>3 DEF Write
    <2>2. pc = "write" /\ pc' = "idle" /\ mtime' = clock
          /\ UNCHANGED <<clock, pending, call, writes, seen, ts>>
      BY <1>6 DEF Write
    <2>3. TypeOK'
      BY <2>1, <2>2 DEF IInv, TypeOK
    <2>4. InTime'
      BY <2>1, <2>2, <1>t, <1>v DEF IInv, InTime
    <2>5. QED
      BY <2>1, <2>2, <2>3, <2>4 DEF IInv, InTime, SameVersion, StampComes, EventComes, GateOpened, Dated
  <1>7. QED
    BY <1>1, <1>2, <1>3, <1>4, <1>5, <1>6 DEF Stamper

\* The inductive invariant.
LEMMA Invariant == Spec => []IInv
  <1>1. IInv /\ [Next]_vars => IInv'
    <2> SUFFICES ASSUME IInv, [Next]_vars PROVE IInv'
      OBVIOUS
    <2>1. CASE UNCHANGED vars
      BY <2>1 DEF vars, IInv, TypeOK, InTime, SameVersion, StampComes, EventComes, GateOpened,
                  Holding, Dated
    <2>2. QED
      BY <2>1, WriterKeepsIInv, OthersKeepIInv, StamperKeepsIInv DEF Next, Environment
  <1>2. QED
    BY <1>1, InitIInv, PTL DEF Spec

-----------------------------------------------------------------------------
\* Types: the stamper never holds a note it has not read.
THEOREM StamperTypes == Spec => []TypeOK
  <1>1. IInv => TypeOK
    BY DEF IInv
  <1>2. QED
    BY <1>1, Invariant, PTL

\* A note whose MCP events are all handled is dated (stamp's mtime gate), for any
\* number of writers, writes and ticks.
THEOREM EveryMcpNoteIsDated == Spec => []NoteIsDated
  <1>1. IInv => NoteIsDated
    <2> SUFFICES ASSUME IInv, Settled, note # Gone PROVE Dated(note)
      BY DEF NoteIsDated, Dated
    <2>1. ~(pending > 0) /\ ~call /\ pc = "idle"
      BY DEF Settled
    <2>2. QED
      BY <2>1 DEF IInv, StampComes, Holding
  <1>2. QED
    BY <1>1, Invariant, PTL

\* The steps that leave a note of the version that was there.
LEMMA OnlyTheStamperRewrites ==
  ASSUME IInv, IInv', [Next]_vars, note # Gone, note' # Gone, note'.ver = note.ver, note' # note
  PROVE  Write /\ seen = note
  <1>1. writes \in Nat /\ note.ver \in Nat /\ note.ver <= writes
    BY BoundsAssumption DEF IInv, TypeOK, InTime, Versions
  <1>2. ASSUME NEW source \in {"mcp", "device"}, Writes(source) PROVE FALSE
    BY <1>1, <1>2, WritesMakes DEF IInv
  <1>3. Write
    BY <1>2 DEF Next, Environment, Stamper, McpWrites, DeviceWrites, Tick, Deletes, Notify,
                Take, Skip, Read, Stat, Now, file, vars
  <1>4. note'.ver = seen.ver
    BY <1>3 DEF Write, Stamped, IInv, TypeOK, Versions
  <1>5. QED
    BY <1>3, <1>4 DEF Write, IInv, SameVersion, Holding

\* A version's `created` is set once (stamp).
THEOREM CreatedNeverChanges == Spec => CreatedIsKept
  <1>1. IInv /\ IInv' /\ [Next]_vars =>
          (note # Gone /\ note' # Gone /\ note'.ver = note.ver /\ note.created # None
             => note'.created = note.created)
    <2> SUFFICES ASSUME IInv, IInv', [Next]_vars, note # Gone, note' # Gone,
                        note'.ver = note.ver, note.created # None, note' # note
                 PROVE  note'.created = note.created
      OBVIOUS
    <2>1. Write /\ seen = note
      BY OnlyTheStamperRewrites
    <2>2. QED
      BY <2>1 DEF Write, Stamped, IInv, TypeOK, Versions
  <1>2. QED
    BY <1>1, Invariant, PTL DEF Spec, CreatedIsKept

\* A current `modified` of the client's is left alone (stamp's gate).
THEOREM ClientStampNeverTouched == Spec => ClientStampIsKept
  <1>1. IInv /\ IInv' /\ [Next]_vars =>
          (note # Gone /\ note' # Gone /\ note'.ver = note.ver /\ note' # note
             => ~(~note.restamped /\ note.at <= note.modified))
    <2> SUFFICES ASSUME IInv, IInv', [Next]_vars, note # Gone, note' # Gone,
                        note'.ver = note.ver, note' # note
                 PROVE  ~(~note.restamped /\ note.at <= note.modified)
      OBVIOUS
    <2>1. Write /\ seen = note
      BY OnlyTheStamperRewrites
    <2>2. QED
      BY <2>1 DEF Write, IInv, GateOpened
  <1>2. QED
    BY <1>1, Invariant, PTL DEF Spec, ClientStampIsKept

\* What the stamper overwrites of an MCP tool's still has its event to come.
THEOREM OverwrittenComesAgain == Spec => OverwrittenIsPending
  <1>1. IInv /\ [Next]_vars =>
          (pc = "write" /\ pc' = "idle" /\ note # Gone /\ note.by = "mcp" /\ note'.ver # note.ver
             => pending > 0 \/ call)
    <2> SUFFICES ASSUME IInv, [Next]_vars, pc = "write", pc' = "idle", note # Gone,
                        note.by = "mcp", note'.ver # note.ver
                 PROVE  pending > 0 \/ call
      OBVIOUS
    <2>1. Write
      BY DEF Next, Environment, Stamper, Tick, McpWrites, DeviceWrites, Deletes, Notify, Take,
             Skip, Read, Stat, Now, file, vars
    <2>2. note'.ver = seen.ver
      BY <2>1 DEF Write, Stamped, IInv, TypeOK, Versions
    <2>3. QED
      BY <2>2 DEF IInv, EventComes, Holding
  <1>2. QED
    BY <1>1, Invariant, PTL DEF Spec, OverwrittenIsPending
=============================================================================
