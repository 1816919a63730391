------------------------------ MODULE PlayerNode ------------------------------
(***************************************************************************)
(* The player of the recording format                                      *)
(* (Source/Modules/nimRecorder/PlayerNode.cpp), which plays what           *)
(* RecorderNode wrote: it handles one record after the other, repeats the  *)
(* file, and seeks, either with the seek tables (fast) or by undoing or    *)
(* reading the records in between (slow).                                  *)
(*                                                                         *)
(* The player's state is one record s, and a function of the code is an    *)
(* operator from the state before to the state after.                      *)
(***************************************************************************)
EXTENDS RecorderNode, SequencesExt, FiniteSetsExt

CONSTANTS
  Repeats,    \* the values of m_bRepeat that the application sets before playing
  MaxSeeks    \* bound: seeks

ASSUME PlayerAssumption == Repeats \subseteq BOOLEAN /\ MaxSeeks \in Nat

VARIABLES
  player,   \* the state of the player and of the nodes it plays
  seeks,    \* counts seeks, for the bound
  spoiled   \* ghost: a seek was made whose result depends on what it skips

vars == <<recorderVars, player, seeks, spoiled>>

\* An entry of m_aSeekTempArray is a place in the file, NULL, or a pointer into
\* a data index that was freed.
Null == -1
Freed == -2

NoUndo == [rec |-> 0, undo |-> 0]

\* PlayerNodeInfo::Reset.
Blank == [valid |-> FALSE, ready |-> FALSE, generator |-> FALSE, frames |-> 0,
          cur |-> 0, last |-> 0, data |-> NoUndo, prop |-> NoUndo, index |-> <<>>]

Nothing == [data |-> 0, prop |-> 0]

\* status is "new", "ok", "eof", "corrupt" (a call failed), "wild" (a freed data
\* index was read) or "endless" (a call that does not return); waits are the loops
\* in progress that handle records until something is reached, the innermost
\* first; shown is what the notifications made of the nodes.
NewPlayer ==
  [status |-> "new", repeat |-> FALSE, pos |-> 0, maxID |-> 0, begun |-> FALSE, waits |-> <<>>,
   info |-> [n \in Ids |-> Blank], temp |-> [n \in Ids |-> Null], shown |-> [n \in Ids |-> Nothing]]

PlayerInit == player = NewPlayer /\ seeks = 0 /\ spoiled = FALSE

Fail(s) == [s EXCEPT !.status = "corrupt"]
Ok(s) == s.status = "ok"

\* PlayerNodeInfo::Reset frees the data index, and an entry that points to it
\* keeps pointing there.
TempAfterReset(s, n) ==
  IF s.info[n].index # <<>> /\ s.temp[n] # Null THEN Freed ELSE s.temp[n]

ResetInfo(s, n) ==
  [s EXCEPT !.info[n] = Blank, !.temp[n] = TempAfterReset(s, n)]
-----------------------------------------------------------------------------
\* Handle records until node n is "ready" (after which the table of its added
\* record, at place k, is loaded), until the "first" frame is reached, or until
\* "frame" k of node n is.
Wait(s, until, n, k) ==
  [s EXCEPT !.waits = <<[until |-> until, node |-> n, num |-> k]>> \o @]

\* A notification of a value, and SaveRecordUndoInfo.
HandleProp(s, r, pos) ==
  [s EXCEPT !.shown[r.node].prop = pos,
            !.info[r.node].prop = [rec |-> pos, undo |-> r.undo]]

\* The payload is notified or skipped.
HandleNewData(s, r, pos, payload) ==
  IF r.num > s.info[r.node].frames THEN Fail(s)
  ELSE [s EXCEPT !.info[r.node].last = pos,
                 !.info[r.node].data = [rec |-> pos, undo |-> r.undo],
                 !.info[r.node].cur = r.num,
                 !.shown[r.node].data = IF payload THEN pos ELSE @]

HandleNodeAdded(s, r, pos) ==
  LET n == r.node
  IN  Wait([s EXCEPT !.info[n].valid = TRUE, !.info[n].generator = n \in Generators,
                     !.info[n].frames = IF n \in Generators THEN r.num ELSE @], "ready", n, pos)

\* The rest of HandleNodeAddedImpl, when the node is ready: its seek table.
LoadIndex(s, r) ==
  IF r.num = 0 \/ r.table = 0 THEN s
  ELSE IF Len(file[r.table].index) # s.info[r.node].frames THEN Fail(s)
  ELSE [s EXCEPT !.info[r.node].index = file[r.table].index]

HandleNodeRemoved(s, n) ==
  ResetInfo([s EXCEPT !.shown[n] = Nothing], n)

\* Every node is reset, and the records up to the first frame are handled.
Rewind(s) ==
  Wait([s EXCEPT !.info = [n \in Ids |-> Blank],
                 !.temp = [n \in Ids |-> TempAfterReset(s, n)],
                 !.pos = 1, !.begun = FALSE], "first", 0, 0)

HandleEnd(s) ==
  IF ~s.begun THEN Fail(s)
  ELSE IF s.repeat THEN Rewind(s)
  ELSE [s EXCEPT !.status = "eof", !.pos = 0]

\* HandleRecord. A record of a node that was not added, or whose ID is larger
\* than the header says, makes the file corrupt.
HandleRecord(s, r, pos, payload) ==
  CASE r.type = "end" -> HandleEnd(s)
    [] r.type = "table" -> s
    [] r.type = "added" -> IF r.node > s.maxID THEN Fail(s) ELSE HandleNodeAdded(s, r, pos)
    [] OTHER ->
       IF r.node > s.maxID \/ ~s.info[r.node].valid THEN Fail(s)
       ELSE CASE r.type = "prop" -> HandleProp(s, r, pos)
              [] r.type = "ready" -> [s EXCEPT !.info[r.node].ready = TRUE]
              [] r.type = "begin" -> [s EXCEPT !.begun = TRUE]
              [] r.type = "data" -> HandleNewData(s, r, pos, payload)
              [] r.type = "removed" -> HandleNodeRemoved(s, r.node)

\* ProcessRecord: place 0 is the header, which is not a record.
ProcessOne(s, payload) ==
  IF ~Ok(s) THEN s
  ELSE IF s.pos \notin DOMAIN file THEN Fail(s)
  ELSE HandleRecord([s EXCEPT !.pos = @ + 1], file[s.pos], s.pos, payload)

\* Whether a loop has what it waits for.
Over(s, w) ==
  CASE w.until = "ready" -> s.info[w.node].ready
    [] w.until = "first" -> s.begun
    [] w.until = "frame" -> s.info[w.node].cur >= w.num

\* A turn of the innermost loop: it handles a record (frames are skipped on the
\* way to a frame), or is left.
Turn(s) ==
  IF ~Ok(s) \/ s.waits = <<>> THEN s
  ELSE LET w == Head(s.waits)
           left == [s EXCEPT !.waits = Tail(@)]
       IN  IF ~Over(s, w) THEN ProcessOne(s, w.until # "frame")
           ELSE IF w.until = "ready" THEN LoadIndex(left, file[w.num]) ELSE left

\* Nothing a loop waits for is further away than to the end and once more
\* through the file: this many turns are enough for every loop that ends.
Enough == 4 * (Len(file) + 1)

\* The loops are run until all are left, or a call in them fails.
Run(s) ==
  LET after[k \in 0..Enough] == IF k = 0 THEN s ELSE Turn(after[k - 1])
      end == after[Enough]
  IN  IF s.waits = <<>> THEN s
      ELSE [end EXCEPT !.waits = <<>>,
                       !.status = IF end.waits # <<>> /\ Ok(end) THEN "endless" ELSE @]

ProcessRecord(s) == Run(ProcessOne(s, TRUE))
ProcessUntilFirstData(s) == Run(Wait(s, "first", 0, 0))
-----------------------------------------------------------------------------
\* Frame k of a node's data index, which begins with an empty entry 0.
Entry(s, n, k) ==
  IF k = 0 THEN [config |-> 0, pos |-> 0] ELSE s.info[n].index[k]

\* FindFrameForSeekPosition: the last frame up to a place in the file. A node
\* without frames has no data index, and the result is NULL.
FrameAt(s, n, pos) ==
  Max({0} \cup {k \in DOMAIN s.info[n].index : s.info[n].index[k].pos <= pos})

Others(s, n) == {i \in Ids \ {n} : s.info[i].generator}

\* Whether the configuration of a node's frame is that of the current frame of
\* the node the seek is for.
SameConfig(s, n, i, k) == 
  s.info[i].index # <<>> => Entry(s, i, k).config = Entry(s, n, s.info[n].cur).config

\* GetSeekLocationsFromDataIndex: the entries of the other nodes are looked at
\* in the order of the IDs, up to the first with another configuration.
CanSeekFast(s, n, f) ==
  /\ s.info[n].index # <<>> /\ SameConfig(s, n, n, f)
  /\ \A i \in Others(s, n) : SameConfig(s, n, i, FrameAt(s, i, s.info[n].index[f].pos))

\* Mutant: the other nodes are not looked up.
LocationOfOne(s, n, f) ==
  IF s.info[n].index = <<>> \/ ~SameConfig(s, n, n, f) THEN s
  ELSE [s EXCEPT !.temp[n] = s.info[n].index[f].pos]

SeekLocations(s, n, f) ==
  LET dest == s.info[n].index[f].pos
      seen(i) == \A j \in Others(s, n) : j < i => SameConfig(s, n, j, FrameAt(s, j, dest))
  IN  IF s.info[n].index = <<>> \/ ~SameConfig(s, n, n, f) THEN s
      ELSE [s EXCEPT !.temp = [i \in Ids |->
              CASE i = n -> dest
                [] i \in Others(s, n) /\ seen(i) ->
                     IF s.info[i].index = <<>> THEN Null
                     ELSE Entry(s, i, FrameAt(s, i, dest)).pos
                [] OTHER -> s.temp[i]]]

\* The entry of a node is read, if it has one.
ReadEntry(s, i) ==
  IF s.temp[i] = Null \/ ~Ok(s) \/ i > s.maxID THEN s
  ELSE IF s.temp[i] = Freed THEN [s EXCEPT !.status = "wild"]
  ELSE ProcessRecord([s EXCEPT !.pos = s.temp[i]])

\* The entries of all nodes, in the order of the IDs.
ReadEntries(s) ==
  LET read[i \in 0..MaxNodes] == IF i = 0 THEN s ELSE ReadEntry(read[i - 1], i)
  IN  read[MaxNodes]

\* Mutant: playing goes on after the entry that was read last.
StaysBehind(s, n, f) == ReadEntries(SeekLocations(s, n, f))

\* Every entry is read, and playing goes on after the last of them.
SeekFast(s, n, f) ==
  LET done == ReadEntries(SeekLocations(s, n, f))
      places == {done.temp[i] : i \in Ids} \ {Null}
  IN  IF Ok(done) THEN [done EXCEPT !.pos = Max(places) + 1] ELSE done

\* The last frame of a node is handled again, or the blank frame is shown.
ShowLast(s, i) ==
  IF ~Ok(s) THEN s
  ELSE IF s.info[i].last = 0 THEN [s EXCEPT !.shown[i].data = 0]
  ELSE ProcessRecord([s EXCEPT !.pos = s.info[i].last])

\* ProcessEachNodeLastData: the node the seek is for comes last.
ProcessEachNodeLastData(s, n) ==
  LET show[i \in 0..MaxNodes] == IF i = 0 THEN s
                         ELSE IF i \in Others(s, n) THEN ShowLast(show[i - 1], i) ELSE show[i - 1]
  IN  ShowLast(show[MaxNodes], n)

\* From a record of an undo chain after place dest to the one before it.
UndoOnce(u, dest) ==
  IF u.rec <= dest \/ u.undo = 0 THEN u ELSE [rec |-> u.undo, undo |-> file[u.undo].undo]

\* The first record of an undo chain up to place dest, or its oldest record.
UndoTo(u, dest) ==
  LET back[k \in 0..Len(file)] == IF k = 0 THEN u ELSE UndoOnce(back[k - 1], dest)
  IN  back[Len(file)]

InBetween(u, dest, start) == dest < u.rec /\ u.rec < start

\* UndoRecord of a property: without a record up to dest, only the map entry
\* follows the chain.
UndoProp(s, i, dest) ==
  LET u == UndoTo(s.info[i].prop, dest)
  IN  IF u.rec <= dest THEN HandleProp(s, file[u.rec], u.rec)
      ELSE [s EXCEPT !.info[i].prop = u]

\* UndoRecord of a frame: without one up to dest, the node has none.
UndoData(s, i, dest) ==
  LET u == UndoTo(s.info[i].data, dest)
  IN  IF u.rec <= dest THEN HandleNewData(s, file[u.rec], u.rec, FALSE)
      ELSE [s EXCEPT !.info[i].last = 0, !.info[i].data = NoUndo]

\* Mutant: the chain is followed past the frame.
FramePast(pos, f) ==
  IF pos = 0 \/ file[pos].num < f THEN pos ELSE file[pos].undo

\* From a frame of an undo chain whose number is larger to the one before it.
FrameBefore(pos, f) ==
  IF pos = 0 \/ file[pos].num <= f THEN pos ELSE file[pos].undo

\* The frame of the node to seek to is the first of its undo chain whose number
\* is not larger; a chain that ends before is a corrupt file.
FindFrame(pos, f) ==
  LET back[k \in 0..Len(file)] == IF k = 0 THEN pos ELSE FrameBefore(back[k - 1], f)
  IN  back[Len(file)]

\* The records of a node that were handled since place dest are undone.
UndoNode(s, n, i, dest, start) ==
  LET p == IF InBetween(s.info[i].prop, dest, start) THEN UndoProp(s, i, dest) ELSE s
  IN  IF i \in Others(s, n) /\ InBetween(p.info[i].data, dest, start)
      THEN UndoData(p, i, dest) ELSE p

SeekBack(s, n, f) ==
  LET dest == FindFrame(s.info[n].data.undo, f)
      undone[i \in 0..MaxNodes] == IF i = 0 THEN HandleNewData(s, file[dest], dest, FALSE)
                           ELSE UndoNode(undone[i - 1], n, i, dest, s.pos)
  IN  IF dest = 0 THEN Fail(s) ELSE ProcessEachNodeLastData(undone[MaxNodes], n)

\* SeekToFrameAbsolute: the current frame is read again; otherwise the seek is
\* fast, or goes back, or handles everything up to the frame, frames without
\* their data.
SeekTo(s, n, f) ==
  IF f = s.info[n].cur THEN ProcessRecord([s EXCEPT !.pos = s.info[n].last])
  ELSE IF CanSeekFast(s, n, f) THEN SeekFast(s, n, f)
  ELSE LET located == SeekLocations(s, n, f)
       IN  IF f < s.info[n].cur THEN SeekBack(located, n, f)
           ELSE ProcessEachNodeLastData(Run(Wait(located, "frame", n, f)), n)
-----------------------------------------------------------------------------
\* OpenStream, of a file that nobody writes to any more.
OpenStream ==
  /\ player.status = "new" /\ stage \in {"done", "crashed"}
  /\ \E r \in Repeats :
       player' = ProcessUntilFirstData([player EXCEPT !.status = "ok", !.repeat = r,
                                                      !.pos = 1, !.maxID = header])
  /\ UNCHANGED <<recorderVars, seeks, spoiled>>

ReadNext ==
  /\ Ok(player)
  /\ player' = ProcessRecord(player)
  /\ UNCHANGED <<recorderVars, seeks, spoiled>>

\* A seek the code does not account for: to the frame that is current, when
\* something was played since, or across a change of the configuration that the
\* current frame's entry does not show.
Spoils(n, f) ==
  \/ f = player.info[n].cur /\ player.pos # player.info[n].last + 1
  \/ \E k \in 1..(player.pos - 1) : file[k].type = "removed"
  \/ CanSeekFast(player, n, f) /\ \E k \in DOMAIN file :
       player.info[n].last < k /\ k < player.pos /\ file[k].type = "prop"

\* SeekToFrame: a name that no node has is refused; the destination is bounded
\* by the frames of the node, so it is 0 for a node that has none.
SeekToFrame(n, f) ==
  /\ Ok(player) /\ seeks < MaxSeeks
  /\ player.info[n].valid
  /\ IF player.info[n].frames = 0 THEN f = 0 ELSE f \in 1..player.info[n].frames
  /\ player' = SeekTo(player, n, f)
  /\ seeks' = seeks + 1
  /\ spoiled' = (spoiled \/ Spoils(n, f))
  /\ UNCHANGED recorderVars

Init == RecorderInit /\ PlayerInit

Next ==
  \/ RecorderNext /\ UNCHANGED <<player, seeks, spoiled>>
  \/ OpenStream \/ ReadNext
  \/ \E n \in Ids : \E f \in 0..MaxEvents : SeekToFrame(n, f)

Spec == Init /\ [][Next]_vars
-----------------------------------------------------------------------------
Places == 0..Len(file)

\* The types. A node is announced only while it is recorded (xnRecorderAddNode
\* notifies of all of its properties, then that it is ready).
TypeOK ==
  /\ header \in -1..MaxNodes /\ numNodes \in 0..MaxNodes
  /\ DOMAIN recorded \subseteq 1..numNodes
  /\ announcing \in DOMAIN recorded \cup {0}
  /\ configID \in Nat
  /\ stage \in {"recording", "finalizing", "done", "crashed"}
  /\ player.status \in {"new", "ok", "eof", "corrupt", "wild", "endless"} /\ player.waits = <<>>
  /\ player.pos \in 0..(Len(file) + 1) /\ player.maxID \in -1..MaxNodes
  /\ \A n \in Ids :
       /\ player.info[n].cur \in 0..player.info[n].frames /\ player.info[n].last \in Places
       /\ player.temp[n] \in Places \cup {Null, Freed}
       /\ player.shown[n].data \in Places /\ player.shown[n].prop \in Places
  /\ seeks \in 0..MaxSeeks /\ spoiled \in BOOLEAN

\* A fast seek reads through m_aSeekTempArray, which survives seeks and rewinds
\* while HandleNodeRemovedRecord and Rewind free the tables it points into. It
\* follows a pointer into a freed table only in a file that adds or removes a
\* node between the first frame and the end.
IndexAlive ==
  player.status = "wild" =>
    \E j, k \in DOMAIN file : j < k /\ file[j].type = "data" /\ file[k].type \in {"added", "removed"}
                             /\ \E e \in DOMAIN file : k < e /\ file[e].type = "end"

\* A file whose recorder died before FinalizeStream rewrote the header is never
\* played, wherever it died: no seek table or end record is missing in a file
\* that OpenStream accepts.
UnfinishedRefused == Ok(player) => stage = "done"

\* After a seek that succeeds the node shows the frame that was asked for, and
\* the next record is the one after it, however the frame was found
\* (SeekToFrameAbsolute: reread, fast, forward or backward). Only when an earlier
\* seek took the nodes' frames apart (Spoils) may a later frame be found first.
SoughtShown ==
  [][\A n \in Ids, f \in 1..MaxEvents :
       SeekToFrame(n, f) /\ ~spoiled /\ Ok(player') =>
         LET d == file[player'.shown[n].data]
         IN  d.type = "data" /\ d.node = n /\ d.num = f /\ player'.pos = player'.shown[n].data + 1]_vars

\* The player does not find a file corrupt that is not. A seek in it fails only
\* if the node has no frames at all, or if an earlier seek went back to before the
\* node's first frame, which leaves nCurFrame at a frame that is no longer there;
\* and after any seeks, reading goes on to the end of the file, and over it when
\* the file is repeated.
SeekFails(n) == player.info[n].frames = 0 \/ (player.info[n].last = 0 /\ player.info[n].cur > 0)
NeverCorrupt ==
  [][/\ \A n \in Ids, f \in 0..MaxEvents :
          SeekToFrame(n, f) /\ ~spoiled' /\ player'.status \in {"corrupt", "endless"} => SeekFails(n)
     /\ ReadNext /\ ~spoiled => player'.status \in {"ok", "eof"}]_vars

\* What the fast seek is used for: "all nodes are in the same configuration ID"
\* (GetSeekLocationsFromDataIndex), so every node shows the last property
\* value recorded before the frame.
FastSeekSameConfiguration ==
  [][\A n \in Ids, f \in 1..MaxEvents :
       SeekToFrame(n, f) /\ f # player.info[n].cur /\ CanSeekFast(player, n, f) /\ Ok(player') =>
         \A i \in Ids : LastRec("prop", i, player'.pos) \in {0, player'.shown[i].prop}]_vars

T == INSTANCE Timeline WITH
       events <- [k \in DOMAIN file |-> [type |-> file[k].type, node |-> file[k].node]],
       at <- IF Ok(player) THEN player.pos ELSE 0,
       shown <- player.shown,
       trusted <- ~spoiled /\ player.status \notin {"corrupt", "wild"}

\* The recorder and the player of the format implement a timeline: the file
\* only grows, playing skips nothing, and after a seek every node shows what it
\* showed at that place (until a seek of the kinds that Spoils names).
Follows == T!Spec
=============================================================================
