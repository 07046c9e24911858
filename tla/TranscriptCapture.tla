------------------------- MODULE TranscriptCapture -------------------------
(***************************************************************************)
(* Capture of one transcript (src/ingest/transcripts/ingestor.mjs with     *)
(* jsonl-tail.mjs, cursor-store.mjs and the loop of backfill.mjs): passes  *)
(* read the complete lines after a cursor, put each record through the     *)
(* encrypted outbox and advance the cursor.  Two cursor namespaces with a  *)
(* process each: the backfill, and the invocations of the ingest command,  *)
(* which poll the realtime cursor or replay what is pending.  Meanwhile    *)
(* the source runtime appends to the file, truncates it or replaces it.    *)
(*                                                                         *)
(* The file is a sequence of tokens: a record, or the end of a line.  A    *)
(* checkpoint (HMAC over bytes) is the tokens it covers.  Parsing a record *)
(* and finding its session is IdOf; a malformed line fails its whole batch.*)
(***************************************************************************)
EXTENDS EncryptedOutbox, Sequences, Functions

CONSTANTS
  NL,             \* the end of a line
  Malformed,      \* a line that is not JSON
  NoCursor,
  PrefixMax,      \* tokens in the prefix checkpoint (4096 bytes in the code)
  TailMax,        \* tokens in the tail window (64 KiB in the code)
  BatchMax,       \* tokens read by a pass (maxBytes)
  MaxSize,        \* bound: length of the file
  MaxRewrites     \* bound: truncations and replacements

Namespaces == {"realtime", "backfill"}
Tokens == Records \cup {NL, Malformed}

ASSUME CaptureAssumption ==
  /\ Procs = Namespaces
  /\ NL \notin Records /\ Malformed \notin Records
  /\ {PrefixMax, TailMax, BatchMax, MaxSize} \subseteq Nat \ {0}
  /\ MaxRewrites \in Nat

VARIABLES
  file,       \* the transcript: inode and content
  cursor,     \* the cursor file of each namespace
  pass,       \* the pass of each process
  rewrites    \* truncations and replacements so far

vars == <<outboxVars, file, cursor, pass, rewrites>>

Window(d, from, to) == SubSeq(d, from + 1, to)
NoPass == [at |-> "idle", full |-> FALSE, batch |-> <<>>, cur |-> NoCursor,
           replay |-> {}, seen |-> <<>>]   \* seen: the file as it was when read

Init ==
  /\ OutboxInit
  /\ file = [ino |-> 1, data |-> <<>>]
  /\ cursor = [n \in Namespaces |-> NoCursor]
  /\ pass = [p \in Procs |-> NoPass]
  /\ rewrites = 0

(***************************************************************************)
(* The source runtime                                                      *)
(***************************************************************************)

\* tailBootstrapOffset: the end of the last complete line.  A record and its end
\* of line are written apart, so at most the last token is not in a line.
AtLineStart(d) == d # <<>> => d[Len(d)] = NL
LastLineEnd(d) == IF AtLineStart(d) THEN Len(d) ELSE Len(d) - 1

\* A record is written at the start of a line; an end of line ends it, or is
\* an empty line.
AppendToken(t) ==
  /\ Len(file.data) < MaxSize
  /\ t # NL => AtLineStart(file.data) /\ Len(file.data) + 1 < MaxSize
  /\ file' = [file EXCEPT !.data = Append(@, t)]
  /\ UNCHANGED <<outboxVars, cursor, pass, rewrites>>

\* Truncation in place keeps the inode, replacement changes it.
Rewrite(ino) ==
  /\ rewrites < MaxRewrites
  /\ rewrites' = rewrites + 1
  /\ file.data # <<>>
  /\ ino \in {file.ino, file.ino + 1}
  /\ file' = [ino |-> ino, data |-> <<>>]
  /\ UNCHANGED <<outboxVars, cursor, pass>>

(***************************************************************************)
(* Reading lines                                                           *)
(***************************************************************************)

\* readCompleteJsonl: the complete lines among the next BatchMax tokens.
Chunk(d, off) == Window(d, off, IF Len(d) - off < BatchMax THEN Len(d) ELSE off + BatchMax)
CompleteLines(d, off) == Window(Chunk(d, off), 0, LastLineEnd(Chunk(d, off)))

\* Every line of the batch is decoded before the first is used, and a line
\* longer than the batch is refused.
BatchFails(d, off) ==
  \/ Malformed \in Range(CompleteLines(d, off))
  \/ CompleteLines(d, off) = <<>> /\ Len(d) - off > BatchMax

(***************************************************************************)
(* Cursors                                                                 *)
(***************************************************************************)

NoSpan == [start |-> 0, data |-> <<>>]
TailStart(off) == IF off > TailMax THEN off - TailMax ELSE 0

\* A range that is no longer there gives no checkpoint.
TailWindow(d, off) ==
  IF off > Len(d) THEN NoSpan
  ELSE [start |-> TailStart(off), data |-> Window(d, TailStart(off), off)]

NewCursor(gen, off, boot) ==
  LET d == file.data
      length == IF Len(d) < PrefixMax THEN Len(d) ELSE PrefixMax
  IN [gen |-> gen, ino |-> file.ino, off |-> off, boot |-> boot,
      prefix |-> Window(d, 0, length), last |-> NoSpan, from |-> off, chain |-> <<>>,
      tail |-> IF boot THEN TailWindow(d, off) ELSE NoSpan]

\* The file still holds these tokens there (readRange gives nothing when short).
Holds(d, start, tokens) ==
  /\ start + Len(tokens) <= Len(d)
  /\ Window(d, start, start + Len(tokens)) = tokens

\* The tokens before the cursor end with a line, so the chain can be computed
\* again (consumedCheckpoint throws otherwise).
ChainReadable(c) ==
  (c.ino = file.ino /\ c.off <= Len(file.data) /\ c.off > c.from) => file.data[c.off] = NL

\* Mutant: only the identity of the file and its size are compared.
RotatedBySize(c, full) == c.ino # file.ino \/ Len(file.data) < c.off

\* The file is not the one the cursor was written for.
Rotated(c, full) ==
  LET d == file.data IN
  \/ c.ino # file.ino
  \/ Len(d) < c.off
  \/ full /\ ~Holds(d, c.from, c.chain)
  \/ ~Holds(d, c.tail.start, c.tail.data)
  \/ ~Holds(d, 0, c.prefix)
  \/ ~Holds(d, c.last.start, c.last.data)

\* The cursor after a line: boundary and chain come from what was read, the
\* tail window from the file as it is now.
AdvancedCursor(c, line) ==
  [c EXCEPT !.off = @ + Len(line), !.last = [start |-> c.off, data |-> line],
            !.chain = @ \o line, !.tail = TailWindow(file.data, c.off + Len(line))]

(***************************************************************************)
(* Passes                                                                  *)
(***************************************************************************)

Idle(p) == pass[p].at = "idle"

\* --bootstrap-tail: the realtime cursor starts at the end of the file.
BootstrapTail ==
  /\ Idle("realtime") /\ cursor["realtime"] = NoCursor
  /\ cursor' = [cursor EXCEPT !["realtime"] = NewCursor(0, LastLineEnd(file.data), TRUE)]
  /\ UNCHANGED <<outboxVars, file, pass, rewrites>>

\* A poll of the realtime cursor needs one; a full audit refuses a cursor that
\* started at the tail.
MayStart(n, full) ==
  IF cursor[n] = NoCursor THEN n = "backfill" ELSE ~(full /\ cursor[n].boot)

\* From stat to the batch in one synchronous section.  A new cursor is
\* written before the batch is read, and stays when the batch fails.
StartPass(n, full) ==
  LET previous == cursor[n]
      rotated == previous # NoCursor /\ Rotated(previous, full)
      cur == IF previous = NoCursor THEN NewCursor(0, 0, FALSE)
             ELSE IF rotated THEN NewCursor(previous.gen + 1, 0, FALSE) ELSE previous
  IN
  /\ Idle(n) /\ MayStart(n, full)
  \* else consumedCheckpoint throws, before anything is written
  /\ (full /\ previous # NoCursor) => ChainReadable(previous)
  /\ cursor' = [cursor EXCEPT ![n] = cur]
  /\ pass' = [pass EXCEPT ![n] =
       IF BatchFails(file.data, cur.off) THEN NoPass
       ELSE [NoPass EXCEPT !.at = "run", !.full = full, !.cur = cur,
                           !.seen = IF full THEN file.data ELSE <<>>,
                           !.batch = CompleteLines(file.data, cur.off)]]
  /\ UNCHANGED <<outboxVars, file, rewrites>>

Running(p) == pass[p].at = "run"
\* The lines that were read and are not consumed yet, and the record of the first.
Entries(p) == pass[p].batch
First(p) == Head(Entries(p))

\* The cursor is written after each entry, from the pass's own copy.
Advance(n) ==
  LET line == IF First(n) = NL THEN <<NL>> ELSE <<First(n), NL>>
      cur == AdvancedCursor(pass[n].cur, line)
  IN
  /\ cursor' = [cursor EXCEPT ![n] = cur]
  /\ pass' = [pass EXCEPT ![n].cur = cur, ![n].batch = Window(@, Len(line), Len(@))]

SkipBlank(n) ==
  /\ Running(n) /\ At(n, "none") /\ Entries(n) # <<>>
  /\ First(n) = NL
  /\ Advance(n)
  /\ UNCHANGED <<outboxVars, file, rewrites>>

Capture(n) ==
  /\ Running(n) /\ At(n, "none") /\ Entries(n) # <<>>
  /\ First(n) # NL
  /\ StartEnqueue(n, First(n))
  /\ UNCHANGED <<file, cursor, pass, rewrites>>

\* Mutant: the cursor moves on although the delivery failed.
CapturedAnyway(n) ==
  /\ Running(n) /\ call[n].at \in {"returned", "failed"}
  /\ Advance(n)
  /\ EndCall(n)
  /\ FilesUnchanged /\ ReceiverUnchanged
  /\ UNCHANGED <<file, rewrites>>

Captured(n) ==
  /\ Running(n) /\ At(n, "returned")
  /\ Advance(n)
  /\ EndCall(n)
  /\ FilesUnchanged /\ ReceiverUnchanged
  /\ UNCHANGED <<file, rewrites>>

\* An error of the outbox ends the pass; the cursor stays where it is.
PassFails(p) ==
  /\ ~Idle(p) /\ At(p, "failed")
  /\ EndCall(p)
  /\ pass' = [pass EXCEPT ![p] = NoPass]
  /\ FilesUnchanged /\ ReceiverUnchanged
  /\ UNCHANGED <<file, cursor, rewrites>>

EndPass(n) ==
  /\ Running(n) /\ At(n, "none") /\ Entries(n) = <<>>
  /\ pass' = [pass EXCEPT ![n] = NoPass]
  /\ UNCHANGED <<outboxVars, file, cursor, rewrites>>

(***************************************************************************)
(* Replay                                                                  *)
(***************************************************************************)

PendingIds == {i \in Ids : pending[i] # NoRecord}

StartReplay(p) ==
  /\ Idle(p) /\ PendingIds # {}
  /\ pass' = [pass EXCEPT ![p] = [NoPass EXCEPT !.at = "replay", !.replay = PendingIds]]
  /\ UNCHANGED <<outboxVars, file, cursor, rewrites>>

\* One delivery after the other; the first failure ends the replay.  Any
\* record of the id names the call, the delivery reads the file.
ReplayNext(p) ==
  /\ pass[p].at = "replay" /\ call[p].at \in {"none", "returned"}
  /\ LET ids == pass[p].replay IN
       IF ids = {}
         THEN EndCall(p) /\ pass' = [pass EXCEPT ![p] = NoPass]
         ELSE \E r \in {x \in Records : IdOf[x] \in ids} :
                /\ StartCall(p, r, "deliver")
                /\ pass' = [pass EXCEPT ![p].replay = @ \ {IdOf[r]}]
  /\ FilesUnchanged /\ ReceiverUnchanged
  /\ UNCHANGED <<file, cursor, rewrites>>

\* A process dies between any two steps; its request may still arrive.
Crash(p) ==
  /\ ~Idle(p) /\ faults < MaxFaults
  /\ faults' = faults + 1
  /\ pass' = [pass EXCEPT ![p] = NoPass]
  /\ late' = IF At(p, "await") THEN late \cup {Item(p)} ELSE late
  /\ EndCall(p)
  /\ FilesUnchanged /\ UNCHANGED <<stored, file, cursor, rewrites>>

PassStep(p) ==
  \/ SkipBlank(p) \/ Capture(p) \/ Captured(p) \/ EndPass(p)
  \/ ReplayNext(p) \/ PassFails(p)
  \/ OutboxStep(p) /\ UNCHANGED <<file, cursor, pass, rewrites>>

Next ==
  \/ \E t \in Tokens : AppendToken(t)
  \/ \E ino \in {file.ino, file.ino + 1} : Rewrite(ino)
  \/ BootstrapTail
  \/ \E n \in Namespaces, full \in BOOLEAN : StartPass(n, full)
  \/ StartReplay("realtime")
  \/ \E p \in Procs : PassStep(p) \/ Crash(p)
  \/ \E p \in Procs : LoseReply(p) /\ UNCHANGED <<file, cursor, pass, rewrites>>
  \/ \E r \in late : LateRequest(r) /\ UNCHANGED <<file, cursor, pass, rewrites>>

Spec == Init /\ [][Next]_vars

(***************************************************************************)
(* Properties                                                              *)
(***************************************************************************)

\* Whatever a cursor counts as consumed was acknowledged with that payload:
\* no crash, lost reply or other process makes a pass leave a line behind.
CursorIsBacked ==
  \A n \in Namespaces : cursor[n] # NoCursor =>
    \A k \in DOMAIN cursor[n].chain :
      LET r == cursor[n].chain[k] IN r \in Records => acks[IdOf[r]] = r

\* From the cursor to the receiver: what a cursor counts as consumed was
\* acknowledged, and what was acknowledged the receiver has stored.
ConsumedIsStored == CursorIsBacked /\ AcksAreTrue

RecordsBefore(d, off) == {d[i] : i \in {j \in 1..off : d[j] # NL}}

\* A full audit that ends over the file it started with has every record up
\* to its cursor acknowledged, whatever happened to the file before.
AuditCoversFile ==
  [][\A n \in Namespaces :
       (EndPass(n) /\ pass[n].full /\ pass[n].seen = file.data /\ pass[n].cur.ino = file.ino) =>
         \A r \in RecordsBefore(file.data, cursor[n].off) : acks[IdOf[r]] = r]_vars

=============================================================================
