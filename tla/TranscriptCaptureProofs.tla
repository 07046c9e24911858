----------------------- MODULE TranscriptCaptureProofs -----------------------
(***************************************************************************)
(* The capture of a transcript, for every file, every bound and both       *)
(* processes: what a cursor counts as consumed is stored at the receiver   *)
(* (CapturesAreStored), a pending record stays until its id has an         *)
(* acknowledgement, which is its own (PendingIsKept), and a full audit     *)
(* that ends over the file it read has every record of it acknowledged     *)
(* (AuditsCoverFile).                                                      *)
(*                                                                         *)
(* And the catalog of a host's files, for every tree and every bound: a    *)
(* completed generation has missed nothing that stayed as it was, texts    *)
(* are vouched for and the path index is exact (CatalogStaysFaithful).     *)
(* The argument: at each time a path that stayed as it was since the       *)
(* generation began has been seen, is excused by the coverage, or a queued *)
(* task leads to it (Unmissed), and an open directory goes on where the    *)
(* cursor of its task is (Continues), so that no entry is skipped.         *)
(***************************************************************************)
EXTENDS TranscriptCapture, HostCatalog, FiniteSetTheorems, SequenceTheorems, WellFoundedInduction,
        TLAPS

(***************************************************************************)
(* The inductive invariant                                                 *)
(***************************************************************************)

CallPoints == {"none", "link", "compare", "recheck", "deliver", "read", "send", "await", "ack", "drop",
               "returned", "failed"}
OutboxCall == [at : CallPoints, item : Records \cup {NoRecord}]
Lines == Seq(Records \cup {NL})
Span == [start : Nat, data : Seq(Tokens)]
Cursor == [gen : Nat, ino : Nat, off : Nat, boot : BOOLEAN, prefix : Seq(Tokens), last : Span,
           from : Nat, chain : Lines, tail : Span]
Pass == [at : {"idle", "run", "replay"}, full : BOOLEAN, batch : Lines, cur : Cursor \cup {NoCursor},
         replay : SUBSET Ids, seen : Seq(Tokens)]

FilesTyped ==
  /\ pending \in [Ids -> Records \cup {NoRecord}]
  /\ \A i \in Ids : pending[i] # NoRecord => IdOf[pending[i]] = i
  /\ acks \in [Ids -> Records \cup {NoRecord}]
  /\ stored \in [Ids -> Records \cup {NoRecord}]
  /\ late \subseteq Records
  /\ call \in [Procs -> OutboxCall]

\* A record that is written is followed by the end of its line.
LineByLine(d) == \A i \in 1..Len(d) - 1 : d[i] # NL => d[i + 1] = NL

CaptureTyped ==
  /\ file \in [ino : Nat, data : Seq(Tokens)] /\ LineByLine(file.data)
  /\ cursor \in [Procs -> Cursor \cup {NoCursor}]
  /\ pass \in [Procs -> Pass]

\* What is about to be acknowledged is the pending record, and stored.
ItemSafe(point, x) ==
  LET i == IdOf[x] IN
  /\ point \in {"send", "await", "ack"} /\ acks[i] = NoRecord => pending[i] = x
  /\ point = "ack" => stored[i] = x
  /\ point = "drop" => acks[i] # NoRecord

\* A call that captures the record r delivers the item x: past the conflict
\* checks only r can be acknowledged.
FirstSafe(point, x, r) ==
  LET i == IdOf[r] IN
  /\ IdOf[x] = i
  /\ point \in {"link", "compare", "recheck", "deliver", "read"} => x = r
  /\ point = "recheck" /\ acks[i] = NoRecord => pending[i] = r
  /\ point \in {"deliver", "read", "send", "await", "ack"} =>
       IF acks[i] = NoRecord THEN pending[i] = r ELSE acks[i] = r
  /\ point \in {"drop", "returned"} => acks[i] = r

DeliveryIsSafe(p) ==
  call[p].at # "none" => Item(p) \in Records /\ ItemSafe(call[p].at, Item(p))

\* The call of a pass is about the first of its lines.
CapturesFirst(n) ==
  Entries(n) # <<>> /\ First(n) \in Records /\ FirstSafe(call[n].at, Item(n), First(n))

\* The chain of a cursor covers the tokens from where it began to its offset.
CursorIsSound(c) ==
  /\ c \in Cursor /\ c.from <= c.off /\ Len(c.chain) = c.off - c.from /\ (~c.boot => c.from = 0)
  /\ \A k \in DOMAIN c.chain : c.chain[k] \in Records => acks[IdOf[c.chain[k]]] = c.chain[k]

\* The lines of a batch are complete; a full pass holds the file it has seen, up
\* to the cursor in the chain and from there in the batch.
BatchIsSound(n) ==
  LET b == Entries(n)
      c == cursor[n]
      d == pass[n].seen
  IN
  /\ \A i \in 1..Len(b) : b[i] # NL => i < Len(b) /\ b[i + 1] = NL
  /\ pass[n].full =>
       /\ ~c.boot /\ c.off + Len(b) <= Len(d)
       /\ \A i \in 1..c.off : c.chain[i] = d[i]
       /\ \A i \in 1..Len(b) : b[i] = d[c.off + i]

CaptureIsSafe(n) ==
  /\ Idle(n) => At(n, "none")
  /\ cursor[n] # NoCursor => CursorIsSound(cursor[n])
  /\ Running(n) =>
       /\ cursor[n] = pass[n].cur /\ CursorIsSound(cursor[n]) /\ BatchIsSound(n)
       /\ call[n].at # "none" => CapturesFirst(n)

CaptureInv ==
  /\ FilesTyped /\ CaptureTyped /\ AcksAreTrue
  /\ \A p \in Procs : DeliveryIsSafe(p) /\ CaptureIsSafe(p)

\* What no step undoes: acknowledgements and what the receiver stored stay, and
\* a pending record stays until its id has its acknowledgement.
FilesKept ==
  /\ \A i \in Ids : acks[i] # NoRecord => acks'[i] = acks[i]
  /\ \A i \in Ids : stored[i] # NoRecord => stored'[i] = stored[i]
  /\ \A i \in Ids : acks[i] = NoRecord =>
       /\ pending[i] # NoRecord => pending'[i] = pending[i]
       /\ acks'[i] # NoRecord => acks'[i] = pending[i]

(***************************************************************************)
(* Sequences                                                               *)
(***************************************************************************)

\* A window holds the tokens between its ends.
LEMMA WindowOf ==
  ASSUME NEW S, NEW d \in Seq(S), NEW from \in Nat, NEW to \in Nat, to <= Len(d)
  PROVE  /\ Window(d, from, to) \in Seq(S)
         /\ Len(Window(d, from, to)) = IF from <= to THEN to - from ELSE 0
         /\ \A i \in 1..to - from : Window(d, from, to)[i] = d[from + i]
<1>1. \A i \in (from + 1)..to : d[i] \in S
  OBVIOUS
<1>2. /\ SubSeq(d, from + 1, to) \in Seq(S)
      /\ Len(SubSeq(d, from + 1, to)) = IF from + 1 <= to THEN to - (from + 1) + 1 ELSE 0
      /\ \A i \in 1..to - (from + 1) + 1 : SubSeq(d, from + 1, to)[i] = d[(from + 1) + i - 1]
  BY <1>1, SubSeqProperties
<1> QED
  BY <1>2 DEF Window

\* The lines of a batch are tokens of the file, and complete.
LEMMA BatchOf ==
  ASSUME NEW d \in Seq(Tokens), LineByLine(d), NEW off \in Nat, off <= Len(d)
  PROVE  LET b == CompleteLines(d, off) IN
         /\ b \in Seq(Tokens) /\ off + Len(b) <= Len(d)
         /\ \A i \in 1..Len(b) : b[i] = d[off + i]
         /\ \A i \in 1..Len(b) : b[i] # NL => i < Len(b) /\ b[i + 1] = NL
<1>1. PICK to : to = IF Len(d) - off < BatchMax THEN Len(d) ELSE off + BatchMax
  OBVIOUS
<1>2. to \in Nat /\ to <= Len(d) /\ off <= to
  BY <1>1, CaptureAssumption DEF CaptureAssumption
<1>3. PICK c : c = Chunk(d, off)
  OBVIOUS
<1>4. /\ c \in Seq(Tokens) /\ Len(c) = to - off
      /\ \A i \in 1..Len(c) : c[i] = d[off + i]
  <2>1. c = Window(d, off, to)
    BY <1>1, <1>3 DEF Chunk
  <2>2. /\ Window(d, off, to) \in Seq(Tokens) /\ Len(Window(d, off, to)) = to - off
        /\ \A i \in 1..to - off : Window(d, off, to)[i] = d[off + i]
    BY <1>2, WindowOf
  <2> QED
    BY <2>1, <2>2
<1>5. PICK n : n = LastLineEnd(c)
  OBVIOUS
<1>6. /\ n \in Nat /\ n <= Len(c)
      /\ \/ n = Len(c) /\ (Len(c) # 0 => c[Len(c)] = NL)
         \/ n = Len(c) - 1 /\ c[Len(c)] # NL
  <2>1. Len(c) \in Nat /\ (c # <<>> => Len(c) # 0) /\ (c = <<>> => Len(c) = 0)
    BY <1>4, EmptySeq
  <2>2. CASE AtLineStart(c)
    BY <1>5, <2>1, <2>2 DEF LastLineEnd, AtLineStart
  <2>3. CASE ~AtLineStart(c)
    BY <1>5, <2>1, <2>3 DEF LastLineEnd, AtLineStart
  <2> QED
    BY <2>2, <2>3
<1>7. PICK b : b = CompleteLines(d, off)
  OBVIOUS
<1>8. /\ b \in Seq(Tokens) /\ Len(b) = n
      /\ \A i \in 1..n : b[i] = c[i]
  <2>1. PICK z : z = 0
    OBVIOUS
  <2>2. b = Window(c, z, n)
    BY <1>3, <1>5, <1>7, <2>1 DEF CompleteLines
  <2>3. z \in Nat /\ z <= n
    BY <1>6, <2>1
  <2>4. /\ Window(c, z, n) \in Seq(Tokens) /\ Len(Window(c, z, n)) = n - z
        /\ \A i \in 1..n - z : Window(c, z, n)[i] = c[z + i]
    <3>1. c \in Seq(Tokens) /\ n \in Nat /\ n <= Len(c)
      BY <1>4, <1>6
    <3>2. /\ Window(c, z, n) \in Seq(Tokens)
          /\ Len(Window(c, z, n)) = IF z <= n THEN n - z ELSE 0
          /\ \A i \in 1..n - z : Window(c, z, n)[i] = c[z + i]
      BY <2>3, <3>1, WindowOf
    <3> QED
      BY <2>3, <3>2
  <2> QED
    BY <1>6, <2>1, <2>2, <2>4
<1>9. \A i \in 1..n : b[i] = d[off + i] /\ c[i] = d[off + i]
  BY <1>4, <1>6, <1>8
<1>10. \A i \in 1..Len(c) - 1 : c[i] # NL => c[i + 1] = NL
  <2> SUFFICES ASSUME NEW i \in 1..Len(c) - 1, c[i] # NL PROVE c[i + 1] = NL
    OBVIOUS
  <2>1. off + i \in 1..Len(d) - 1 /\ c[i] = d[off + i] /\ c[i + 1] = d[(off + i) + 1]
    BY <1>2, <1>4
  <2> QED
    BY <2>1 DEF LineByLine
<1>11. ASSUME NEW i \in 1..n, b[i] # NL PROVE i < n /\ b[i + 1] = NL
  <2>1. i # Len(c) /\ i \in 1..Len(c) - 1 /\ c[i + 1] = NL
    BY <1>4, <1>6, <1>8, <1>10, <1>11
  <2>2. i < n
    BY <1>4, <1>6, <2>1
  <2> QED
    BY <1>8, <2>1, <2>2
<1> QED
  BY <1>2, <1>4, <1>6, <1>7, <1>8, <1>9, <1>11

(***************************************************************************)
(* The invariant, step by step                                             *)
(***************************************************************************)

\* Nothing has been read or sent.
LEMMA InitCaptureInv == Init => CaptureInv
<1> SUFFICES ASSUME Init PROVE CaptureInv
  OBVIOUS
<1>1. NoCall \in OutboxCall /\ NoCall.at = "none"
  BY DEF NoCall, OutboxCall, CallPoints
<1>2. FilesTyped /\ AcksAreTrue
  BY <1>1 DEF Init, OutboxInit, FilesTyped, AcksAreTrue
<1>3. <<>> \in Lines /\ <<>> \in Seq(Tokens) /\ Len(<<>>) = 0
  BY DEF Lines
<1>4. NoPass \in Pass /\ NoPass.at = "idle"
  BY <1>3 DEF NoPass, Pass
<1>5. CaptureTyped
  <2>1. file = [ino |-> 1, data |-> <<>>] /\ LineByLine(<<>>)
    BY <1>3 DEF Init, LineByLine
  <2>2. file \in [ino : Nat, data : Seq(Tokens)] /\ LineByLine(file.data)
    BY <1>3, <2>1
  <2> QED
    BY <1>4, <2>2, CaptureAssumption DEF Init, CaptureTyped, CaptureAssumption
<1>6. \A p \in Procs : DeliveryIsSafe(p)
  BY <1>1 DEF Init, OutboxInit, DeliveryIsSafe
<1>7. \A p \in Procs : CaptureIsSafe(p)
  BY <1>4, CaptureAssumption DEF Init, CaptureIsSafe, Running, CaptureAssumption, At, OutboxInit, NoCall
<1> QED
  BY <1>2, <1>5, <1>6, <1>7 DEF CaptureInv

\* A step changes the state of one process at most and keeps the files.
LEMMA CaptureMoves ==
  ASSUME CaptureInv, FilesKept, FilesTyped', CaptureTyped', AcksAreTrue',
         \A q \in Procs : \/ call'[q] = call[q] /\ pass'[q] = pass[q] /\ cursor'[q] = cursor[q]
                          \/ DeliveryIsSafe(q)' /\ CaptureIsSafe(q)'
  PROVE  CaptureInv'
<1> SUFFICES ASSUME NEW q \in Procs, call'[q] = call[q], pass'[q] = pass[q], cursor'[q] = cursor[q]
             PROVE  DeliveryIsSafe(q)' /\ CaptureIsSafe(q)'
  BY DEF CaptureInv
<1>1. DeliveryIsSafe(q) /\ CaptureIsSafe(q) /\ FilesTyped
  BY DEF CaptureInv
<1>2. \A r \in Records : IdOf[r] \in Ids /\ r # NoRecord
  BY OutboxAssumption DEF Ids, OutboxAssumption
<1>3. \A r \in Records : acks[IdOf[r]] = r => acks'[IdOf[r]] = r
  BY <1>2 DEF FilesKept
<1>4. \A i \in Ids : acks'[i] = NoRecord => acks[i] = NoRecord
  BY DEF FilesKept
<1>5. \A r \in Records : acks'[IdOf[r]] = NoRecord /\ pending[IdOf[r]] # NoRecord =>
        pending'[IdOf[r]] = pending[IdOf[r]]
  BY <1>2, <1>4 DEF FilesKept
<1>6. DeliveryIsSafe(q)'
  <2>1. ASSUME NEW x \in Records, NEW point, ItemSafe(point, x) PROVE ItemSafe(point, x)'
    BY <1>2, <1>4, <2>1 DEF ItemSafe, FilesKept
  <2>2. PICK x : x = Item(q)
    OBVIOUS
  <2>3. PICK point : point = call[q].at
    OBVIOUS
  <2>4. point # "none" => x \in Records /\ ItemSafe(point, x)'
    BY <1>1, <2>1, <2>2, <2>3 DEF DeliveryIsSafe
  <2>5. x = Item(q)' /\ point = call'[q].at
    BY <2>2, <2>3 DEF Item
  <2> QED
    BY <2>4, <2>5 DEF DeliveryIsSafe, ItemSafe
<1>7. ASSUME NEW c, CursorIsSound(c) PROVE CursorIsSound(c)'
  BY <1>3, <1>7 DEF CursorIsSound
<1>8. ASSUME CapturesFirst(q) PROVE CapturesFirst(q)'
  <2>1. ASSUME NEW r \in Records, NEW x, NEW point, FirstSafe(point, x, r) PROVE FirstSafe(point, x, r)'
    <3>1. acks'[IdOf[r]] # NoRecord /\ acks[IdOf[r]] = NoRecord => acks'[IdOf[r]] = pending[IdOf[r]]
      BY <1>2 DEF FilesKept
    <3> QED
      BY <1>2, <1>3, <1>4, <1>5, <2>1, <3>1 DEF FirstSafe
  <2>2. PICK x : x = Item(q)
    OBVIOUS
  <2>3. PICK point : point = call[q].at
    OBVIOUS
  <2>4. PICK r : r = First(q)
    OBVIOUS
  <2>5. r \in Records /\ FirstSafe(point, x, r)'
    BY <1>8, <2>1, <2>2, <2>3, <2>4 DEF CapturesFirst
  <2>6. x = Item(q)' /\ point = call'[q].at /\ r = First(q)' /\ Entries(q)' # <<>>
    BY <1>8, <2>2, <2>3, <2>4 DEF Item, First, Entries, CapturesFirst
  <2> QED
    BY <2>5, <2>6 DEF CapturesFirst, FirstSafe
<1>9. BatchIsSound(q) => BatchIsSound(q)'
  BY DEF BatchIsSound, Entries
<1>10. CaptureIsSafe(q)'
  <2>1. CursorIsSound(cursor[q]) => CursorIsSound(cursor[q])'
    <3>1. PICK c : c = cursor[q]
      OBVIOUS
    <3>2. CursorIsSound(c) => CursorIsSound(c)'
      BY <1>7
    <3> QED
      BY <3>1, <3>2 DEF CursorIsSound
  <2> QED
    BY <1>1, <1>8, <1>9, <2>1 DEF CaptureIsSafe, Running, Idle, At
<1> QED
  BY <1>6, <1>10

\* What the moves of a call do.
LEMMA CallControl ==
  ASSUME call \in [Procs -> OutboxCall], NEW p \in Procs, NEW point \in CallPoints
  PROVE  /\ Goto(p, point) =>
              /\ call' \in [Procs -> OutboxCall]
              /\ call'[p].at = point /\ call'[p].item = call[p].item
              /\ \A q \in Procs \ {p} : call'[q] = call[q]
         /\ \A r \in Records : StartCall(p, r, point) =>
              /\ call' \in [Procs -> OutboxCall]
              /\ call'[p].at = point /\ call'[p].item = r
              /\ \A q \in Procs \ {p} : call'[q] = call[q]
         /\ EndCall(p) =>
              /\ call' \in [Procs -> OutboxCall]
              /\ call'[p].at = "none"
              /\ \A q \in Procs \ {p} : call'[q] = call[q]
<1> DEFINE d == [call[p] EXCEPT !.at = point]
<1>1. d \in OutboxCall /\ d.at = point /\ d.item = call[p].item
  BY DEF OutboxCall
<1>2. Goto(p, point) => call' = [call EXCEPT ![p] = d]
  BY DEF Goto
<1>3. \A r \in Records : [at |-> point, item |-> r] \in OutboxCall
  BY DEF OutboxCall
<1>4. NoCall \in OutboxCall /\ NoCall.at = "none"
  BY DEF NoCall, OutboxCall, CallPoints
<1> HIDE DEF d
<1>5. Goto(p, point) =>
        /\ call' \in [Procs -> OutboxCall] /\ call'[p] = d
        /\ \A q \in Procs \ {p} : call'[q] = call[q]
  BY <1>1, <1>2
<1>6. ASSUME NEW r \in Records, StartCall(p, r, point)
      PROVE  /\ call' \in [Procs -> OutboxCall] /\ call'[p].at = point /\ call'[p].item = r
             /\ \A q \in Procs \ {p} : call'[q] = call[q]
  <2>1. PICK e : e = [at |-> point, item |-> r]
    OBVIOUS
  <2>2. e \in OutboxCall /\ e.at = point /\ e.item = r
    BY <1>3, <2>1
  <2>3. call' = [call EXCEPT ![p] = e]
    BY <1>6, <2>1 DEF StartCall
  <2> QED
    BY <2>2, <2>3
<1>7. EndCall(p) =>
        /\ call' \in [Procs -> OutboxCall] /\ call'[p] = NoCall
        /\ \A q \in Procs \ {p} : call'[q] = call[q]
  BY <1>4 DEF EndCall
<1>8. Goto(p, point) => call'[p].at = point /\ call'[p].item = call[p].item
  BY <1>1, <1>5
<1>9. EndCall(p) => call'[p].at = "none"
  BY <1>4, <1>7
<1> QED
  BY <1>5, <1>6, <1>7, <1>8, <1>9

\* A step of a call that writes no file.
LEMMA NoFileWritten ==
  ASSUME CaptureInv, NEW p \in Procs, UNCHANGED <<pending, acks, stored, file, cursor, pass>>,
         call' \in [Procs -> OutboxCall], late' \subseteq Records, call[p].at # "none",
         \A q \in Procs \ {p} : call'[q] = call[q],
         DeliveryIsSafe(p)', Running(p) /\ call'[p].at # "none" => CapturesFirst(p)'
  PROVE  CaptureInv' /\ FilesKept
<1>1. FilesKept /\ FilesTyped' /\ AcksAreTrue' /\ CaptureTyped'
  BY DEF CaptureInv, FilesKept, FilesTyped, AcksAreTrue, CaptureTyped, LineByLine
<1>2. CaptureIsSafe(p)'
  BY DEF CaptureInv, CaptureIsSafe, CursorIsSound, BatchIsSound, Running, Entries, Idle, At
<1> QED
  BY <1>1, <1>2, CaptureMoves

\* A call that goes on to another point.
LEMMA CallGoesOn ==
  ASSUME CaptureInv, NEW p \in Procs, NEW point \in CallPoints, Goto(p, point), call[p].at # "none",
         UNCHANGED <<file, cursor, pass>>, FilesKept, FilesTyped', AcksAreTrue',
         NEW x, x = Item(p), ItemSafe(point, x)',
         \A r : Running(p) /\ r = First(p) => FirstSafe(point, x, r)'
  PROVE  CaptureInv'
<1>1. /\ call'[p].at = point /\ Item(p)' = x
      /\ \A q \in Procs \ {p} : call'[q] = call[q]
  BY CallControl DEF CaptureInv, FilesTyped, Item
<1>2. x \in Records
  BY DEF CaptureInv, DeliveryIsSafe
<1>3. DeliveryIsSafe(p)'
  BY <1>1, <1>2 DEF DeliveryIsSafe, ItemSafe
<1>4. CaptureTyped'
  BY DEF CaptureInv, CaptureTyped, LineByLine
<1>5. ASSUME Running(p) PROVE CapturesFirst(p)'
  <2>1. PICK r : r = First(p)
    OBVIOUS
  <2>2. CapturesFirst(p)
    BY <1>5 DEF CaptureInv, CaptureIsSafe
  <2>3. r \in Records /\ r = First(p)' /\ Entries(p)' # <<>>
    BY <2>1, <2>2 DEF CapturesFirst, First, Entries
  <2>4. FirstSafe(point, x, r)'
    BY <1>5, <2>1
  <2> QED
    BY <1>1, <2>3, <2>4 DEF CapturesFirst, FirstSafe
<1>6. CaptureIsSafe(p)'
  <2>1. CaptureIsSafe(p) /\ \A r \in Records : IdOf[r] \in Ids /\ r # NoRecord
    BY OutboxAssumption DEF CaptureInv, Ids, OutboxAssumption
  <2>2. ASSUME NEW c, CursorIsSound(c) PROVE CursorIsSound(c)'
    BY <2>1, <2>2 DEF CursorIsSound, FilesKept
  <2>3. PICK c : c = cursor[p]
    OBVIOUS
  <2>4. (CursorIsSound(c) => CursorIsSound(c)') /\ c = cursor'[p]
    BY <2>2, <2>3
  <2>5. BatchIsSound(p) => BatchIsSound(p)'
    BY DEF BatchIsSound, Entries
  <2>6. CursorIsSound(cursor[p]) => CursorIsSound(cursor[p])'
    BY <2>3, <2>4 DEF CursorIsSound
  <2> QED
    BY <1>5, <2>1, <2>5, <2>6 DEF CaptureIsSafe, Running, Idle, At
<1> QED
  BY <1>1, <1>3, <1>4, <1>6, CaptureMoves

\* Every step of a call of the outbox.
LEMMA OutboxSteps ==
  ASSUME CaptureInv, NEW p \in Procs, OutboxStep(p) \/ LoseReply(p), UNCHANGED <<file, cursor, pass>>
  PROVE  CaptureInv' /\ FilesKept
<1> DEFINE at == call[p].at
<1>1. PICK x : x = Item(p)
  OBVIOUS
<1>2. PICK i : i = IdOf[x]
  OBVIOUS
<1>3. PICK r : r = First(p)
  OBVIOUS
<1>4. /\ FilesTyped /\ AcksAreTrue
      /\ at # "none" => x \in Records /\ i \in Ids /\ x # NoRecord /\ IdAt(p) = i /\ ItemSafe(at, x)
      /\ at # "none" /\ Running(p) => r \in Records /\ r # NoRecord /\ FirstSafe(at, x, r) /\ IdOf[r] = i
      /\ \A q \in Records : IdOf[q] \in Ids /\ q # NoRecord
  BY <1>1, <1>2, <1>3, OutboxAssumption
  DEF CaptureInv, DeliveryIsSafe, CaptureIsSafe, CapturesFirst, FirstSafe, IdAt, Ids, OutboxAssumption
<1>5. ASSUME NEW point \in CallPoints, Goto(p, point), at # "none", FilesKept, FilesTyped', AcksAreTrue',
             ItemSafe(point, x)', Running(p) => FirstSafe(point, x, r)'
      PROVE  CaptureInv' /\ FilesKept
  BY <1>1, <1>3, <1>5, CallGoesOn
<1>6. ASSUME NEW point \in CallPoints, Goto(p, point), at # "none", UNCHANGED <<pending, acks, stored>>,
             late' \subseteq Records, ItemSafe(point, x), Running(p) => FirstSafe(point, x, r)
      PROVE  CaptureInv' /\ FilesKept
  <2>1. call' \in [Procs -> OutboxCall]
    BY <1>4, <1>6, CallControl DEF FilesTyped
  <2>2. FilesKept /\ FilesTyped' /\ AcksAreTrue'
    BY <1>4, <1>6, <2>1 DEF FilesKept, FilesTyped, AcksAreTrue
  <2>3. ItemSafe(point, x)' /\ (Running(p) => FirstSafe(point, x, r)')
    BY <1>6 DEF ItemSafe, FirstSafe
  <2> QED
    BY <1>5, <1>6, <2>2, <2>3
<1>7. {"failed", "drop", "deliver", "read", "send", "await", "ack", "compare", "recheck", "returned"} \subseteq CallPoints
  BY DEF CallPoints
<1>8. ASSUME Goto(p, "failed"), at # "none", UNCHANGED <<pending, acks, stored>>, late' \subseteq Records
      PROVE  CaptureInv' /\ FilesKept
  <2>1. ItemSafe("failed", x) /\ (Running(p) => FirstSafe("failed", x, r))
    BY <1>4, <1>8 DEF ItemSafe, FirstSafe
  <2> QED
    BY <1>6, <1>7, <1>8, <2>1
<1>9. CASE Link(p)
  <2>1. at = "link" /\ UNCHANGED <<acks, stored, late>>
    BY <1>9 DEF Link, At, ReceiverUnchanged
  <2>2. CASE pending[i] # NoRecord
    <3>1. Goto(p, "compare") /\ UNCHANGED pending
      BY <1>4, <1>9, <2>1, <2>2 DEF Link
    <3>2. ItemSafe("compare", x) /\ (Running(p) => FirstSafe("compare", x, r)) /\ late' \subseteq Records
      BY <1>4, <2>1 DEF ItemSafe, FirstSafe, FilesTyped
    <3> QED
      BY <1>6, <1>7, <2>1, <3>1, <3>2
  <2>3. CASE pending[i] = NoRecord
    <3>1. Goto(p, "recheck") /\ pending' = [pending EXCEPT ![i] = x]
      BY <1>1, <1>4, <1>9, <2>1, <2>3 DEF Link
    <3>2. /\ pending' \in [Ids -> Records \cup {NoRecord}] /\ pending'[i] = x
          /\ \A j \in Ids \ {i} : pending'[j] = pending[j]
      BY <1>4, <2>1, <3>1 DEF FilesTyped
    <3>3. call' \in [Procs -> OutboxCall]
      BY <1>4, <1>7, <3>1, CallControl DEF FilesTyped
    <3>4. FilesTyped'
      BY <1>2, <1>4, <2>1, <3>2, <3>3 DEF FilesTyped
    <3>5. FilesKept /\ AcksAreTrue'
      BY <1>4, <2>1, <2>3, <3>2 DEF FilesKept, AcksAreTrue
    <3>6. ItemSafe("recheck", x)' /\ (Running(p) => FirstSafe("recheck", x, r)')
      BY <1>4, <2>1, <3>2 DEF ItemSafe, FirstSafe
    <3> QED
      BY <1>5, <1>7, <2>1, <3>1, <3>4, <3>5, <3>6
  <2> QED
    BY <2>2, <2>3
<1>10. CASE Compare(p)
  <2>1. at = "compare" /\ UNCHANGED <<pending, acks, stored, late>>
    BY <1>10 DEF Compare, At, ReceiverUnchanged, FilesUnchanged
  <2>2. late' \subseteq Records
    BY <1>4, <2>1 DEF FilesTyped
  <2>3. CASE pending[i] = x
    <3>1. Goto(p, "recheck")
      BY <1>1, <1>4, <1>10, <2>1, <2>3 DEF Compare
    <3>2. ItemSafe("recheck", x) /\ (Running(p) => FirstSafe("recheck", x, r))
      BY <1>4, <2>1, <2>3 DEF ItemSafe, FirstSafe
    <3> QED
      BY <1>6, <1>7, <2>1, <2>2, <3>1, <3>2
  <2>4. CASE pending[i] # x
    BY <1>1, <1>4, <1>8, <1>10, <2>1, <2>2, <2>4 DEF Compare
  <2> QED
    BY <2>3, <2>4
<1>11. CASE Recheck(p)
  <2>1. at = "recheck" /\ UNCHANGED <<pending, acks, stored, late>> /\ Goto(p, AfterAck(x, "deliver"))
    BY <1>1, <1>11 DEF Recheck, At, ReceiverUnchanged, FilesUnchanged
  <2>2. late' \subseteq Records
    BY <1>4, <2>1 DEF FilesTyped
  <2>3. CASE acks[i] = NoRecord
    <3>1. Goto(p, "deliver")
      BY <1>2, <2>1, <2>3 DEF AfterAck
    <3>2. ItemSafe("deliver", x) /\ (Running(p) => FirstSafe("deliver", x, r))
      BY <1>4, <2>1, <2>3 DEF ItemSafe, FirstSafe
    <3> QED
      BY <1>6, <1>7, <2>1, <2>2, <3>1, <3>2
  <2>4. CASE acks[i] = x
    <3>1. Goto(p, "drop")
      BY <1>2, <1>4, <2>1, <2>4 DEF AfterAck
    <3>2. ItemSafe("drop", x) /\ (Running(p) => FirstSafe("drop", x, r))
      BY <1>2, <1>4, <2>1, <2>4 DEF ItemSafe, FirstSafe
    <3> QED
      BY <1>6, <1>7, <2>1, <2>2, <3>1, <3>2
  <2>5. CASE acks[i] \notin {NoRecord, x}
    BY <1>2, <1>8, <2>1, <2>2, <2>5 DEF AfterAck
  <2> QED
    BY <2>3, <2>4, <2>5
<1>12. CASE Deliver(p)
  <2>1. at = "deliver" /\ UNCHANGED <<pending, acks, stored, late>>
    BY <1>12 DEF Deliver, At, ReceiverUnchanged, FilesUnchanged
  <2>2. late' \subseteq Records
    BY <1>4, <2>1 DEF FilesTyped
  <2>3. CASE acks[i] = NoRecord
    <3>1. Goto(p, "read")
      BY <1>4, <1>12, <2>1, <2>3 DEF Deliver
    <3>2. ItemSafe("read", x) /\ (Running(p) => FirstSafe("read", x, r))
      BY <1>4, <2>1, <2>3 DEF ItemSafe, FirstSafe
    <3> QED
      BY <1>6, <1>7, <2>1, <2>2, <3>1, <3>2
  <2>4. CASE acks[i] # NoRecord /\ pending[i] \in {NoRecord, acks[i]}
    <3>1. Goto(p, "drop")
      BY <1>4, <1>12, <2>1, <2>4 DEF Deliver
    <3>2. ItemSafe("drop", x) /\ (Running(p) => FirstSafe("drop", x, r))
      BY <1>2, <1>4, <2>1, <2>4 DEF ItemSafe, FirstSafe
    <3> QED
      BY <1>6, <1>7, <2>1, <2>2, <3>1, <3>2
  <2>5. CASE acks[i] # NoRecord /\ pending[i] \notin {NoRecord, acks[i]}
    BY <1>4, <1>8, <1>12, <2>1, <2>2, <2>5 DEF Deliver
  <2> QED
    BY <2>3, <2>4, <2>5
<1>13. CASE ReadItem(p)
  <2>1. at = "read" /\ UNCHANGED <<pending, acks, stored, late>>
    BY <1>13 DEF ReadItem, At, ReceiverUnchanged, FilesUnchanged
  <2>2. late' \subseteq Records
    BY <1>4, <2>1 DEF FilesTyped
  <2>3. CASE pending[i] = NoRecord
    BY <1>4, <1>8, <1>13, <2>1, <2>2, <2>3 DEF ReadItem
  <2>4. CASE pending[i] # NoRecord
    <3>1. PICK y : y = pending[i]
      OBVIOUS
    <3>2. StartCall(p, y, "send") /\ y \in Records /\ IdOf[y] = i
      BY <1>4, <1>13, <2>1, <2>4, <3>1 DEF ReadItem, FilesTyped
    <3>3. /\ call' \in [Procs -> OutboxCall] /\ call'[p].at = "send" /\ Item(p)' = y
          /\ \A q \in Procs \ {p} : call'[q] = call[q]
      BY <1>4, <1>7, <3>2, CallControl DEF FilesTyped, Item
    <3>4. DeliveryIsSafe(p)'
      BY <2>1, <3>1, <3>2, <3>3 DEF DeliveryIsSafe, ItemSafe
    <3>5. ASSUME Running(p) PROVE CapturesFirst(p)'
      <4>1. FirstSafe("read", x, r) /\ IdOf[r] = i /\ r \in Records
        BY <1>4, <2>1, <3>5
      <4>2. FirstSafe("send", y, r)'
        BY <2>1, <3>2, <4>1 DEF FirstSafe
      <4>3. Entries(p)' # <<>> /\ First(p)' = r
        BY <1>3, <2>1, <3>5 DEF CaptureInv, CaptureIsSafe, CapturesFirst, Entries, First
      <4> QED
        BY <3>3, <4>1, <4>2, <4>3 DEF CapturesFirst, FirstSafe
    <3> QED
      BY <2>1, <2>2, <3>3, <3>4, <3>5, NoFileWritten
  <2> QED
    BY <2>3, <2>4
<1>14. CASE Send(p)
  <2>1. at = "send" /\ UNCHANGED <<pending, acks, stored, late>>
    BY <1>14 DEF Send, At, ReceiverUnchanged, FilesUnchanged
  <2>2. late' \subseteq Records
    BY <1>4, <2>1 DEF FilesTyped
  <2>3. CASE pending[i] = x
    <3>1. Goto(p, "await")
      BY <1>1, <1>4, <1>14, <2>1, <2>3 DEF Send
    <3>2. ItemSafe("await", x) /\ (Running(p) => FirstSafe("await", x, r))
      BY <1>4, <2>1, <2>3 DEF ItemSafe, FirstSafe
    <3> QED
      BY <1>6, <1>7, <2>1, <2>2, <3>1, <3>2
  <2>4. CASE pending[i] # x
    BY <1>1, <1>4, <1>8, <1>14, <2>1, <2>2, <2>4 DEF Send
  <2> QED
    BY <2>3, <2>4
<1>15. CASE Reply(p)
  <2>1. at = "await" /\ UNCHANGED <<pending, acks, late>> /\ Keep(x)
    BY <1>1, <1>15 DEF Reply, At, FilesUnchanged
  <2>2. CASE stored[i] \in {NoRecord, x}
    <3>1. Goto(p, "ack") /\ stored' = [stored EXCEPT ![i] = x]
      BY <1>1, <1>2, <1>15, <2>1, <2>2 DEF Reply, Accepts, Keep
    <3>2. /\ stored' \in [Ids -> Records \cup {NoRecord}] /\ stored'[i] = x
          /\ \A j \in Ids \ {i} : stored'[j] = stored[j]
      BY <1>4, <2>1, <3>1 DEF FilesTyped
    <3>3. call' \in [Procs -> OutboxCall]
      BY <1>4, <1>7, <3>1, CallControl DEF FilesTyped
    <3>4. FilesTyped' /\ FilesKept /\ AcksAreTrue'
      BY <1>4, <2>1, <2>2, <3>2, <3>3 DEF FilesTyped, FilesKept, AcksAreTrue
    <3>5. ItemSafe("ack", x)' /\ (Running(p) => FirstSafe("ack", x, r)')
      BY <1>2, <1>4, <2>1, <3>2 DEF ItemSafe, FirstSafe
    <3> QED
      BY <1>5, <1>7, <2>1, <3>1, <3>4, <3>5
  <2>3. CASE stored[i] \notin {NoRecord, x}
    <3>1. Goto(p, "failed") /\ stored' = stored /\ late' \subseteq Records
      BY <1>1, <1>2, <1>4, <1>15, <2>1, <2>3 DEF Reply, Accepts, Keep, FilesTyped
    <3> QED
      BY <1>8, <2>1, <3>1
  <2> QED
    BY <2>2, <2>3
<1>16. CASE LoseReply(p)
  <2>1. at = "await" /\ UNCHANGED <<pending, acks, stored>> /\ late' = late \cup {x} /\ Goto(p, "failed")
    BY <1>1, <1>16 DEF LoseReply, At, FilesUnchanged
  <2>2. late' \subseteq Records
    BY <1>4, <2>1 DEF FilesTyped
  <2> QED
    BY <1>8, <2>1, <2>2
<1>17. CASE LinkAck(p)
  <2>1. at = "ack" /\ UNCHANGED <<pending, stored, late>>
    BY <1>17 DEF LinkAck, At, ReceiverUnchanged
  <2>2. late' \subseteq Records
    BY <1>4, <2>1 DEF FilesTyped
  <2>3. CASE acks[i] = NoRecord
    <3>1. Goto(p, "drop") /\ acks' = [acks EXCEPT ![i] = x]
      BY <1>1, <1>4, <1>17, <2>1, <2>3 DEF LinkAck
    <3>2. /\ acks' \in [Ids -> Records \cup {NoRecord}] /\ acks'[i] = x
          /\ \A j \in Ids \ {i} : acks'[j] = acks[j]
      BY <1>4, <2>1, <3>1 DEF FilesTyped
    <3>3. call' \in [Procs -> OutboxCall]
      BY <1>4, <1>7, <3>1, CallControl DEF FilesTyped
    <3>4. pending[i] = x /\ stored[i] = x
      BY <1>2, <1>4, <2>1, <2>3 DEF ItemSafe
    <3>5. FilesTyped' /\ AcksAreTrue'
      BY <1>4, <2>1, <3>2, <3>3, <3>4 DEF FilesTyped, AcksAreTrue
    <3>6. FilesKept
      BY <2>1, <2>3, <3>2, <3>4 DEF FilesKept
    <3>7. ItemSafe("drop", x)' /\ (Running(p) => FirstSafe("drop", x, r)')
      BY <1>2, <1>4, <2>1, <2>3, <3>2, <3>4 DEF ItemSafe, FirstSafe
    <3> QED
      BY <1>5, <1>7, <2>1, <3>1, <3>5, <3>6, <3>7
  <2>4. CASE acks[i] = x
    <3>1. Goto(p, "drop") /\ acks' = acks
      BY <1>1, <1>4, <1>17, <2>1, <2>4 DEF LinkAck
    <3>2. ItemSafe("drop", x) /\ (Running(p) => FirstSafe("drop", x, r))
      BY <1>2, <1>4, <2>1, <2>4 DEF ItemSafe, FirstSafe
    <3> QED
      BY <1>6, <1>7, <2>1, <2>2, <3>1, <3>2
  <2>5. CASE acks[i] \notin {NoRecord, x}
    <3>1. Goto(p, "failed") /\ acks' = acks
      BY <1>1, <1>4, <1>17, <2>1, <2>5 DEF LinkAck
    <3> QED
      BY <1>8, <2>1, <2>2, <3>1
  <2> QED
    BY <2>3, <2>4, <2>5
<1>18. CASE DropPending(p)
  <2>1. at = "drop" /\ UNCHANGED <<acks, stored, late>> /\ Goto(p, "returned")
        /\ pending' = [pending EXCEPT ![i] = NoRecord]
    BY <1>4, <1>18 DEF DropPending, At, ReceiverUnchanged
  <2>2. /\ pending' \in [Ids -> Records \cup {NoRecord}] /\ pending'[i] = NoRecord
        /\ \A j \in Ids \ {i} : pending'[j] = pending[j]
    BY <1>4, <2>1 DEF FilesTyped
  <2>3. call' \in [Procs -> OutboxCall]
    BY <1>4, <1>7, <2>1, CallControl DEF FilesTyped
  <2>4. FilesTyped' /\ AcksAreTrue'
    BY <1>4, <2>1, <2>2, <2>3 DEF FilesTyped, AcksAreTrue
  <2>5. acks[i] # NoRecord
    BY <1>2, <1>4, <2>1 DEF ItemSafe
  <2>6. FilesKept
    BY <2>1, <2>2, <2>5 DEF FilesKept
  <2>7. ItemSafe("returned", x)' /\ (Running(p) => FirstSafe("returned", x, r)')
    BY <1>4, <2>1 DEF ItemSafe, FirstSafe
  <2> QED
    BY <1>5, <1>7, <2>1, <2>4, <2>6, <2>7
<1> QED
  BY <1>9, <1>10, <1>11, <1>12, <1>13, <1>14, <1>15, <1>16, <1>17, <1>18 DEF OutboxStep

\* A step of one pass that leaves the outbox and the receiver as they are.
LEMMA PassMoves ==
  ASSUME CaptureInv, NEW p \in Procs, UNCHANGED <<pending, acks, stored, file>>, late' \subseteq Records,
         call' \in [Procs -> OutboxCall], \A q \in Procs \ {p} : call'[q] = call[q],
         NEW d \in Pass, pass' = [pass EXCEPT ![p] = d],
         NEW c \in Cursor \cup {NoCursor}, cursor' = [cursor EXCEPT ![p] = c],
         DeliveryIsSafe(p)', CaptureIsSafe(p)'
  PROVE  CaptureInv' /\ FilesKept
<1>1. FilesKept /\ FilesTyped' /\ AcksAreTrue'
  BY DEF CaptureInv, FilesKept, FilesTyped, AcksAreTrue
<1>2. pass' \in [Procs -> Pass] /\ cursor' \in [Procs -> Cursor \cup {NoCursor}]
      /\ \A q \in Procs \ {p} : pass'[q] = pass[q] /\ cursor'[q] = cursor[q]
  BY DEF CaptureInv, CaptureTyped
<1>3. CaptureTyped'
  BY <1>2 DEF CaptureInv, CaptureTyped, LineByLine
<1> QED
  BY <1>1, <1>2, <1>3, CaptureMoves

\* A pass that ends leaves its cursor as it is and has no call.
LEMMA PassEnds ==
  ASSUME CaptureInv, NEW p \in Procs, UNCHANGED <<pending, acks, stored, file, cursor>>, late' \subseteq Records,
         call' \in [Procs -> OutboxCall], \A q \in Procs \ {p} : call'[q] = call[q],
         call'[p].at = "none", pass' = [pass EXCEPT ![p] = NoPass]
  PROVE  CaptureInv' /\ FilesKept
<1>1. NoPass \in Pass /\ NoPass.at = "idle"
  BY DEF NoPass, Pass, Lines
<1>2. PICK c : c = cursor[p]
  OBVIOUS
<1>3. c \in Cursor \cup {NoCursor} /\ cursor' = [cursor EXCEPT ![p] = c] /\ pass'[p] = NoPass
  BY <1>2 DEF CaptureInv, CaptureTyped
<1>4. DeliveryIsSafe(p)'
  BY DEF DeliveryIsSafe
<1>5. CaptureIsSafe(p)'
  BY <1>1, <1>3 DEF CaptureInv, CaptureIsSafe, CursorIsSound, Running, Idle, At
<1> QED
  BY <1>1, <1>3, <1>4, <1>5, PassMoves

\* The source runtime writes whole lines and touches nothing else.
LEMMA FileSteps ==
  ASSUME CaptureInv,
         \/ \E t \in Tokens : AppendToken(t)
         \/ \E ino \in {file.ino, file.ino + 1} : Rewrite(ino)
  PROVE  CaptureInv' /\ FilesKept
<1>1. UNCHANGED <<outboxVars, cursor, pass>>
  BY DEF AppendToken, Rewrite
<1>2. FilesKept /\ FilesTyped' /\ AcksAreTrue'
  BY <1>1 DEF CaptureInv, FilesKept, FilesTyped, AcksAreTrue, outboxVars
<1>3. file' \in [ino : Nat, data : Seq(Tokens)] /\ LineByLine(file.data)'
  <2>1. file \in [ino : Nat, data : Seq(Tokens)] /\ LineByLine(file.data)
    BY DEF CaptureInv, CaptureTyped
  <2>2. ASSUME NEW t \in Tokens, AppendToken(t) PROVE <1>3!:
    <3>1. PICK d : d = file.data
      OBVIOUS
    <3>2. PICK e : e = Append(d, t)
      OBVIOUS
    <3>3. d \in Seq(Tokens) /\ LineByLine(d)
      BY <2>1, <3>1
    <3>4. e \in Seq(Tokens) /\ Len(e) = Len(d) + 1 /\ e[Len(d) + 1] = t /\ \A i \in 1..Len(d) : e[i] = d[i]
      BY <3>2, <3>3
    <3>5. t # NL /\ Len(d) # 0 => d[Len(d)] = NL
      BY <2>2, <3>1, <3>3, EmptySeq DEF AppendToken, AtLineStart
    <3>6. LineByLine(e)
      BY <3>3, <3>4, <3>5 DEF LineByLine
    <3>7. file' = [file EXCEPT !.data = e]
      BY <2>2, <3>1, <3>2 DEF AppendToken
    <3>8. file' \in [ino : Nat, data : Seq(Tokens)] /\ file'.data = e
      BY <2>1, <3>4, <3>7
    <3> QED
      BY <3>6, <3>8 DEF LineByLine
  <2>3. ASSUME NEW ino \in {file.ino, file.ino + 1}, Rewrite(ino) PROVE <1>3!:
    BY <2>1, <2>3 DEF Rewrite, LineByLine
  <2> QED
    BY <2>2, <2>3
<1>4. CaptureTyped'
  BY <1>1, <1>3 DEF CaptureInv, CaptureTyped
<1> QED
  BY <1>1, <1>2, <1>4, CaptureMoves DEF outboxVars

\* A request that was lost still arrives: the receiver keeps what it has.
LEMMA LateSteps ==
  ASSUME CaptureInv, NEW r \in late, LateRequest(r), UNCHANGED <<file, cursor, pass>>
  PROVE  CaptureInv' /\ FilesKept
<1>1. r \in Records /\ IdOf[r] \in Ids /\ r # NoRecord
  BY OutboxAssumption DEF CaptureInv, FilesTyped, Ids, OutboxAssumption
<1>2. UNCHANGED <<pending, acks, call, file, cursor, pass>> /\ late' \subseteq Records
  BY DEF LateRequest, FilesUnchanged, CaptureInv, FilesTyped
<1>3. /\ stored' \in [Ids -> Records \cup {NoRecord}]
      /\ \A i \in Ids : stored[i] # NoRecord => stored'[i] = stored[i]
  BY <1>1 DEF LateRequest, Keep, Accepts, CaptureInv, FilesTyped
<1>4. FilesKept /\ FilesTyped'
  BY <1>2, <1>3 DEF CaptureInv, FilesKept, FilesTyped
<1>5. AcksAreTrue'
  BY <1>2, <1>3 DEF CaptureInv, AcksAreTrue
<1>6. CaptureTyped'
  BY <1>2 DEF CaptureInv, CaptureTyped, LineByLine
<1> QED
  BY <1>2, <1>4, <1>5, <1>6, CaptureMoves

\* The tail window of an offset is a range of the file, or nothing.
LEMMA TailWindowOf ==
  ASSUME NEW d \in Seq(Tokens), NEW off \in Nat
  PROVE  TailWindow(d, off) \in Span
<1>1. NoSpan \in Span
  BY DEF NoSpan, Span
<1>2. PICK from : from = TailStart(off)
  OBVIOUS
<1>3. from \in Nat
  BY <1>2, CaptureAssumption DEF TailStart, CaptureAssumption
<1>4. ASSUME off <= Len(d) PROVE [start |-> from, data |-> Window(d, from, off)] \in Span
  <2>1. Window(d, from, off) \in Seq(Tokens)
    BY <1>3, <1>4, WindowOf
  <2> QED
    BY <1>3, <2>1 DEF Span
<1> QED
  BY <1>1, <1>2, <1>4 DEF TailWindow

\* A new cursor has consumed nothing.
LEMMA NewCursorIsSound ==
  ASSUME CaptureInv, NEW gen \in Nat, NEW off \in Nat, NEW boot \in BOOLEAN, ~boot => off = 0
  PROVE  LET c == NewCursor(gen, off, boot) IN
         c \in Cursor /\ CursorIsSound(c) /\ c.off = off /\ c.from = off /\ c.boot = boot
<1>1. file \in [ino : Nat, data : Seq(Tokens)]
  BY DEF CaptureInv, CaptureTyped
<1>2. PICK d : d = file.data
  OBVIOUS
<1>3. PICK length : length = IF Len(d) < PrefixMax THEN Len(d) ELSE PrefixMax
  OBVIOUS
<1>4. d \in Seq(Tokens) /\ length \in Nat /\ length <= Len(d)
  BY <1>1, <1>2, <1>3, CaptureAssumption DEF CaptureAssumption
<1>5. PICK z : z = 0
  OBVIOUS
<1>6. PICK prefix : prefix = Window(d, z, length)
  OBVIOUS
<1>7. prefix \in Seq(Tokens)
  BY <1>4, <1>5, <1>6, WindowOf
<1>8. PICK tail : tail = IF boot THEN TailWindow(d, off) ELSE NoSpan
  OBVIOUS
<1>9. tail \in Span /\ NoSpan \in Span
  BY <1>4, <1>8, TailWindowOf DEF NoSpan, Span
<1>10. PICK c : c = NewCursor(gen, off, boot)
  OBVIOUS
<1>11. c = [gen |-> gen, ino |-> file.ino, off |-> off, boot |-> boot, prefix |-> prefix,
            last |-> NoSpan, from |-> off, chain |-> <<>>, tail |-> tail]
  BY <1>2, <1>3, <1>5, <1>6, <1>8, <1>10 DEF NewCursor
<1>12. <<>> \in Lines /\ Len(<<>>) = 0
  BY DEF Lines
<1>13. c \in Cursor
  BY <1>1, <1>7, <1>9, <1>11, <1>12 DEF Cursor
<1>14. c.off = off /\ c.from = off /\ c.boot = boot /\ c.chain = <<>>
  BY <1>11
<1>15. CursorIsSound(c)
  BY <1>12, <1>13, <1>14 DEF CursorIsSound
<1> QED
  BY <1>10, <1>13, <1>14, <1>15

\* A cursor that is not rotated for a full pass has its chain in the file.
LEMMA ChainIsRead ==
  ASSUME CaptureInv, NEW c, CursorIsSound(c), NEW full \in BOOLEAN, ~Rotated(c, full)
  PROVE  /\ c.off <= Len(file.data)
         /\ full /\ ~c.boot => \A i \in 1..c.off : c.chain[i] = file.data[i]
<1>1. PICK d : d = file.data
  OBVIOUS
<1>2. d \in Seq(Tokens) /\ Len(d) \in Nat
  BY <1>1 DEF CaptureInv, CaptureTyped
<1>3. c.off \in Nat /\ c.from \in Nat /\ c.chain \in Lines /\ Len(c.chain) = c.off - c.from
      /\ (~c.boot => c.from = 0)
  BY DEF CursorIsSound, Cursor
<1>4. c.off <= Len(d) /\ (full => Holds(d, c.from, c.chain))
  BY <1>1, <1>2, <1>3 DEF Rotated
<1>5. ASSUME full, ~c.boot, NEW i \in 1..c.off PROVE c.chain[i] = d[i]
  <2>1. PICK z : z = c.from
    OBVIOUS
  <2>2. z = 0 /\ z \in Nat /\ c.off - z = c.off
    BY <1>3, <1>5, <2>1
  <2>3. Window(d, z, c.off) = c.chain
    BY <1>3, <1>4, <1>5, <2>1, <2>2 DEF Holds
  <2>4. Window(d, z, c.off)[i] = d[z + i]
    <3>1. PICK to : to = c.off
      OBVIOUS
    <3>2. to \in Nat /\ to <= Len(d) /\ i \in 1..to - z
      BY <1>3, <1>4, <2>2, <3>1
    <3>3. \A k \in 1..to - z : Window(d, z, to)[k] = d[z + k]
      BY <1>2, <2>2, <3>2, WindowOf
    <3> QED
      BY <3>1, <3>2, <3>3
  <2> QED
    BY <2>2, <2>3, <2>4
<1> QED
  BY <1>1, <1>4, <1>5

\* The realtime cursor that starts at the end of the file.
LEMMA BootstrapSteps == ASSUME CaptureInv, BootstrapTail PROVE CaptureInv' /\ FilesKept
<1>1. "realtime" \in Procs
  BY CaptureAssumption DEF CaptureAssumption, Namespaces
<1>2. PICK p : p = "realtime"
  OBVIOUS
<1>3. PICK off : off = LastLineEnd(file.data)
  OBVIOUS
<1>4. off \in Nat
  <2>1. PICK d : d = file.data
    OBVIOUS
  <2>2. d \in Seq(Tokens) /\ Len(d) \in Nat /\ (Len(d) = 0 => d = <<>>)
    BY <2>1, EmptySeq DEF CaptureInv, CaptureTyped
  <2> QED
    BY <1>3, <2>1, <2>2 DEF LastLineEnd, AtLineStart
<1>5. PICK z : z = 0
  OBVIOUS
<1>6. PICK boot : boot = TRUE
  OBVIOUS
<1>7. PICK c : c = NewCursor(z, off, boot)
  OBVIOUS
<1>8. c \in Cursor /\ CursorIsSound(c)
  BY <1>4, <1>5, <1>6, <1>7, NewCursorIsSound
<1>9. /\ cursor' = [cursor EXCEPT ![p] = c] /\ Idle(p)
      /\ UNCHANGED <<pending, acks, stored, late, call, file, pass>>
  BY <1>2, <1>3, <1>5, <1>6, <1>7 DEF BootstrapTail, outboxVars
<1>10. PICK d : d = pass[p]
  OBVIOUS
<1>11. d \in Pass /\ pass' = [pass EXCEPT ![p] = d] /\ p \in Procs /\ d.at = "idle"
  BY <1>1, <1>2, <1>9, <1>10 DEF CaptureInv, CaptureTyped, Idle
<1>12. call' \in [Procs -> OutboxCall] /\ late' \subseteq Records
  BY <1>9 DEF CaptureInv, FilesTyped
<1>13. DeliveryIsSafe(p)'
  BY <1>9, <1>11 DEF CaptureInv, DeliveryIsSafe, ItemSafe, Item
<1>14. CaptureIsSafe(p)'
  <2>1. cursor'[p] = c
    BY <1>9, <1>11 DEF CaptureInv, CaptureTyped
  <2>2. CursorIsSound(c)'
    BY <1>8, <1>9 DEF CursorIsSound
  <2>3. At(p, "none")' /\ pass'[p].at = "idle"
    BY <1>9, <1>10, <1>11 DEF CaptureInv, CaptureIsSafe, At, Idle
  <2>4. CursorIsSound(cursor[p])'
    BY <2>1, <2>2 DEF CursorIsSound
  <2> QED
    BY <2>3, <2>4 DEF CaptureIsSafe, Running
<1> QED
  BY <1>8, <1>9, <1>11, <1>12, <1>13, <1>14, PassMoves

\* A pass starts with a sound cursor, and a batch that is read at its offset.
LEMMA StartPassSteps ==
  ASSUME CaptureInv, NEW n \in Procs, NEW full \in BOOLEAN, StartPass(n, full)
  PROVE  CaptureInv' /\ FilesKept
<1>1. PICK previous : previous = cursor[n]
  OBVIOUS
<1>2. PICK z : z = 0
  OBVIOUS
<1>3. PICK off : off \in BOOLEAN /\ off = FALSE
  OBVIOUS
<1>4. PICK rotated : rotated = (previous # NoCursor /\ Rotated(previous, full))
  OBVIOUS
<1>5. PICK cur : cur = IF previous = NoCursor THEN NewCursor(z, z, off)
                       ELSE IF rotated THEN NewCursor(previous.gen + 1, z, off) ELSE previous
  OBVIOUS
<1>6. PICK d : d = file.data
  OBVIOUS
<1>7. PICK b : b = CompleteLines(d, cur.off)
  OBVIOUS
<1>8. PICK seen : seen = IF full THEN d ELSE <<>>
  OBVIOUS
<1>9. PICK e : e = IF BatchFails(d, cur.off) THEN NoPass
                   ELSE [NoPass EXCEPT !.at = "run", !.full = full, !.cur = cur, !.seen = seen, !.batch = b]
  OBVIOUS
<1>10. /\ cursor' = [cursor EXCEPT ![n] = cur] /\ pass' = [pass EXCEPT ![n] = e]
       /\ Idle(n) /\ MayStart(n, full)
       /\ UNCHANGED <<pending, acks, stored, late, call, file>>
  BY <1>1, <1>2, <1>3, <1>4, <1>5, <1>6, <1>7, <1>8, <1>9 DEF StartPass, outboxVars
<1>11. At(n, "none") /\ (previous # NoCursor => CursorIsSound(previous)) /\ d \in Seq(Tokens) /\ LineByLine(d)
  BY <1>1, <1>6, <1>10 DEF CaptureInv, CaptureIsSafe, CaptureTyped
<1>12. /\ cur \in Cursor /\ CursorIsSound(cur) /\ cur.off <= Len(d)
       /\ full => ~cur.boot /\ \A i \in 1..cur.off : cur.chain[i] = d[i]
  <2>1. ASSUME NEW gen \in Nat, cur = NewCursor(gen, z, off) PROVE <1>12!:
    <3>1. z \in Nat /\ off \in BOOLEAN /\ ~off /\ z = 0
      BY <1>2, <1>3
    <3>2. /\ cur \in Cursor /\ CursorIsSound(cur) /\ cur.off = z /\ cur.boot = off
      BY <2>1, <3>1, NewCursorIsSound
    <3>3. cur.off <= Len(d) /\ 1..cur.off = {}
      BY <1>11, <3>1, <3>2
    <3> QED
      BY <3>1, <3>2, <3>3
  <2>2. CASE previous = NoCursor
    <3>1. z \in Nat /\ cur = NewCursor(z, z, off)
      BY <1>2, <1>5, <2>2
    <3> QED
      BY <2>1, <3>1
  <2>3. CASE previous # NoCursor /\ rotated
    <3>1. previous.gen \in Nat
      BY <1>11, <2>3 DEF CursorIsSound, Cursor
    <3>2. previous.gen + 1 \in Nat /\ cur = NewCursor(previous.gen + 1, z, off)
      BY <1>5, <2>3, <3>1
    <3> QED
      BY <2>1, <3>2
  <2>4. CASE previous # NoCursor /\ ~rotated
    <3>1. cur = previous /\ ~Rotated(cur, full) /\ CursorIsSound(cur)
      BY <1>4, <1>5, <1>11, <2>4
    <3>2. full => ~cur.boot
      BY <1>1, <1>10, <2>4, <3>1 DEF MayStart
    <3>3. /\ cur.off <= Len(file.data)
          /\ full /\ ~cur.boot => \A i \in 1..cur.off : cur.chain[i] = file.data[i]
      BY <3>1, ChainIsRead
    <3> QED
      BY <1>6, <3>1, <3>2, <3>3 DEF CursorIsSound
  <2> QED
    BY <2>2, <2>3, <2>4
<1>13. /\ b \in Seq(Tokens) /\ cur.off + Len(b) <= Len(d)
       /\ \A i \in 1..Len(b) : b[i] = d[cur.off + i]
       /\ \A i \in 1..Len(b) : b[i] # NL => i < Len(b) /\ b[i + 1] = NL
  <2>1. cur.off \in Nat
    BY <1>12 DEF Cursor
  <2> QED
    BY <1>7, <1>11, <1>12, <2>1, BatchOf
<1>14. seen \in Seq(Tokens) /\ <<>> \in Lines /\ <<>> \in Seq(Tokens)
  BY <1>8, <1>11 DEF Lines
<1>15. NoPass \in Pass /\ NoPass.at = "idle"
  BY <1>14 DEF NoPass, Pass
<1>16. ASSUME ~BatchFails(d, cur.off)
       PROVE  e \in Pass /\ e.at = "run" /\ e.full = full /\ e.cur = cur /\ e.seen = seen /\ e.batch = b
  <2>1. \A i \in 1..Len(b) : b[i] \in Tokens /\ b[i] # Malformed
    BY <1>7, <1>13, <1>16 DEF BatchFails, Range
  <2>2. b \in Lines
    BY <1>13, <2>1 DEF Lines, Tokens
  <2>3. e = [NoPass EXCEPT !.at = "run", !.full = full, !.cur = cur, !.seen = seen, !.batch = b]
    BY <1>9, <1>16
  <2> QED
    BY <1>12, <1>14, <1>15, <2>2, <2>3 DEF Pass, NoPass
<1>17. e \in Pass /\ (e.at # "idle" => ~BatchFails(d, cur.off))
  BY <1>9, <1>15, <1>16
<1>18. pass'[n] = e /\ cursor'[n] = cur
  BY <1>10 DEF CaptureInv, CaptureTyped
<1>19. DeliveryIsSafe(n)' /\ At(n, "none")'
  BY <1>10, <1>11 DEF DeliveryIsSafe, At
<1>20. CaptureIsSafe(n)'
  <2>1. CursorIsSound(cur)'
    BY <1>10, <1>12 DEF CursorIsSound
  <2>2. CursorIsSound(cursor[n])'
    BY <1>18, <2>1 DEF CursorIsSound
  <2>3. ASSUME Running(n)' PROVE cursor'[n] = pass'[n].cur /\ BatchIsSound(n)'
    <3>1. e.at = "run" /\ ~BatchFails(d, cur.off)
      BY <1>15, <1>17, <1>18, <2>3 DEF Running
    <3>2. e.full = full /\ e.cur = cur /\ e.seen = seen /\ e.batch = b
      BY <1>16, <3>1
    <3>3. full => seen = d
      BY <1>8
    <3> QED
      BY <1>12, <1>13, <1>18, <3>2, <3>3 DEF BatchIsSound, Entries
  <2> QED
    BY <1>19, <2>2, <2>3 DEF CaptureIsSafe, At
<1>21. call' \in [Procs -> OutboxCall] /\ late' \subseteq Records
  BY <1>10 DEF CaptureInv, FilesTyped
<1> QED
  BY <1>10, <1>12, <1>17, <1>19, <1>20, <1>21, PassMoves

\* What is left of a batch after its first tokens.
LEMMA RestOf ==
  ASSUME NEW b \in Lines, NEW k \in Nat, k <= Len(b)
  PROVE  /\ Window(b, k, Len(b)) \in Lines /\ Len(Window(b, k, Len(b))) = Len(b) - k
         /\ \A i \in 1..Len(b) - k : Window(b, k, Len(b))[i] = b[k + i]
<1>1. PICK S : S = Records \cup {NL}
  OBVIOUS
<1>2. PICK to : to = Len(b)
  OBVIOUS
<1>3. b \in Seq(S) /\ to \in Nat /\ to <= Len(b) /\ k <= to
  BY <1>1, <1>2 DEF Lines
<1>4. /\ Window(b, k, to) \in Seq(S) /\ Len(Window(b, k, to)) = IF k <= to THEN to - k ELSE 0
      /\ \A i \in 1..to - k : Window(b, k, to)[i] = b[k + i]
  BY <1>3, WindowOf
<1> QED
  BY <1>1, <1>2, <1>3, <1>4 DEF Lines

\* The cursor moves over a line that is acknowledged, or blank.
LEMMA AdvanceSteps ==
  ASSUME CaptureInv, NEW n \in Procs, Running(n), Entries(n) # <<>>, Advance(n),
         UNCHANGED <<pending, acks, stored, late, file>>,
         call' \in [Procs -> OutboxCall], \A q \in Procs \ {n} : call'[q] = call[q], call'[n].at = "none",
         First(n) \in Records => acks[IdOf[First(n)]] = First(n)
  PROVE  CaptureInv' /\ FilesKept
<1>1. PICK b : b = Entries(n)
  OBVIOUS
<1>2. PICK c : c = cursor[n]
  OBVIOUS
<1>3. PICK seen : seen = pass[n].seen
  OBVIOUS
<1>4. PICK full : full = pass[n].full
  OBVIOUS
<1>5. /\ pass[n] \in Pass /\ c = pass[n].cur /\ CursorIsSound(c) /\ b \in Lines /\ b = pass[n].batch
      /\ file.data \in Seq(Tokens)
      /\ \A i \in 1..Len(b) : b[i] # NL => i < Len(b) /\ b[i + 1] = NL
      /\ full => /\ ~c.boot /\ c.off + Len(b) <= Len(seen)
                 /\ \A i \in 1..c.off : c.chain[i] = seen[i]
                 /\ \A i \in 1..Len(b) : b[i] = seen[c.off + i]
  <2>1. BatchIsSound(n) /\ pass[n] \in Pass /\ file.data \in Seq(Tokens) /\ c = pass[n].cur /\ CursorIsSound(c)
    BY <1>2 DEF CaptureInv, CaptureTyped, CaptureIsSafe
  <2> QED
    BY <1>1, <1>2, <1>3, <1>4, <2>1 DEF BatchIsSound, Entries, Pass
<1>6. PICK x : x = First(n)
  OBVIOUS
<1>7. x = b[1] /\ Len(b) \in Nat /\ Len(b) >= 1 /\ x \in Records \cup {NL}
  <2>1. b \in Seq(Records \cup {NL}) /\ b # <<>> /\ x = Head(b)
    BY <1>1, <1>5, <1>6 DEF First, Lines
  <2>2. Len(b) \in Nat /\ Len(b) # 0
    BY <2>1, EmptySeq
  <2> QED
    BY <2>1, <2>2
<1>8. PICK line : line = IF x = NL THEN <<NL>> ELSE <<x, NL>>
  OBVIOUS
<1>9. PICK k : k = Len(line)
  OBVIOUS
<1>10. /\ line \in Lines /\ k \in 1..2 /\ k <= Len(b)
       /\ \A i \in 1..k : line[i] = b[i] /\ (line[i] \in Records => acks[IdOf[line[i]]] = line[i])
  <2>1. CASE x = NL
    <3>1. line = <<NL>> /\ k = 1 /\ line[1] = NL
      BY <1>8, <1>9, <2>1
    <3>2. line \in Lines
      BY <3>1 DEF Lines
    <3>3. NL \notin Records
      BY CaptureAssumption DEF CaptureAssumption
    <3>4. \A i \in 1..k : i = 1
      BY <3>1
    <3>5. \A i \in 1..k : line[i] = b[i] /\ line[i] = NL
      BY <1>7, <2>1, <3>1, <3>4
    <3>6. k \in 1..2 /\ k <= Len(b)
      BY <1>7, <3>1
    <3> QED
      BY <1>7, <2>1, <3>1, <3>2, <3>3, <3>5, <3>6
  <2>2. CASE x # NL
    <3>1. line = <<x, NL>> /\ k = 2 /\ line[1] = x /\ line[2] = NL /\ x \in Records
      BY <1>7, <1>8, <1>9, <2>2
    <3>2. line \in Lines
      BY <3>1 DEF Lines
    <3>3. 1 < Len(b) /\ b[2] = NL
      BY <1>5, <1>7, <2>2
    <3>4. acks[IdOf[x]] = x
      BY <1>6, <3>1
    <3>5. NL \notin Records
      BY CaptureAssumption DEF CaptureAssumption
    <3>6. \A i \in 1..k : i \in {1, 2}
      BY <3>1
    <3> QED
      BY <1>7, <3>1, <3>2, <3>3, <3>4, <3>5, <3>6
  <2> QED
    BY <2>1, <2>2
<1>11. PICK chain : chain = c.chain \o line
  OBVIOUS
<1>12. c \in Cursor /\ c.off \in Nat /\ c.from \in Nat /\ c.from <= c.off /\ c.chain \in Lines
       /\ Len(c.chain) = c.off - c.from /\ (~c.boot => c.from = 0)
       /\ \A i \in DOMAIN c.chain : c.chain[i] \in Records => acks[IdOf[c.chain[i]]] = c.chain[i]
  BY <1>5 DEF CursorIsSound, Cursor
<1>13. /\ chain \in Lines /\ Len(chain) = Len(c.chain) + k
       /\ \A i \in 1..Len(chain) : chain[i] = IF i <= Len(c.chain) THEN c.chain[i] ELSE line[i - Len(c.chain)]
  <2>1. PICK a : a = c.chain
    OBVIOUS
  <2>2. a \in Seq(Records \cup {NL}) /\ line \in Seq(Records \cup {NL}) /\ chain = a \o line
    BY <1>10, <1>11, <1>12, <2>1 DEF Lines
  <2>3. /\ a \o line \in Seq(Records \cup {NL}) /\ Len(a \o line) = Len(a) + Len(line)
        /\ \A i \in 1..Len(a) + Len(line) : (a \o line)[i] = IF i <= Len(a) THEN a[i] ELSE line[i - Len(a)]
    BY <2>2, ConcatProperties
  <2> QED
    BY <1>9, <2>1, <2>2, <2>3 DEF Lines
<1>14. PICK off : off = c.off + k
  OBVIOUS
<1>15. PICK last : last = [start |-> c.off, data |-> line]
  OBVIOUS
<1>16. PICK tail : tail = TailWindow(file.data, off)
  OBVIOUS
<1>17. off \in Nat /\ last \in Span /\ tail \in Span
  <2>1. off \in Nat
    BY <1>10, <1>12, <1>14
  <2>2. line \in Seq(Tokens)
    BY <1>10 DEF Lines, Tokens
  <2> QED
    BY <1>5, <1>12, <1>15, <1>16, <2>1, <2>2, TailWindowOf DEF Span
<1>18. PICK cur : cur = [c EXCEPT !.off = off, !.last = last, !.chain = chain, !.tail = tail]
  OBVIOUS
<1>19. cur \in Cursor /\ cur.off = off /\ cur.chain = chain /\ cur.from = c.from /\ cur.boot = c.boot
  BY <1>12, <1>13, <1>17, <1>18 DEF Cursor
<1>20. PICK rest : rest = Window(b, k, Len(b))
  OBVIOUS
<1>21. /\ rest \in Lines /\ Len(rest) = Len(b) - k
       /\ \A i \in 1..Len(b) - k : rest[i] = b[k + i]
  <2>1. k \in Nat /\ k <= Len(b)
    BY <1>7, <1>10
  <2> QED
    BY <1>5, <1>20, <2>1, RestOf
<1>22. PICK e : e = [pass[n] EXCEPT !.cur = cur, !.batch = rest]
  OBVIOUS
<1>23. e \in Pass /\ e.at = "run" /\ e.cur = cur /\ e.batch = rest /\ e.full = full /\ e.seen = seen
  BY <1>3, <1>4, <1>5, <1>19, <1>21, <1>22 DEF Pass, Running
<1>24. cursor' = [cursor EXCEPT ![n] = cur] /\ pass' = [pass EXCEPT ![n] = e]
  <2>1. cur = AdvancedCursor(c, line)
    BY <1>9, <1>11, <1>14, <1>15, <1>16, <1>18 DEF AdvancedCursor
  <2>2. line = IF First(n) = NL THEN <<NL>> ELSE <<First(n), NL>>
    BY <1>6, <1>8
  <2>3. /\ cursor' = [cursor EXCEPT ![n] = cur]
        /\ pass' = [pass EXCEPT ![n].cur = cur, ![n].batch = Window(@, Len(line), Len(@))]
    BY <1>5, <2>1, <2>2 DEF Advance
  <2> QED
    BY <1>5, <1>9, <1>20, <1>22, <2>3
<1>25. cursor'[n] = cur /\ pass'[n] = e
  BY <1>24 DEF CaptureInv, CaptureTyped
<1>26. CursorIsSound(cur)
  <2>1. ASSUME NEW i \in 1..Len(chain), chain[i] \in Records PROVE acks[IdOf[chain[i]]] = chain[i]
    <3>1. CASE i <= Len(c.chain)
      BY <1>12, <1>13, <2>1, <3>1
    <3>2. CASE i > Len(c.chain)
      <4>1. PICK j : j = i - Len(c.chain)
        OBVIOUS
      <4>2. j \in 1..k /\ chain[i] = line[j]
        <5>1. Len(c.chain) \in Nat /\ k \in Nat /\ Len(chain) = Len(c.chain) + k
          BY <1>10, <1>12, <1>13
        <5>2. i \in 1..Len(c.chain) + k /\ ~(i <= Len(c.chain))
          BY <3>2, <5>1
        <5>3. chain[i] = line[i - Len(c.chain)]
          BY <1>13, <5>2
        <5> QED
          BY <4>1, <5>1, <5>2, <5>3
      <4> QED
        BY <1>10, <2>1, <4>2
    <3> QED
      BY <1>12, <3>1, <3>2
  <2>2. DOMAIN chain = 1..Len(chain)
    BY <1>13 DEF Lines
  <2>3. cur.from <= cur.off /\ Len(chain) = off - c.from
    BY <1>10, <1>12, <1>13, <1>14, <1>19
  <2> QED
    BY <1>12, <1>19, <2>1, <2>2, <2>3 DEF CursorIsSound
<1>27. CaptureIsSafe(n)'
  <2>1. CursorIsSound(cur)'
    BY <1>26 DEF CursorIsSound
  <2>2. CursorIsSound(cursor[n])'
    BY <1>25, <2>1 DEF CursorIsSound
  <2>3. \A i \in 1..Len(rest) : rest[i] # NL => i < Len(rest) /\ rest[i + 1] = NL
    <3> SUFFICES ASSUME NEW i \in 1..Len(rest), rest[i] # NL PROVE i < Len(rest) /\ rest[i + 1] = NL
      OBVIOUS
    <3>1. k + i \in 1..Len(b) /\ b[k + i] # NL
      BY <1>7, <1>10, <1>21
    <3>2. k + i < Len(b) /\ b[(k + i) + 1] = NL
      BY <1>5, <3>1
    <3>3. i + 1 \in 1..Len(b) - k /\ k + (i + 1) = (k + i) + 1
      BY <1>7, <1>10, <1>21, <3>2
    <3> QED
      BY <1>21, <3>2, <3>3
  <2>4. ASSUME full
        PROVE  /\ ~cur.boot /\ cur.off + Len(rest) <= Len(seen)
               /\ \A i \in 1..cur.off : cur.chain[i] = seen[i]
               /\ \A i \in 1..Len(rest) : rest[i] = seen[cur.off + i]
    <3>1. c.from = 0 /\ Len(c.chain) = c.off
      BY <1>5, <1>12, <2>4
    <3>2. ASSUME NEW i \in 1..off PROVE chain[i] = seen[i]
      <4>1. CASE i <= c.off
        BY <1>5, <1>12, <1>13, <1>14, <1>10, <2>4, <3>1, <4>1
      <4>2. CASE i > c.off
        <5>1. PICK j : j = i - c.off
          OBVIOUS
        <5>2. j \in 1..k /\ i = c.off + j /\ i \in 1..Len(chain)
          BY <1>10, <1>12, <1>13, <1>14, <3>1, <4>2, <5>1
        <5>3. chain[i] = line[j] /\ line[j] = b[j]
          <6>1. ~(i <= Len(c.chain)) /\ i - Len(c.chain) = j
            BY <1>12, <3>1, <5>1, <5>2
          <6> QED
            BY <1>10, <1>13, <5>2, <6>1
        <5>4. j \in 1..Len(b)
          BY <1>7, <1>10, <5>2
        <5> QED
          BY <1>5, <2>4, <5>2, <5>3, <5>4
      <4> QED
        BY <1>12, <4>1, <4>2
    <3>3. ASSUME NEW i \in 1..Len(rest) PROVE rest[i] = seen[off + i]
      <4>1. k + i \in 1..Len(b) /\ c.off + (k + i) = off + i /\ rest[i] = b[k + i]
        <5>1. i \in 1..Len(b) - k
          BY <1>21
        <5>2. rest[i] = b[k + i]
          BY <1>21, <5>1
        <5>3. k \in Nat /\ i \in Nat /\ Len(b) \in Nat /\ c.off \in Nat
          BY <1>7, <1>10, <1>12, <5>1
        <5>4. k + i \in 1..Len(b)
          BY <1>10, <5>1, <5>3
        <5>5. c.off + (k + i) = off + i
          BY <1>14, <5>3
        <5> QED
          BY <5>2, <5>4, <5>5
      <4> QED
        BY <1>5, <2>4, <4>1
    <3>4. off + Len(rest) = c.off + Len(b)
      BY <1>7, <1>10, <1>12, <1>14, <1>21
    <3> QED
      BY <1>5, <1>19, <2>4, <3>2, <3>3, <3>4
  <2>5. BatchIsSound(n)'
    BY <1>23, <1>25, <2>3, <2>4 DEF BatchIsSound, Entries
  <2> QED
    BY <1>23, <1>25, <2>2, <2>5 DEF CaptureIsSafe, At, Idle
<1>28. DeliveryIsSafe(n)' /\ late' \subseteq Records
  BY DEF DeliveryIsSafe, CaptureInv, FilesTyped
<1> QED
  BY <1>19, <1>23, <1>24, <1>27, <1>28, PassMoves

\* A pass takes up its next record.
LEMMA CaptureSteps == ASSUME CaptureInv, NEW n \in Procs, Capture(n) PROVE CaptureInv' /\ FilesKept
<1>1. PICK r : r = First(n)
  OBVIOUS
<1>2. PICK point : point = AfterAck(r, "link")
  OBVIOUS
<1>3. /\ Running(n) /\ At(n, "none") /\ Entries(n) # <<>> /\ r # NL /\ StartCall(n, r, point)
      /\ UNCHANGED <<pending, acks, stored, late, file, cursor, pass>>
  BY <1>1, <1>2 DEF Capture, StartEnqueue, FilesUnchanged, ReceiverUnchanged
<1>4. r \in Records /\ IdOf[r] \in Ids
  <2>1. PICK b : b = Entries(n)
    OBVIOUS
  <2>2. b \in Seq(Records \cup {NL}) /\ b # <<>> /\ r = Head(b)
    BY <1>1, <1>3, <2>1 DEF CaptureInv, CaptureTyped, Pass, Lines, Entries, First
  <2>3. Head(b) \in Records \cup {NL}
    BY <2>2
  <2> QED
    BY <1>3, <2>2, <2>3 DEF Ids
<1>5. point \in CallPoints
  BY <1>2 DEF AfterAck, CallPoints
<1>6. /\ call' \in [Procs -> OutboxCall] /\ call'[n].at = point /\ Item(n)' = r
      /\ \A q \in Procs \ {n} : call'[q] = call[q]
  BY <1>3, <1>4, <1>5, CallControl DEF CaptureInv, FilesTyped, Item
<1>7. \/ point = "link" /\ acks[IdOf[r]] = NoRecord
      \/ point = "drop" /\ acks[IdOf[r]] = r
      \/ point = "failed"
  BY <1>2 DEF AfterAck
<1>8. r # NoRecord
  BY <1>4, OutboxAssumption DEF OutboxAssumption
<1>9. ItemSafe(point, r) /\ FirstSafe(point, r, r)
  BY <1>4, <1>7, <1>8 DEF ItemSafe, FirstSafe
<1>10. DeliveryIsSafe(n)'
  BY <1>3, <1>4, <1>6, <1>9 DEF DeliveryIsSafe, ItemSafe
<1>11. CapturesFirst(n)'
  <2>1. Entries(n)' # <<>> /\ First(n)' = r
    BY <1>1, <1>3 DEF Entries, First
  <2> QED
    BY <1>3, <1>4, <1>6, <1>9, <2>1 DEF CapturesFirst, FirstSafe
<1>12. CaptureIsSafe(n)'
  BY <1>3, <1>11 DEF CaptureInv, CaptureIsSafe, CursorIsSound, BatchIsSound, Running, Entries, Idle, At
<1>13. PICK d : d = pass[n]
  OBVIOUS
<1>14. PICK c : c = cursor[n]
  OBVIOUS
<1>15. /\ d \in Pass /\ pass' = [pass EXCEPT ![n] = d]
       /\ c \in Cursor \cup {NoCursor} /\ cursor' = [cursor EXCEPT ![n] = c] /\ late' \subseteq Records
  BY <1>3, <1>13, <1>14 DEF CaptureInv, CaptureTyped, FilesTyped
<1> QED
  BY <1>3, <1>6, <1>10, <1>12, <1>15, PassMoves

\* A replay goes on to the next id, or ends.
LEMMA ReplaySteps == ASSUME CaptureInv, NEW p \in Procs, ReplayNext(p) PROVE CaptureInv' /\ FilesKept
<1>1. pass[p].at = "replay" /\ UNCHANGED <<pending, acks, stored, late, file, cursor>>
  BY DEF ReplayNext, FilesUnchanged, ReceiverUnchanged
<1>2. call \in [Procs -> OutboxCall] /\ pass[p] \in Pass /\ late' \subseteq Records
  BY <1>1 DEF CaptureInv, FilesTyped, CaptureTyped
<1>3. CASE pass[p].replay = {}
  <2>1. EndCall(p) /\ pass' = [pass EXCEPT ![p] = NoPass]
    BY <1>3 DEF ReplayNext
  <2>2. "none" \in CallPoints
    BY DEF CallPoints
  <2>3. call' \in [Procs -> OutboxCall] /\ call'[p].at = "none" /\ \A q \in Procs \ {p} : call'[q] = call[q]
    BY <1>2, <2>1, <2>2, CallControl
  <2> QED
    BY <1>1, <1>2, <2>1, <2>3, PassEnds
<1>4. CASE pass[p].replay # {}
  <2>1. PICK r \in Records : StartCall(p, r, "deliver")
                             /\ pass' = [pass EXCEPT ![p].replay = @ \ {IdOf[r]}]
    BY <1>4 DEF ReplayNext
  <2>2. PICK d : d = [pass[p] EXCEPT !.replay = @ \ {IdOf[r]}]
    OBVIOUS
  <2>3. d \in Pass /\ d.at = "replay" /\ pass' = [pass EXCEPT ![p] = d]
    BY <1>1, <1>2, <2>1, <2>2 DEF Pass
  <2>4. "deliver" \in CallPoints
    BY DEF CallPoints
  <2>5. /\ call' \in [Procs -> OutboxCall] /\ call'[p].at = "deliver" /\ Item(p)' = r
        /\ \A q \in Procs \ {p} : call'[q] = call[q]
    BY <1>2, <2>1, <2>4, CallControl DEF Item
  <2>6. DeliveryIsSafe(p)'
    BY <2>5 DEF DeliveryIsSafe, ItemSafe
  <2>7. pass'[p].at = "replay"
    BY <2>3 DEF CaptureInv, CaptureTyped
  <2>8. CaptureIsSafe(p)'
    BY <1>1, <2>7 DEF CaptureInv, CaptureIsSafe, CursorIsSound, Running, Idle
  <2>9. PICK c : c = cursor[p]
    OBVIOUS
  <2>10. c \in Cursor \cup {NoCursor} /\ cursor' = [cursor EXCEPT ![p] = c]
    BY <1>1, <2>9 DEF CaptureInv, CaptureTyped
  <2> QED
    BY <1>1, <1>2, <2>3, <2>5, <2>6, <2>8, <2>10, PassMoves
<1> QED
  BY <1>3, <1>4

\* Every step of a process that is not a step of its call.
LEMMA PassSteps ==
  ASSUME CaptureInv, NEW p \in Procs,
         \/ SkipBlank(p) \/ Capture(p) \/ Captured(p) \/ EndPass(p)
         \/ ReplayNext(p) \/ PassFails(p) \/ StartReplay(p) \/ Crash(p)
  PROVE  CaptureInv' /\ FilesKept
<1>1. call \in [Procs -> OutboxCall] /\ "none" \in CallPoints /\ late \subseteq Records
  BY DEF CaptureInv, FilesTyped, CallPoints
<1>2. EndCall(p) =>
        call' \in [Procs -> OutboxCall] /\ call'[p].at = "none" /\ \A q \in Procs \ {p} : call'[q] = call[q]
  BY <1>1, CallControl
<1>3. CASE SkipBlank(p)
  <2>1. /\ Running(p) /\ Entries(p) # <<>> /\ Advance(p) /\ First(p) \notin Records /\ call[p].at = "none"
        /\ UNCHANGED <<pending, acks, stored, late, file, call>>
    BY <1>3, CaptureAssumption DEF SkipBlank, outboxVars, At, CaptureAssumption
  <2>2. call' \in [Procs -> OutboxCall] /\ call'[p].at = "none" /\ \A q \in Procs \ {p} : call'[q] = call[q]
    BY <1>1, <2>1
  <2> QED
    BY <2>1, <2>2, AdvanceSteps
<1>4. CASE Captured(p)
  <2>1. /\ Running(p) /\ Advance(p) /\ call[p].at = "returned" /\ EndCall(p)
        /\ UNCHANGED <<pending, acks, stored, late, file>>
    BY <1>4 DEF Captured, FilesUnchanged, ReceiverUnchanged, At
  <2>2. CapturesFirst(p)
    BY <2>1 DEF CaptureInv, CaptureIsSafe
  <2>3. Entries(p) # <<>> /\ acks[IdOf[First(p)]] = First(p)
    BY <2>1, <2>2 DEF CapturesFirst, FirstSafe
  <2> QED
    BY <1>2, <2>1, <2>3, AdvanceSteps
<1>5. CASE EndPass(p)
  <2>1. /\ pass' = [pass EXCEPT ![p] = NoPass] /\ call[p].at = "none"
        /\ UNCHANGED <<pending, acks, stored, late, call, file, cursor>>
    BY <1>5 DEF EndPass, outboxVars, At
  <2>2. /\ late' \subseteq Records /\ call' \in [Procs -> OutboxCall]
        /\ \A q \in Procs \ {p} : call'[q] = call[q]
    BY <1>1, <2>1
  <2>3. call'[p].at = "none"
    BY <2>1
  <2> QED
    BY <2>1, <2>2, <2>3, PassEnds
<1>6. CASE PassFails(p)
  <2>1. /\ EndCall(p) /\ pass' = [pass EXCEPT ![p] = NoPass]
        /\ UNCHANGED <<pending, acks, stored, late, file, cursor>>
    BY <1>6 DEF PassFails, FilesUnchanged, ReceiverUnchanged
  <2> QED
    BY <1>1, <1>2, <2>1, PassEnds
<1>7. CASE Crash(p)
  <2>1. /\ EndCall(p) /\ pass' = [pass EXCEPT ![p] = NoPass]
        /\ UNCHANGED <<pending, acks, stored, file, cursor>>
        /\ late' = IF At(p, "await") THEN late \cup {Item(p)} ELSE late
    BY <1>7 DEF Crash, FilesUnchanged
  <2>2. At(p, "await") => Item(p) \in Records
    BY DEF At, CaptureInv, DeliveryIsSafe
  <2>3. late' \subseteq Records
    BY <1>1, <2>1, <2>2
  <2> QED
    BY <1>2, <2>1, <2>3, PassEnds
<1>8. CASE StartReplay(p)
  <2>1. PICK d : d = [NoPass EXCEPT !.at = "replay", !.replay = PendingIds]
    OBVIOUS
  <2>2. d \in Pass /\ d.at = "replay"
    <3>1. PICK ids : ids = PendingIds
      OBVIOUS
    <3>2. ids \in SUBSET Ids /\ NoPass \in Pass
      BY <3>1 DEF PendingIds, Pass, NoPass, Lines
    <3>3. d = [NoPass EXCEPT !.at = "replay", !.replay = ids]
      BY <2>1, <3>1
    <3> QED
      BY <3>2, <3>3 DEF Pass
  <2>3. /\ Idle(p) /\ pass' = [pass EXCEPT ![p] = d]
        /\ UNCHANGED <<pending, acks, stored, late, call, file, cursor>>
    BY <1>8, <2>1 DEF StartReplay, outboxVars
  <2>4. At(p, "none")' /\ pass'[p].at = "replay"
    BY <2>2, <2>3 DEF CaptureInv, CaptureIsSafe, CaptureTyped, At
  <2>5. DeliveryIsSafe(p)' /\ CaptureIsSafe(p)'
    BY <2>3, <2>4 DEF CaptureInv, CaptureIsSafe, CursorIsSound, DeliveryIsSafe, Running, Idle, At
  <2>6. PICK c : c = cursor[p]
    OBVIOUS
  <2>7. /\ c \in Cursor \cup {NoCursor} /\ cursor' = [cursor EXCEPT ![p] = c]
        /\ call' \in [Procs -> OutboxCall] /\ late' \subseteq Records
    BY <1>1, <2>3, <2>6 DEF CaptureInv, CaptureTyped
  <2> QED
    BY <2>2, <2>3, <2>5, <2>7, PassMoves
<1>9. Capture(p) \/ ReplayNext(p) => CaptureInv' /\ FilesKept
  BY CaptureSteps, ReplaySteps
<1> QED
  BY <1>3, <1>4, <1>5, <1>6, <1>7, <1>8, <1>9

\* Every step keeps the invariant and undoes nothing.
LEMMA NextCaptureInv == CaptureInv /\ [Next]_vars => CaptureInv' /\ FilesKept
<1> SUFFICES ASSUME CaptureInv, [Next]_vars PROVE CaptureInv' /\ FilesKept
  OBVIOUS
<1>1. CASE UNCHANGED vars
  <2>1. UNCHANGED <<pending, acks, stored, late, call, file, cursor, pass>>
    BY <1>1 DEF vars, outboxVars
  <2>2. FilesKept /\ FilesTyped' /\ AcksAreTrue' /\ CaptureTyped'
    BY <2>1 DEF CaptureInv, FilesKept, FilesTyped, AcksAreTrue, CaptureTyped, LineByLine
  <2> QED
    BY <2>1, <2>2, CaptureMoves
<1>2. CASE (\E t \in Tokens : AppendToken(t)) \/ \E ino \in {file.ino, file.ino + 1} : Rewrite(ino)
  BY <1>2, FileSteps
<1>3. CASE BootstrapTail
  BY <1>3, BootstrapSteps
<1>4. ASSUME NEW n \in Namespaces, NEW full \in BOOLEAN, StartPass(n, full) PROVE CaptureInv' /\ FilesKept
  <2>1. n \in Procs
    BY CaptureAssumption DEF CaptureAssumption
  <2> QED
    BY <1>4, <2>1, StartPassSteps
<1>5. CASE StartReplay("realtime")
  <2>1. "realtime" \in Procs
    BY CaptureAssumption DEF CaptureAssumption, Namespaces
  <2> QED
    BY <1>5, <2>1, PassSteps
<1>6. ASSUME NEW p \in Procs, PassStep(p) \/ Crash(p) PROVE CaptureInv' /\ FilesKept
  <2>1. CASE OutboxStep(p) /\ UNCHANGED <<file, cursor, pass, rewrites>>
    BY <2>1, OutboxSteps
  <2>2. CASE \/ SkipBlank(p) \/ Capture(p) \/ Captured(p) \/ EndPass(p)
             \/ ReplayNext(p) \/ PassFails(p) \/ Crash(p)
    BY <2>2, PassSteps
  <2> QED
    BY <1>6, <2>1, <2>2 DEF PassStep
<1>7. ASSUME NEW p \in Procs, LoseReply(p), UNCHANGED <<file, cursor, pass, rewrites>>
      PROVE  CaptureInv' /\ FilesKept
  BY <1>7, OutboxSteps
<1>8. ASSUME NEW r \in late, LateRequest(r), UNCHANGED <<file, cursor, pass, rewrites>>
      PROVE  CaptureInv' /\ FilesKept
  BY <1>8, LateSteps
<1> QED
  BY <1>1, <1>2, <1>3, <1>4, <1>5, <1>6, <1>7, <1>8 DEF Next

(***************************************************************************)
(* What a capture may rely on                                              *)
(***************************************************************************)

\* What a cursor counts as consumed was acknowledged with that payload, and the
\* receiver has stored it: no crash, lost reply, rewritten file or other process
\* makes the cursor of processTranscriptBatch pass a line that is not delivered.
THEOREM CapturesAreStored == Spec => []ConsumedIsStored
<1>1. CaptureInv => ConsumedIsStored
  <2> SUFFICES ASSUME CaptureInv, NEW n \in Namespaces, cursor[n] # NoCursor PROVE CursorIsSound(cursor[n])
    BY DEF ConsumedIsStored, CursorIsBacked, CaptureInv, CursorIsSound
  <2> QED
    BY CaptureAssumption DEF CaptureInv, CaptureIsSafe, CaptureAssumption
<1>2. CaptureInv /\ [Next]_vars => CaptureInv'
  BY NextCaptureInv
<1> QED
  BY <1>1, <1>2, InitCaptureInv, PTL DEF Spec

\* While an event id has no acknowledgement its pending record stays as it is, and
\* the first acknowledgement is that of the pending record: the link of enqueue,
\* the reread of deliver and the second check of acknowledge are enough.
THEOREM PendingIsKept == Spec => PendingUntilAcknowledged
<1>1. CaptureInv /\ [Next]_vars =>
        CaptureInv' /\ [\A i \in Ids : acks[i] = NoRecord =>
                          /\ pending[i] # NoRecord => pending'[i] = pending[i]
                          /\ acks'[i] # NoRecord => acks'[i] = pending[i]]_<<pending, acks>>
  BY NextCaptureInv DEF FilesKept
<1> QED
  BY <1>1, InitCaptureInv, PTL DEF Spec, PendingUntilAcknowledged

\* A full audit that ends over the file it started with has an acknowledgement of
\* every record up to its cursor, whatever happened to the file before: the chain
\* it compared and the batch it read are that file.
THEOREM AuditsCoverFile == Spec => AuditCoversFile
<1>1. ASSUME CaptureInv, NEW n \in Namespaces, EndPass(n), pass[n].full, pass[n].seen = file.data,
             NEW r \in RecordsBefore(file.data, cursor[n].off)
      PROVE  acks[IdOf[r]] = r
  <2>1. n \in Procs /\ Running(n)
    BY <1>1, CaptureAssumption DEF EndPass, CaptureAssumption
  <2>2. PICK c : c = cursor[n]
    OBVIOUS
  <2>3. CursorIsSound(c) /\ BatchIsSound(n)
    BY <1>1, <2>1, <2>2 DEF CaptureInv, CaptureIsSafe
  <2>4. PICK j \in 1..c.off : file.data[j] # NL /\ r = file.data[j]
    BY <2>2 DEF RecordsBefore
  <2>5. c.chain[j] = r /\ c.from = 0
    BY <1>1, <2>2, <2>3, <2>4 DEF BatchIsSound, CursorIsSound
  <2>6. c.chain \in Lines /\ c.off \in Nat /\ Len(c.chain) = c.off
    BY <2>3, <2>5 DEF CursorIsSound, Cursor
  <2>7. j \in DOMAIN c.chain /\ c.chain[j] \in Records \cup {NL}
    BY <2>4, <2>6 DEF Lines
  <2> QED
    BY <2>3, <2>4, <2>5, <2>7 DEF CursorIsSound
<1>2. CaptureInv /\ [Next]_vars =>
        CaptureInv' /\ [\A n \in Namespaces :
          (EndPass(n) /\ pass[n].full /\ pass[n].seen = file.data /\ pass[n].cur.ino = file.ino) =>
            \A r \in RecordsBefore(file.data, cursor[n].off) : acks[IdOf[r]] = r]_vars
  BY <1>1, NextCaptureInv
<1> QED
  BY <1>2, InitCaptureInv, PTL DEF Spec, AuditCoversFile

(***************************************************************************)
(* The catalog of a host's files                                           *)
(***************************************************************************)

CatalogSpec == CatalogInit /\ [][CatalogNext]_catalogVars

States == {"metadata-only", "indexed", "sensitive-content", "unavailable"}
CatalogTask ==
  [id : Nat, path : HostPaths, kind : {"entry", "directory"}, cursor : Nat]
FileRow == [signature : Nat, state : States, generation : Nat]
Rows == UNION {[S -> FileRow] : S \in SUBSET HostPaths}
CatalogRow ==
  [generation : Nat \ {0}, phase : {"scanning", "complete"}, queue : SUBSET CatalogTask,
   files : Rows, texts : SUBSET (HostPaths \X Nat),
   coverage : SUBSET (Nat \X HostPaths \X {"error", "incomplete"}), keys : SUBSET HostPaths,
   cursor : Nat, indexed : BOOLEAN, touched : SUBSET HostPaths]

\* Tasks have different ids, and only a directory is listed.
QueueOK(queue) ==
  /\ IsFiniteSet(queue)
  /\ \A t, u \in queue : t.id = u.id => t = u
  /\ \A t \in queue : t.kind = "directory" => t.path \in Directories

ErrorAt(db, g, p) == <<g, p, "error">> \in db.coverage
TextsOK(db) ==
  /\ \A t \in db.texts :
       /\ t[1] \in DOMAIN db.files /\ IsText(t[2])
       /\ db.files[t[1]].state = "indexed" /\ db.files[t[1]].signature = t[2]
  /\ \A p \in DOMAIN db.files :
       /\ db.files[p].state = "indexed" =>
            \/ <<p, db.files[p].signature>> \in db.texts
            \/ \E g \in 1..db.generation : ErrorAt(db, g, p)
       /\ db.files[p].state = "unavailable" => \E g \in 1..db.generation : ErrorAt(db, g, p)
IndexOK(db) ==
  /\ db.keys \subseteq DOMAIN db.files
  /\ \A p \in DOMAIN db.files : p \in db.keys \/ (~db.indexed /\ Rank(p) > db.cursor)

\* A path that stayed as it was has been seen, cannot be seen, or will be visited:
\* it or what it is in is queued, or a directory above it has not come to it yet.
SeenIn(db, p) ==
  /\ p \in DOMAIN db.files /\ db.files[p].generation = db.generation
  /\ db.files[p].signature = onDisk[p].version
Excused(db, p) ==
  \/ \E q \in Above(p) : ErrorAt(db, db.generation, q)
  \/ \E q \in Above(p) \ {RootPath} :
       Place(q) > MaxEntries /\ <<db.generation, HolderOf(q), "incomplete">> \in db.coverage
LeadsTo(t, p) ==
  \/ t.kind = "entry" /\ t.path \in Above(p)
  \/ /\ t.kind = "directory"
     /\ \E q \in Above(p) \ {RootPath} : HolderOf(q) = t.path /\ Place(q) > t.cursor
Unmissed(db) ==
  \A p \in HostPaths : Observable(p) /\ Above(p) \cap db.touched = {} =>
    SeenIn(db, p) \/ Excused(db, p) \/ \E t \in db.queue : LeadsTo(t, p)

DbOK(db) ==
  /\ db \in CatalogRow /\ QueueOK(db.queue) /\ TextsOK(db) /\ IndexOK(db) /\ Unmissed(db)
  /\ db.phase = "complete" => db.queue = {}

\* An open directory goes on where the task's cursor is.
Continues(l, t, touched) ==
  /\ l.skip <= t.cursor
  /\ t.path \notin touched =>
       \A n \in 1..Len(EntriesOf(t.path)) : n > t.cursor - l.skip =>
         /\ n - (t.cursor - l.skip) \in 1..Len(l.rest)
         /\ l.rest[n - (t.cursor - l.skip)] = EntriesOf(t.path)[n]
Listed == [rest : Seq(HostPaths), skip : Nat]
ListingsOK(open, db) ==
  /\ open \in [DOMAIN open -> Listed]
  /\ \A i \in DOMAIN open : \E t \in db.queue :
       t.id = i /\ t.kind = "directory" /\ Continues(open[i], t, db.touched)

DiskOK == onDisk \in [HostPaths -> [there : BOOLEAN, allowed : BOOLEAN, version : Nat]]
BatchOK ==
  IF batch.open
  THEN /\ \E db, next : batch = [open |-> TRUE, db |-> db, next |-> next]
       /\ DbOK(batch.db) /\ ListingsOK(listings, batch.db)
       /\ batch.db.phase = "scanning"
  ELSE batch = NoBatch /\ ListingsOK(listings, database)
CatalogInv == DiskOK /\ DbOK(database) /\ BatchOK

\* Finitely many numbers have a greatest one.
LEMMA GreatestExists ==
  ASSUME NEW S \in SUBSET Nat, IsFiniteSet(S), S # {}
  PROVE  \E x \in S : \A y \in S : y <= x
<1> DEFINE UpFrom(x) == {z \in S : x <= z}
           F == {UpFrom(x) : x \in S}
<1>1. F \subseteq FiniteSubsetsOf(S) /\ F # {}
  <2>1. \A x \in S : UpFrom(x) \subseteq S /\ IsFiniteSet(UpFrom(x))
    BY FS_Subset
  <2> QED
    BY <2>1 DEF FiniteSubsetsOf
<1>2. PICK M \in F : \A A \in F : ~(<<A, M>> \in StrictSubsetOrdering(S))
  <2> HIDE DEF F
  <2> QED
    BY <1>1, WFMin, FS_StrictSubsetOrderingWellFounded
<1>3. PICK x \in S : M = UpFrom(x)
  BY <1>2
<1>4. ASSUME NEW y \in S, x < y PROVE FALSE
  <2>1. \A z \in S : y <= z => x <= z
    BY <1>4
  <2>2. UpFrom(y) \subseteq UpFrom(x) /\ x \in UpFrom(x) /\ x \notin UpFrom(y)
    <3>1. x \in Nat /\ y \in Nat /\ ~(y <= x) /\ x <= x
      BY <1>4
    <3> QED
      BY <2>1, <3>1
  <2>3. UpFrom(y) \in F /\ UpFrom(y) \subseteq S /\ UpFrom(x) \subseteq S
    OBVIOUS
  <2> QED
    BY <1>2, <1>3, <2>2, <2>3 DEF StrictSubsetOrdering
<1> QED
  BY <1>4


\* Some numbers have a least one.
LEMMA SmallestExists ==
  ASSUME NEW S \in SUBSET Nat, S # {}
  PROVE  \E x \in S : \A y \in S : x <= y
<1>1. PICK x \in S : TRUE
  OBVIOUS
<1> DEFINE T == {n \in 0..x : \A y \in S : n <= y}
<1>2. T \in SUBSET Nat /\ IsFiniteSet(T) /\ T # {}
  <2>1. T \subseteq 0..x /\ IsFiniteSet(0..x) /\ 0..x \subseteq Nat
    BY FS_Interval
  <2>2. 0 \in T
    OBVIOUS
  <2> QED
    BY <2>1, <2>2, FS_Subset
<1>3. PICK m \in T : \A n \in T : n <= m
  <2> HIDE DEF T
  <2> QED
    BY <1>2, GreatestExists
<1>4. m \in S
  <2> SUFFICES ASSUME m \notin S PROVE FALSE
    OBVIOUS
  <2>1. m \in Nat /\ m <= x /\ \A y \in S : m <= y
    BY <1>3
  <2>2. \A y \in S : m + 1 <= y
    <3> TAKE y \in S
    <3>1. m <= y /\ m # y /\ y \in Nat
      BY <2>1
    <3> QED
      BY <2>1, <3>1
  <2>3. m + 1 \in T
    BY <2>1, <2>2
  <2> QED
    BY <1>3, <2>1, <2>3
<1> QED  BY <1>3, <1>4

(***************************************************************************)
(* What is kept of a sequence                                              *)
(***************************************************************************)
IsKept(f, s, those, k) ==
  f = [n \in 0..k |->
         IF n = 0 THEN <<>> ELSE IF s[n] \in those THEN Append(f[n - 1], s[n]) ELSE f[n - 1]]

\* What Kept defines, as a function.
LEMMA KeptIs ==
  ASSUME NEW s, NEW those
  PROVE  Kept(s, those) = (CHOOSE f : IsKept(f, s, those, Len(s)))[Len(s)]
BY DEF Kept, IsKept

\* The function that Kept defines exists.
LEMMA KeptExists ==
  ASSUME NEW s, NEW those
  PROVE  \A k \in Nat : \E f : IsKept(f, s, those, k)
<1> DEFINE T == {k \in Nat : ~\E f : IsKept(f, s, those, k)}
<1> SUFFICES T = {}
  OBVIOUS
<1> SUFFICES ASSUME T # {} PROVE FALSE
  OBVIOUS
<1>1. PICK k \in T : \A m \in T : k <= m
  <2>1. T \in SUBSET Nat
    OBVIOUS
  <2> HIDE DEF T
  <2> QED BY <2>1, SmallestExists
<1>2. CASE k = 0
  <2>1. IsKept([n \in 0..0 |-> <<>>], s, those, 0)
    BY DEF IsKept
  <2> QED BY <2>1, <1>2
<1>3. CASE k # 0
  <2>1. k - 1 \in Nat /\ k - 1 \notin T
    BY <1>1, <1>3
  <2>2. PICK f : IsKept(f, s, those, k - 1)
    BY <2>1
  <2> DEFINE last == IF s[k] \in those THEN Append(f[k - 1], s[k]) ELSE f[k - 1]
             h == [n \in 0..k |-> IF n = k THEN last ELSE f[n]]
  <2>3. \A n \in 0..(k - 1) : n \in 0..k /\ n # k /\ h[n] = f[n]
    BY <1>1
  <2>4. h[k] = last /\ k \in Nat
    BY <1>1
  <2>5. \A n \in 0..k : n # 0 => n - 1 \in 0..(k - 1)
    BY <1>1
  <2>6. \A n \in 0..(k - 1) : f[n] = IF n = 0 THEN <<>>
         ELSE IF s[n] \in those THEN Append(f[n - 1], s[n]) ELSE f[n - 1]
    BY <2>2 DEF IsKept
  <2>7. \A n \in 0..k : h[n] = IF n = 0 THEN <<>>
         ELSE IF s[n] \in those THEN Append(h[n - 1], s[n]) ELSE h[n - 1]
    <3> SUFFICES ASSUME NEW n \in 0..k
                 PROVE  h[n] = IF n = 0 THEN <<>>
                          ELSE IF s[n] \in those THEN Append(h[n - 1], s[n]) ELSE h[n - 1]
      OBVIOUS
    <3> HIDE DEF h
    <3>1. CASE n = k
      <4>1. h[k - 1] = f[k - 1] /\ k # 0
        BY <1>3, <2>3, <2>5
      <4> QED BY <3>1, <4>1, <2>4
    <3>2. CASE n # k
      <4>1. n \in 0..(k - 1)
        BY <3>2, <1>1
      <4>2. n # 0 => h[n - 1] = f[n - 1]
        BY <2>3, <2>5
      <4> QED BY <4>1, <4>2, <2>3, <2>6
    <3> QED BY <3>1, <3>2
  <2>8. IsKept(h, s, those, k)
    <3>1. h = [n \in 0..k |-> h[n]]
      OBVIOUS
    <3> HIDE DEF h
    <3> QED BY <3>1, <2>7 DEF IsKept
  <2> QED BY <2>8, <1>1
<1> QED BY <1>2, <1>3

\* What is kept is of the same kind, and everything that is to be kept is.
LEMMA KeptHasAll ==
  ASSUME NEW G, NEW s \in Seq(G), NEW those
  PROVE  /\ Kept(s, those) \in Seq(G)
         /\ \A i \in 1..Len(s) : s[i] \in those =>
              \E j \in 1..Len(Kept(s, those)) : Kept(s, those)[j] = s[i]
<1>1. PICK k \in Nat : k = Len(s)
  OBVIOUS
<1>2. PICK f : f = CHOOSE z : IsKept(z, s, those, k)
  OBVIOUS
<1>3. IsKept(f, s, those, k)
  BY <1>2, KeptExists
<1> DEFINE Has(n) == \A i \in 1..n : s[i] \in those => \E j \in 1..Len(f[n]) : f[n][j] = s[i]
           T == {n \in 0..k : ~(f[n] \in Seq(G) /\ Has(n))}
<1>4. T = {}
  <2> SUFFICES ASSUME T # {} PROVE FALSE
    OBVIOUS
  <2>1. PICK n \in T : \A m \in T : n <= m
    <3>1. T \in SUBSET Nat
      OBVIOUS
    <3> HIDE DEF T
    <3> QED BY <3>1, SmallestExists
  <2>2. n \in 0..k /\ n \in Nat
    BY <2>1
  <2>3. f[n] = IF n = 0 THEN <<>>
               ELSE IF s[n] \in those THEN Append(f[n - 1], s[n]) ELSE f[n - 1]
    BY <1>3, <2>2 DEF IsKept
  <2>4. n # 0
    <3> SUFFICES ASSUME n = 0 PROVE FALSE
      OBVIOUS
    <3>1. f[n] \in Seq(G) /\ 1..n = {}
      BY <2>3
    <3> QED BY <3>1, <2>1
  <2>5. n - 1 \in 0..k /\ ~(n <= n - 1) /\ n \in 1..k
    BY <2>2, <2>4
  <2>6. f[n - 1] \in Seq(G) /\ Has(n - 1)
    BY <2>1, <2>5
  <2>7. s[n] \in G
    BY <2>5, <1>1
  <2>8. \A i \in 1..n : i = n \/ i \in 1..(n - 1)
    BY <2>2
  <2>9. CASE s[n] \in those
    <3>1. f[n] = Append(f[n - 1], s[n])
      BY <2>9, <2>3, <2>4
    <3>2. /\ f[n] \in Seq(G) /\ Len(f[n]) = Len(f[n - 1]) + 1 /\ f[n][Len(f[n])] = s[n]
          /\ \A j \in 1..Len(f[n - 1]) : j \in 1..Len(f[n]) /\ f[n][j] = f[n - 1][j]
      BY <3>1, <2>6, <2>7
    <3>3. Len(f[n]) \in 1..Len(f[n])
      BY <3>2, <2>6
    <3>4. Has(n)
      <4> SUFFICES ASSUME NEW i \in 1..n, s[i] \in those
                   PROVE  \E j \in 1..Len(f[n]) : f[n][j] = s[i]
        OBVIOUS
      <4>1. CASE i = n
        BY <4>1, <3>2, <3>3
      <4>2. CASE i # n
        <5>1. PICK j \in 1..Len(f[n - 1]) : f[n - 1][j] = s[i]
          BY <4>2, <2>6, <2>8
        <5> QED BY <5>1, <3>2
      <4> QED BY <4>1, <4>2
    <3> QED BY <3>2, <3>4, <2>1
  <2>10. CASE s[n] \notin those
    <3>1. f[n] = f[n - 1]
      BY <2>10, <2>3, <2>4
    <3>2. Has(n)
      <4> SUFFICES ASSUME NEW i \in 1..n, s[i] \in those
                   PROVE  \E j \in 1..Len(f[n]) : f[n][j] = s[i]
        OBVIOUS
      <4>1. i \in 1..(n - 1)
        BY <2>8, <2>10
      <4> QED BY <4>1, <3>1, <2>6
    <3> QED BY <3>1, <3>2, <2>1, <2>6
  <2> QED BY <2>9, <2>10
<1>5. k \in 0..k /\ k \notin T
  BY <1>4
<1>6. Kept(s, those) = f[k]
  BY <1>1, <1>2, KeptIs
<1> QED BY <1>1, <1>5, <1>6

(***************************************************************************)
(* The tree, its listings and the queue                                    *)
(***************************************************************************)

\* A path other than the root is in one directory.
LEMMA Held ==
  /\ \A c \in HostPaths \ {RootPath} :
       HolderOf(c) \in Directories /\ c \in Range(Children[HolderOf(c)])
  /\ \A d \in Directories : \A c \in Range(Children[d]) :
       c \in HostPaths \ {RootPath} /\ HolderOf(c) = d
  /\ Directories \subseteq HostPaths /\ RootPath \in HostPaths
<1> USE CatalogAssumption DEF CatalogAssumption
<1>1. RootPath \in HostPaths
  BY DEF HostPaths
<1>2. \A d \in Directories : Range(Children[d]) \subseteq HostPaths \ {RootPath}
  <2> TAKE d \in Directories
  <2>1. Children[d] \in Seq(HostPaths \ {RootPath})
    OBVIOUS
  <2> QED BY <2>1 DEF Range
<1>3. Directories \subseteq HostPaths
  BY <1>1, <1>2
<1>4. ASSUME NEW c \in HostPaths \ {RootPath}
      PROVE  HolderOf(c) \in Directories /\ c \in Range(Children[HolderOf(c)])
  <2>1. \E d \in Directories : c \in Range(Children[d])
    BY DEF HostPaths
  <2> QED BY <2>1 DEF HolderOf
<1>5. ASSUME NEW d \in Directories, NEW c \in Range(Children[d])
      PROVE  c \in HostPaths \ {RootPath} /\ HolderOf(c) = d
  <2>1. c \in HostPaths \ {RootPath}
    BY <1>2
  <2>2. HolderOf(c) \in Directories /\ c \in Range(Children[HolderOf(c)])
    BY <1>4, <2>1
  <2>3. \A e \in Directories \ {d} : Range(Children[d]) \cap Range(Children[e]) = {}
    OBVIOUS
  <2> QED BY <2>1, <2>2, <2>3
<1> QED BY <1>1, <1>3, <1>4, <1>5

\* What a path is in is above it, and each path above leads to the next one.
LEMMA AboveIs ==
  ASSUME NEW p \in HostPaths
  PROVE  /\ p \in Above(p) /\ RootPath \in Above(p) /\ Above(p) \subseteq HostPaths
         /\ \A c \in Above(p) \ {RootPath} : HolderOf(c) \in Above(p)
         /\ \A q \in Above(p) \ {p} :
              q \in Directories /\ \E c \in Above(p) \ {RootPath} : HolderOf(c) = q
<1>1. \A d \in Directories \ {RootPath} : HolderOf(d) = RootPath
  BY Held, CatalogAssumption DEF CatalogAssumption
<1>2. CASE p = RootPath
  BY <1>2, Held DEF Above
<1>3. CASE p # RootPath /\ HolderOf(p) = RootPath
  <2>1. Above(p) = {p, RootPath}
    BY <1>3 DEF Above
  <2> QED BY <2>1, <1>3, Held, CatalogAssumption DEF CatalogAssumption
<1>4. CASE p # RootPath /\ HolderOf(p) # RootPath
  <2>1. Above(p) = {p, HolderOf(p), RootPath}
    BY <1>4 DEF Above
  <2>2. HolderOf(p) \in Directories \ {RootPath}
    BY <1>4, Held
  <2>3. HolderOf(HolderOf(p)) = RootPath
    BY <2>2, <1>1
  <2>4. HolderOf(p) \in HostPaths /\ RootPath \in Directories /\ RootPath \in HostPaths
    BY <2>2, Held, CatalogAssumption DEF CatalogAssumption
  <2> QED BY <2>1, <2>2, <2>3, <2>4, <1>4
<1> QED BY <1>2, <1>3, <1>4

\* A listing holds the entries that are there, and each has its place in it.
LEMMA EntriesAre ==
  ASSUME NEW d \in Directories
  PROVE  /\ EntriesOf(d) \in Seq(HostPaths)
         /\ \A c \in Range(Children[d]) : onDisk[c].there =>
              Place(c) \in 1..Len(EntriesOf(d)) /\ EntriesOf(d)[Place(c)] = c
<1> DEFINE those == {p \in Range(Children[d]) : onDisk[p].there}
<1>1. Children[d] \in Seq(HostPaths \ {RootPath}) /\ Children[d] \in Seq(HostPaths)
  BY CatalogAssumption DEF CatalogAssumption
<1>2. EntriesOf(d) = Kept(Children[d], those)
  BY DEF EntriesOf
<1>3. /\ EntriesOf(d) \in Seq(HostPaths)
      /\ \A i \in 1..Len(Children[d]) : Children[d][i] \in those =>
              \E j \in 1..Len(EntriesOf(d)) : EntriesOf(d)[j] = Children[d][i]
  <2> HIDE DEF those
  <2> QED BY <1>1, <1>2, KeptHasAll
<1>4. ASSUME NEW c \in Range(Children[d]), onDisk[c].there
      PROVE  Place(c) \in 1..Len(EntriesOf(d)) /\ EntriesOf(d)[Place(c)] = c
  <2>1. PICK i \in 1..Len(Children[d]) : Children[d][i] = c
    BY <1>1 DEF Range
  <2>2. \E j \in 1..Len(EntriesOf(d)) : EntriesOf(d)[j] = c
    BY <1>3, <1>4, <2>1
  <2>3. HolderOf(c) = d
    BY Held
  <2> QED BY <2>2, <2>3 DEF Place
<1> QED BY <1>3, <1>4

\* A new task has an id of its own.
LEMMA NextIdIsNew ==
  ASSUME NEW queue \in SUBSET CatalogTask, IsFiniteSet(queue)
  PROVE  NextId(queue) \in Nat /\ \A t \in queue : t.id < NextId(queue)
<1>1. CASE queue = {}
  BY <1>1 DEF NextId
<1>2. CASE queue # {}
  <2> DEFINE ids == {t.id : t \in queue}
           idOf == [t \in queue |-> t.id]
  <2>1. ids \in SUBSET Nat /\ ids # {} /\ IsFiniteSet(ids)
    <3>1. idOf \in Surjection(queue, ids)
      BY DEF Surjection
    <3>2. IsFiniteSet(ids)
      <4> HIDE DEF ids, idOf
      <4> QED BY <3>1, FS_Surjection
    <3> QED BY <1>2, <3>2 DEF CatalogTask
  <2>2. PICK n \in ids : \A m \in ids : m <= n
    <3> HIDE DEF ids
    <3> QED BY <2>1, GreatestExists
  <2>3. PICK t \in queue : \A u \in queue : u.id <= t.id
    BY <2>2
  <2>4. PICK t1 : t1 = CHOOSE z \in queue : \A u \in queue : u.id <= z.id
    OBVIOUS
  <2>5. t1 \in queue /\ \A u \in queue : u.id <= t1.id
    BY <2>3, <2>4
  <2>6. NextId(queue) = 1 + t1.id
    BY <1>2, <2>4 DEF NextId
  <2>7. \A u \in queue : u.id \in Nat
    BY DEF CatalogTask
  <2> QED BY <2>5, <2>6, <2>7
<1> QED BY <1>1, <1>2

NewTask(queue, p, kind) == [id |-> NextId(queue), path |-> p, kind |-> kind, cursor |-> 0]
\* A queue stays one when a task is added, with an id that no other task has.
LEMMA QueuedIsOK ==
  ASSUME NEW queue \in SUBSET CatalogTask, QueueOK(queue), NEW p \in HostPaths,
         NEW kind \in {"entry", "directory"}, kind = "directory" => p \in Directories
  PROVE  /\ Queued(queue, p, kind) = queue \cup {NewTask(queue, p, kind)}
         /\ Queued(queue, p, kind) \in SUBSET CatalogTask /\ QueueOK(Queued(queue, p, kind))
         /\ NewTask(queue, p, kind) \in CatalogTask
         /\ \A t \in queue : t.id # NewTask(queue, p, kind).id
<1>1. NextId(queue) \in Nat /\ \A t \in queue : t.id < NextId(queue)
  BY NextIdIsNew DEF QueueOK
<1>2. PICK t : t = NewTask(queue, p, kind)
  OBVIOUS
<1>3. t.id = NextId(queue) /\ t.path = p /\ t.kind = kind /\ t \in CatalogTask
  BY <1>1, <1>2 DEF NewTask, CatalogTask
<1>4. Queued(queue, p, kind) = queue \cup {t}
  BY <1>2 DEF Queued, NewTask
<1>5. \A u \in queue : u.id # t.id
  <2> TAKE u \in queue
  <2>1. u.id \in Nat /\ u.id < NextId(queue)
    BY <1>1 DEF CatalogTask
  <2> QED BY <2>1, <1>1, <1>3
<1>6. IsFiniteSet(queue \cup {t})
  BY FS_AddElement DEF QueueOK
<1>7. QueueOK(queue \cup {t})
  <2>1. \A u, v \in queue \cup {t} : u.id = v.id => u = v
    BY <1>5 DEF QueueOK
  <2>2. \A u \in queue \cup {t} : u.kind = "directory" => u.path \in Directories
    BY <1>3 DEF QueueOK
  <2> QED BY <1>6, <2>1, <2>2 DEF QueueOK
<1> QED BY <1>2, <1>3, <1>4, <1>5, <1>7

\* A queue stays one when a task is done, and has all the others.
LEMMA WithoutIsOK ==
  ASSUME NEW queue \in SUBSET CatalogTask, QueueOK(queue), NEW task \in queue
  PROVE  /\ Without(queue, task) = queue \ {task}
         /\ Without(queue, task) \in SUBSET CatalogTask /\ QueueOK(Without(queue, task))
<1>1. Without(queue, task) = queue \ {task}
  BY DEF Without, QueueOK
<1>2. IsFiniteSet(queue \ {task})
  BY FS_Subset DEF QueueOK
<1> QED BY <1>1, <1>2 DEF QueueOK

(***************************************************************************)
(* What a visit leaves                                                     *)
(***************************************************************************)
\* An inventory is a function from some of the paths to their rows.
LEMMA RowsAre ==
  \A f : f \in Rows <=> f \in [DOMAIN f -> FileRow] /\ DOMAIN f \subseteq HostPaths
<1> TAKE f
<1>1. ASSUME f \in Rows PROVE f \in [DOMAIN f -> FileRow] /\ DOMAIN f \subseteq HostPaths
  <2>1. PICK S \in SUBSET HostPaths : f \in [S -> FileRow]
    BY <1>1 DEF Rows
  <2> QED BY <2>1
<1>2. ASSUME f \in [DOMAIN f -> FileRow], DOMAIN f \subseteq HostPaths PROVE f \in Rows
  BY <1>2 DEF Rows
<1> QED BY <1>1, <1>2

SameExcept(n, db) ==
  /\ n.generation = db.generation /\ n.phase = db.phase /\ n.touched = db.touched
  /\ n.cursor = db.cursor /\ n.indexed = db.indexed

\* A task's entry is covered and nothing else of the row changes.
LEMMA CoveredIs ==
  ASSUME NEW db \in CatalogRow, NEW p \in HostPaths, NEW kind \in {"error", "incomplete"}
  PROVE  LET n == Covered(db, p, kind) IN
         /\ n \in CatalogRow /\ SameExcept(n, db)
         /\ n.queue = db.queue /\ n.files = db.files /\ n.texts = db.texts /\ n.keys = db.keys
         /\ n.coverage = db.coverage \cup {<<db.generation, p, kind>>}
<1>1. PICK c : c = db.coverage \cup {<<db.generation, p, kind>>}
  OBVIOUS
<1>2. c \in SUBSET (Nat \X HostPaths \X {"error", "incomplete"})
  BY <1>1 DEF CatalogRow
<1>3. Covered(db, p, kind) = [db EXCEPT !.coverage = c]
  BY <1>1 DEF Covered, CatalogRow
<1> QED BY <1>1, <1>2, <1>3 DEF CatalogRow, SameExcept

\* A path's texts go and nothing else of the row changes.
LEMMA TextDroppedIs ==
  ASSUME NEW db \in CatalogRow, NEW p
  PROVE  LET n == TextDropped(db, p) IN
         /\ n \in CatalogRow /\ SameExcept(n, db)
         /\ n.queue = db.queue /\ n.files = db.files /\ n.keys = db.keys
         /\ n.coverage = db.coverage /\ n.texts = {t \in db.texts : t[1] # p}
<1>1. PICK ts : ts = {t \in db.texts : t[1] # p}
  OBVIOUS
<1>2. ts \in SUBSET (HostPaths \X Nat)
  BY <1>1 DEF CatalogRow
<1>3. TextDropped(db, p) = [db EXCEPT !.texts = ts]
  BY <1>1 DEF TextDropped, CatalogRow
<1> QED BY <1>1, <1>2, <1>3 DEF CatalogRow, SameExcept

MadeUnavailable(fs, p) ==
  [q \in DOMAIN fs |-> IF q = p THEN [fs[q] EXCEPT !.state = "unavailable"] ELSE fs[q]]
\* Only the state of one row changes.
LEMMA MadeUnavailableIs ==
  ASSUME NEW fs \in Rows, NEW p
  PROVE  /\ MadeUnavailable(fs, p) \in Rows /\ DOMAIN MadeUnavailable(fs, p) = DOMAIN fs
         /\ \A q \in DOMAIN fs :
              /\ MadeUnavailable(fs, p)[q].signature = fs[q].signature
              /\ MadeUnavailable(fs, p)[q].generation = fs[q].generation
              /\ q # p => MadeUnavailable(fs, p)[q] = fs[q]
              /\ q = p => MadeUnavailable(fs, p)[q].state = "unavailable"
<1>1. fs \in [DOMAIN fs -> FileRow] /\ DOMAIN fs \subseteq HostPaths
  BY RowsAre
<1>2. \A q \in DOMAIN fs : fs[q] \in FileRow
  BY <1>1
<1>3. PICK gs : gs = MadeUnavailable(fs, p)
  OBVIOUS
<1>4. /\ DOMAIN gs = DOMAIN fs /\ gs = [q \in DOMAIN fs |-> gs[q]]
      /\ \A q \in DOMAIN fs : gs[q] = IF q = p THEN [fs[q] EXCEPT !.state = "unavailable"] ELSE fs[q]
  BY <1>3 DEF MadeUnavailable
<1>5. \A q \in DOMAIN fs :
        /\ gs[q] \in FileRow /\ gs[q].signature = fs[q].signature
        /\ gs[q].generation = fs[q].generation
        /\ q # p => gs[q] = fs[q]
        /\ q = p => gs[q].state = "unavailable"
  BY <1>2, <1>4 DEF FileRow, States
<1>6. gs \in Rows
  BY <1>1, <1>4, <1>5, RowsAre
<1> QED BY <1>3, <1>4, <1>5, <1>6

\* The entry is covered, its text is gone, its row is unavailable and its task is done.
LEMMA FailedIs ==
  ASSUME NEW db \in CatalogRow, QueueOK(db.queue), NEW task \in db.queue
  PROVE  LET n == Failed(db, task) IN
         /\ n \in CatalogRow /\ SameExcept(n, db) /\ QueueOK(n.queue) /\ n.keys = db.keys
         /\ n.queue = db.queue \ {task}
         /\ n.files = MadeUnavailable(db.files, task.path)
         /\ n.texts = {t \in db.texts : t[1] # task.path}
         /\ n.coverage = db.coverage \cup {<<db.generation, task.path, "error">>}
<1>1. task \in CatalogTask /\ task.path \in HostPaths
  BY DEF CatalogRow, CatalogTask
<1>2. PICK m : m = Covered(db, task.path, "error")
  OBVIOUS
<1>3. /\ m \in CatalogRow /\ SameExcept(m, db)
      /\ m.queue = db.queue /\ m.files = db.files /\ m.texts = db.texts /\ m.keys = db.keys
      /\ m.coverage = db.coverage \cup {<<db.generation, task.path, "error">>}
  BY <1>1, <1>2, CoveredIs
<1>4. PICK k : k = TextDropped(m, task.path)
  OBVIOUS
<1>5. /\ k \in CatalogRow /\ SameExcept(k, m)
      /\ k.queue = m.queue /\ k.files = m.files /\ k.keys = m.keys
      /\ k.coverage = m.coverage /\ k.texts = {t \in m.texts : t[1] # task.path}
  BY <1>3, <1>4, TextDroppedIs
<1>6. PICK gs : gs = MadeUnavailable(k.files, task.path)
  OBVIOUS
<1>7. gs \in Rows
  BY <1>5, <1>6, MadeUnavailableIs DEF CatalogRow
<1>8. PICK w : w = Without(k.queue, task)
  OBVIOUS
<1>9. w = db.queue \ {task} /\ w \in SUBSET CatalogTask /\ QueueOK(w)
  BY <1>3, <1>5, <1>8, WithoutIsOK DEF CatalogRow
<1>10. Failed(db, task) = [k EXCEPT !.queue = w, !.files = gs]
  BY <1>2, <1>4, <1>6, <1>8, <1>5 DEF Failed, MadeUnavailable, CatalogRow
<1>11. /\ [k EXCEPT !.queue = w, !.files = gs] \in CatalogRow
       /\ SameExcept([k EXCEPT !.queue = w, !.files = gs], k)
       /\ [k EXCEPT !.queue = w, !.files = gs].queue = w
       /\ [k EXCEPT !.queue = w, !.files = gs].files = gs
       /\ [k EXCEPT !.queue = w, !.files = gs].texts = k.texts
       /\ [k EXCEPT !.queue = w, !.files = gs].keys = k.keys
       /\ [k EXCEPT !.queue = w, !.files = gs].coverage = k.coverage
  BY <1>5, <1>7, <1>9 DEF CatalogRow, SameExcept
<1> QED BY <1>3, <1>5, <1>6, <1>9, <1>10, <1>11 DEF SameExcept

Written(fs, p, row) == [q \in DOMAIN fs \cup {p} |-> IF q = p THEN row ELSE fs[q]]
ReadAs(db, p) ==
  IF Known(db, p) /\ StateOf(db, p) = "indexed" THEN db.texts
  ELSE {t \in db.texts : t[1] # p} \cup
         (IF p \in Directories \/ StillKnown(db, p) \/ StateOf(db, p) # "indexed" THEN {}
          ELSE {<<p, onDisk[p].version>>})
LeftToDo(db, task) ==
  Without(IF task.path \in Directories THEN Queued(db.queue, task.path, "directory") ELSE db.queue,
          task)

\* An entry has the state of its kind, or the one it had, or what its content calls for.
LEMMA StateOfIs ==
  ASSUME NEW db \in CatalogRow, NEW p \in HostPaths
  PROVE  StateOf(db, p) \in States
<1>1. db.files \in [DOMAIN db.files -> FileRow]
  BY RowsAre DEF CatalogRow
<1>2. p \in DOMAIN db.files => db.files[p].state \in States
  BY <1>1 DEF FileRow
<1> QED BY <1>2 DEF StateOf, StillKnown, Known, States

\* An entry that can be read has the row, the text and, a directory, the task it calls for.
LEMMA InspectedIs ==
  ASSUME DiskOK, NEW db \in CatalogRow, QueueOK(db.queue), NEW task \in db.queue
  PROVE  LET n == Inspected(db, task)
             p == task.path
         IN
         /\ n \in CatalogRow /\ SameExcept(n, db) /\ QueueOK(n.queue) /\ n.coverage = db.coverage
         /\ n.queue = LeftToDo(db, task)
         /\ n.queue = (IF p \in Directories THEN db.queue \cup {NewTask(db.queue, p, "directory")}
                       ELSE db.queue) \ {task}
         /\ n.files = Written(db.files, p, Row(onDisk[p].version, StateOf(db, p), db.generation))
         /\ n.files \in Rows
         /\ n.texts = ReadAs(db, p)
         /\ n.keys = IF p \in DOMAIN db.files THEN db.keys ELSE db.keys \cup {p}
<1>1. PICK p : p = task.path
  OBVIOUS
<1>2. task \in CatalogTask /\ p \in HostPaths /\ onDisk[p].version \in Nat
  BY <1>1 DEF CatalogRow, CatalogTask, DiskOK
<1>3. PICK ts : ts = ReadAs(db, p)
  OBVIOUS
<1>4. ts \in SUBSET (HostPaths \X Nat)
  BY <1>2, <1>3 DEF ReadAs, CatalogRow
<1>5. PICK gs : gs = Written(db.files, p, Row(onDisk[p].version, StateOf(db, p), db.generation))
  OBVIOUS
<1>6. gs \in Rows
  <2>1. Row(onDisk[p].version, StateOf(db, p), db.generation) \in FileRow
    BY <1>2, StateOfIs DEF Row, FileRow, CatalogRow
  <2>2. db.files \in [DOMAIN db.files -> FileRow] /\ DOMAIN db.files \subseteq HostPaths
    BY RowsAre DEF CatalogRow
  <2>3. gs \in [DOMAIN db.files \cup {p} -> FileRow] /\ DOMAIN gs = DOMAIN db.files \cup {p}
    BY <1>5, <2>1, <2>2 DEF Written
  <2> QED BY <2>2, <2>3, <1>2, RowsAre
<1>7. PICK w : w = LeftToDo(db, task)
  OBVIOUS
<1>8. /\ w \in SUBSET CatalogTask /\ QueueOK(w)
      /\ w = (IF p \in Directories THEN db.queue \cup {NewTask(db.queue, p, "directory")}
              ELSE db.queue) \ {task}
  <2>1. db.queue \in SUBSET CatalogTask
    BY DEF CatalogRow
  <2>2. CASE p \in Directories
    <3>1. PICK z : z = Queued(db.queue, p, "directory")
      OBVIOUS
    <3>2. z = db.queue \cup {NewTask(db.queue, p, "directory")} /\ z \in SUBSET CatalogTask
          /\ QueueOK(z)
      BY <3>1, <2>1, <2>2, <1>2, QueuedIsOK
    <3>3. w = Without(z, task) /\ task \in z
      BY <3>1, <3>2, <2>2, <1>1, <1>7 DEF LeftToDo
    <3> QED BY <3>2, <3>3, <2>2, WithoutIsOK
  <2>3. CASE p \notin Directories
    <3>1. w = Without(db.queue, task)
      BY <2>3, <1>1, <1>7 DEF LeftToDo
    <3> QED BY <3>1, <2>1, <2>3, WithoutIsOK
  <2> QED BY <2>2, <2>3
<1>9. PICK ks : ks = IF p \in DOMAIN db.files THEN db.keys ELSE db.keys \cup {p}
  OBVIOUS
<1>10. ks \in SUBSET HostPaths
  BY <1>2, <1>9 DEF CatalogRow
<1>11. PICK m : m = [db EXCEPT !.texts = ts]
  OBVIOUS
<1>12. /\ m \in CatalogRow /\ SameExcept(m, db) /\ m.coverage = db.coverage /\ m.texts = ts
       /\ m.queue = db.queue /\ m.files = db.files /\ m.keys = db.keys
  BY <1>4, <1>11 DEF CatalogRow, SameExcept
<1>13. Inspected(db, task) = [m EXCEPT !.files = gs, !.keys = ks, !.queue = w]
  <2> DEFINE body == IF p \in Directories \/ StillKnown(db, p) \/ StateOf(db, p) # "indexed" THEN {}
                     ELSE {<<p, onDisk[p].version>>}
             read == IF Known(db, p) /\ StateOf(db, p) = "indexed" THEN db
                     ELSE [TextDropped(db, p) EXCEPT !.texts = @ \cup body]
  <2>1. read = m
    <3>1. CASE Known(db, p) /\ StateOf(db, p) = "indexed"
      <4>1. ts = db.texts
        BY <3>1, <1>3 DEF ReadAs
      <4>2. m = db
        BY <4>1, <1>11 DEF CatalogRow
      <4> QED BY <3>1, <4>2
    <3>2. CASE ~(Known(db, p) /\ StateOf(db, p) = "indexed")
      <4>1. PICK b : b = body
        OBVIOUS
      <4>2. ts = {t \in db.texts : t[1] # p} \cup b
        BY <3>2, <4>1, <1>3 DEF ReadAs
      <4>3. read = [TextDropped(db, p) EXCEPT !.texts = @ \cup b]
        BY <3>2, <4>1
      <4> HIDE DEF read, body
      <4> QED BY <4>2, <4>3, <1>11 DEF TextDropped, CatalogRow
    <3> QED BY <3>1, <3>2
  <2>2. Inspected(db, task) = [read EXCEPT
         !.files = [q \in DOMAIN @ \cup {p} |->
                      IF q = p THEN Row(onDisk[p].version, StateOf(db, p), db.generation) ELSE @[q]],
         !.keys = IF p \in DOMAIN db.files THEN @ ELSE @ \cup {p},
         !.queue = Without(IF p \in Directories THEN Queued(@, p, "directory") ELSE @, task)]
    BY <1>1, Zenon DEF Inspected
  <2> HIDE DEF read
  <2>3. Inspected(db, task) = [m EXCEPT
         !.files = Written(@, p, Row(onDisk[p].version, StateOf(db, p), db.generation)),
         !.keys = IF p \in DOMAIN db.files THEN @ ELSE @ \cup {p},
         !.queue = Without(IF p \in Directories THEN Queued(@, p, "directory") ELSE @, task)]
    BY <2>1, <2>2 DEF Written
  <2> QED BY <2>3, <1>12, <1>5, <1>7, <1>9, <1>1 DEF CatalogRow, LeftToDo
<1>14. PICK n : n = [m EXCEPT !.files = gs, !.keys = ks, !.queue = w]
  OBVIOUS
<1>15. /\ n \in CatalogRow /\ SameExcept(n, m) /\ n.coverage = m.coverage /\ n.texts = m.texts
       /\ n.queue = w /\ n.files = gs /\ n.keys = ks
  BY <1>6, <1>8, <1>10, <1>12, <1>14 DEF CatalogRow, SameExcept
<1>16. SameExcept(n, db)
  BY <1>12, <1>15 DEF SameExcept
<1> QED BY <1>1, <1>3, <1>5, <1>6, <1>7, <1>8, <1>9, <1>12, <1>13, <1>14, <1>15, <1>16

\* A visit misses nothing: what was seen or excused stays so, and what a task led to is
\* seen, excused, or led to by another one.
Onward(db, n) ==
  /\ n.touched = db.touched /\ n.generation = db.generation
  /\ db.coverage \subseteq n.coverage
  /\ \A p \in HostPaths : Observable(p) /\ Above(p) \cap db.touched = {} =>
       /\ SeenIn(db, p) => SeenIn(n, p)
       /\ \A t \in db.queue : LeadsTo(t, p) =>
            SeenIn(n, p) \/ Excused(n, p) \/ \E u \in n.queue : LeadsTo(u, p)

\* A visit that leaves paths as they were led to has missed nothing.
LEMMA NothingMissed ==
  ASSUME NEW db, NEW n, Unmissed(db), Onward(db, n)
  PROVE  Unmissed(n)
<1> SUFFICES ASSUME NEW p \in HostPaths, Observable(p), Above(p) \cap n.touched = {}
             PROVE  SeenIn(n, p) \/ Excused(n, p) \/ \E t \in n.queue : LeadsTo(t, p)
  BY DEF Unmissed
<1>1. SeenIn(db, p) \/ Excused(db, p) \/ \E t \in db.queue : LeadsTo(t, p)
  BY DEF Unmissed, Onward
<1>2. Excused(db, p) => Excused(n, p)
  BY DEF Excused, ErrorAt, Onward
<1> QED BY <1>1, <1>2 DEF Onward

\* An entry that cannot be read is excused by the coverage.
LEMMA FailedKeeps ==
  ASSUME NEW db, DbOK(db), NEW task \in db.queue
  PROVE  DbOK(Failed(db, task)) /\ Failed(db, task).phase = db.phase
<1> DEFINE p == task.path
<1>1. db \in CatalogRow /\ QueueOK(db.queue) /\ TextsOK(db) /\ IndexOK(db) /\ Unmissed(db)
  BY DEF DbOK
<1>2. PICK n : n = Failed(db, task)
  OBVIOUS
<1>3. /\ n \in CatalogRow /\ SameExcept(n, db) /\ QueueOK(n.queue) /\ n.keys = db.keys
      /\ n.queue = db.queue \ {task}
      /\ n.files = MadeUnavailable(db.files, p)
      /\ n.texts = {t \in db.texts : t[1] # p}
      /\ n.coverage = db.coverage \cup {<<db.generation, p, "error">>}
  BY <1>1, <1>2, FailedIs
<1>4. /\ DOMAIN n.files = DOMAIN db.files
      /\ \A q \in DOMAIN db.files :
              /\ n.files[q].signature = db.files[q].signature
              /\ n.files[q].generation = db.files[q].generation
              /\ q # p => n.files[q] = db.files[q]
              /\ q = p => n.files[q].state = "unavailable"
  BY <1>1, <1>3, MadeUnavailableIs DEF CatalogRow
<1>5. n.generation = db.generation /\ db.generation \in 1..db.generation
  BY <1>1, <1>3 DEF SameExcept, CatalogRow
<1>6. TextsOK(n)
  <2>1. ASSUME NEW t \in n.texts
        PROVE  /\ t[1] \in DOMAIN n.files /\ IsText(t[2])
               /\ n.files[t[1]].state = "indexed" /\ n.files[t[1]].signature = t[2]
    <3>1. t \in db.texts /\ t[1] # p
      BY <1>3
    <3> QED BY <3>1, <1>1, <1>4 DEF TextsOK
  <2>2. ASSUME NEW q \in DOMAIN n.files, n.files[q].state \in {"indexed", "unavailable"}
        PROVE  \/ n.files[q].state = "indexed" /\ <<q, n.files[q].signature>> \in n.texts
               \/ \E g \in 1..n.generation : ErrorAt(n, g, q)
    <3>1. CASE q = p
      BY <3>1, <1>3, <1>5 DEF ErrorAt
    <3>2. CASE q # p
      <4>1. n.files[q] = db.files[q]
        BY <3>2, <1>4
      <4>2. \/ db.files[q].state = "indexed" /\ <<q, db.files[q].signature>> \in db.texts
            \/ \E g \in 1..db.generation : ErrorAt(db, g, q)
        BY <4>1, <2>2, <1>1, <1>4 DEF TextsOK
      <4> QED BY <4>1, <4>2, <3>2, <1>3, <1>5 DEF ErrorAt
    <3> QED BY <3>1, <3>2
  <2> QED BY <2>1, <2>2 DEF TextsOK
<1>7. IndexOK(n)
  BY <1>1, <1>3, <1>4 DEF IndexOK, SameExcept
<1>8. Onward(db, n)
  <2>1. \A q \in HostPaths : SeenIn(db, q) => SeenIn(n, q)
    BY <1>4, <1>5 DEF SeenIn
  <2>2. ASSUME NEW q \in HostPaths, NEW t \in db.queue, LeadsTo(t, q)
        PROVE  Excused(n, q) \/ \E u \in n.queue : LeadsTo(u, q)
    <3>1. CASE t # task
      BY <3>1, <2>2, <1>3
    <3>2. CASE t = task
      <4>1. p \in Above(q)
        BY <3>2, <2>2, AboveIs DEF LeadsTo
      <4> QED BY <4>1, <1>3, <1>5 DEF Excused, ErrorAt
    <3> QED BY <3>1, <3>2
  <2> QED BY <2>1, <2>2, <1>3 DEF Onward, SameExcept
<1>9. Unmissed(n)
  BY <1>1, <1>8, NothingMissed
<1> QED BY <1>2, <1>3, <1>6, <1>7, <1>9 DEF DbOK, SameExcept

\* An entry that is read has been seen, and a directory leads to what is in it.
LEMMA InspectedKeeps ==
  ASSUME DiskOK, NEW db, DbOK(db), NEW task \in db.queue, task.kind = "entry",
         Observable(task.path)
  PROVE  DbOK(Inspected(db, task)) /\ Inspected(db, task).phase = db.phase
<1>1. PICK p : p = task.path
  OBVIOUS
<1>2. db \in CatalogRow /\ QueueOK(db.queue) /\ TextsOK(db) /\ IndexOK(db) /\ Unmissed(db)
  BY DEF DbOK
<1>3. PICK n : n = Inspected(db, task)
  OBVIOUS
<1>4. PICK row : row = Row(onDisk[p].version, StateOf(db, p), db.generation)
  OBVIOUS
<1>5. /\ n \in CatalogRow /\ SameExcept(n, db) /\ QueueOK(n.queue) /\ n.coverage = db.coverage
      /\ n.queue = (IF p \in Directories THEN db.queue \cup {NewTask(db.queue, p, "directory")}
                    ELSE db.queue) \ {task}
      /\ n.files = Written(db.files, p, row)
      /\ n.texts = ReadAs(db, p)
      /\ n.keys = IF p \in DOMAIN db.files THEN db.keys ELSE db.keys \cup {p}
  BY <1>1, <1>2, <1>3, <1>4, InspectedIs
<1>6. /\ DOMAIN n.files = DOMAIN db.files \cup {p} /\ n.files[p] = row
      /\ \A q \in DOMAIN db.files : q # p => n.files[q] = db.files[q]
  BY <1>5 DEF Written
<1>7. /\ row.signature = onDisk[p].version /\ row.state = StateOf(db, p)
      /\ row.generation = db.generation
  BY <1>4 DEF Row
<1>8. n.generation = db.generation /\ n.touched = db.touched
  BY <1>5 DEF SameExcept
<1>9. p \in HostPaths
  BY <1>1, <1>2 DEF CatalogRow, CatalogTask
<1>10. TextsOK(n)
  <2>1. CASE Known(db, p) /\ StateOf(db, p) = "indexed"
    <3>1. n.texts = db.texts
      BY <2>1, <1>5 DEF ReadAs
    <3>2. p \in DOMAIN db.files /\ db.files[p].signature = onDisk[p].version
      BY <2>1 DEF Known
    <3>3. db.files[p].state \in {"indexed", "unavailable"}
      <4>1. p \notin Directories
        BY <2>1 DEF StateOf
      <4> QED BY <4>1, <2>1, <3>2 DEF StateOf, StillKnown
    <3>4. \/ <<p, row.signature>> \in n.texts
          \/ \E g \in 1..db.generation : ErrorAt(db, g, p)
      BY <3>1, <3>2, <3>3, <1>2, <1>7 DEF TextsOK
    <3>5. ASSUME NEW t \in n.texts
          PROVE  /\ t[1] \in DOMAIN n.files /\ IsText(t[2])
                 /\ n.files[t[1]].state = "indexed" /\ n.files[t[1]].signature = t[2]
      <4>1. /\ t[1] \in DOMAIN db.files /\ IsText(t[2])
            /\ db.files[t[1]].state = "indexed" /\ db.files[t[1]].signature = t[2]
        BY <3>1, <1>2 DEF TextsOK
      <4> QED BY <4>1, <1>6, <1>7, <2>1, <3>2
    <3>6. ASSUME NEW q \in DOMAIN n.files
          PROVE  /\ n.files[q].state = "indexed" =>
                       \/ <<q, n.files[q].signature>> \in n.texts
                       \/ \E g \in 1..n.generation : ErrorAt(n, g, q)
                 /\ n.files[q].state = "unavailable" => \E g \in 1..n.generation : ErrorAt(n, g, q)
      <4>1. CASE q = p
        BY <4>1, <3>4, <1>5, <1>6, <1>7, <1>8, <2>1 DEF ErrorAt
      <4>2. CASE q # p
        <5>1. q \in DOMAIN db.files /\ n.files[q] = db.files[q]
          BY <4>2, <1>6
        <5> QED BY <5>1, <3>1, <1>2, <1>5, <1>8 DEF TextsOK, ErrorAt
      <4> QED BY <4>1, <4>2
    <3> QED BY <3>5, <3>6 DEF TextsOK
  <2>2. CASE ~(Known(db, p) /\ StateOf(db, p) = "indexed")
    <3> DEFINE body == IF p \in Directories \/ StillKnown(db, p) \/ StateOf(db, p) # "indexed"
                       THEN {} ELSE {<<p, onDisk[p].version>>}
    <3>1. n.texts = {t \in db.texts : t[1] # p} \cup body
      BY <2>2, <1>5 DEF ReadAs
    <3>2. body # {} => row.state = "indexed" /\ IsText(onDisk[p].version)
      BY <1>7 DEF StateOf
    <3>3. row.state = "indexed" => body = {<<p, onDisk[p].version>>}
      <4> SUFFICES ASSUME row.state = "indexed" PROVE body = {<<p, onDisk[p].version>>}
        OBVIOUS
      <4>1. StateOf(db, p) = "indexed" /\ ~Known(db, p)
        BY <2>2, <1>7
      <4>2. p \notin Directories /\ ~StillKnown(db, p)
        BY <4>1 DEF StateOf, StillKnown
      <4> QED BY <4>1, <4>2
    <3>4. row.state = "unavailable" => FALSE
      BY <1>7 DEF StateOf, StillKnown
    <3>5. \A t \in body : t[1] = p /\ t[2] = onDisk[p].version
      OBVIOUS
    <3> HIDE DEF body
    <3>6. ASSUME NEW t \in n.texts
          PROVE  /\ t[1] \in DOMAIN n.files /\ IsText(t[2])
                 /\ n.files[t[1]].state = "indexed" /\ n.files[t[1]].signature = t[2]
      <4>1. CASE t \in body
        BY <4>1, <3>2, <3>5, <1>6, <1>7
      <4>2. CASE t \in db.texts /\ t[1] # p
        <5>1. /\ t[1] \in DOMAIN db.files /\ IsText(t[2])
              /\ db.files[t[1]].state = "indexed" /\ db.files[t[1]].signature = t[2]
          BY <4>2, <1>2 DEF TextsOK
        <5> QED BY <5>1, <4>2, <1>6
      <4> QED BY <4>1, <4>2, <3>1
    <3>7. ASSUME NEW q \in DOMAIN n.files
          PROVE  /\ n.files[q].state = "indexed" =>
                       \/ <<q, n.files[q].signature>> \in n.texts
                       \/ \E g \in 1..n.generation : ErrorAt(n, g, q)
                 /\ n.files[q].state = "unavailable" => \E g \in 1..n.generation : ErrorAt(n, g, q)
      <4>1. CASE q = p
        BY <4>1, <3>1, <3>3, <3>4, <1>6, <1>7
      <4>2. CASE q # p
        <5>1. q \in DOMAIN db.files /\ n.files[q] = db.files[q]
          BY <4>2, <1>6
        <5>2. <<q, n.files[q].signature>> \in db.texts => <<q, n.files[q].signature>> \in n.texts
          BY <4>2, <3>1
        <5> QED BY <5>1, <5>2, <1>2, <1>5, <1>8 DEF TextsOK, ErrorAt
      <4> QED BY <4>1, <4>2
    <3> QED BY <3>6, <3>7 DEF TextsOK
  <2> QED BY <2>1, <2>2
<1>11. IndexOK(n)
  BY <1>2, <1>5, <1>6 DEF IndexOK, SameExcept
<1>12. Onward(db, n)
  <2>1. SeenIn(n, p)
    BY <1>6, <1>7, <1>8 DEF SeenIn
  <2>2. \A q \in HostPaths : SeenIn(db, q) => SeenIn(n, q)
    <3> TAKE q \in HostPaths
    <3>1. CASE q = p
      BY <2>1, <3>1
    <3>2. CASE q # p
      BY <3>2, <1>6, <1>8 DEF SeenIn
    <3> QED BY <3>1, <3>2
  <2>3. ASSUME NEW q \in HostPaths, Observable(q), NEW t \in db.queue, LeadsTo(t, q)
        PROVE  SeenIn(n, q) \/ \E u \in n.queue : LeadsTo(u, q)
    <3>1. CASE t # task
      BY <3>1, <2>3, <1>5
    <3>2. CASE t = task /\ q = p
      BY <3>2, <2>1
    <3>3. CASE t = task /\ q # p
      <4>1. p \in Above(q) \ {q}
        BY <3>3, <2>3, <1>1 DEF LeadsTo
      <4>2. PICK c \in Above(q) \ {RootPath} : HolderOf(c) = p
        BY <4>1, AboveIs
      <4>3. p \in Directories /\ c \in HostPaths \ {RootPath}
        BY <4>1, <4>2, AboveIs
      <4>4. onDisk[c].there
        BY <4>2, <2>3 DEF Observable, Reachable
      <4>5. Place(c) \in 1..Len(EntriesOf(p))
        BY <4>2, <4>3, <4>4, Held, EntriesAre
      <4>6. PICK u : u = NewTask(db.queue, p, "directory")
        OBVIOUS
      <4>7. u.kind = "directory" /\ u.path = p /\ u.cursor = 0
        BY <4>6 DEF NewTask
      <4>8. u \in n.queue
        BY <4>3, <4>6, <4>7, <1>5
      <4>9. Place(c) > 0
        BY <4>5, <4>3, EntriesAre
      <4> QED BY <4>2, <4>7, <4>8, <4>9 DEF LeadsTo
    <3> QED BY <3>1, <3>2, <3>3
  <2> QED BY <2>2, <2>3, <1>5, <1>8 DEF Onward
<1>13. Unmissed(n)
  BY <1>2, <1>12, NothingMissed
<1> QED BY <1>3, <1>5, <1>10, <1>11, <1>13 DEF DbOK, SameExcept

\* Open directories stay right while their tasks stay queued.
LEMMA ListingsStay ==
  ASSUME NEW db, NEW n, NEW task \in db.queue, QueueOK(db.queue), ListingsOK(listings, db),
         n.touched = db.touched, db.queue \ {task} \subseteq n.queue
  PROVE  /\ ListingsOK(WithoutListing(task), n)
         /\ task.kind = "entry" => ListingsOK(listings, n)
<1>1. PICK open : open = WithoutListing(task)
  OBVIOUS
<1>2. /\ DOMAIN open = DOMAIN listings \ {task.id} /\ open = [i \in DOMAIN open |-> open[i]]
      /\ \A i \in DOMAIN open : open[i] = listings[i]
  BY <1>1 DEF WithoutListing, Restrict
<1>3. listings \in [DOMAIN listings -> Listed]
  BY DEF ListingsOK
<1>4. \A i \in DOMAIN open : open[i] \in Listed
  BY <1>2, <1>3
<1>5. open \in [DOMAIN open -> Listed]
  BY <1>2, <1>4
<1>6. ASSUME NEW i \in DOMAIN listings, i # task.id \/ task.kind = "entry"
      PROVE  \E t \in n.queue :
               t.id = i /\ t.kind = "directory" /\ Continues(listings[i], t, n.touched)
  <2>1. PICK t \in db.queue :
          t.id = i /\ t.kind = "directory" /\ Continues(listings[i], t, db.touched)
    BY DEF ListingsOK
  <2>2. t # task
    BY <1>6, <2>1
  <2> QED BY <2>1, <2>2
<1>7. ListingsOK(open, n)
  BY <1>2, <1>5, <1>6 DEF ListingsOK
<1>8. task.kind = "entry" => ListingsOK(listings, n)
  BY <1>3, <1>6 DEF ListingsOK
<1> QED BY <1>1, <1>7, <1>8

\* One open directory moves on, or is opened; the others stay as they are.
LEMMA ListingMoves ==
  ASSUME NEW db, NEW n, NEW task \in db.queue, QueueOK(db.queue), ListingsOK(listings, db),
         n.touched = db.touched, db.queue \ {task} \subseteq n.queue,
         NEW now \in n.queue, now.id = task.id, now.kind = "directory",
         NEW l \in Listed, Continues(l, now, n.touched)
  PROVE  ListingsOK(WithListing(task, l), n)
<1>1. PICK open : open = WithListing(task, l)
  OBVIOUS
<1>2. /\ DOMAIN open = DOMAIN listings \cup {task.id} /\ open = [i \in DOMAIN open |-> open[i]]
      /\ \A i \in DOMAIN open : open[i] = IF i = task.id THEN l ELSE listings[i]
  BY <1>1 DEF WithListing
<1>3. listings \in [DOMAIN listings -> Listed]
  BY DEF ListingsOK
<1>4. \A i \in DOMAIN open : open[i] \in Listed
  BY <1>2, <1>3
<1>5. open \in [DOMAIN open -> Listed]
  BY <1>2, <1>4
<1>6. ASSUME NEW i \in DOMAIN open
      PROVE  \E t \in n.queue :
               t.id = i /\ t.kind = "directory" /\ Continues(open[i], t, n.touched)
  <2>1. CASE i = task.id
    BY <2>1, <1>2
  <2>2. CASE i # task.id
    <3>1. i \in DOMAIN listings /\ open[i] = listings[i]
      BY <2>2, <1>2
    <3>2. PICK t \in db.queue :
            t.id = i /\ t.kind = "directory" /\ Continues(listings[i], t, db.touched)
      BY <3>1 DEF ListingsOK
    <3> QED BY <2>2, <3>1, <3>2
  <2> QED BY <2>1, <2>2
<1> QED BY <1>1, <1>5, <1>6 DEF ListingsOK

\* What is read of a directory is what comes after its cursor.
LEMMA ListingIs ==
  ASSUME NEW db, db \in CatalogRow, QueueOK(db.queue), ListingsOK(listings, db),
         NEW task \in db.queue, task.kind = "directory"
  PROVE  Listing(task) \in Listed /\ Continues(Listing(task), task, db.touched)
<1>1. CASE task.id \in DOMAIN listings
  <2>1. PICK t \in db.queue : /\ t.id = task.id
                              /\ Continues(listings[task.id], t, db.touched)
    BY <1>1 DEF ListingsOK
  <2>2. t = task
    BY <2>1 DEF QueueOK
  <2>3. listings[task.id] \in Listed
    BY <1>1 DEF ListingsOK
  <2> QED BY <1>1, <2>1, <2>2, <2>3 DEF Listing
<1>2. CASE task.id \notin DOMAIN listings
  <2>1. task.path \in Directories /\ task.cursor \in Nat
    BY DEF QueueOK, CatalogRow, CatalogTask
  <2>2. EntriesOf(task.path) \in Seq(HostPaths)
    BY <2>1, EntriesAre
  <2>3. PICK l : l = Listing(task)
    OBVIOUS
  <2>4. l = [rest |-> EntriesOf(task.path), skip |-> task.cursor]
    BY <1>2, <2>3 DEF Listing
  <2>5. l \in Listed /\ l.rest = EntriesOf(task.path) /\ l.skip = task.cursor
    BY <2>1, <2>2, <2>4 DEF Listed
  <2>6. Continues(l, task, db.touched)
    <3>1. task.cursor - l.skip = 0 /\ l.skip <= task.cursor
      BY <2>1, <2>5
    <3>2. \A n \in 1..Len(EntriesOf(task.path)) : n - 0 = n
      BY <2>2
    <3> QED BY <2>5, <3>1, <3>2 DEF Continues
  <2> QED BY <2>3, <2>5, <2>6
<1> QED BY <1>1, <1>2

\* The next entry is read, or nothing when there is none.
LEMMA RestContinues ==
  ASSUME NEW l \in Listed, NEW task \in CatalogTask, NEW now \in CatalogTask, NEW touched,
         task.path \in Directories, now.path = task.path, Continues(l, task, touched),
         NEW m \in Listed, m.rest = (IF l.rest = <<>> THEN <<>> ELSE Tail(l.rest)),
         now.cursor - m.skip = (task.cursor - l.skip) + 1, m.skip <= now.cursor
  PROVE  Continues(m, now, touched)
<1> SUFFICES ASSUME now.path \notin touched, NEW n \in 1..Len(EntriesOf(now.path)),
                    n > now.cursor - m.skip
             PROVE  /\ n - (now.cursor - m.skip) \in 1..Len(m.rest)
                    /\ m.rest[n - (now.cursor - m.skip)] = EntriesOf(now.path)[n]
  BY DEF Continues
<1>1. PICK o : o = task.cursor - l.skip
  OBVIOUS
<1>2. /\ o \in Int /\ n \in Int /\ n > o /\ n - (now.cursor - m.skip) = (n - o) - 1
      /\ n - o \in Nat /\ n - o > 1
  <2>1. EntriesOf(task.path) \in Seq(HostPaths)
    BY EntriesAre
  <2>2. task.cursor \in Nat /\ l.skip \in Nat
    BY DEF CatalogTask, Listed
  <2> QED BY <1>1, <2>1, <2>2
<1>3. n - o \in 1..Len(l.rest) /\ l.rest[n - o] = EntriesOf(task.path)[n]
  BY <1>1, <1>2 DEF Continues
<1>4. l.rest \in Seq(HostPaths) /\ l.rest # <<>>
  <2>1. l.rest \in Seq(HostPaths)
    BY DEF Listed
  <2> QED BY <2>1, <1>3
<1>5. /\ m.rest = Tail(l.rest) /\ Len(m.rest) = Len(l.rest) - 1
      /\ \A i \in 1..Len(m.rest) : m.rest[i] = l.rest[i + 1]
  BY <1>4
<1>6. (n - o) - 1 \in 1..Len(m.rest) /\ ((n - o) - 1) + 1 = n - o
  BY <1>2, <1>3, <1>4, <1>5
<1> QED BY <1>2, <1>3, <1>5, <1>6

\* A row whose queue or coverage alone has changed.
LEMMA QueueMoves ==
  ASSUME NEW db, DbOK(db), NEW n \in CatalogRow, SameExcept(n, db), QueueOK(n.queue),
         n.files = db.files, n.texts = db.texts, n.keys = db.keys,
         db.coverage \subseteq n.coverage, db.phase = "scanning",
         \A p \in HostPaths : Observable(p) /\ Above(p) \cap db.touched = {} =>
           \A t \in db.queue : LeadsTo(t, p) => Excused(n, p) \/ \E u \in n.queue : LeadsTo(u, p)
  PROVE  DbOK(n)
<1>1. TextsOK(db) /\ IndexOK(db) /\ Unmissed(db)
  BY DEF DbOK
<1>2. TextsOK(n)
  BY <1>1 DEF TextsOK, ErrorAt, SameExcept
<1>3. IndexOK(n)
  BY <1>1 DEF IndexOK, SameExcept
<1>4. Onward(db, n)
  BY DEF Onward, SameExcept, SeenIn
<1>5. Unmissed(n)
  BY <1>1, <1>4, NothingMissed
<1> QED BY <1>2, <1>3, <1>5 DEF DbOK, SameExcept

\* A directory whose limit is reached is covered as incomplete, and so excuses the rest of it.
LEMMA IncompleteKeeps ==
  ASSUME NEW db, DbOK(db), db.phase = "scanning", NEW task \in db.queue,
         task.kind = "directory", task.cursor >= MaxEntries
  PROVE  LET n == [Covered(db, task.path, "incomplete") EXCEPT !.queue = Without(@, task)] IN
         DbOK(n) /\ SameExcept(n, db) /\ n.queue = db.queue \ {task}
<1>1. db \in CatalogRow /\ QueueOK(db.queue) /\ task \in CatalogTask
  BY DEF DbOK, CatalogRow
<1>2. task.path \in HostPaths /\ task.cursor \in Nat
  BY <1>1 DEF CatalogTask
<1>3. PICK m : m = Covered(db, task.path, "incomplete")
  OBVIOUS
<1>4. /\ m \in CatalogRow /\ SameExcept(m, db)
      /\ m.queue = db.queue /\ m.files = db.files /\ m.texts = db.texts /\ m.keys = db.keys
      /\ m.coverage = db.coverage \cup {<<db.generation, task.path, "incomplete">>}
  BY <1>1, <1>2, <1>3, CoveredIs
<1>5. PICK w : w = Without(m.queue, task)
  OBVIOUS
<1>6. w = db.queue \ {task} /\ w \in SUBSET CatalogTask /\ QueueOK(w)
  BY <1>1, <1>4, <1>5, WithoutIsOK DEF CatalogRow
<1>7. PICK n : n = [m EXCEPT !.queue = w]
  OBVIOUS
<1>8. /\ n \in CatalogRow /\ SameExcept(n, m) /\ n.queue = w /\ n.files = m.files
      /\ n.texts = m.texts /\ n.keys = m.keys /\ n.coverage = m.coverage
  BY <1>4, <1>6, <1>7 DEF CatalogRow, SameExcept
<1>9. [Covered(db, task.path, "incomplete") EXCEPT !.queue = Without(@, task)] = n
  BY <1>3, <1>4, <1>5, <1>7 DEF CatalogRow
<1>10. SameExcept(n, db)
  BY <1>4, <1>8 DEF SameExcept
<1>11. ASSUME NEW p \in HostPaths, Observable(p), NEW t \in db.queue, LeadsTo(t, p)
       PROVE  Excused(n, p) \/ \E u \in n.queue : LeadsTo(u, p)
  <2>1. CASE t # task
    BY <2>1, <1>6, <1>8, <1>11
  <2>2. CASE t = task
    <3>1. PICK q \in Above(p) \ {RootPath} : HolderOf(q) = task.path /\ Place(q) > task.cursor
      BY <2>2, <1>11 DEF LeadsTo
    <3>2. Place(q) > MaxEntries
      <4>1. q \in HostPaths \ {RootPath} /\ onDisk[q].there
        BY <3>1, <1>11, AboveIs DEF Observable, Reachable
      <4>2. HolderOf(q) \in Directories /\ q \in Range(Children[HolderOf(q)])
        BY <4>1, Held
      <4>3. /\ Place(q) \in 1..Len(EntriesOf(HolderOf(q)))
            /\ EntriesOf(HolderOf(q)) \in Seq(HostPaths)
        BY <4>1, <4>2, EntriesAre
      <4>4. Place(q) \in Nat /\ MaxEntries \in Nat
        BY <4>3, CatalogAssumption DEF CatalogAssumption
      <4> QED BY <3>1, <4>4, <1>2
    <3>3. <<n.generation, HolderOf(q), "incomplete">> \in n.coverage
      BY <3>1, <1>4, <1>8, <1>10 DEF SameExcept
    <3> QED BY <3>1, <3>2, <3>3 DEF Excused
  <2> QED BY <2>1, <2>2
<1>12. DbOK(n)
  BY <1>4, <1>6, <1>8, <1>10, <1>11, QueueMoves
<1> QED BY <1>6, <1>8, <1>9, <1>10, <1>12

\* A directory that has no more entries leads nowhere.
LEMMA EndKeeps ==
  ASSUME NEW db, DbOK(db), db.phase = "scanning", NEW task \in db.queue,
         task.kind = "directory", NEW l \in Listed, Continues(l, task, db.touched),
         l.skip = 0, l.rest = <<>>
  PROVE  LET n == [db EXCEPT !.queue = Without(@, task)] IN
         DbOK(n) /\ SameExcept(n, db) /\ n.queue = db.queue \ {task}
<1>1. db \in CatalogRow /\ QueueOK(db.queue) /\ task \in CatalogTask
  BY DEF DbOK, CatalogRow
<1>2. task.path \in Directories /\ task.cursor \in Nat
  BY <1>1 DEF QueueOK, CatalogTask
<1>3. PICK w : w = Without(db.queue, task)
  OBVIOUS
<1>4. w = db.queue \ {task} /\ w \in SUBSET CatalogTask /\ QueueOK(w)
  BY <1>1, <1>3, WithoutIsOK DEF CatalogRow
<1>5. PICK n : n = [db EXCEPT !.queue = w]
  OBVIOUS
<1>6. /\ n \in CatalogRow /\ SameExcept(n, db) /\ n.queue = w /\ n.files = db.files
      /\ n.texts = db.texts /\ n.keys = db.keys /\ n.coverage = db.coverage
  BY <1>1, <1>4, <1>5 DEF CatalogRow, SameExcept
<1>7. [db EXCEPT !.queue = Without(@, task)] = n
  BY <1>1, <1>3, <1>5 DEF CatalogRow
<1>8. ASSUME NEW p \in HostPaths, Observable(p), Above(p) \cap db.touched = {},
             NEW t \in db.queue, LeadsTo(t, p)
      PROVE  \E u \in n.queue : LeadsTo(u, p)
  <2>1. CASE t # task
    BY <2>1, <1>4, <1>6, <1>8
  <2>2. CASE t = task
    <3>1. PICK q \in Above(p) \ {RootPath} : HolderOf(q) = task.path /\ Place(q) > task.cursor
      BY <2>2, <1>8 DEF LeadsTo
    <3>2. q \in HostPaths \ {RootPath} /\ onDisk[q].there /\ task.path \notin db.touched
      BY <3>1, <1>8, AboveIs DEF Observable, Reachable
    <3>3. Place(q) \in 1..Len(EntriesOf(task.path)) /\ EntriesOf(task.path) \in Seq(HostPaths)
      BY <1>2, <3>1, <3>2, Held, EntriesAre
    <3>4. task.cursor - l.skip = task.cursor
      BY <1>2
    <3>5. Place(q) - task.cursor \in 1..Len(l.rest)
      BY <3>1, <3>2, <3>3, <3>4 DEF Continues
    <3> QED BY <3>5
  <2> QED BY <2>1, <2>2
<1>9. DbOK(n)
  BY <1>4, <1>6, <1>8, QueueMoves
<1> QED BY <1>4, <1>6, <1>7, <1>9

\* The next entry is queued and the cursor is behind it.
LEMMA NextKeeps ==
  ASSUME NEW db, DbOK(db), db.phase = "scanning", NEW task \in db.queue,
         task.kind = "directory", NEW l \in Listed, Continues(l, task, db.touched),
         l.skip = 0, l.rest # <<>>
  PROVE  LET n == [db EXCEPT !.queue = (Queued(@, Head(l.rest), "entry") \ {task})
                                          \cup {[task EXCEPT !.cursor = @ + 1]}]
             now == [task EXCEPT !.cursor = @ + 1]
         IN
         /\ DbOK(n) /\ SameExcept(n, db) /\ db.queue \ {task} \subseteq n.queue
         /\ now \in n.queue /\ now \in CatalogTask /\ now.id = task.id /\ now.path = task.path
         /\ now.kind = "directory" /\ now.cursor = task.cursor + 1
<1>1. db \in CatalogRow /\ QueueOK(db.queue) /\ task \in CatalogTask
  BY DEF DbOK, CatalogRow
<1>2. task.path \in Directories /\ task.cursor \in Nat
  BY <1>1 DEF QueueOK, CatalogTask
<1>3. PICK h : h = Head(l.rest)
  OBVIOUS
<1>4. h \in HostPaths /\ h = l.rest[1] /\ l.rest \in Seq(HostPaths)
  <2>1. l.rest \in Seq(HostPaths)
    BY DEF Listed
  <2> QED BY <2>1, <1>3
<1>5. PICK v : v = NewTask(db.queue, h, "entry")
  OBVIOUS
<1>6. PICK z : z = Queued(db.queue, h, "entry")
  OBVIOUS
<1>7. /\ z = db.queue \cup {v} /\ z \in SUBSET CatalogTask /\ QueueOK(z)
      /\ v \in CatalogTask /\ \A t \in db.queue : t.id # v.id
  BY <1>1, <1>4, <1>5, <1>6, QueuedIsOK DEF CatalogRow
<1>8. v.kind = "entry" /\ v.path = h
  BY <1>5 DEF NewTask
<1>9. PICK now : now = [task EXCEPT !.cursor = @ + 1]
  OBVIOUS
<1>10. /\ now \in CatalogTask /\ now.id = task.id /\ now.path = task.path
       /\ now.kind = "directory" /\ now.cursor = task.cursor + 1
  BY <1>1, <1>2, <1>9 DEF CatalogTask
<1>11. PICK w : w = (z \ {task}) \cup {now}
  OBVIOUS
<1>12. w \in SUBSET CatalogTask /\ QueueOK(w) /\ v \in w /\ now \in w
       /\ db.queue \ {task} \subseteq w
  <2>1. IsFiniteSet(w)
    <3>1. IsFiniteSet(z \ {task})
      BY <1>7, FS_Subset DEF QueueOK
    <3> QED BY <3>1, <1>11, FS_AddElement
  <2>2. \A t, u \in w : t.id = u.id => t = u
    <3>1. \A t \in z \ {task} : t.id # now.id
      BY <1>7, <1>10 DEF QueueOK
    <3> QED BY <3>1, <1>7, <1>11 DEF QueueOK
  <2>3. \A t \in w : t.kind = "directory" => t.path \in Directories
    BY <1>2, <1>7, <1>10, <1>11 DEF QueueOK
  <2>4. v # task
    BY <1>7
  <2> QED BY <2>1, <2>2, <2>3, <2>4, <1>7, <1>10, <1>11 DEF QueueOK
<1>13. PICK n : n = [db EXCEPT !.queue = w]
  OBVIOUS
<1>14. /\ n \in CatalogRow /\ SameExcept(n, db) /\ n.queue = w /\ n.files = db.files
       /\ n.texts = db.texts /\ n.keys = db.keys /\ n.coverage = db.coverage
  BY <1>1, <1>12, <1>13 DEF CatalogRow, SameExcept
<1>15. [db EXCEPT !.queue = (Queued(@, Head(l.rest), "entry") \ {task})
                                          \cup {[task EXCEPT !.cursor = @ + 1]}] = n
  BY <1>1, <1>3, <1>6, <1>9, <1>11, <1>13 DEF CatalogRow
<1>16. ASSUME NEW p \in HostPaths, Observable(p), Above(p) \cap db.touched = {},
              NEW t \in db.queue, LeadsTo(t, p)
       PROVE  \E u \in n.queue : LeadsTo(u, p)
  <2>1. CASE t # task
    BY <2>1, <1>12, <1>14, <1>16
  <2>2. CASE t = task
    <3>1. PICK q \in Above(p) \ {RootPath} : HolderOf(q) = task.path /\ Place(q) > task.cursor
      BY <2>2, <1>16 DEF LeadsTo
    <3>2. q \in HostPaths \ {RootPath} /\ onDisk[q].there /\ task.path \notin db.touched
      BY <3>1, <1>16, AboveIs DEF Observable, Reachable
    <3>3. /\ Place(q) \in 1..Len(EntriesOf(task.path)) /\ EntriesOf(task.path)[Place(q)] = q
          /\ EntriesOf(task.path) \in Seq(HostPaths)
      BY <1>2, <3>1, <3>2, Held, EntriesAre
    <3>4. task.cursor - l.skip = task.cursor
      BY <1>2
    <3>5. /\ Place(q) - task.cursor \in 1..Len(l.rest)
          /\ l.rest[Place(q) - task.cursor] = EntriesOf(task.path)[Place(q)]
      BY <3>1, <3>2, <3>3, <3>4 DEF Continues
    <3>6. CASE Place(q) = task.cursor + 1
      <4>1. Place(q) - task.cursor = 1
        BY <3>6, <1>2
      <4>2. v.path = q
        BY <4>1, <3>3, <3>5, <1>4, <1>8
      <4> QED BY <4>2, <3>1, <1>8, <1>12, <1>14 DEF LeadsTo
    <3>7. CASE Place(q) # task.cursor + 1
      <4>1. Place(q) > task.cursor + 1
        BY <3>1, <3>3, <3>7, <1>2
      <4> QED BY <4>1, <3>1, <1>10, <1>12, <1>14 DEF LeadsTo
    <3> QED BY <3>6, <3>7
  <2> QED BY <2>1, <2>2
<1>17. DbOK(n)
  BY <1>12, <1>14, <1>16, QueueMoves
<1> QED BY <1>9, <1>10, <1>12, <1>14, <1>15, <1>17

BatchGoes(n, next, open) ==
  /\ batch' = [open |-> TRUE, db |-> n, next |-> next] /\ listings' = open
  /\ DbOK(n) /\ n.phase = "scanning" /\ ListingsOK(open, n)

\* The visit of an entry, whatever comes of it.
LEMMA InspectGoes ==
  ASSUME DiskOK, NEW db, batch.db = db, DbOK(db), db.phase = "scanning",
         ListingsOK(listings, db), NEW task \in db.queue, Inspect(task)
  PROVE  \E n, next, open : BatchGoes(n, next, open)
<1>1. db \in CatalogRow /\ QueueOK(db.queue) /\ task.kind = "entry"
  BY DEF DbOK, Inspect
<1>2. CASE batch' = [open |-> TRUE, db |-> Failed(db, task), next |-> 0]
           /\ listings' = WithoutListing(task)
  <2>1. PICK n : n = Failed(db, task)
    OBVIOUS
  <2>2. DbOK(n) /\ n.phase = "scanning"
    BY <2>1, FailedKeeps
  <2>3. n.queue = db.queue \ {task} /\ n.touched = db.touched
    BY <2>1, <1>1, FailedIs DEF SameExcept
  <2>4. ListingsOK(WithoutListing(task), n)
    BY <1>1, <2>3, ListingsStay
  <2>5. BatchGoes(n, 0, WithoutListing(task))
    BY <1>2, <2>1, <2>2, <2>4 DEF BatchGoes
  <2> QED BY <2>5
<1>3. CASE batch' = [open |-> TRUE, db |-> Inspected(db, task), next |-> 0]
           /\ listings' = listings /\ Observable(task.path)
  <2>1. PICK n : n = Inspected(db, task)
    OBVIOUS
  <2>2. DbOK(n) /\ n.phase = "scanning"
    BY <2>1, <1>1, <1>3, InspectedKeeps
  <2>3. db.queue \ {task} \subseteq n.queue /\ n.touched = db.touched
    <3>1. /\ SameExcept(n, db)
          /\ n.queue = (IF task.path \in Directories
                        THEN db.queue \cup {NewTask(db.queue, task.path, "directory")}
                        ELSE db.queue) \ {task}
      BY <2>1, <1>1, InspectedIs
    <3> QED BY <3>1 DEF SameExcept
  <2>4. ListingsOK(listings, n)
    BY <1>1, <2>3, ListingsStay
  <2>5. BatchGoes(n, 0, listings)
    BY <1>3, <2>1, <2>2, <2>4 DEF BatchGoes
  <2> QED BY <2>5
<1> QED BY <1>2, <1>3 DEF Inspect, Goes

\* The visit of a directory, whatever comes of it.
LEMMA EnumerateGoes ==
  ASSUME NEW db, batch.db = db, DbOK(db), db.phase = "scanning",
         ListingsOK(listings, db), NEW task \in db.queue, Enumerate(task)
  PROVE  \E n, next, open : BatchGoes(n, next, open)
<1>1. db \in CatalogRow /\ QueueOK(db.queue) /\ task.kind = "directory" /\ task \in CatalogTask
  BY DEF DbOK, Enumerate, CatalogRow
<1>2. PICK l : l = Listing(task)
  OBVIOUS
<1>3. l \in Listed /\ Continues(l, task, db.touched)
  BY <1>1, <1>2, ListingIs
<1>4. task.path \in Directories /\ task.cursor \in Nat /\ l.skip \in Nat
      /\ l.rest \in Seq(HostPaths) /\ l.skip <= task.cursor
  BY <1>1, <1>3 DEF QueueOK, CatalogTask, Listed, Continues
<1>5. PICK rest : rest = IF l.rest = <<>> THEN <<>> ELSE Tail(l.rest)
  OBVIOUS
<1>6. rest \in Seq(HostPaths)
  BY <1>4, <1>5
<1>7. CASE batch' = [open |-> TRUE, db |-> Failed(db, task), next |-> 0]
           /\ listings' = WithoutListing(task)
  <2>1. PICK n : n = Failed(db, task)
    OBVIOUS
  <2>2. DbOK(n) /\ n.phase = "scanning"
    BY <2>1, FailedKeeps
  <2>3. n.queue = db.queue \ {task} /\ n.touched = db.touched
    BY <2>1, <1>1, FailedIs DEF SameExcept
  <2>4. ListingsOK(WithoutListing(task), n)
    BY <1>1, <2>3, ListingsStay
  <2>5. BatchGoes(n, 0, WithoutListing(task))
    BY <1>7, <2>1, <2>2, <2>4 DEF BatchGoes
  <2> QED BY <2>5
<1>8. CASE l.skip > 0 /\ batch' = [open |-> TRUE, db |-> db, next |-> 0]
           /\ listings' = WithListing(task, [rest |-> rest, skip |-> l.skip - 1])
  <2>1. PICK m : m = [rest |-> rest, skip |-> l.skip - 1]
    OBVIOUS
  <2>2. m \in Listed /\ m.rest = rest /\ m.skip = l.skip - 1
    BY <2>1, <1>4, <1>6, <1>8 DEF Listed
  <2>3. task.cursor - m.skip = (task.cursor - l.skip) + 1 /\ m.skip <= task.cursor
    BY <2>2, <1>4
  <2>4. Continues(m, task, db.touched)
    BY <2>2, <2>3, <1>1, <1>3, <1>4, <1>5, RestContinues
  <2>5. ListingsOK(WithListing(task, m), db)
    BY <2>2, <2>4, <1>1, ListingMoves
  <2>6. BatchGoes(db, 0, WithListing(task, m))
    BY <1>8, <2>1, <2>5 DEF BatchGoes
  <2> QED BY <2>6
<1>9. CASE /\ task.cursor >= MaxEntries
           /\ batch' = [open |-> TRUE,
                        db |-> [Covered(db, task.path, "incomplete") EXCEPT !.queue = Without(@, task)],
                        next |-> 0]
           /\ listings' = WithoutListing(task)
  <2>1. PICK n : n = [Covered(db, task.path, "incomplete") EXCEPT !.queue = Without(@, task)]
    OBVIOUS
  <2>2. DbOK(n) /\ SameExcept(n, db) /\ n.queue = db.queue \ {task}
    BY <2>1, <1>1, <1>9, IncompleteKeeps
  <2>3. n.touched = db.touched /\ n.phase = "scanning"
    BY <2>2 DEF SameExcept
  <2>4. ListingsOK(WithoutListing(task), n)
    BY <1>1, <2>2, <2>3, ListingsStay
  <2>5. BatchGoes(n, 0, WithoutListing(task))
    BY <1>9, <2>1, <2>2, <2>3, <2>4 DEF BatchGoes
  <2> QED BY <2>5
<1>10. CASE /\ l.skip = 0 /\ l.rest = <<>>
            /\ batch' = [open |-> TRUE, db |-> [db EXCEPT !.queue = Without(@, task)], next |-> 0]
            /\ listings' = WithoutListing(task)
  <2>1. PICK n : n = [db EXCEPT !.queue = Without(@, task)]
    OBVIOUS
  <2>2. DbOK(n) /\ SameExcept(n, db) /\ n.queue = db.queue \ {task}
    BY <2>1, <1>1, <1>3, <1>10, EndKeeps
  <2>3. n.touched = db.touched /\ n.phase = "scanning"
    BY <2>2 DEF SameExcept
  <2>4. ListingsOK(WithoutListing(task), n)
    BY <1>1, <2>2, <2>3, ListingsStay
  <2>5. BatchGoes(n, 0, WithoutListing(task))
    BY <1>10, <2>1, <2>2, <2>3, <2>4 DEF BatchGoes
  <2> QED BY <2>5
<1>11. CASE /\ l.skip = 0 /\ l.rest # <<>>
            /\ batch' = [open |-> TRUE,
                         db |-> [db EXCEPT !.queue = (Queued(@, Head(l.rest), "entry") \ {task})
                                          \cup {[task EXCEPT !.cursor = @ + 1]}],
                         next |-> NextId(db.queue)]
            /\ listings' = WithListing(task, [rest |-> rest, skip |-> 0])
  <2>1. PICK n : n = [db EXCEPT !.queue = (Queued(@, Head(l.rest), "entry") \ {task})
                                          \cup {[task EXCEPT !.cursor = @ + 1]}]
    OBVIOUS
  <2>2. PICK now : now = [task EXCEPT !.cursor = @ + 1]
    OBVIOUS
  <2>3. /\ DbOK(n) /\ SameExcept(n, db) /\ db.queue \ {task} \subseteq n.queue
        /\ now \in n.queue /\ now \in CatalogTask /\ now.id = task.id /\ now.path = task.path
        /\ now.kind = "directory" /\ now.cursor = task.cursor + 1
    BY <2>1, <2>2, <1>1, <1>3, <1>11, NextKeeps
  <2>4. PICK m : m = [rest |-> rest, skip |-> 0]
    OBVIOUS
  <2>5. m \in Listed /\ m.rest = rest /\ m.skip = 0
    BY <2>4, <1>6 DEF Listed
  <2>6. now.cursor - m.skip = (task.cursor - l.skip) + 1 /\ m.skip <= now.cursor
    BY <2>3, <2>5, <1>4, <1>11
  <2>7. n.touched = db.touched /\ n.phase = "scanning"
    BY <2>3 DEF SameExcept
  <2>8. Continues(m, now, n.touched)
    BY <2>3, <2>5, <2>6, <2>7, <1>1, <1>3, <1>4, <1>5, RestContinues
  <2>9. ListingsOK(WithListing(task, m), n)
    BY <2>3, <2>5, <2>7, <2>8, <1>1, ListingMoves
  <2>10. BatchGoes(n, NextId(db.queue), WithListing(task, m))
    BY <1>11, <2>1, <2>3, <2>4, <2>7, <2>9 DEF BatchGoes
  <2> QED BY <2>10
<1>12. l.skip > 0 \/ l.skip = 0
  BY <1>4
<1> QED BY <1>2, <1>5, <1>7, <1>8, <1>9, <1>10, <1>11, <1>12 DEF Enumerate, Goes

(***************************************************************************)
(* The disk moves, and the actions                                         *)
(***************************************************************************)
DiskMoves(paths) ==
  /\ \A q \in HostPaths \ paths : onDisk'[q] = onDisk[q]
  /\ \A d \in Directories \ paths : \A c \in Range(Children[d]) :
       onDisk'[c].there = onDisk[c].there

\* A directory that was not touched has the entries it had, in the same places.
LEMMA EntriesStay ==
  ASSUME NEW paths, DiskMoves(paths), NEW d \in Directories \ paths
  PROVE  /\ EntriesOf(d)' = EntriesOf(d)
         /\ \A c \in Range(Children[d]) : Place(c)' = Place(c)
<1>1. {p \in Range(Children[d]) : onDisk'[p].there} = {p \in Range(Children[d]) : onDisk[p].there}
  BY DEF DiskMoves
<1>2. EntriesOf(d)' = EntriesOf(d)
  BY <1>1 DEF EntriesOf
<1>3. ASSUME NEW c \in Range(Children[d]) PROVE Place(c)' = Place(c)
  <2>1. HolderOf(c) = d
    BY Held
  <2> QED BY <2>1, <1>2 DEF Place
<1> QED BY <1>2, <1>3

TouchedToo(db, paths) == [db EXCEPT !.touched = @ \cup paths]
\* A change of the disk leaves what is said of the paths it has not touched.
LEMMA TouchedKeeps ==
  ASSUME NEW paths \in SUBSET HostPaths, DiskMoves(paths), NEW db, DbOK(db)
  PROVE  /\ DbOK(TouchedToo(db, paths))' /\ TouchedToo(db, paths).phase = db.phase
         /\ \A open : ListingsOK(open, db) => ListingsOK(open, TouchedToo(db, paths))'
<1>1. db \in CatalogRow /\ QueueOK(db.queue) /\ TextsOK(db) /\ IndexOK(db) /\ Unmissed(db)
      /\ (db.phase = "complete" => db.queue = {})
  BY DEF DbOK
<1>2. PICK n : n = TouchedToo(db, paths)
  OBVIOUS
<1>3. /\ n \in CatalogRow /\ n.generation = db.generation /\ n.phase = db.phase
      /\ n.queue = db.queue /\ n.files = db.files /\ n.texts = db.texts
      /\ n.coverage = db.coverage /\ n.keys = db.keys /\ n.cursor = db.cursor
      /\ n.indexed = db.indexed /\ n.touched = db.touched \cup paths
  BY <1>1, <1>2 DEF TouchedToo, CatalogRow
<1>4. TextsOK(n) /\ IndexOK(n) /\ QueueOK(n.queue)
  BY <1>1, <1>3 DEF TextsOK, ErrorAt, IndexOK
<1>5. Unmissed(n)'
  <2> SUFFICES ASSUME NEW p \in HostPaths, Observable(p)', Above(p) \cap n.touched = {}
               PROVE  (SeenIn(n, p) \/ Excused(n, p) \/ \E t \in n.queue : LeadsTo(t, p))'
    BY DEF Unmissed
  <2>1. \A q \in Above(p) : q \in HostPaths \ paths /\ onDisk'[q] = onDisk[q]
    BY <1>3, AboveIs DEF DiskMoves
  <2>2. p \in Above(p) /\ Above(p) \cap db.touched = {}
    BY <1>3, AboveIs
  <2>3. Observable(p)
    BY <2>1, <2>2 DEF Observable, Reachable
  <2>4. \A q \in Above(p) \ {RootPath} : Place(q)' = Place(q)
    <3> TAKE q \in Above(p) \ {RootPath}
    <3>1. HolderOf(q) \in Above(p) /\ q \in HostPaths \ {RootPath}
      BY AboveIs
    <3>2. HolderOf(q) \in Directories \ paths /\ q \in Range(Children[HolderOf(q)])
      BY <3>1, <2>1, Held
    <3> QED BY <3>2, EntriesStay
  <2>5. SeenIn(db, p) => SeenIn(n, p)'
    BY <2>1, <2>2, <1>3 DEF SeenIn
  <2>6. Excused(db, p) => Excused(n, p)'
    BY <2>4, <1>3 DEF Excused, ErrorAt
  <2>7. \A t \in db.queue : LeadsTo(t, p) => LeadsTo(t, p)'
    BY <2>4 DEF LeadsTo
  <2>8. SeenIn(db, p) \/ Excused(db, p) \/ \E t \in db.queue : LeadsTo(t, p)
    BY <1>1, <2>2, <2>3 DEF Unmissed
  <2> QED BY <2>5, <2>6, <2>7, <2>8, <1>3
<1>6. DbOK(n)'
  <2>1. TextsOK(n)' /\ IndexOK(n)'
    BY <1>4 DEF TextsOK, ErrorAt, IndexOK
  <2> QED BY <2>1, <1>1, <1>3, <1>4, <1>5 DEF DbOK
<1>7. ASSUME NEW open, ListingsOK(open, db)
      PROVE  ListingsOK(open, n)'
  <2>1. ASSUME NEW t \in db.queue, t.kind = "directory", NEW l, Continues(l, t, db.touched)
        PROVE  Continues(l, t, n.touched)'
    <3>1. t.path \notin n.touched => t.path \in Directories \ paths /\ t.path \notin db.touched
      BY <2>1, <1>1, <1>3 DEF QueueOK
    <3>2. t.path \notin n.touched => EntriesOf(t.path)' = EntriesOf(t.path)
      BY <3>1, EntriesStay
    <3> QED BY <2>1, <3>1, <3>2 DEF Continues
  <2> QED BY <2>1, <1>3, <1>7 DEF ListingsOK
<1> QED BY <1>2, <1>3, <1>6, <1>7

\* What is said of a row does not change while the disk stands still.
LEMMA DiskStill ==
  ASSUME onDisk' = onDisk
  PROVE  /\ \A db : DbOK(db) => DbOK(db)'
         /\ \A db, open : DbOK(db) /\ ListingsOK(open, db) => ListingsOK(open, db)'
<1>1. DiskMoves({})
  BY DEF DiskMoves
<1>2. \A db : DbOK(db) => TouchedToo(db, {}) = db
  BY DEF DbOK, CatalogRow, TouchedToo
<1>3. {} \in SUBSET HostPaths
  OBVIOUS
<1>4. ASSUME NEW db, DbOK(db)
      PROVE  DbOK(db)' /\ \A open : ListingsOK(open, db) => ListingsOK(open, db)'
  <2>1. /\ DbOK(TouchedToo(db, {}))'
        /\ \A open : ListingsOK(open, db) => ListingsOK(open, TouchedToo(db, {}))'
    BY <1>1, <1>3, <1>4, TouchedKeeps
  <2> QED BY <2>1, <1>2, <1>4
<1> QED BY <1>4

\* A step on a disk that stands still.
LEMMA StepKeeps ==
  ASSUME DiskOK, onDisk' = onDisk, NEW d, database' = d, DbOK(d),
         \/ \E n, next, open : BatchGoes(n, next, open)
         \/ batch' = NoBatch /\ ListingsOK(listings', d)
  PROVE  CatalogInv'
<1>1. DiskOK'
  BY DEF DiskOK
<1>2. DbOK(database)'
  BY DiskStill
<1>3. CASE \E n, next, open : BatchGoes(n, next, open)
  <2>1. PICK n, next, open : BatchGoes(n, next, open)
    BY <1>3
  <2>2. batch' = [open |-> TRUE, db |-> n, next |-> next] /\ listings' = open
    BY <2>1 DEF BatchGoes
  <2>3. batch'.open = TRUE /\ batch'.db = n
    BY <2>2
  <2>4. DbOK(n)' /\ ListingsOK(open, n)' /\ n.phase = "scanning"
    BY <2>1, DiskStill DEF BatchGoes
  <2>5. BatchOK'
    BY <2>2, <2>3, <2>4 DEF BatchOK
  <2> QED BY <2>5, <1>1, <1>2 DEF CatalogInv
<1>4. CASE batch' = NoBatch /\ ListingsOK(listings', d)
  <2>1. batch'.open = FALSE
    BY <1>4 DEF NoBatch
  <2>2. PICK open : open = listings'
    OBVIOUS
  <2>3. ListingsOK(open, d)'
    BY <2>2, <1>4, DiskStill
  <2>4. BatchOK'
    BY <2>1, <2>2, <2>3, <1>4 DEF BatchOK, NoBatch
  <2> QED BY <2>4, <1>1, <1>2 DEF CatalogInv
<1> QED BY <1>3, <1>4

\* The parts of the invariant.
LEMMA InvGives ==
  ASSUME CatalogInv
  PROVE  /\ DiskOK /\ DbOK(database) /\ database \in CatalogRow
         /\ batch.open => /\ DbOK(batch.db) /\ ListingsOK(listings, batch.db)
                          /\ batch.db.phase = "scanning"
         /\ ~batch.open => batch = NoBatch /\ ListingsOK(listings, database)
BY DEF CatalogInv, BatchOK, DbOK

\* No directory is open.
LEMMA NoListing == \A db : ListingsOK(<<>>, db)
<1>1. DOMAIN <<>> = {}
  OBVIOUS
<1>2. <<>> = [i \in {} |-> 0]
  OBVIOUS
<1>3. <<>> \in [DOMAIN <<>> -> Listed]
  BY <1>1, <1>2
<1> QED BY <1>1, <1>3 DEF ListingsOK

\* A new generation has touched nothing and starts with the root.
LEMMA GenerationKeeps ==
  ASSUME NEW d, DbOK(d), d.phase # "scanning"
  PROVE  LET n == [d EXCEPT !.generation = @ + 1, !.phase = "scanning", !.touched = {},
                            !.queue = Queued(@, RootPath, "entry")] IN
         DbOK(n) /\ n.phase = "scanning"
<1>1. /\ d \in CatalogRow /\ QueueOK(d.queue) /\ TextsOK(d) /\ IndexOK(d) /\ d.queue = {}
      /\ d.generation \in Nat
  BY DEF DbOK, CatalogRow
<1>2. PICK w : w = Queued(d.queue, RootPath, "entry")
  OBVIOUS
<1>3. PICK t : t = NewTask(d.queue, RootPath, "entry")
  OBVIOUS
<1>4. RootPath \in HostPaths
  BY Held
<1>5. w = d.queue \cup {t} /\ w \in SUBSET CatalogTask /\ QueueOK(w)
  BY <1>1, <1>2, <1>3, <1>4, QueuedIsOK DEF CatalogRow
<1>6. t.kind = "entry" /\ t.path = RootPath
  BY <1>3 DEF NewTask
<1>7. PICK g \in Nat \ {0} : g = d.generation + 1
  BY <1>1
<1>8. PICK n : n = [d EXCEPT !.generation = g, !.phase = "scanning", !.touched = {}, !.queue = w]
  OBVIOUS
<1>9. /\ n \in CatalogRow /\ n.generation = g /\ n.phase = "scanning"
      /\ n.queue = w /\ n.files = d.files /\ n.texts = d.texts /\ n.coverage = d.coverage
      /\ n.keys = d.keys /\ n.cursor = d.cursor /\ n.indexed = d.indexed
  BY <1>1, <1>5, <1>8 DEF CatalogRow
<1>10. TextsOK(n)
  <2>1. \A k \in 1..d.generation : k \in 1..n.generation
    BY <1>1, <1>9, <1>7
  <2> QED BY <2>1, <1>1, <1>9 DEF TextsOK, ErrorAt
<1>11. IndexOK(n)
  BY <1>1, <1>9 DEF IndexOK
<1>12. Unmissed(n)
  BY <1>5, <1>6, <1>9, AboveIs DEF Unmissed, LeadsTo
<1>13. [d EXCEPT !.generation = @ + 1, !.phase = "scanning", !.touched = {},
                 !.queue = Queued(@, RootPath, "entry")] = n
  BY <1>1, <1>2, <1>8, <1>7 DEF CatalogRow
<1> QED BY <1>5, <1>9, <1>10, <1>11, <1>12, <1>13 DEF DbOK

\* A batch begins, with a new generation or where the last one ended.
LEMMA BeginKeeps == CatalogInv /\ BeginScan => CatalogInv'
<1> SUFFICES ASSUME CatalogInv, BeginScan PROVE CatalogInv'
  OBVIOUS
<1>1. PICK d : d = database
  OBVIOUS
<1>2. /\ ~batch.open /\ onDisk' = onDisk /\ database' = d /\ DiskOK /\ DbOK(d)
      /\ ListingsOK(listings, d)
  BY <1>1, InvGives DEF BeginScan
<1>3. CASE d.phase = "scanning"
  <2>1. BatchGoes(d, 0, listings)
    BY <1>1, <1>2, <1>3 DEF BeginScan, Goes, BatchGoes
  <2> QED BY <2>1, <1>2, StepKeeps
<1>4. CASE d.phase # "scanning"
  <2>1. PICK n : n = [d EXCEPT !.generation = @ + 1, !.phase = "scanning", !.touched = {},
                               !.queue = Queued(@, RootPath, "entry")]
    OBVIOUS
  <2>2. DbOK(n) /\ n.phase = "scanning"
    BY <2>1, <1>2, <1>4, GenerationKeeps
  <2>3. batch' = [open |-> TRUE, db |-> n, next |-> 0] /\ listings' = <<>>
    BY <2>1, <1>1, <1>4 DEF BeginScan, Goes
  <2>4. BatchGoes(n, 0, <<>>)
    BY <2>2, <2>3, NoListing DEF BatchGoes
  <2> QED BY <2>4, <1>2, StepKeeps
<1> QED BY <1>3, <1>4

\* A visit of any task.
LEMMA VisitKeeps == CatalogInv /\ Visit => CatalogInv'
<1> SUFFICES ASSUME CatalogInv, Visit PROVE CatalogInv'
  OBVIOUS
<1>1. PICK d, b : d = database /\ b = batch.db
  OBVIOUS
<1>2. PICK task \in b.queue : Inspect(task) \/ Enumerate(task)
  BY <1>1 DEF Visit
<1>3. /\ onDisk' = onDisk /\ database' = d /\ DiskOK /\ DbOK(d)
      /\ DbOK(b) /\ b.phase = "scanning" /\ ListingsOK(listings, b)
  BY <1>1, InvGives DEF Visit
<1>4. \E n, next, open : BatchGoes(n, next, open)
  <2>1. CASE Inspect(task)
    BY <2>1, <1>1, <1>3, InspectGoes
  <2>2. CASE Enumerate(task)
    BY <2>2, <1>1, <1>3, EnumerateGoes
  <2> QED BY <2>1, <2>2, <1>2
<1> QED BY <1>3, <1>4, StepKeeps

\* A batch is committed; an empty queue completes the generation.
LEMMA CommitScanKeeps == CatalogInv /\ CommitScan => CatalogInv'
<1> SUFFICES ASSUME CatalogInv, CommitScan PROVE CatalogInv'
  OBVIOUS
<1>1. PICK b : b = batch.db
  OBVIOUS
<1>2. /\ onDisk' = onDisk /\ batch' = NoBatch /\ listings' = listings /\ DiskOK
      /\ DbOK(b) /\ ListingsOK(listings, b)
      /\ database' = IF b.queue = {} THEN [b EXCEPT !.phase = "complete"] ELSE b
  BY <1>1, InvGives DEF CommitScan
<1>3. PICK d : d = IF b.queue = {} THEN [b EXCEPT !.phase = "complete"] ELSE b
  OBVIOUS
<1>4. DbOK(d) /\ ListingsOK(listings, d)
  <2>1. CASE b.queue # {}
    BY <2>1, <1>2, <1>3
  <2>2. CASE b.queue = {}
    <3>1. /\ b \in CatalogRow /\ QueueOK(b.queue) /\ TextsOK(b) /\ IndexOK(b) /\ Unmissed(b)
      BY <1>2 DEF DbOK
    <3>2. /\ d \in CatalogRow /\ d.queue = b.queue /\ d.generation = b.generation
          /\ d.files = b.files /\ d.texts = b.texts /\ d.coverage = b.coverage
          /\ d.keys = b.keys /\ d.cursor = b.cursor /\ d.indexed = b.indexed
          /\ d.touched = b.touched
      BY <3>1, <2>2, <1>3 DEF CatalogRow
    <3>3. TextsOK(d)
      BY <3>1, <3>2 DEF TextsOK, ErrorAt
    <3>4. IndexOK(d)
      BY <3>1, <3>2 DEF IndexOK
    <3>5. Unmissed(d)
      BY <3>1, <3>2 DEF Unmissed, SeenIn, Excused, ErrorAt
    <3>6. ListingsOK(listings, d)
      BY <3>2, <1>2 DEF ListingsOK
    <3> QED BY <3>1, <3>2, <3>3, <3>4, <3>5, <3>6, <2>2 DEF DbOK
  <2> QED BY <2>1, <2>2
<1> QED BY <1>2, <1>3, <1>4, StepKeeps

\* A batch or a process is lost, and with it every open directory.
LEMMA CatalogFaultKeeps == CatalogInv /\ (RollBackScan \/ KillCatalog) => CatalogInv'
<1> SUFFICES ASSUME CatalogInv, RollBackScan \/ KillCatalog PROVE CatalogInv'
  OBVIOUS
<1>1. PICK d : d = database
  OBVIOUS
<1>2. /\ onDisk' = onDisk /\ database' = d /\ batch' = NoBatch /\ listings' = <<>> /\ DiskOK
      /\ DbOK(d)
  BY <1>1, InvGives DEF RollBackScan, KillCatalog
<1> QED BY <1>2, NoListing, StepKeeps

\* Of the paths of the inventory beyond the cursor, the first is the next one.
LEMMA FirstBeyond ==
  ASSUME NEW d, d = database, DbOK(d), Beyond(d.cursor) # {},
         NEW first, first = CHOOSE p \in Beyond(d.cursor) :
                              \A q \in Beyond(d.cursor) : Rank(p) <= Rank(q)
  PROVE  /\ first \in Beyond(d.cursor) /\ Rank(first) \in Nat
         /\ \A q \in Beyond(d.cursor) : q = first \/ Rank(q) > Rank(first)
<1> DEFINE S == {Rank(p) : p \in Beyond(d.cursor)}
<1>1. d.files \in Rows
  BY DEF DbOK, CatalogRow
<1>2. DOMAIN d.files \subseteq HostPaths
  BY <1>1, RowsAre
<1>3. \A p \in HostPaths : Rank(p) \in Nat /\ PathOrder[Rank(p)] = p
  <2> TAKE p \in HostPaths
  <2>1. PathOrder \in Seq(HostPaths) /\ p \in Range(PathOrder)
    BY CatalogAssumption DEF CatalogAssumption
  <2>2. \E i \in 1..Len(PathOrder) : PathOrder[i] = p
    BY <2>1 DEF Range
  <2>3. Rank(p) \in 1..Len(PathOrder) /\ PathOrder[Rank(p)] = p
    BY <2>2 DEF Rank
  <2> QED BY <2>1, <2>3
<1>4. Beyond(d.cursor) \subseteq HostPaths
  BY <1>2 DEF Beyond
<1>5. S \in SUBSET Nat /\ S # {}
  BY <1>3, <1>4
<1>6. PICK n \in S : \A m \in S : n <= m
  <2> HIDE DEF S
  <2> QED BY <1>5, SmallestExists
<1>7. \E p \in Beyond(d.cursor) : \A q \in Beyond(d.cursor) : Rank(p) <= Rank(q)
  BY <1>6
<1>8. first \in Beyond(d.cursor) /\ \A q \in Beyond(d.cursor) : Rank(first) <= Rank(q)
  BY <1>7
<1>9. \A q \in Beyond(d.cursor) : q = first \/ Rank(q) > Rank(first)
  <2> TAKE q \in Beyond(d.cursor)
  <2>1. /\ Rank(q) \in Nat /\ Rank(first) \in Nat /\ Rank(first) <= Rank(q)
        /\ PathOrder[Rank(q)] = q /\ PathOrder[Rank(first)] = first
    BY <1>3, <1>4, <1>8
  <2> QED BY <2>1
<1> QED BY <1>3, <1>4, <1>8, <1>9

\* The path index moves on by one path, or is complete.
LEMMA PathIndexKeeps == CatalogInv /\ BuildPathIndex => CatalogInv'
<1> SUFFICES ASSUME CatalogInv, BuildPathIndex PROVE CatalogInv'
  OBVIOUS
<1>1. PICK d : d = database
  OBVIOUS
<1>2. /\ onDisk' = onDisk /\ batch' = NoBatch /\ listings' = listings /\ DiskOK
      /\ DbOK(d) /\ ListingsOK(listings, d) /\ ~d.indexed /\ d \in CatalogRow
  BY <1>1, InvGives DEF BuildPathIndex
<1>3. /\ QueueOK(d.queue) /\ TextsOK(d) /\ IndexOK(d) /\ Unmissed(d)
      /\ (d.phase = "complete" => d.queue = {})
  BY <1>2 DEF DbOK
<1>4. ASSUME NEW ks \in SUBSET HostPaths, NEW c \in Nat, NEW x \in BOOLEAN,
             database' = [d EXCEPT !.keys = ks, !.cursor = c, !.indexed = x],
             ks \subseteq DOMAIN d.files,
             \A p \in DOMAIN d.files : p \in ks \/ (~x /\ Rank(p) > c)
      PROVE  CatalogInv'
  <2>1. PICK n : n = [d EXCEPT !.keys = ks, !.cursor = c, !.indexed = x]
    OBVIOUS
  <2>2. /\ n \in CatalogRow /\ n.generation = d.generation /\ n.phase = d.phase
        /\ n.queue = d.queue /\ n.files = d.files /\ n.texts = d.texts
        /\ n.coverage = d.coverage /\ n.keys = ks /\ n.cursor = c
        /\ n.indexed = x /\ n.touched = d.touched
    BY <2>1, <1>2 DEF CatalogRow
  <2>3. TextsOK(n)
    BY <2>2, <1>3 DEF TextsOK, ErrorAt
  <2>4. IndexOK(n)
    BY <2>2, <1>4 DEF IndexOK
  <2>5. Unmissed(n)
    BY <2>2, <1>3 DEF Unmissed, SeenIn, Excused, ErrorAt
  <2>6. ListingsOK(listings, n)
    BY <2>2, <1>2 DEF ListingsOK
  <2>7. DbOK(n)
    BY <2>2, <2>3, <2>4, <2>5, <1>3 DEF DbOK
  <2> QED BY <2>1, <2>6, <2>7, <1>2, <1>4, StepKeeps
<1>5. CASE Beyond(d.cursor) = {}
  <2>1. database' = [d EXCEPT !.indexed = TRUE]
    BY <1>1, <1>5 DEF BuildPathIndex
  <2>2. database' = [d EXCEPT !.keys = d.keys, !.cursor = d.cursor, !.indexed = TRUE]
    BY <2>1, <1>2 DEF CatalogRow
  <2>3. \A p \in DOMAIN d.files : p \in d.keys
    BY <1>1, <1>3, <1>5 DEF IndexOK, Beyond
  <2> QED BY <2>2, <2>3, <1>2, <1>3, <1>4 DEF CatalogRow, IndexOK
<1>6. CASE Beyond(d.cursor) # {}
  <2>1. PICK first : first = CHOOSE p \in Beyond(d.cursor) :
                               \A q \in Beyond(d.cursor) : Rank(p) <= Rank(q)
    OBVIOUS
  <2>2. database' = [d EXCEPT !.keys = @ \cup {first}, !.cursor = Rank(first)]
    BY <1>1, <1>6, <2>1 DEF BuildPathIndex
  <2>3. /\ first \in Beyond(d.cursor) /\ Rank(first) \in Nat
        /\ \A q \in Beyond(d.cursor) : q = first \/ Rank(q) > Rank(first)
    BY <1>1, <1>2, <1>6, <2>1, FirstBeyond
  <2>4. first \in DOMAIN d.files /\ DOMAIN d.files \subseteq HostPaths
    <3>1. d.files \in Rows
      BY <1>2 DEF CatalogRow
    <3> QED BY <3>1, <2>3, <1>1, RowsAre DEF Beyond
  <2>5. PICK ks : ks = d.keys \cup {first}
    OBVIOUS
  <2>6. ks \in SUBSET HostPaths /\ ks \subseteq DOMAIN d.files
    BY <2>4, <2>5, <1>2, <1>3 DEF IndexOK
  <2>7. database' = [d EXCEPT !.keys = ks, !.cursor = Rank(first), !.indexed = FALSE]
    BY <2>2, <2>5, <1>2 DEF CatalogRow
  <2>8. \A p \in DOMAIN d.files : p \in ks \/ (~FALSE /\ Rank(p) > Rank(first))
    <3> TAKE p \in DOMAIN d.files
    <3>1. p \in d.keys \/ p \in Beyond(d.cursor)
      BY <1>1, <1>3 DEF IndexOK, Beyond
    <3> QED BY <3>1, <2>3, <2>5
  <2> QED BY <2>3, <2>6, <2>7, <2>8, <1>4
<1> QED BY <1>5, <1>6

DiskRow == [there : BOOLEAN, allowed : BOOLEAN, version : Nat]
AllButOne(g, f, p) ==
  g \in [HostPaths -> DiskRow] /\ \A q \in HostPaths \ {p} : g[q] = f[q]
\* A change of one path is one of its row alone.
LEMMA OneChange ==
  ASSUME NEW f \in [HostPaths -> DiskRow], NEW p \in HostPaths, NEW k \in Nat
  PROVE  /\ AllButOne([f EXCEPT ![p].version = @ + k], f, p)
         /\ [f EXCEPT ![p].version = @ + k][p].there = f[p].there
         /\ AllButOne([f EXCEPT ![p].allowed = ~@], f, p)
         /\ [f EXCEPT ![p].allowed = ~@][p].there = f[p].there
         /\ AllButOne([f EXCEPT ![p].there = FALSE], f, p)
<1>1. /\ AllButOne([f EXCEPT ![p].version = @ + k], f, p)
      /\ [f EXCEPT ![p].version = @ + k][p].there = f[p].there
  BY DEF DiskRow, AllButOne
<1>2. /\ AllButOne([f EXCEPT ![p].allowed = ~@], f, p)
      /\ [f EXCEPT ![p].allowed = ~@][p].there = f[p].there
  BY DEF DiskRow, AllButOne
<1>3. AllButOne([f EXCEPT ![p].there = FALSE], f, p)
  BY DEF DiskRow, AllButOne
<1> QED BY <1>1, <1>2, <1>3

\* A change of the disk touches the path it moves, and an entry's directory when it goes.
LEMMA DiskTouches ==
  ASSUME DiskOK, DiskChanges
  PROVE  \E paths \in SUBSET HostPaths : DiskOK' /\ Touch(paths) /\ DiskMoves(paths)
<1>1. onDisk \in [HostPaths -> DiskRow]
  BY DEF DiskOK, DiskRow
<1>2. ASSUME NEW p \in HostPaths, NEW paths \in SUBSET HostPaths, p \in paths,
             AllButOne(onDisk', onDisk, p),
             onDisk'[p].there = onDisk[p].there \/ (p # RootPath /\ HolderOf(p) \in paths)
      PROVE  DiskOK' /\ DiskMoves(paths)
  <2>1. DiskOK'
    BY <1>2 DEF DiskOK, DiskRow, AllButOne
  <2>2. \A q \in HostPaths \ {p} : onDisk'[q] = onDisk[q]
    BY <1>2 DEF AllButOne
  <2>3. ASSUME NEW d \in Directories \ paths, NEW c \in Range(Children[d])
        PROVE  onDisk'[c].there = onDisk[c].there
    <3>1. c \in HostPaths \ {RootPath} /\ HolderOf(c) = d
      BY Held
    <3>2. CASE c # p
      BY <3>1, <3>2, <2>2
    <3>3. CASE c = p
      BY <3>1, <3>3, <1>2
    <3> QED BY <3>2, <3>3
  <2> QED BY <1>2, <2>1, <2>2, <2>3 DEF DiskMoves
<1>3. ASSUME NEW p \in HostPaths, onDisk' = [onDisk EXCEPT ![p].version = @ + 1], Touch({p})
      PROVE  \E paths \in SUBSET HostPaths : DiskOK' /\ Touch(paths) /\ DiskMoves(paths)
  <2>1. AllButOne(onDisk', onDisk, p) /\ onDisk'[p].there = onDisk[p].there
    BY <1>1, <1>3, OneChange
  <2>2. PICK paths \in SUBSET HostPaths : paths = {p} /\ p \in paths
    OBVIOUS
  <2>3. DiskOK' /\ DiskMoves(paths)
    BY <1>2, <2>1, <2>2
  <2> QED BY <1>3, <2>2, <2>3
<1>4. ASSUME NEW p \in HostPaths, Touch({p}),
             \/ onDisk' = [onDisk EXCEPT ![p].version = @ + 2, ![p].allowed = ~@]
             \/ onDisk' = [onDisk EXCEPT ![p].allowed = ~@, ![p].version = @ + 1]
      PROVE  \E paths \in SUBSET HostPaths : DiskOK' /\ Touch(paths) /\ DiskMoves(paths)
  <2>1. PICK f, g : /\ f = [onDisk EXCEPT ![p].version = @ + 2]
                    /\ g = [onDisk EXCEPT ![p].allowed = ~@]
    OBVIOUS
  <2>2. /\ AllButOne(f, onDisk, p) /\ f[p].there = onDisk[p].there
        /\ AllButOne(g, onDisk, p) /\ g[p].there = onDisk[p].there
    BY <1>1, <2>1, OneChange
  <2>3. onDisk' = [f EXCEPT ![p].allowed = ~@] \/ onDisk' = [g EXCEPT ![p].version = @ + 1]
    BY <1>4, <2>1
  <2>4. f \in [HostPaths -> DiskRow] /\ g \in [HostPaths -> DiskRow]
    BY <2>2 DEF AllButOne
  <2>5. /\ AllButOne([f EXCEPT ![p].allowed = ~@], f, p)
        /\ [f EXCEPT ![p].allowed = ~@][p].there = f[p].there
    BY <2>4, OneChange
  <2>6. /\ AllButOne([g EXCEPT ![p].version = @ + 1], g, p)
        /\ [g EXCEPT ![p].version = @ + 1][p].there = g[p].there
    BY <2>4, OneChange
  <2>7. AllButOne(onDisk', onDisk, p) /\ onDisk'[p].there = onDisk[p].there
    <3>1. \/ AllButOne(onDisk', f, p) /\ onDisk'[p].there = f[p].there
          \/ AllButOne(onDisk', g, p) /\ onDisk'[p].there = g[p].there
      BY <2>3, <2>5, <2>6
    <3> QED BY <3>1, <2>2 DEF AllButOne
  <2>8. PICK paths \in SUBSET HostPaths : paths = {p} /\ p \in paths
    OBVIOUS
  <2>9. DiskOK' /\ DiskMoves(paths)
    BY <1>2, <2>7, <2>8
  <2> QED BY <1>4, <2>8, <2>9
<1>5. ASSUME NEW p \in HostPaths \ Directories,
             onDisk' = [onDisk EXCEPT ![p].version = @ + 1, ![p].there = FALSE],
             Touch({p, HolderOf(p)})
      PROVE  \E paths \in SUBSET HostPaths : DiskOK' /\ Touch(paths) /\ DiskMoves(paths)
  <2>1. p # RootPath
    BY CatalogAssumption DEF CatalogAssumption
  <2>2. {p, HolderOf(p)} \in SUBSET HostPaths
    BY <2>1, Held
  <2>3. PICK f : f = [onDisk EXCEPT ![p].version = @ + 1]
    OBVIOUS
  <2>4. AllButOne(f, onDisk, p)
    BY <1>1, <2>3, OneChange
  <2>5. onDisk' = [f EXCEPT ![p].there = FALSE]
    BY <1>5, <2>3
  <2>6. f \in [HostPaths -> DiskRow]
    BY <2>4 DEF AllButOne
  <2>7. AllButOne(onDisk', f, p)
    BY <2>5, <2>6, OneChange
  <2>8. AllButOne(onDisk', onDisk, p)
    BY <2>4, <2>7 DEF AllButOne
  <2>9. DiskOK' /\ DiskMoves({p, HolderOf(p)})
    BY <1>2, <2>1, <2>2, <2>8
  <2> QED BY <1>5, <2>2, <2>9
<1>6. Directories \subseteq HostPaths
  BY Held
<1> QED BY <1>3, <1>4, <1>5, <1>6 DEF DiskChanges

\* An open batch whose row has changed.
LEMMA BatchWith ==
  ASSUME NEW b, NEW n, NEW next
  PROVE  [[open |-> TRUE, db |-> b, next |-> next] EXCEPT !.db = n]
           = [open |-> TRUE, db |-> n, next |-> next]
<1> DEFINE R == [open : {TRUE}, db : {b, n}, next : {next}]
<1>1. PICK r, q, s : /\ r = [open |-> TRUE, db |-> b, next |-> next]
                     /\ q = [r EXCEPT !.db = n]
                     /\ s = [open |-> TRUE, db |-> n, next |-> next]
  OBVIOUS
<1>2. q \in R /\ s \in R
  BY <1>1
<1>3. q.open = s.open /\ q.db = s.db /\ q.next = s.next
  BY <1>1
<1> QED BY <1>1, <1>2, <1>3

\* The disk changes between two steps of a batch or of a scan.
LEMMA DiskKeeps == CatalogInv /\ DiskChanges => CatalogInv'
<1> SUFFICES ASSUME CatalogInv, DiskChanges PROVE CatalogInv'
  OBVIOUS
<1>1. DiskOK /\ DbOK(database)
  BY InvGives
<1>2. PICK paths \in SUBSET HostPaths : DiskOK' /\ Touch(paths) /\ DiskMoves(paths)
  BY <1>1, DiskTouches
<1>3. PICK d : d = TouchedToo(database, paths)
  OBVIOUS
<1>4. database' = d /\ listings' = listings
  BY <1>2, <1>3 DEF Touch, TouchedToo
<1>5. DbOK(database)'
  <2>1. DbOK(d)'
    <3>1. PICK e : e = database
      OBVIOUS
    <3>2. DbOK(TouchedToo(e, paths))'
      BY <3>1, <1>1, <1>2, TouchedKeeps
    <3> QED BY <3>1, <3>2, <1>3 DEF TouchedToo
  <2> QED BY <2>1, <1>4
<1>6. PICK open : open = listings
  OBVIOUS
<1>7. BatchOK'
  <2>1. CASE batch.open
    <3>1. PICK b : b = batch.db
      OBVIOUS
    <3>2. PICK next : batch = [open |-> TRUE, db |-> b, next |-> next]
      BY <2>1, <3>1 DEF CatalogInv, BatchOK
    <3>3. DbOK(b) /\ ListingsOK(open, b) /\ b.phase = "scanning"
      BY <2>1, <3>1, <1>6, InvGives
    <3>4. PICK n : n = TouchedToo(b, paths)
      OBVIOUS
    <3>5. DbOK(n)' /\ n.phase = "scanning" /\ ListingsOK(open, n)'
      BY <3>3, <3>4, <1>2, TouchedKeeps
    <3>6. batch' = [open |-> TRUE, db |-> n, next |-> next]
      <4>1. batch' = [batch EXCEPT !.db.touched = @ \cup paths]
        BY <2>1, <1>2 DEF Touch
      <4>2. [batch EXCEPT !.db.touched = @ \cup paths]
              = [batch EXCEPT !.db = [batch.db EXCEPT !.touched = @ \cup paths]]
        OBVIOUS
      <4>3. n = [batch.db EXCEPT !.touched = @ \cup paths]
        BY <3>1, <3>4 DEF TouchedToo
      <4>4. batch' = [batch EXCEPT !.db = n]
        BY <4>1, <4>2, <4>3
      <4>5. [batch EXCEPT !.db = n] = [open |-> TRUE, db |-> n, next |-> next]
        BY <3>2, BatchWith
      <4> QED BY <4>4, <4>5
    <3>7. batch'.open = TRUE /\ batch'.db = n
      BY <3>6
    <3>8. ListingsOK(listings, batch.db)' /\ DbOK(batch.db)'
      BY <3>5, <3>7, <1>4, <1>6
    <3> QED BY <3>5, <3>6, <3>7, <3>8 DEF BatchOK
  <2>2. CASE ~batch.open
    <3>1. batch' = NoBatch /\ batch'.open = FALSE
      BY <2>2, <1>2, InvGives DEF Touch, NoBatch
    <3>2. PICK e : e = database
      OBVIOUS
    <3>3. ListingsOK(open, TouchedToo(e, paths))'
      BY <3>2, <2>2, <1>1, <1>2, <1>6, InvGives, TouchedKeeps
    <3>4. ListingsOK(listings, database)'
      BY <3>2, <3>3, <1>3, <1>4, <1>6 DEF TouchedToo
    <3> QED BY <3>1, <3>4 DEF BatchOK, NoBatch
  <2> QED BY <2>1, <2>2
<1> QED BY <1>2, <1>5, <1>7 DEF CatalogInv

\* A new generation of the program starts with what an earlier one has found.
LEMMA InitCatalogInv == CatalogInit => CatalogInv
<1> SUFFICES ASSUME CatalogInit PROVE CatalogInv
  OBVIOUS
<1>1. DiskOK
  BY DEF CatalogInit, DiskOK
<1>2. PICK earlier \in EarlierFiles :
       database = [generation |-> 1, phase |-> "complete", queue |-> {},
                   files |-> [p \in earlier |->
                     Row(1, IF p \in Directories THEN "metadata-only" ELSE "indexed", 1)],
                   texts |-> {<<p, 1>> : p \in earlier \ Directories}, coverage |-> {},
                   keys |-> {}, cursor |-> 0, indexed |-> FALSE, touched |-> HostPaths]
  BY DEF CatalogInit
<1>3. earlier \subseteq HostPaths
  BY CatalogAssumption DEF CatalogAssumption
<1>4. PICK fs : fs = [p \in earlier |->
                     Row(1, IF p \in Directories THEN "metadata-only" ELSE "indexed", 1)]
  OBVIOUS
<1>5. /\ DOMAIN fs = earlier
      /\ \A p \in earlier : /\ fs[p] \in FileRow /\ fs[p].signature = 1
                            /\ fs[p].state = IF p \in Directories THEN "metadata-only" ELSE "indexed"
  BY <1>4 DEF Row, FileRow, States
<1>6. fs \in Rows
  <2>1. fs \in [earlier -> FileRow]
    BY <1>4, <1>5
  <2> QED BY <2>1, <1>3, <1>5, RowsAre
<1>7. PICK ts : ts = {<<p, 1>> : p \in earlier \ Directories}
  OBVIOUS
<1>8. PICK d : d = database
  OBVIOUS
<1>9. d = [generation |-> 1, phase |-> "complete", queue |-> {}, files |-> fs, texts |-> ts,
           coverage |-> {}, keys |-> {}, cursor |-> 0, indexed |-> FALSE, touched |-> HostPaths]
  BY <1>2, <1>4, <1>7, <1>8
<1>10. ts \in SUBSET (HostPaths \X Nat)
  BY <1>3, <1>7
<1>11. d \in CatalogRow
  BY <1>6, <1>9, <1>10 DEF CatalogRow
<1>12. QueueOK(d.queue)
  BY <1>9, FS_EmptySet DEF QueueOK
<1>13. TextsOK(d)
  <2>1. 1 % 2 = 1
    OBVIOUS
  <2>2. \A t \in ts : t[1] \in earlier \ Directories /\ t[2] = 1
    BY <1>7
  <2>3. \A t \in ts : /\ t[1] \in DOMAIN fs /\ IsText(t[2])
                      /\ fs[t[1]].state = "indexed" /\ fs[t[1]].signature = t[2]
    BY <2>1, <2>2, <1>5 DEF IsText
  <2>4. \A p \in DOMAIN fs : /\ fs[p].state = "indexed" => <<p, fs[p].signature>> \in ts
                             /\ fs[p].state # "unavailable"
    BY <1>5, <1>7
  <2> QED BY <2>3, <2>4, <1>9 DEF TextsOK
<1>14. IndexOK(d)
  <2>1. \A p \in HostPaths : Rank(p) > 0
    <3> TAKE p \in HostPaths
    <3>1. PathOrder \in Seq(HostPaths) /\ p \in Range(PathOrder)
      BY CatalogAssumption DEF CatalogAssumption
    <3>2. \E i \in 1..Len(PathOrder) : PathOrder[i] = p
      BY <3>1 DEF Range
    <3>3. Rank(p) \in 1..Len(PathOrder)
      BY <3>2 DEF Rank
    <3> QED BY <3>1, <3>3
  <2> QED BY <2>1, <1>3, <1>5, <1>9 DEF IndexOK
<1>15. Unmissed(d)
  BY <1>9, AboveIs DEF Unmissed
<1>16. DbOK(d)
  BY <1>9, <1>11, <1>12, <1>13, <1>14, <1>15 DEF DbOK
<1>17. batch = NoBatch /\ batch.open = FALSE /\ listings = <<>>
  BY DEF CatalogInit, NoBatch
<1>18. BatchOK
  BY <1>17, NoListing DEF BatchOK, NoBatch
<1> QED BY <1>1, <1>8, <1>16, <1>18 DEF CatalogInv

\* Every step keeps the invariant.
LEMMA NextCatalogInv == CatalogInv /\ [CatalogNext]_catalogVars => CatalogInv'
<1>1. CatalogInv /\ UNCHANGED catalogVars => CatalogInv'
  <2> SUFFICES ASSUME CatalogInv, UNCHANGED catalogVars PROVE CatalogInv'
    OBVIOUS
  <2>1. PICK d : d = database
    OBVIOUS
  <2>2. onDisk' = onDisk /\ database' = d /\ batch' = batch /\ listings' = listings
        /\ DiskOK /\ DbOK(d)
    BY <2>1, InvGives DEF catalogVars
  <2>3. CASE batch.open
    <3>1. PICK n, next : batch = [open |-> TRUE, db |-> n, next |-> next]
      BY <2>3 DEF CatalogInv, BatchOK
    <3>2. batch.db = n
      BY <3>1
    <3>3. BatchGoes(n, next, listings)
      BY <3>1, <3>2, <2>2, <2>3, InvGives DEF BatchGoes
    <3> QED BY <3>3, <2>2, StepKeeps
  <2>4. CASE ~batch.open
    BY <2>1, <2>2, <2>4, InvGives, StepKeeps
  <2> QED BY <2>3, <2>4
<1> QED BY <1>1, BeginKeeps, VisitKeeps, CommitScanKeeps, CatalogFaultKeeps, PathIndexKeeps, DiskKeeps
     DEF CatalogNext

\* With no task left, what has stayed as it was has been seen or is excused.
LEMMA CatalogInvIsEnough == CatalogInv => CatalogIsFaithful
<1> SUFFICES ASSUME CatalogInv PROVE CatalogIsFaithful
  OBVIOUS
<1>1. /\ TextsOK(database) /\ IndexOK(database) /\ Unmissed(database)
      /\ (database.phase = "complete" => database.queue = {})
  BY InvGives DEF DbOK
<1>2. NothingIsMissed
  <2> SUFFICES ASSUME database.phase = "complete", NEW p \in HostPaths, Observable(p),
                      Above(p) \cap database.touched = {}
               PROVE  Seen(p) \/ Excused(database, p)
    BY DEF NothingIsMissed, Excused, ErrorAt
  <2> QED BY <1>1 DEF Unmissed, Seen, SeenIn
<1>3. TextsAreVouchedFor
  BY <1>1 DEF TextsOK, TextsAreVouchedFor, ErrorAt
<1>4. PathIndexIsExact
  BY <1>1 DEF IndexOK, PathIndexIsExact
<1> QED BY <1>2, <1>3, <1>4 DEF CatalogIsFaithful

\* The catalog is faithful for any host, any order of its paths and any numbers of
\* changes, generations and faults (src/host-file-catalog.mjs).
THEOREM CatalogStaysFaithful == CatalogSpec => []CatalogIsFaithful
<1>1. CatalogInit => CatalogInv
  BY InitCatalogInv
<1>2. CatalogInv /\ [CatalogNext]_catalogVars => CatalogInv'
  BY NextCatalogInv
<1>3. CatalogInv => CatalogIsFaithful
  BY CatalogInvIsEnough
<1> QED BY <1>1, <1>2, <1>3, PTL DEF CatalogSpec

=============================================================================
