------------------------------ MODULE Journal ------------------------------
(***************************************************************************)
(* The event journal: the engine's bounded broadcast channel, the daemon   *)
(* that numbers what it receives, the window it answers polls from, the    *)
(* two files of history it rotates, `logs --follow` that reads the files   *)
(* while they rotate, and a polling client.  A daemon may crash in the     *)
(* middle of an append, and each daemon numbers its events from one.       *)
(***************************************************************************)
EXTENDS Integers, Sequences, FiniteSets, SequencesExt

CONSTANTS
  Capacity,   \* events the broadcast channel keeps: 512
  Retain,     \* events a daemon keeps in memory: 2048
  PageMax,    \* events in one answer: what fits in 256 KiB
  FileMax,    \* records in one file: what fits in 2 MiB
  Tries,      \* how often a reader opens the pair of files: 4
  MaxStarts,  \* bound: daemons
  MaxEvents,  \* bound: engine events
  MaxSeq      \* bound: events of the first daemon; a later one has its share of it

ASSUME SizesAssumption == {Capacity, Retain, PageMax, FileMax, Tries} \subseteq Nat \ {0}
ASSUME BoundsAssumption == {MaxStarts, MaxEvents} \subseteq Nat /\ MaxSeq \in Nat \ {0}

VARIABLES
  up,         \* whether a daemon runs
  start,      \* how many daemons have started: daemon_instance_id
  channel,    \* broadcast: engine events the daemon has not received
  lagged,     \* broadcast: events overwritten since the daemon last received
  sequence,   \* EventJournal::sequence
  window,     \* EventJournal::events: the sequence numbers it holds, oldest first
  counted,    \* history: engine events that the events of this daemon tell of
  append,     \* append_history: the record being written and the next step
  active,     \* the file events.jsonl names, 0 if there is none
  archived,   \* the file events.jsonl.1 names, 0 if there is none
  content,    \* the records of every file there was, also of those unlinked
  reader,     \* logs --follow: the files it has opened and the next step
  cursor,     \* HistoryCursor: instance -> sequence, 0 if not retained
  poller,     \* a client of Command::Events: instance and position
  emitted,    \* how many engine events there were
  log,        \* history: every record ever written, in order
  seen,       \* history: the records the follower was given
  told,       \* history: the instances of which it was told some are missing
  read,       \* history: what the last read returned, unless the active file was empty
  whole       \* history: no poll has skipped an event without saying so

memory == <<up, start, channel, lagged, sequence, window, counted, emitted>>
files == <<append, active, archived, content, log>>
follower == <<reader, cursor, seen, told, read>>
client == <<poller, whole>>
vars == <<memory, files, follower, client>>
-----------------------------------------------------------------------------
Files == 1..(MaxStarts * MaxSeq)
NoFile == 0
Ready == [at |-> "ready", start |-> 0, seq |-> 0]
NoRecord == [start |-> 0, seq |-> 0]
Closed == [at |-> "closed", first |-> NoFile, head |-> NoRecord, second |-> NoFile, tries |-> 0]
Records(file) == IF file = NoFile THEN <<>> ELSE content[file]
Unused == {f \in Files : content[f] = <<>> /\ f \notin {active, archived}}

\* The next record would take the file beyond its size.
Full == Len(Records(active)) >= FileMax
FirstStep == IF Full THEN "remove" ELSE "write"
-----------------------------------------------------------------------------
\* The engine sends; a full channel overwrites its oldest event.
Emit ==
  /\ up /\ emitted < MaxEvents /\ emitted' = emitted + 1
  /\ LET longer == Append(channel, emitted + 1)
     IN IF Len(longer) > Capacity
        THEN channel' = Tail(longer) /\ lagged' = lagged + 1
        ELSE channel' = longer /\ UNCHANGED lagged
  /\ UNCHANGED <<up, start, sequence, window, counted, files, follower, client>>

\* EventJournal::persist: number the event, keep it, append it to the file.  The caller
\* holds the state lock until the append is over.  The event tells of n engine events.
Persist(n) ==
  /\ up /\ append.at = "ready" /\ sequence < MaxSeq \div start
  /\ sequence' = sequence + 1
  /\ counted' = counted + n
  /\ LET longer == Append(window, sequence + 1)
     IN window' = IF Len(longer) > Retain THEN Tail(longer) ELSE longer
  /\ append' = [at |-> FirstStep, start |-> start, seq |-> sequence + 1]

\* Seeded fault: the receiver goes on after a lag without a record of it.
ReceiveForgetting ==
  /\ channel # <<>> /\ Persist(1)
  /\ channel' = Tail(channel) /\ lagged' = 0
  /\ UNCHANGED <<up, start, emitted, active, archived, content, log, follower, client>>

\* run_inner: an event is recorded as it was sent; of lost ones their number is recorded.
Receive ==
  /\ IF lagged > 0
     THEN Persist(lagged) /\ lagged' = 0 /\ UNCHANGED channel
     ELSE channel # <<>> /\ Persist(1)
          /\ channel' = Tail(channel) /\ UNCHANGED lagged
  /\ UNCHANGED <<up, start, emitted, active, archived, content, log, follower, client>>

\* The daemon records what a request did.
RecordChange ==
  /\ Persist(0)
  /\ UNCHANGED <<up, start, channel, lagged, emitted, active, archived, content, log,
                 follower, client>>

\* The first event of a daemon is that it started.
Start ==
  /\ ~up /\ start < MaxStarts /\ append.at = "ready"
  /\ up' = TRUE /\ start' = start + 1
  /\ channel' = <<>> /\ lagged' = 0
  /\ sequence' = 1 /\ window' = <<1>> /\ counted' = 0
  /\ append' = [at |-> FirstStep, start |-> start + 1, seq |-> 1]
  /\ emitted' = 0
  /\ UNCHANGED <<active, archived, content, log, follower, client>>

\* The process ends at any point of an append; a torn record is skipped by every reader.
Crash ==
  /\ up /\ start < MaxStarts
  /\ up' = FALSE /\ append' = Ready
  /\ channel' = <<>> /\ lagged' = 0 /\ sequence' = 0 /\ window' = <<>> /\ counted' = 0
  /\ emitted' = 0
  /\ UNCHANGED <<start, active, archived, content, log, follower, client>>
-----------------------------------------------------------------------------
(***************************************************************************)
(* append_history, one file operation a step.  Any of them may fail: the   *)
(* record is then missing from the files and the daemon goes on.           *)
(***************************************************************************)
AppendAt(step) == up /\ append.at = step
Goto(step) == append' = [append EXCEPT !.at = step]

Unlink ==
  /\ AppendAt("remove") /\ Goto("rename") /\ archived' = NoFile
  /\ UNCHANGED <<memory, active, content, log, follower, client>>

Rename ==
  /\ AppendAt("rename") /\ Goto("write") /\ archived' = active /\ active' = NoFile
  /\ UNCHANGED <<memory, content, log, follower, client>>

Create ==
  /\ AppendAt("write") /\ active = NoFile
  /\ \E f \in Unused : (\A g \in Unused : f <= g) /\ active' = f
  /\ UNCHANGED <<memory, append, archived, content, log, follower, client>>

Write ==
  LET record == [start |-> append.start, seq |-> append.seq]
  IN /\ AppendAt("write") /\ active # NoFile
     /\ content' = [content EXCEPT ![active] = Append(@, record)]
     /\ log' = Append(log, record)
     /\ append' = Ready
     /\ UNCHANGED <<memory, active, archived, follower, client>>

AppendFails ==
  /\ up /\ append.at # "ready" /\ append' = Ready
  /\ UNCHANGED <<memory, active, archived, content, log, follower, client>>
-----------------------------------------------------------------------------
(***************************************************************************)
(* read_history: open the pair, and open it again if the active file was   *)
(* rotated meanwhile; a file that is open stays readable when unlinked.    *)
(***************************************************************************)
\* The generation of a file: its first record; an empty file has none.
Empty == [start |-> 0, seq |-> 1]
Generation(file) ==
  IF Records(file) # <<>> THEN Records(file)[1]
  ELSE IF file = NoFile THEN NoRecord ELSE Empty

OpenActive ==
  /\ reader.at = "closed"
  /\ reader' = [reader EXCEPT !.at = "first", !.first = active, !.head = Generation(active)]
  /\ UNCHANGED <<memory, files, cursor, seen, told, read, client>>

OpenArchived ==
  /\ reader.at = "first"
  /\ reader' = [reader EXCEPT !.at = "second", !.second = archived]
  /\ UNCHANGED <<memory, files, cursor, seen, told, read, client>>

\* Seeded fault: the pair is used as it was opened.
UsesAnyPair == TRUE

SamePair == reader.head = Generation(active)

CheckPair ==
  /\ reader.at = "second"
  /\ reader' = IF SamePair THEN [reader EXCEPT !.at = "pair"]
               ELSE IF reader.tries + 1 < Tries THEN [Closed EXCEPT !.tries = reader.tries + 1]
               ELSE Closed  \* WouldBlock: this read fails
  /\ UNCHANGED <<memory, files, cursor, seen, told, read, client>>

\* Seeded fault: only a first entry that is not the instance's first is a gap.
TakeQuietly(state, entry) ==
  LET last == state.cursor[entry.start]
  IN IF entry.seq <= last THEN state
     ELSE [cursor |-> [state.cursor EXCEPT ![entry.start] = entry.seq],
           seen |-> state.seen \cup {entry},
           told |-> IF last = 0 /\ entry.seq > 1 THEN state.told \cup {entry.start} ELSE state.told]

\* HistoryCursor::take_new, an entry of the read at a time.
TakeNew(state, entry) ==
  LET last == state.cursor[entry.start]
  IN IF entry.seq <= last THEN state
     ELSE [cursor |-> [state.cursor EXCEPT ![entry.start] = entry.seq],
           seen |-> state.seen \cup {entry},
           told |-> IF entry.seq > last + 1 THEN state.told \cup {entry.start} ELSE state.told]

Taken(entries) ==
  LET after[k \in 0..Len(entries)] ==
        IF k = 0 THEN [cursor |-> cursor, seen |-> seen, told |-> told]
                 ELSE TakeNew(after[k - 1], entries[k])
  IN  after[Len(entries)]

\* Instances that are no longer in the files are forgotten.
Forget(positions, entries) ==
  IF entries = <<>> THEN positions
  ELSE [i \in 1..MaxStarts |->
          IF \E k \in DOMAIN entries : entries[k].start = i THEN positions[i] ELSE 0]

ReadPair ==
  /\ reader.at = "pair" /\ reader' = Closed
  /\ LET entries == Records(reader.second) \o
                    (IF reader.first = reader.second THEN <<>> ELSE Records(reader.first))
         after == Taken(entries)
     IN /\ read' = IF reader.head = Empty THEN <<>> ELSE entries
        /\ seen' = after.seen /\ told' = after.told
        /\ cursor' = Forget(after.cursor, entries)
  /\ UNCHANGED <<memory, files, client>>
-----------------------------------------------------------------------------
\* Seeded fault: a position older than the window is answered like any other.
BehindNever(after) == after > sequence

\* EventJournal::since: what makes an answer ask for a resynchronisation.
Behind(after) == after > sequence \/ (after # 0 /\ after + 1 < window[1])

\* The filter; the window is in order, so what passes it is the window from its first.
Wanted(after) == {k \in DOMAIN window : window[k] > after \/ after > sequence}

Since(after) ==
  IF Wanted(after) = {} THEN <<>>
  ELSE LET first == Min(Wanted(after))
           last == first + PageMax - 1
       IN SubSeq(window, first, IF last < Len(window) THEN last ELSE Len(window))

\* A client polls from where the last answer ended, from zero when the instance is another.
Poll ==
  /\ up /\ append.at = "ready"
  /\ LET after == IF poller.start = start THEN poller.after ELSE 0
         page == Since(after)
     IN /\ poller' = [start |-> start, after |-> IF page = <<>> THEN sequence ELSE Last(page)]
        /\ whole' = (whole /\ (\/ Behind(after) \/ after = 0
                               \/ \A k \in DOMAIN page : page[k] = after + k))
  /\ UNCHANGED <<memory, files, follower>>
-----------------------------------------------------------------------------
Init ==
  /\ up = FALSE /\ start = 0 /\ channel = <<>> /\ lagged = 0 /\ sequence = 0 /\ window = <<>> /\ counted = 0
  /\ append = Ready /\ active = NoFile /\ archived = NoFile
  /\ content = [f \in Files |-> <<>>]
  /\ reader = Closed /\ cursor = [i \in 1..MaxStarts |-> 0]
  /\ poller = [start |-> 0, after |-> 0] /\ emitted = 0
  /\ log = <<>> /\ seen = {} /\ told = {} /\ read = <<>> /\ whole = TRUE

Daemon == Start \/ Crash \/ Receive \/ RecordChange
Appends == Unlink \/ Rename \/ Create \/ Write \/ AppendFails
Reads == OpenActive \/ OpenArchived \/ CheckPair \/ ReadPair

Next == Emit \/ Daemon \/ Appends \/ Reads \/ Poll

Spec == Init /\ [][Next]_vars
-----------------------------------------------------------------------------
Entry == [start : 1..MaxStarts, seq : 1..MaxSeq]

\* The types of the variables, and the bounds of what is kept.
DaemonTypes ==
  /\ up \in BOOLEAN /\ start \in 0..MaxStarts /\ emitted \in 0..MaxEvents /\ counted \in Nat
  /\ channel \in Seq(1..MaxEvents) /\ Len(channel) <= Capacity /\ lagged \in Nat
  /\ sequence \in 0..MaxSeq /\ window \in Seq(1..MaxSeq) /\ Len(window) <= Retain
  /\ poller \in [start : 0..MaxStarts, after : 0..MaxSeq] /\ whole \in BOOLEAN

FileTypes ==
  /\ append \in [at : {"ready", "remove", "rename", "write"}, start : 0..MaxStarts, seq : 0..MaxSeq]
  /\ active \in Files \cup {NoFile} /\ archived \in Files \cup {NoFile}
  /\ content \in [Files -> Seq(Entry)] /\ \A f \in Files : Len(content[f]) <= FileMax
  /\ reader \in [at : {"closed", "first", "second", "pair"}, first : Files \cup {NoFile},
                 head : Entry \cup {NoRecord, Empty}, second : Files \cup {NoFile},
                 tries : 0..(Tries - 1)]
  /\ log \in Seq(Entry) /\ read \in Seq(Entry)

TypeOK ==
  /\ DaemonTypes /\ FileTypes
  /\ cursor \in [1..MaxStarts -> 0..MaxSeq] /\ seen \subseteq Entry /\ told \subseteq 1..MaxStarts

\* Every engine event is waiting, recorded, or counted by a record that says how many were
\* lost (run_inner, Lagged).
EventsAccounted == emitted = counted + lagged + Len(channel)

\* A client that polls on from each answer never misses an event of a daemon without
\* being told to resynchronise (EventJournal::since).
PollsAreWhole == whole

\* What one read of the two files returns is a run of consecutive records of the log,
\* however the files rotate while it reads, if the active file had a record when it was
\* opened (read_history).
ReadsAreConsecutive ==
  \E from \in 1..(Len(log) - Len(read) + 1) : read = SubSeq(log, from, from + Len(read) - 1)

\* Between two records of one daemon the follower was given, it was given every record
\* of that daemon, or told that some are missing (HistoryCursor::take_new).
GapsAreTold ==
  \A e \in seen : \A n \in 1..e.seq :
     [start |-> e.start, seq |-> n] \in seen \/ e.start \in told

=============================================================================
