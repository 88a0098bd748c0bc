---------------------------- MODULE Journal_proofs ----------------------------
(***************************************************************************)
(* The journal loses nothing in silence, for any sizes of the channel, the *)
(* window, a page and a file, and any number of daemons: lost events are   *)
(* counted, polls are whole, and a read of the two files is a run of the   *)
(* log.  The last rests on two facts: the archived file and the active one *)
(* are the end of the log at every moment, and a first record identifies a *)
(* file, because no record is ever written twice.                          *)
(***************************************************************************)
EXTENDS Journal, SequenceTheorems, WellFoundedInduction, TLAPS

\* The records of s stand in the log one after the other, from position p + 1 on.
Run(s, p, records) ==
  /\ p \in Nat /\ p + Len(s) <= Len(records)
  /\ \A k \in 1..Len(s) : s[k] = records[p + k]

\* Two files stand in the log one right after the other.
Joined(older, newer) ==
  \E p \in Nat : /\ Run(Records(older), p, log)
                 /\ Run(Records(newer), p + Len(Records(older)), log)

\* An append belongs to the daemon that runs.  It goes to a file that has room.
Appending ==
  /\ up => start # 0 /\ sequence # 0
  /\ append.at # "ready" => up /\ append.start = start /\ append.seq = sequence
  /\ append.at = "write" => Len(Records(active)) < FileMax
  /\ append.at \in {"remove", "rename"} => Full

\* The window is the newest events, one after the other.
Windowed ==
  /\ up => Len(window) # 0
  /\ \A k \in 1..Len(window) : window[k] = sequence - Len(window) + k
  /\ Len(window) <= sequence

\* The log grows upwards, daemon by daemon and event by event.
Before(e, f) == e.start < f.start \/ (e.start = f.start /\ e.seq < f.seq)
Ordered == \A i, j \in 1..Len(log) : i < j => Before(log[i], log[j])
Past ==
  \A i \in 1..Len(log) :
    /\ log[i].start <= start
    /\ up /\ log[i].start = start => log[i].seq <= sequence
    /\ append.at # "ready" => Before(log[i], append)

\* Every file is a run of the log, and the two that are named are its end.
Logged == \A f \in Files : \E p \in Nat : Run(content[f], p, log)
Apart == \A f, g \in Files : \A k \in 1..Len(content[f]), l \in 1..Len(content[g]) :
           content[f][k] = content[g][l] => f = g
Layout ==
  /\ \E p \in Nat : /\ Run(Records(archived), p, log)
                    /\ Run(Records(active), p + Len(Records(archived)), log)
                    /\ p + Len(Records(archived)) + Len(Records(active)) = Len(log)
  /\ archived # NoFile => archived # active /\ content[archived] # <<>>

\* What the reader has opened: a file with a record is known by its first.
Real(head) == head \notin {NoRecord, Empty}
Opened ==
  reader.at # "closed" =>
    /\ reader.first = NoFile => reader.head = NoRecord
    /\ reader.first # NoFile /\ Real(reader.head) =>
         Records(reader.first) # <<>> /\ reader.head = Records(reader.first)[1]
    /\ reader.first # NoFile => reader.head # NoRecord
SecondOpened ==
  /\ reader.at \in {"second", "pair"} /\ reader.second # NoFile =>
       Records(reader.second) # <<>> /\ reader.second # active
  /\ reader.at = "second" /\ Real(reader.head) /\ reader.first = active =>
       Joined(reader.second, reader.first)
  /\ reader.at = "pair" /\ Real(reader.head) => Joined(reader.second, reader.first)

FilesInv ==
  /\ Ordered /\ Logged /\ Apart /\ Layout
  /\ Opened /\ SecondOpened
  /\ \E p \in Nat : Run(read, p, log)

IInv ==
  /\ DaemonTypes /\ FileTypes
  /\ EventsAccounted /\ PollsAreWhole
  /\ Appending /\ Windowed /\ Past
  /\ FilesInv
-----------------------------------------------------------------------------
(***************************************************************************)
(* The daemon's memory.                                                    *)
(***************************************************************************)
LEMMA SizesArePositive ==
  /\ Capacity \in Nat \ {0} /\ Retain \in Nat \ {0} /\ PageMax \in Nat \ {0}
  /\ FileMax \in Nat \ {0} /\ Tries \in Nat \ {0}
  /\ MaxStarts \in Nat /\ MaxEvents \in Nat /\ MaxSeq \in Nat \ {0}
BY SizesAssumption, BoundsAssumption

\* What a sequence is after an element came in at its end, and one went from its front.
LEMMA Queued ==
  ASSUME NEW S, NEW q \in Seq(S), NEW e \in S
  PROVE  /\ Append(q, e) \in Seq(S) /\ Len(Append(q, e)) = Len(q) + 1 /\ Len(q) \in Nat
         /\ \A k \in 1..Len(q) : Append(q, e)[k] = q[k]
         /\ Append(q, e)[Len(q) + 1] = e
         /\ Tail(Append(q, e)) \in Seq(S) /\ Len(Tail(Append(q, e))) = Len(q)
         /\ \A k \in 1..Len(q) : Tail(Append(q, e))[k] = Append(q, e)[k + 1]
<1> DEFINE longer == Append(q, e)
<1>1. /\ longer \in Seq(S) /\ longer # <<>> /\ Len(longer) = Len(q) + 1 /\ Len(q) \in Nat
      /\ \A k \in 1..Len(q) : longer[k] = q[k]
      /\ longer[Len(q) + 1] = e
  BY AppendProperties
<1>2. /\ Tail(longer) \in Seq(S) /\ Len(Tail(longer)) = Len(longer) - 1
      /\ \A k \in 1..Len(Tail(longer)) : Tail(longer)[k] = longer[k + 1]
  BY <1>1, HeadTailProperties
<1> QED
  BY <1>1, <1>2

\* The share of a daemon is not more than the whole.
LEMMA Share == ASSUME NEW a \in Nat, NEW b \in Nat \ {0} PROVE a \div b <= a
OBVIOUS

LEMMA PersistKeeps ==
  ASSUME IInv, NEW n \in Nat, Persist(n)
  PROVE  /\ sequence' \in 1..MaxSeq /\ counted' = counted + n
         /\ window' \in Seq(1..MaxSeq) /\ Len(window') <= Retain /\ Windowed'
<1>1. up /\ start \in Nat \ {0} /\ start <= MaxStarts /\ sequence' = sequence + 1
      /\ sequence \in Nat /\ counted' = counted + n
  BY DEF Persist, IInv, DaemonTypes, Appending
<1>2. sequence' \in 1..MaxSeq
  <2>1. MaxSeq \div start <= MaxSeq /\ MaxSeq \div start \in Int
    BY <1>1, Share, SizesArePositive
  <2> QED
    BY <1>1, <2>1, SizesArePositive DEF Persist
<1> DEFINE longer == Append(window, sequence + 1)
<1>3. /\ longer \in Seq(1..MaxSeq) /\ Len(longer) = Len(window) + 1 /\ Len(window) \in Nat
      /\ \A k \in 1..Len(window) : longer[k] = window[k]
      /\ longer[Len(window) + 1] = sequence + 1
      /\ Tail(longer) \in Seq(1..MaxSeq) /\ Len(Tail(longer)) = Len(window)
      /\ \A k \in 1..Len(window) : Tail(longer)[k] = longer[k + 1]
  <2>1. window \in Seq(1..MaxSeq) /\ sequence + 1 \in 1..MaxSeq
    BY <1>1, <1>2 DEF IInv, DaemonTypes
  <2> HIDE DEF longer
  <2>2. longer = Append(window, sequence + 1)
    BY DEF longer
  <2> QED
    BY <2>1, <2>2, Queued
<1>4. /\ Len(window) <= Retain /\ Len(window) <= sequence
      /\ \A k \in 1..Len(window) : window[k] = sequence - Len(window) + k
  BY DEF IInv, DaemonTypes, Windowed
<1>5. window' = IF Len(longer) > Retain THEN Tail(longer) ELSE longer
  BY DEF Persist
<1> HIDE DEF longer
<1>6. CASE Len(longer) > Retain
  <2>1. window' = Tail(longer) /\ Len(window') = Len(window) /\ Len(window') # 0
    BY <1>3, <1>4, <1>5, <1>6, SizesArePositive
  <2>2. ASSUME NEW k \in 1..Len(window')
        PROVE  window'[k] = sequence' - Len(window') + k
    <3>1. k \in 1..Len(window) /\ window'[k] = longer[k + 1]
      BY <1>3, <2>1
    <3>2. CASE k = Len(window)
      BY <1>1, <1>3, <2>1, <3>1, <3>2
    <3>3. CASE k # Len(window)
      <4>1. k + 1 \in 1..Len(window)
        BY <1>3, <3>1, <3>3
      <4>2. longer[k + 1] = sequence - Len(window) + (k + 1)
        BY <1>3, <1>4, <4>1
      <4>3. sequence - Len(window) + (k + 1) = sequence' - Len(window') + k
        <5>1. sequence' = sequence + 1 /\ Len(window') = Len(window)
          BY <1>1, <2>1
        <5>2. sequence \in Int /\ Len(window) \in Int /\ k \in Int
          BY <1>1, <1>3
        <5> QED
          BY <5>1, <5>2
      <4> QED
        BY <3>1, <4>2, <4>3
    <3> QED
      BY <3>2, <3>3
  <2> QED
    BY <1>1, <1>2, <1>3, <1>4, <2>1, <2>2 DEF Windowed
<1>7. CASE ~(Len(longer) > Retain)
  <2>1. window' = longer /\ Len(window') = Len(window) + 1
    BY <1>3, <1>5, <1>7
  <2>2. ASSUME NEW k \in 1..Len(window')
        PROVE  window'[k] = sequence' - Len(window') + k
    <3>1. CASE k = Len(window) + 1
      BY <1>1, <1>3, <2>1, <3>1
    <3>2. CASE k # Len(window) + 1
      <4>1. k \in 1..Len(window)
        BY <1>3, <2>1, <3>2
      <4>2. window'[k] = sequence - Len(window) + k
        BY <1>3, <1>4, <2>1, <4>1
      <4>3. sequence - Len(window) + k = sequence' - Len(window') + k
        <5>1. sequence' = sequence + 1 /\ Len(window') = Len(window) + 1
          BY <1>1, <2>1
        <5>2. sequence \in Int /\ Len(window) \in Int /\ k \in Int
          BY <1>1, <1>3
        <5> QED
          BY <5>1, <5>2
      <4> QED
        BY <4>2, <4>3
    <3> QED
      BY <3>1, <3>2
  <2> QED
    <3>1. Len(window') <= Retain /\ Len(window') # 0 /\ Len(window') <= sequence'
      BY <1>1, <1>3, <1>4, <1>7, <2>1, SizesArePositive
    <3> QED
      BY <1>1, <1>2, <1>3, <2>1, <2>2, <3>1 DEF Windowed
<1> QED
  BY <1>1, <1>2, <1>6, <1>7

\* The first event a client wants is the one after its position, if that is in the window.
LEMMA MinIsLeast ==
  ASSUME NEW S \in SUBSET Int, NEW m \in S, \A y \in S : m <= y
  PROVE  Min(S) = m
<1>1. \E x \in S : \A y \in S : x <= y
  OBVIOUS
<1>2. Min(S) \in S /\ \A y \in S : Min(S) <= y
  BY <1>1, Zenon DEF Min
<1>3. Min(S) \in Int /\ m \in Int /\ m <= Min(S) /\ Min(S) <= m
  BY <1>2
<1> QED
  BY <1>3

LEMMA FirstWanted ==
  ASSUME DaemonTypes, Windowed, NEW after \in Nat, Wanted(after) # {}
  PROVE  /\ Min(Wanted(after)) \in 1..Len(window)
         /\ sequence - Len(window) <= after /\ after <= sequence =>
              Min(Wanted(after)) = after - (sequence - Len(window)) + 1
<1> DEFINE base == sequence - Len(window)
<1>1. /\ Len(window) \in Nat /\ sequence \in Nat /\ base \in Nat /\ DOMAIN window = 1..Len(window)
      /\ base + Len(window) = sequence
      /\ \A k \in 1..Len(window) : window[k] = base + k
  BY DEF DaemonTypes, Windowed
<1> HIDE DEF base
<1>2. Wanted(after) = {k \in 1..Len(window) : base + k > after \/ after > sequence}
  BY <1>1 DEF Wanted
<1>3. CASE after > sequence \/ after <= base
  <2>1. Wanted(after) = 1..Len(window)
    BY <1>1, <1>2, <1>3
  <2>2. 1 \in Wanted(after)
    BY <1>1, <2>1
  <2>3. Min(Wanted(after)) = 1
    <3>1. Wanted(after) \in SUBSET Int /\ \A y \in Wanted(after) : 1 <= y
      BY <2>1
    <3> QED
      BY <2>2, <3>1, MinIsLeast
  <2> QED
    BY <1>1, <1>3, <2>1, <2>2, <2>3 DEF base
<1>4. CASE ~(after > sequence \/ after <= base)
  <2> DEFINE first == after - base + 1
  <2>1. Wanted(after) = {k \in 1..Len(window) : base + k > after}
    BY <1>2, <1>4
  <2>2. PICK k \in Wanted(after) : TRUE
    OBVIOUS
  <2>3. first \in 1..Len(window) /\ base + first > after
    BY <1>1, <1>4, <2>1, <2>2
  <2>4. first \in Wanted(after) /\ \A j \in Wanted(after) : first <= j
    BY <1>1, <2>1, <2>3
  <2>5. Min(Wanted(after)) = first
    <3>1. Wanted(after) \in SUBSET Int
      BY <2>1
    <3> QED
      BY <2>4, <3>1, MinIsLeast
  <2> QED
    BY <2>3, <2>5 DEF base
<1> QED
  BY <1>3, <1>4

\* What is answered is a part of the window.
LEMMA Page ==
  ASSUME DaemonTypes, Windowed, NEW after \in Nat
  PROVE  /\ Since(after) \in Seq(1..MaxSeq)
         /\ sequence - Len(window) <= after /\ after <= sequence =>
              \A k \in DOMAIN Since(after) : Since(after)[k] = after + k
<1>1. CASE Wanted(after) = {}
  BY <1>1, EmptySeq DEF Since
<1>2. CASE Wanted(after) # {}
  <2> DEFINE first == Min(Wanted(after))
             last == IF first + PageMax - 1 < Len(window) THEN first + PageMax - 1 ELSE Len(window)
  <2>1. first \in 1..Len(window) /\ Len(window) \in Nat /\ window \in Seq(1..MaxSeq)
    BY <1>2, FirstWanted DEF DaemonTypes
  <2> HIDE DEF first
  <2>2. last \in first..Len(window)
    BY <2>1, SizesArePositive
  <2>3. Since(after) = SubSeq(window, first, last)
    BY <1>2 DEF Since, first
  <2> HIDE DEF last
  <2>4. ASSUME NEW i \in first..last PROVE i \in 1..Len(window) /\ window[i] \in 1..MaxSeq
    <3>1. i \in 1..Len(window)
      BY <2>1, <2>2
    <3> QED
      BY <2>1, <3>1, ElementOfSeq
  <2>5. /\ Since(after) \in Seq(1..MaxSeq)
        /\ Len(Since(after)) = last - first + 1
        /\ \A i \in 1..(last - first + 1) : Since(after)[i] = window[first + i - 1]
    <3>1. first \in Int /\ last \in Int /\ first <= last
      BY <2>1, <2>2
    <3> QED
      BY <2>3, <2>4, <3>1, SubSeqProperties
  <2>6. ASSUME sequence - Len(window) <= after, after <= sequence,
               NEW k \in DOMAIN Since(after)
        PROVE  Since(after)[k] = after + k
    <3>1. k \in 1..(last - first + 1)
      BY <2>5
    <3>2. first + k - 1 \in 1..Len(window) /\ k \in Int
      BY <2>1, <2>2, <3>1
    <3>3. window[first + k - 1] = sequence - Len(window) + (first + k - 1)
      BY <3>2 DEF Windowed
    <3>4. first = after - (sequence - Len(window)) + 1
      BY <1>2, <2>6, FirstWanted DEF first
    <3>5. sequence \in Int
      BY DEF DaemonTypes
    <3>6. sequence - Len(window) + (first + k - 1) = after + k
      BY <2>1, <3>2, <3>4, <3>5
    <3> QED
      BY <2>5, <3>1, <3>3, <3>6
  <2> QED
    BY <2>5, <2>6
<1> QED
  BY <1>1, <1>2

LEMMA PollSteps ==
  ASSUME IInv, Poll
  PROVE  DaemonTypes' /\ Windowed' /\ EventsAccounted' /\ PollsAreWhole'
<1> DEFINE after == IF poller.start = start THEN poller.after ELSE 0
           page == Since(after)
<1>0. DaemonTypes /\ Windowed /\ up /\ Len(window) \in Nat \ {0} /\ sequence \in Nat
      /\ UNCHANGED memory /\ whole
  BY DEF IInv, DaemonTypes, Windowed, Poll, PollsAreWhole
<1>1. after \in 0..MaxSeq
  BY <1>0, SizesArePositive DEF DaemonTypes
<1>2. /\ poller' = [start |-> start, after |-> IF page = <<>> THEN sequence ELSE Last(page)]
      /\ whole' = (whole /\ (\/ Behind(after) \/ after = 0
                             \/ \A k \in DOMAIN page : page[k] = after + k))
  BY DEF Poll
<1> HIDE DEF after
<1>3. /\ page \in Seq(1..MaxSeq)
      /\ sequence - Len(window) <= after /\ after <= sequence =>
           \A k \in DOMAIN page : page[k] = after + k
  BY <1>0, <1>1, Page
<1>4. whole'
  <2>1. ~Behind(after) /\ after # 0 => sequence - Len(window) <= after /\ after <= sequence
    <3>1. window[1] = sequence - Len(window) + 1
      BY <1>0 DEF Windowed
    <3> QED
      BY <1>0, <1>1, <3>1 DEF Behind
  <2> QED
    BY <1>0, <1>2, <1>3, <2>1
<1>5. poller'.after \in 0..MaxSeq
  <2>1. page # <<>> => Last(page) \in 1..MaxSeq
    <3> SUFFICES ASSUME page # <<>> PROVE Last(page) \in 1..MaxSeq
      OBVIOUS
    <3>1. Len(page) \in 1..Len(page)
      BY <1>3, EmptySeq
    <3> QED
      BY <1>3, <3>1, ElementOfSeq DEF Last
  <2> QED
    BY <1>0, <1>2, <2>1 DEF DaemonTypes
<1>6. poller' \in [start : 0..MaxStarts, after : 0..MaxSeq]
  BY <1>0, <1>2, <1>5 DEF DaemonTypes
<1> QED
  BY <1>0, <1>4, <1>6 DEF IInv, DaemonTypes, Windowed, EventsAccounted, PollsAreWhole, memory

LEMMA EmitSteps ==
  ASSUME IInv, Emit
  PROVE  DaemonTypes' /\ Windowed' /\ EventsAccounted' /\ PollsAreWhole'
<1>1. /\ emitted' = emitted + 1 /\ emitted' \in 1..MaxEvents /\ channel \in Seq(1..MaxEvents)
      /\ emitted = counted + lagged + Len(channel) /\ counted \in Nat /\ lagged \in Nat
      /\ Len(channel) <= Capacity /\ UNCHANGED <<up, start, sequence, window, counted, client>>
  BY SizesArePositive DEF Emit, IInv, DaemonTypes, EventsAccounted
<1> DEFINE longer == Append(channel, emitted + 1)
<1>2. /\ longer \in Seq(1..MaxEvents) /\ Len(longer) = Len(channel) + 1 /\ Len(channel) \in Nat
      /\ Tail(longer) \in Seq(1..MaxEvents) /\ Len(Tail(longer)) = Len(channel)
  BY <1>1, Queued
<1>3. IF Len(longer) > Capacity
      THEN channel' = Tail(longer) /\ lagged' = lagged + 1
      ELSE channel' = longer /\ lagged' = lagged
  BY DEF Emit
<1> HIDE DEF longer
<1>4. /\ channel' \in Seq(1..MaxEvents) /\ Len(channel') <= Capacity /\ lagged' \in Nat
      /\ emitted' = counted + lagged' + Len(channel')
  <2>1. CASE Len(longer) > Capacity
    BY <1>1, <1>2, <1>3, <2>1
  <2>2. CASE ~(Len(longer) > Capacity)
    BY <1>1, <1>2, <1>3, <2>2, SizesArePositive
  <2> QED
    BY <2>1, <2>2
<1> QED
  BY <1>1, <1>4, SizesArePositive
     DEF IInv, DaemonTypes, Windowed, EventsAccounted, PollsAreWhole, client

LEMMA ReceiveSteps ==
  ASSUME IInv, Receive \/ RecordChange
  PROVE  DaemonTypes' /\ Windowed' /\ EventsAccounted' /\ PollsAreWhole'
<1>1. /\ emitted = counted + lagged + Len(channel) /\ counted \in Nat /\ lagged \in Nat
      /\ channel \in Seq(1..MaxEvents) /\ Len(channel) <= Capacity
      /\ UNCHANGED <<up, start, emitted, client>>
  BY DEF Receive, RecordChange, IInv, DaemonTypes, EventsAccounted
<1>2. PICK n \in Nat :
        /\ Persist(n) /\ channel' \in Seq(1..MaxEvents) /\ Len(channel') <= Capacity
        /\ lagged' \in Nat /\ emitted = counted + n + lagged' + Len(channel')
  <2>1. CASE RecordChange
    <3>1. Persist(0) /\ channel' = channel /\ lagged' = lagged
      BY <2>1 DEF RecordChange
    <3>2. Len(channel) \in Nat
      BY <1>1, LenProperties
    <3> QED
      BY <1>1, <3>1, <3>2
  <2>2. CASE Receive /\ lagged > 0
    <3>1. Persist(lagged) /\ channel' = channel /\ lagged' = 0
      BY <2>2 DEF Receive
    <3>2. Len(channel) \in Nat
      BY <1>1, LenProperties
    <3> QED
      BY <1>1, <3>1, <3>2
  <2>3. CASE Receive /\ ~(lagged > 0)
    <3>1. channel # <<>> /\ Persist(1) /\ channel' = Tail(channel) /\ lagged' = lagged
      BY <2>3 DEF Receive
    <3>2. Tail(channel) \in Seq(1..MaxEvents) /\ Len(Tail(channel)) = Len(channel) - 1
      BY <1>1, <3>1, HeadTailProperties
    <3>3. Len(channel) \in Nat \ {0}
      BY <1>1, <3>1, EmptySeq
    <3> QED
      BY <1>1, <3>1, <3>2, <3>3, SizesArePositive
  <2> QED
    BY <2>1, <2>2, <2>3
<1>3. /\ sequence' \in 1..MaxSeq /\ counted' = counted + n
      /\ window' \in Seq(1..MaxSeq) /\ Len(window') <= Retain /\ Windowed'
  BY <1>2, PersistKeeps
<1> QED
  BY <1>1, <1>2, <1>3 DEF IInv, DaemonTypes, EventsAccounted, PollsAreWhole, client

\* A daemon starts and ends with nothing to account for.
LEMMA StartSteps ==
  ASSUME IInv, Start \/ Crash
  PROVE  DaemonTypes' /\ Windowed' /\ EventsAccounted' /\ PollsAreWhole'
<1>1. /\ <<>> \in Seq(1..MaxEvents) /\ <<>> \in Seq(1..MaxSeq)
      /\ <<1>> \in Seq(1..MaxSeq) /\ Len(<<1>>) = 1 /\ <<1>>[1] = 1
  BY SizesArePositive
<1>2. CASE Start
  BY <1>1, <1>2, SizesArePositive
     DEF Start, IInv, DaemonTypes, Windowed, EventsAccounted, PollsAreWhole, client
<1>3. CASE Crash
  <2>1. /\ ~up' /\ channel' = <<>> /\ lagged' = 0 /\ sequence' = 0 /\ window' = <<>>
        /\ counted' = 0 /\ emitted' = 0 /\ UNCHANGED <<start, client>> /\ up' \in BOOLEAN
    BY <1>3 DEF Crash
  <2>2. Len(channel') = 0 /\ Len(window') = 0
    BY <2>1
  <2>3. DaemonTypes'
    BY <1>1, <2>1, <2>2, SizesArePositive DEF IInv, DaemonTypes, client
  <2>4. Windowed' /\ EventsAccounted' /\ PollsAreWhole'
    BY <2>1, <2>2 DEF IInv, Windowed, EventsAccounted, PollsAreWhole, client
  <2> QED
    BY <2>3, <2>4
<1> QED
  BY <1>2, <1>3

LEMMA MemorySteps ==
  IInv /\ [Next]_vars => DaemonTypes' /\ Windowed' /\ EventsAccounted' /\ PollsAreWhole'
<1> SUFFICES ASSUME IInv, [Next]_vars
             PROVE  DaemonTypes' /\ Windowed' /\ EventsAccounted' /\ PollsAreWhole'
  OBVIOUS
<1>1. CASE Appends \/ Reads \/ UNCHANGED vars
  <2>1. UNCHANGED <<memory, client>>
    BY <1>1 DEF Appends, Reads, vars, Unlink, Rename, Create, Write, AppendFails, OpenActive,
       OpenArchived, CheckPair, ReadPair
  <2> QED
    BY <2>1 DEF IInv, DaemonTypes, Windowed, EventsAccounted, PollsAreWhole, memory, client
<1> QED
  BY <1>1, PollSteps, EmitSteps, ReceiveSteps, StartSteps DEF Next, Daemon
-----------------------------------------------------------------------------
(***************************************************************************)
(* The files: their types, and what is written to them.                    *)
(***************************************************************************)
\* What a file holds, and the generation that stands for it.
LEMMA RecordsTyped ==
  ASSUME FileTypes, NEW f \in Files \cup {NoFile}
  PROVE  /\ Records(f) \in Seq(Entry) /\ Len(Records(f)) \in Nat
         /\ Records(f) # <<>> =>
              /\ Len(Records(f)) # 0 /\ 1 \in 1..Len(Records(f)) /\ Records(f)[1] \in Entry
              /\ Generation(f) = Records(f)[1] /\ f \in Files
         /\ Records(f) = <<>> /\ f # NoFile => Generation(f) = Empty
         /\ f = NoFile => Records(f) = <<>> /\ Generation(f) = NoRecord
         /\ f \in Files => Records(f) = content[f]
         /\ NoFile \notin Files
<1>1. NoFile \notin Files
  BY DEF Files, NoFile
<1>2. f = NoFile => Records(f) = <<>>
  BY DEF Records
<1>3. f \in Files => Records(f) = content[f] /\ content[f] \in Seq(Entry)
  BY <1>1 DEF Records, FileTypes
<1>4. Records(f) \in Seq(Entry)
  BY <1>2, <1>3, EmptySeq
<1>5. Len(Records(f)) \in Nat /\ (Records(f) # <<>> => Len(Records(f)) \in Nat \ {0})
  BY <1>4, LenProperties, EmptySeq
<1>6. Records(f) # <<>> => 1 \in 1..Len(Records(f)) /\ Records(f)[1] \in Entry
  BY <1>4, <1>5, ElementOfSeq
<1>7. /\ Records(f) # <<>> => Generation(f) = Records(f)[1]
      /\ Records(f) = <<>> /\ f # NoFile => Generation(f) = Empty
      /\ Records(f) = <<>> /\ f = NoFile => Generation(f) = NoRecord
  BY DEF Generation
<1> QED
  BY <1>1, <1>2, <1>3, <1>4, <1>5, <1>6, <1>7

LEMMA EntriesAreReal ==
  /\ \A e \in Entry : Real(e) /\ e.start \in Nat \ {0} /\ e.seq \in Nat
  /\ ~Real(Empty) /\ ~Real(NoRecord) /\ Empty # NoRecord
BY SizesArePositive DEF Entry, Real, Empty, NoRecord

\* A record is written by the daemon that runs, to a file with room.
LEMMA WriteFacts ==
  ASSUME IInv, Write
  PROVE  LET record == [start |-> append.start, seq |-> append.seq]
         IN  /\ record \in Entry /\ active \in Files
             /\ Records(active) = content[active] /\ Len(content[active]) < FileMax
             /\ content' = [content EXCEPT ![active] = Append(content[active], record)]
             /\ log' = Append(log, record) /\ append' = Ready
             /\ append.start = start /\ append.seq = sequence /\ up
             /\ \A i \in 1..Len(log) : Before(log[i], record)
             /\ UNCHANGED <<memory, active, archived, follower, client>>
<1> DEFINE record == [start |-> append.start, seq |-> append.seq]
<1>1. /\ append.at = "write" /\ active # NoFile /\ active \in Files \cup {NoFile} /\ append' = Ready
      /\ content' = [content EXCEPT ![active] = Append(content[active], record)]
      /\ log' = Append(log, record)
      /\ UNCHANGED <<memory, active, archived, follower, client>>
  BY DEF Write, AppendAt, IInv, FileTypes
<1>2. /\ append.start = start /\ append.seq = sequence /\ up /\ start # 0 /\ sequence # 0
      /\ Len(Records(active)) < FileMax
  BY <1>1 DEF IInv, Appending
<1>3. record \in Entry
  BY <1>2, SizesArePositive DEF Entry, IInv, DaemonTypes
<1>4. \A i \in 1..Len(log) : Before(log[i], record)
  BY <1>1 DEF IInv, Past, Before
<1>5. Records(active) = content[active]
  BY <1>1, RecordsTyped DEF IInv
<1> QED
  BY <1>1, <1>2, <1>3, <1>4, <1>5

LEMMA WriteTyped ==
  ASSUME IInv, Write
  PROVE  FileTypes'
<1> DEFINE record == [start |-> append.start, seq |-> append.seq]
           longer == Append(content[active], record)
<1>1. /\ record \in Entry /\ active \in Files /\ Len(content[active]) < FileMax
      /\ content' = [content EXCEPT ![active] = longer] /\ log' = Append(log, record)
      /\ append' = Ready /\ UNCHANGED <<active, archived, reader, read>>
  BY WriteFacts DEF follower
<1> HIDE DEF record
<1>2. content[active] \in Seq(Entry) /\ log \in Seq(Entry) /\ FileTypes
  BY <1>1 DEF IInv, FileTypes
<1>3. /\ longer \in Seq(Entry) /\ Len(longer) = Len(content[active]) + 1
      /\ Len(content[active]) \in Nat
  BY <1>1, <1>2, Queued
<1>4. log' \in Seq(Entry)
  BY <1>1, <1>2, Queued
<1> HIDE DEF longer
<1>5. content' \in [Files -> Seq(Entry)] /\ \A f \in Files : Len(content'[f]) <= FileMax
  BY <1>1, <1>2, <1>3, SizesArePositive DEF FileTypes
<1>6. append' \in [at : {"ready", "remove", "rename", "write"}, start : 0..MaxStarts,
                   seq : 0..MaxSeq]
  BY <1>1, SizesArePositive DEF Ready
<1> QED
  BY <1>1, <1>2, <1>4, <1>5, <1>6 DEF FileTypes

\* The reader's read: the two files it has open, one after the other.
Entries ==
  Records(reader.second) \o (IF reader.first = reader.second THEN <<>> ELSE Records(reader.first))

LEMMA ReadPairFacts ==
  ASSUME FileTypes, ReadPair
  PROVE  /\ Entries \in Seq(Entry) /\ read' \in Seq(Entry)
         /\ read' = IF reader.head = Empty THEN <<>> ELSE Entries
<1>1. reader.first \in Files \cup {NoFile} /\ reader.second \in Files \cup {NoFile}
  BY DEF FileTypes
<1>2. Records(reader.first) \in Seq(Entry) /\ Records(reader.second) \in Seq(Entry)
  BY <1>1, RecordsTyped
<1>3. (IF reader.first = reader.second THEN <<>> ELSE Records(reader.first)) \in Seq(Entry)
  BY <1>2, EmptySeq
<1>4. Entries \in Seq(Entry)
  BY <1>2, <1>3, ConcatProperties DEF Entries
<1>5. read' = IF reader.head = Empty THEN <<>> ELSE Entries
  BY DEF ReadPair, Entries
<1> QED
  BY <1>4, <1>5, EmptySeq

LEMMA FileTypesStep == IInv /\ [Next]_vars => FileTypes'
<1> SUFFICES ASSUME IInv, [Next]_vars PROVE FileTypes'
  OBVIOUS
<1>0. FileTypes /\ DaemonTypes
  BY DEF IInv
<1> USE SizesArePositive
<1>1. CASE Emit \/ Poll \/ UNCHANGED vars
  BY <1>0, <1>1 DEF Emit, Poll, vars, FileTypes, files, follower
<1>2. CASE Receive \/ RecordChange
  <2>1. PICK n : Persist(n)
    BY <1>2 DEF Receive, RecordChange
  <2>2. UNCHANGED <<start, active, archived, content, log, follower>>
    BY <1>2 DEF Receive, RecordChange
  <2>3. sequence + 1 \in 0..MaxSeq
    BY <1>2, MemorySteps, <2>1 DEF Persist, DaemonTypes
  <2>4. append' \in [at : {"ready", "remove", "rename", "write"}, start : 0..MaxStarts,
                     seq : 0..MaxSeq]
    BY <1>0, <2>1, <2>3 DEF Persist, FirstStep, DaemonTypes
  <2> QED
    BY <1>0, <2>2, <2>4 DEF FileTypes, follower
<1>3. CASE Start
  BY <1>0, <1>3 DEF Start, FileTypes, DaemonTypes, FirstStep, follower
<1>4. CASE Crash
  BY <1>0, <1>4 DEF Crash, FileTypes, Ready, follower
<1>5. CASE Unlink \/ Rename \/ Create \/ AppendFails
  <2>1. append' \in [at : {"ready", "remove", "rename", "write"}, start : 0..MaxStarts,
                     seq : 0..MaxSeq]
    <3>1. CASE Unlink \/ Rename
      BY <1>0, <3>1 DEF Unlink, Rename, Goto, FileTypes
    <3>2. CASE Create \/ AppendFails
      <4>1. append' = append \/ append' = Ready
        BY <3>2 DEF Create, AppendFails
      <4>2. Ready \in [at : {"ready", "remove", "rename", "write"}, start : 0..MaxStarts,
                       seq : 0..MaxSeq]
        BY DEF Ready
      <4> QED
        BY <1>0, <4>1, <4>2 DEF FileTypes
    <3> QED
      BY <1>5, <3>1, <3>2
  <2>2. active' \in Files \cup {NoFile} /\ archived' \in Files \cup {NoFile}
    BY <1>0, <1>5 DEF Unlink, Rename, Create, AppendFails, FileTypes, Unused
  <2>3. UNCHANGED <<content, log, follower>>
    BY <1>5 DEF Unlink, Rename, Create, AppendFails
  <2> QED
    BY <1>0, <2>1, <2>2, <2>3 DEF FileTypes, follower
<1>6. CASE OpenActive
  <2>1. Generation(active) \in Entry \cup {NoRecord, Empty}
    BY <1>0, RecordsTyped DEF FileTypes
  <2> QED
    BY <1>0, <1>6, <2>1 DEF OpenActive, FileTypes, files
<1>7. CASE OpenArchived
  BY <1>0, <1>7 DEF OpenArchived, FileTypes, files
<1>8. CASE CheckPair
  <2> DEFINE Readers == [at : {"closed", "first", "second", "pair"}, first : Files \cup {NoFile},
                         head : Entry \cup {NoRecord, Empty}, second : Files \cup {NoFile},
                         tries : 0..(Tries - 1)]
  <2>1. reader \in Readers /\ Closed \in Readers /\ reader.tries + 1 \in Nat
    BY <1>0 DEF FileTypes, Closed
  <2>2. [reader EXCEPT !.at = "pair"] \in Readers
    BY <2>1
  <2>3. reader.tries + 1 < Tries => [Closed EXCEPT !.tries = reader.tries + 1] \in Readers
    BY <2>1
  <2>4. reader' \in Readers
    BY <1>8, <2>1, <2>2, <2>3 DEF CheckPair
  <2> QED
    BY <1>0, <1>8, <2>4 DEF CheckPair, FileTypes, files
<1>9. CASE ReadPair
  <2>1. read' \in Seq(Entry)
    BY <1>0, <1>9, ReadPairFacts
  <2> QED
    BY <1>0, <1>9, <2>1 DEF ReadPair, FileTypes, files, Closed
<1> QED
  BY <1>1, <1>2, <1>3, <1>4, <1>5, <1>6, <1>7, <1>8, <1>9, WriteTyped
     DEF Next, Daemon, Appends, Reads

LEMMA AppendingSteps == IInv /\ [Next]_vars => Appending' /\ Past'
<1> SUFFICES ASSUME IInv, [Next]_vars PROVE Appending' /\ Past'
  OBVIOUS
<1>0. /\ FileTypes /\ Appending /\ Past /\ start \in Nat /\ sequence \in Nat
      /\ \A i \in 1..Len(log) : log[i].start \in Nat /\ log[i].seq \in Nat
  <2>1. \A i \in 1..Len(log) : log[i] \in Entry
    BY ElementOfSeq DEF IInv, FileTypes
  <2> QED
    BY <2>1, EntriesAreReal DEF IInv, DaemonTypes
<1>1. CASE Emit \/ Poll \/ Reads \/ UNCHANGED vars
  <2>1. UNCHANGED <<up, start, sequence, files>>
    BY <1>1 DEF Emit, Poll, Reads, vars, OpenActive, OpenArchived, CheckPair, ReadPair, memory
  <2> QED
    BY <1>0, <2>1 DEF Appending, Past, Full, Records, files
<1>2. CASE Receive \/ RecordChange
  <2>1. PICK n : Persist(n)
    BY <1>2 DEF Receive, RecordChange
  <2>2. UNCHANGED <<up, start, active, content, log>>
    BY <1>2 DEF Receive, RecordChange
  <2>3. up /\ append' = [at |-> FirstStep, start |-> start, seq |-> sequence + 1]
        /\ sequence' = sequence + 1
    BY <2>1 DEF Persist
  <2>4. Full' = Full /\ Records(active)' = Records(active)
    BY <2>2 DEF Full, Records
  <2>5. Appending'
    BY <1>0, <2>2, <2>3, <2>4, RecordsTyped, SizesArePositive
       DEF Appending, FirstStep, Full, FileTypes
  <2>6. Past'
    BY <1>0, <2>2, <2>3 DEF Past, Before
  <2> QED
    BY <2>5, <2>6
<1>3. CASE Start
  <2>1. /\ UNCHANGED <<active, content, log>> /\ up' /\ start' = start + 1 /\ sequence' = 1
        /\ append' = [at |-> FirstStep, start |-> start + 1, seq |-> 1]
    BY <1>3 DEF Start
  <2>2. Full' = Full /\ Records(active)' = Records(active)
    BY <2>1 DEF Full, Records
  <2>3. Appending'
    BY <1>0, <2>1, <2>2, RecordsTyped, SizesArePositive
       DEF Appending, FirstStep, Full, FileTypes
  <2>4. Past'
    BY <1>0, <2>1 DEF Past, Before
  <2> QED
    BY <2>3, <2>4
<1>4. CASE Crash \/ AppendFails
  <2>1. append'.at = "ready" /\ UNCHANGED <<log, start>>
    BY <1>4 DEF Crash, AppendFails, Ready, memory
  <2>2. ~up' \/ UNCHANGED <<up, sequence>>
    BY <1>4 DEF Crash, AppendFails, memory
  <2> QED
    BY <1>0, <2>1, <2>2 DEF Appending, Past
<1>5. CASE Unlink \/ Rename \/ Create
  <2>1. UNCHANGED <<memory, content, log>> /\ append'.start = append.start
        /\ append'.seq = append.seq /\ append.at # "ready"
        /\ append.at \in {"remove", "rename", "write"}
    BY <1>0, <1>5 DEF Unlink, Rename, Create, AppendAt, Goto, FileTypes
  <2>2. Past'
    BY <1>0, <2>1 DEF Past, Before, memory
  <2>3. CASE Unlink
    <3>1. Full' = Full /\ append.at = "remove" /\ append'.at = "rename"
      BY <1>0, <2>3 DEF Unlink, AppendAt, Goto, FileTypes, Full, Records
    <3> QED
      BY <1>0, <2>1, <2>2, <3>1 DEF Appending, memory
  <2>4. CASE Rename \/ Create
    <3>1. append'.at = "write"
      BY <1>0, <2>4 DEF Rename, Create, AppendAt, Goto, FileTypes
    <3>2. Records(active)' = <<>>
      BY <2>4 DEF Rename, Create, Records, Unused
    <3>3. Len(<<>>) = 0
      OBVIOUS
    <3> QED
      BY <1>0, <2>1, <2>2, <3>1, <3>2, <3>3, SizesArePositive DEF Appending, memory
  <2> QED
    BY <1>5, <2>3, <2>4
<1>6. CASE Write
  <2> DEFINE record == [start |-> append.start, seq |-> append.seq]
  <2>1. /\ record \in Entry /\ log' = Append(log, record) /\ append'.at = "ready"
        /\ record.start = start /\ record.seq = sequence /\ UNCHANGED memory
    BY <1>6, WriteFacts DEF Ready
  <2> HIDE DEF record
  <2>2. /\ Len(log') = Len(log) + 1 /\ Len(log) \in Nat /\ log'[Len(log) + 1] = record
        /\ \A i \in 1..Len(log) : log'[i] = log[i]
    BY <1>0, <2>1, Queued DEF FileTypes
  <2>3. Past'
    BY <1>0, <2>1, <2>2 DEF Past, memory
  <2>4. Appending'
    BY <1>0, <2>1 DEF Appending, memory
  <2> QED
    BY <2>3, <2>4
<1> QED
  BY <1>1, <1>2, <1>3, <1>4, <1>5, <1>6 DEF Next, Daemon, Appends
-----------------------------------------------------------------------------
(***************************************************************************)
(* The log, the files that are named and the files that are open.          *)
(***************************************************************************)
\* A record that is written comes last in the log: what stood in it stays where it is.
LEMMA LogGrows ==
  ASSUME NEW records \in Seq(Entry), NEW e \in Entry, NEW s \in Seq(Entry), NEW p,
         Run(s, p, records)
  PROVE  Run(s, p, Append(records, e))
<1>1. /\ Len(Append(records, e)) = Len(records) + 1 /\ Len(records) \in Nat
      /\ \A i \in 1..Len(records) : Append(records, e)[i] = records[i]
  BY Queued
<1>2. Len(s) \in Nat /\ p \in Nat /\ p + Len(s) <= Len(records)
  BY LenProperties DEF Run
<1>3. \A k \in 1..Len(s) : p + k \in 1..Len(records)
  BY <1>1, <1>2
<1> QED
  BY <1>1, <1>2, <1>3 DEF Run

\* The file it is written to, which stood at the end of the log, still does.
LEMMA EndGrows ==
  ASSUME NEW records \in Seq(Entry), NEW e \in Entry, NEW s \in Seq(Entry), NEW p,
         Run(s, p, records), p + Len(s) = Len(records)
  PROVE  Run(Append(s, e), p, Append(records, e))
<1>1. /\ Len(Append(records, e)) = Len(records) + 1 /\ Len(records) \in Nat
      /\ \A i \in 1..Len(records) : Append(records, e)[i] = records[i]
      /\ Append(records, e)[Len(records) + 1] = e
  BY Queued
<1>2. /\ Len(Append(s, e)) = Len(s) + 1 /\ Len(s) \in Nat
      /\ \A i \in 1..Len(s) : Append(s, e)[i] = s[i]
      /\ Append(s, e)[Len(s) + 1] = e
  BY Queued
<1>3. p \in Nat /\ \A k \in 1..Len(s) : s[k] = records[p + k] /\ p + k \in 1..Len(records)
  BY <1>1, <1>2 DEF Run
<1>4. ASSUME NEW k \in 1..(Len(s) + 1) PROVE Append(s, e)[k] = Append(records, e)[p + k]
  <2>1. CASE k = Len(s) + 1
    <3>1. p + k = Len(records) + 1
      BY <1>1, <1>2, <1>3, <2>1
    <3> QED
      BY <1>1, <1>2, <2>1, <3>1
  <2>2. CASE k # Len(s) + 1
    <3>1. k \in 1..Len(s)
      BY <1>2, <2>2
    <3> QED
      BY <1>1, <1>2, <1>3, <3>1
  <2> QED
    BY <2>1, <2>2
<1>5. p + (Len(s) + 1) = Len(records) + 1
  <2>1. p \in Int /\ Len(s) \in Int /\ Len(records) \in Int
    BY <1>1, <1>2, <1>3
  <2> QED
    BY <2>1
<1> QED
  BY <1>1, <1>2, <1>3, <1>4, <1>5 DEF Run

\* One run right after another is one run.
LEMMA RunsJoin ==
  ASSUME NEW s \in Seq(Entry), NEW t \in Seq(Entry), NEW records, Len(records) \in Nat,
         NEW p, Run(s, p, records), Run(t, p + Len(s), records)
  PROVE  Run(s \o t, p, records)
<1>1. /\ Len(s \o t) = Len(s) + Len(t) /\ Len(s) \in Nat /\ Len(t) \in Nat
      /\ \A i \in 1..Len(s) + Len(t) : (s \o t)[i] = IF i <= Len(s) THEN s[i] ELSE t[i - Len(s)]
  BY ConcatProperties, LenProperties
<1>2. p \in Nat /\ p + Len(s) + Len(t) <= Len(records)
  BY <1>1 DEF Run
<1>3. ASSUME NEW i \in 1..Len(s) + Len(t) PROVE (s \o t)[i] = records[p + i]
  <2>1. CASE i <= Len(s)
    <3>1. i \in 1..Len(s)
      BY <1>1, <2>1
    <3> QED
      BY <1>1, <2>1, <3>1 DEF Run
  <2>2. CASE ~(i <= Len(s))
    <3>1. i - Len(s) \in 1..Len(t) /\ p + Len(s) + (i - Len(s)) = p + i
      BY <1>1, <1>2, <2>2
    <3> QED
      BY <1>1, <2>2, <3>1 DEF Run
  <2> QED
    BY <2>1, <2>2
<1>4. p + (Len(s) + Len(t)) <= Len(records)
  BY <1>1, <1>2
<1> QED
  BY <1>1, <1>2, <1>3, <1>4 DEF Run

\* A record stands at one place of the log only.
LEMMA OnePlace ==
  ASSUME Ordered, FileTypes, NEW i \in 1..Len(log), NEW j \in 1..Len(log), log[i] = log[j]
  PROVE  i = j
<1>1. log[i] \in Entry /\ log[j] \in Entry
  BY ElementOfSeq DEF FileTypes
<1>2. ~Before(log[i], log[j]) /\ ~Before(log[j], log[i])
  BY <1>1, EntriesAreReal DEF Before
<1> QED
  BY <1>2 DEF Ordered

\* Nothing of it changes unless a file, its name or the reader does.
LEMMA FilesStay ==
  ASSUME IInv, UNCHANGED <<active, archived, content, log, reader, read>>
  PROVE  FilesInv'
BY DEF IInv, FilesInv, Ordered, Logged, Apart, Layout, Opened, SecondOpened, Joined, Records

\* A file that is open is the active one if its first record is.
LEMMA SameFile ==
  ASSUME IInv, reader.at # "closed", Real(reader.head), reader.head = Generation(active)
  PROVE  reader.first = active /\ active # NoFile
<1>0. /\ FileTypes /\ Apart /\ Opened
      /\ reader.first \in Files \cup {NoFile} /\ active \in Files \cup {NoFile}
  BY DEF IInv, FilesInv, FileTypes
<1>1. /\ Records(active) # <<>> /\ active \in Files /\ Records(active) = content[active]
      /\ reader.head = content[active][1] /\ 1 \in 1..Len(content[active])
  BY <1>0, RecordsTyped, EntriesAreReal
<1>2. reader.first # NoFile
  BY <1>0, EntriesAreReal DEF Opened, Real
<1>3. /\ Records(reader.first) # <<>> /\ reader.head = Records(reader.first)[1]
      /\ reader.first \in Files
  BY <1>0, <1>2 DEF Opened, Real
<1>4. Records(reader.first) = content[reader.first] /\ 1 \in 1..Len(content[reader.first])
  BY <1>0, <1>3, RecordsTyped
<1>5. content[reader.first][1] = content[active][1]
  BY <1>1, <1>3, <1>4
<1>6. \A k \in 1..Len(content[reader.first]), l \in 1..Len(content[active]) :
        content[reader.first][k] = content[active][l] => reader.first = active
  BY <1>0, <1>1, <1>3 DEF Apart
<1>7. reader.first = active
  BY <1>1, <1>4, <1>5, <1>6
<1>8. NoFile \notin Files
  BY <1>0, RecordsTyped
<1> QED
  BY <1>1, <1>7, <1>8

\* Every file that is open or named is a run of the log.
LEMMA EachIsARun ==
  ASSUME IInv, NEW f \in Files \cup {NoFile}
  PROVE  \E p \in Nat : Run(Records(f), p, log)
<1>1. CASE f \in Files
  BY <1>1, RecordsTyped DEF IInv, FilesInv, Logged
<1>2. CASE f = NoFile
  <2>1. Records(f) = <<>> /\ Len(<<>>) = 0 /\ Len(log) \in Nat
    BY <1>2, RecordsTyped, LenProperties DEF IInv, FileTypes
  <2>2. Run(Records(f), 0, log)
    BY <2>1 DEF Run
  <2> QED
    BY <2>2
<1> QED
  BY <1>1, <1>2

LEMMA ReaderSteps ==
  ASSUME IInv, OpenActive \/ OpenArchived \/ CheckPair
  PROVE  FilesInv'
<1>0. /\ FileTypes /\ Opened /\ SecondOpened /\ Layout
      /\ active \in Files \cup {NoFile} /\ archived \in Files \cup {NoFile}
      /\ reader.first \in Files \cup {NoFile} /\ NoFile \notin Files
  BY RecordsTyped DEF IInv, FilesInv, FileTypes
<1>1. UNCHANGED <<active, archived, content, log, read>>
  BY DEF OpenActive, OpenArchived, CheckPair, files
<1>2. /\ Ordered' /\ Logged' /\ Apart' /\ Layout' /\ \E p \in Nat : Run(read', p, log')
      /\ \A f, g : Joined(f, g) => Joined(f, g)'
  BY <1>1 DEF IInv, FilesInv, Ordered, Logged, Apart, Layout, Joined, Records
<1>3. CASE OpenActive
  <2>1. /\ reader'.at = "first" /\ reader'.first = active /\ reader'.head = Generation(active)
    BY <1>0, <1>3 DEF OpenActive, FileTypes
  <2>2. /\ active = NoFile => Generation(active) = NoRecord
        /\ active # NoFile => Generation(active) # NoRecord
        /\ active # NoFile /\ Real(Generation(active)) =>
             Records(active) # <<>> /\ Generation(active) = Records(active)[1]
    BY <1>0, RecordsTyped, EntriesAreReal DEF Real
  <2>3. Opened' /\ SecondOpened'
    BY <1>1, <2>1, <2>2 DEF Opened, SecondOpened, Records
  <2> QED
    BY <1>2, <2>3 DEF FilesInv
<1>4. CASE OpenArchived
  <2>1. /\ reader'.at = "second" /\ reader'.first = reader.first /\ reader'.head = reader.head
        /\ reader'.second = archived /\ reader.at = "first"
    BY <1>0, <1>4 DEF OpenArchived, FileTypes
  <2>2. Opened'
    BY <1>0, <1>1, <2>1 DEF Opened, Records
  <2>3. Joined(archived, active)
    BY <1>0 DEF Layout, Joined
  <2>4. archived # NoFile => Records(archived) # <<>> /\ archived # active
    BY <1>0, RecordsTyped DEF Layout
  <2>5. SecondOpened'
    BY <1>1, <1>2, <2>1, <2>3, <2>4 DEF SecondOpened, Records
  <2> QED
    BY <1>2, <2>2, <2>5 DEF FilesInv
<1>5. CASE CheckPair /\ SamePair
  <2>1. /\ reader'.at = "pair" /\ reader'.first = reader.first /\ reader'.head = reader.head
        /\ reader'.second = reader.second /\ reader.at = "second"
    BY <1>0, <1>5 DEF CheckPair, FileTypes
  <2>2. Opened'
    BY <1>0, <1>1, <2>1 DEF Opened, Records
  <2>3. Real(reader.head) => reader.first = active
    BY <1>5, <2>1, SameFile DEF SamePair
  <2>4. SecondOpened'
    BY <1>0, <1>1, <1>2, <2>1, <2>3 DEF SecondOpened, Records
  <2> QED
    BY <1>2, <2>2, <2>4 DEF FilesInv
<1>6. CASE CheckPair /\ ~SamePair
  <2>1. reader'.at = "closed"
    BY <1>6 DEF CheckPair, Closed
  <2> QED
    BY <1>2, <2>1 DEF FilesInv, Opened, SecondOpened
<1> QED
  BY <1>3, <1>4, <1>5, <1>6

\* The pair is read: the archived file, then the active one, or one of them.
LEMMA ReadPairSteps ==
  ASSUME IInv, ReadPair
  PROVE  FilesInv'
<1> DEFINE older == Records(reader.second)
           newer == Records(reader.first)
<1>0. /\ FileTypes /\ Opened /\ SecondOpened /\ reader.at = "pair"
      /\ reader.first \in Files \cup {NoFile} /\ reader.second \in Files \cup {NoFile}
      /\ older \in Seq(Entry) /\ newer \in Seq(Entry) /\ Len(log) \in Nat
      /\ reader.head \in Entry \cup {NoRecord, Empty}
  BY RecordsTyped, LenProperties DEF IInv, FilesInv, FileTypes, ReadPair
<1>1. UNCHANGED <<active, archived, content, log>> /\ reader'.at = "closed"
      /\ read' = IF reader.head = Empty THEN <<>> ELSE Entries
  BY <1>0, ReadPairFacts DEF ReadPair, files, Closed
<1>2. Len(<<>>) = 0 /\ Run(<<>>, 0, log)
  BY <1>0 DEF Run
<1>3. CASE reader.head = Empty
  BY <1>1, <1>2, <1>3 DEF IInv, FilesInv, Ordered, Logged, Apart, Layout, Opened, SecondOpened,
     Records
<1>4. CASE reader.first = reader.second \/ reader.first = NoFile
  <2>1. Entries = older
    <3>1. newer = <<>> \/ reader.first = reader.second
      BY <1>0, <1>4, RecordsTyped
    <3>2. older \o <<>> = older
      BY <1>0, ConcatEmptySeq
    <3> QED
      BY <3>1, <3>2 DEF Entries
  <2>2. \E p \in Nat : Run(older, p, log)
    BY <1>0, EachIsARun
  <2>3. \E p \in Nat : Run(read', p, log)
    BY <1>1, <1>2, <2>1, <2>2
  <2> QED
    BY <1>1, <2>3 DEF IInv, FilesInv, Ordered, Logged, Apart, Layout, Opened, SecondOpened, Records
<1>5. CASE reader.head # Empty /\ reader.first # reader.second /\ reader.first # NoFile
  <2>1. Real(reader.head)
    BY <1>0, <1>5 DEF Opened, Real
  <2>2. PICK p \in Nat : Run(older, p, log) /\ Run(newer, p + Len(older), log)
    BY <1>0, <2>1 DEF SecondOpened, Joined
  <2>3. Run(older \o newer, p, log)
    BY <1>0, <2>2, RunsJoin
  <2>4. Run(read', p, log)
    BY <1>1, <1>5, <2>3 DEF Entries
  <2> QED
    BY <1>1, <2>4 DEF IInv, FilesInv, Ordered, Logged, Apart, Layout, Opened, SecondOpened, Records
<1> QED
  BY <1>3, <1>4, <1>5

\* Rotation: names change, no record does.
LEMMA RotationSteps ==
  ASSUME IInv, Unlink \/ Rename \/ Create
  PROVE  FilesInv'
<1>0. /\ FileTypes /\ Opened /\ SecondOpened /\ Layout /\ Appending
      /\ active \in Files \cup {NoFile} /\ archived \in Files \cup {NoFile}
      /\ NoFile \notin Files /\ Len(log) \in Nat
      /\ reader.first \in Files \cup {NoFile} /\ reader.second \in Files \cup {NoFile}
  BY RecordsTyped, LenProperties DEF IInv, FilesInv, FileTypes
<1>1. UNCHANGED <<content, log, follower>>
  BY DEF Unlink, Rename, Create
<1>2. /\ Ordered' /\ Logged' /\ Apart' /\ Opened' /\ \E p \in Nat : Run(read', p, log')
      /\ \A f, g : Joined(f, g) => Joined(f, g)'
      /\ \A f : Records(f)' = Records(f)
  BY <1>1 DEF IInv, FilesInv, Ordered, Logged, Apart, Opened, Joined, Records, follower
<1>3. PICK p \in Nat : /\ Run(Records(archived), p, log)
                       /\ Run(Records(active), p + Len(Records(archived)), log)
                       /\ p + Len(Records(archived)) + Len(Records(active)) = Len(log)
  BY <1>0 DEF Layout
<1>4. Records(NoFile) = <<>> /\ Len(<<>>) = 0 /\ Run(<<>>, Len(log), log)
  BY <1>0 DEF Records, Run
<1>5. Len(Records(archived)) \in Nat /\ Len(Records(active)) \in Nat
  BY <1>0, RecordsTyped
<1>6. CASE Unlink
  <2>1. archived' = NoFile /\ active' = active /\ Records(archived') = <<>>
    BY <1>4, <1>6 DEF Unlink
  <2> DEFINE q == p + Len(Records(archived))
  <2>2. q \in Nat /\ Run(<<>>, q, log) /\ Run(Records(active), q + 0, log)
        /\ q + 0 + Len(Records(active)) = Len(log)
    BY <1>0, <1>3, <1>4, <1>5 DEF Run
  <2>3. Layout'
    BY <1>1, <1>2, <1>4, <2>1, <2>2 DEF Layout
  <2>4. SecondOpened'
    BY <1>0, <1>1, <1>2, <2>1 DEF SecondOpened, follower
  <2> QED
    BY <1>2, <2>3, <2>4 DEF FilesInv
<1>7. CASE Rename
  <2>1. archived' = active /\ active' = NoFile /\ append.at = "rename"
    BY <1>7 DEF Rename, AppendAt
  <2>2. Len(Records(active)) # 0
    BY <1>0, <1>5, <2>1, SizesArePositive DEF Appending, Full
  <2>3. active # NoFile /\ content[active] # <<>>
    BY <1>0, <1>4, <2>2, RecordsTyped
  <2> DEFINE q == p + Len(Records(archived))
  <2>4. /\ q \in Nat /\ Run(Records(active), q, log) /\ q + Len(Records(active)) = Len(log)
        /\ q + Len(Records(active)) + 0 = Len(log)
    BY <1>0, <1>3, <1>5
  <2>5. Layout'
    BY <1>1, <1>2, <1>4, <2>1, <2>3, <2>4 DEF Layout
  <2>6. SecondOpened'
    BY <1>0, <1>1, <1>2, <2>1 DEF SecondOpened, Opened, Real, follower
  <2> QED
    BY <1>2, <2>5, <2>6 DEF FilesInv
<1>8. CASE Create
  <2>1. archived' = archived /\ active' \in Files /\ active' # archived
        /\ Records(active') = <<>> /\ Records(active) = <<>>
    BY <1>0, <1>8 DEF Create, Unused, Records
  <2>2. Layout'
    BY <1>0, <1>1, <1>2, <1>3, <1>4, <2>1 DEF Layout
  <2>3. SecondOpened'
    BY <1>0, <1>1, <1>2, <2>1 DEF SecondOpened, Opened, Real, follower
  <2> QED
    BY <1>2, <2>2, <2>3 DEF FilesInv
<1> QED
  BY <1>6, <1>7, <1>8

\* A record comes to the end of the log and of the active file.
LEMMA WriteSteps ==
  ASSUME IInv, Write
  PROVE  FilesInv'
<1> DEFINE record == [start |-> append.start, seq |-> append.seq]
           new == Len(log) + 1
<1>1. /\ record \in Entry /\ active \in Files
      /\ content' = [content EXCEPT ![active] = Append(content[active], record)]
      /\ log' = Append(log, record) /\ \A i \in 1..Len(log) : Before(log[i], record)
      /\ UNCHANGED <<active, archived, reader, read>>
  BY WriteFacts DEF follower
<1> HIDE DEF record
<1>2. /\ FileTypes /\ Opened /\ SecondOpened /\ Layout /\ Ordered /\ Logged /\ Apart
      /\ archived \in Files \cup {NoFile} /\ NoFile \notin Files
      /\ reader.first \in Files \cup {NoFile} /\ reader.second \in Files \cup {NoFile}
      /\ log \in Seq(Entry) /\ content \in [Files -> Seq(Entry)] /\ read \in Seq(Entry)
  BY RecordsTyped DEF IInv, FilesInv, FileTypes
<1>3. /\ Len(log') = new /\ Len(log) \in Nat /\ log'[new] = record
      /\ \A i \in 1..Len(log) : log'[i] = log[i]
  BY <1>1, <1>2, Queued
<1>4. /\ Len(content[active]) \in Nat /\ content[active] \in Seq(Entry)
      /\ Len(content'[active]) = Len(content[active]) + 1
      /\ \A k \in 1..Len(content[active]) : content'[active][k] = content[active][k]
      /\ content'[active][Len(content[active]) + 1] = record
      /\ content'[active] = Append(content[active], record)
      /\ \A f \in Files \ {active} : content'[f] = content[f]
  BY <1>1, <1>2, Queued
<1>5. \A s \in Seq(Entry) : \A p : Run(s, p, log) => Run(s, p, log')
  BY <1>1, <1>2, LogGrows
<1>6. \A p : Run(content[active], p, log) /\ p + Len(content[active]) = Len(log)
               => Run(content'[active], p, log')
  BY <1>1, <1>2, <1>4, EndGrows
<1>7. Ordered'
  <2> SUFFICES ASSUME NEW i \in 1..new, NEW j \in 1..new, i < j
               PROVE  Before(log'[i], log'[j])
    BY <1>3 DEF Ordered, Before
  <2>1. i \in 1..Len(log) /\ log'[i] = log[i]
    BY <1>3
  <2>2. CASE j = new
    BY <1>1, <1>3, <2>1, <2>2
  <2>3. CASE j # new
    <3>1. j \in 1..Len(log) /\ log'[j] = log[j]
      BY <1>3, <2>3
    <3> QED
      BY <1>2, <2>1, <3>1 DEF Ordered
  <2> QED
    BY <2>2, <2>3
<1>8. PICK q \in Nat : /\ Run(Records(archived), q, log)
                       /\ Run(content[active], q + Len(Records(archived)), log)
                       /\ q + Len(Records(archived)) + Len(content[active]) = Len(log)
  BY <1>1, <1>2, RecordsTyped DEF Layout
<1>9. /\ Run(content'[active], q + Len(Records(archived)), log')
      /\ Len(Records(archived)) \in Nat /\ q + Len(Records(archived)) \in Nat
  <2>1. Len(Records(archived)) \in Nat
    BY <1>2, RecordsTyped
  <2> QED
    BY <1>6, <1>8, <2>1
<1>10. Logged'
  <2> SUFFICES ASSUME NEW f \in Files PROVE \E p \in Nat : Run(content'[f], p, log')
    BY DEF Logged, Run
  <2>1. CASE f = active
    BY <1>9, <2>1
  <2>2. CASE f # active
    <3>1. content'[f] = content[f] /\ content[f] \in Seq(Entry)
      BY <1>2, <1>4, <2>2
    <3>2. PICK p \in Nat : Run(content[f], p, log)
      BY <1>2 DEF Logged
    <3> QED
      BY <1>5, <3>1, <3>2
  <2> QED
    BY <2>1, <2>2
<1>11. ASSUME NEW f \in Files, NEW k \in 1..Len(content[f]) PROVE content[f][k] # record
  <2>1. PICK p \in Nat : Run(content[f], p, log)
    BY <1>2 DEF Logged
  <2>2. Len(content[f]) \in Nat
    BY <1>2, LenProperties
  <2>3. content[f][k] = log[p + k] /\ p + k \in 1..Len(log)
    BY <1>3, <2>1, <2>2 DEF Run
  <2>4. ~Before(record, record)
    BY <1>1, EntriesAreReal DEF Before
  <2> QED
    BY <1>1, <2>3, <2>4
<1>12. Apart'
  <2>1. ASSUME NEW f \in Files, NEW k \in 1..Len(content'[f])
        PROVE  \/ k \in 1..Len(content[f]) /\ content'[f][k] = content[f][k]
               \/ f = active /\ content'[f][k] = record
    BY <1>4
  <2> SUFFICES ASSUME NEW f \in Files, NEW g \in Files,
                      NEW k \in 1..Len(content'[f]), NEW l \in 1..Len(content'[g]),
                      content'[f][k] = content'[g][l]
               PROVE  f = g
    BY DEF Apart
  <2>2. CASE k \in 1..Len(content[f]) /\ content'[f][k] = content[f][k]
    <3>1. content'[g][l] # record
      BY <1>11, <2>2
    <3>2. l \in 1..Len(content[g]) /\ content'[g][l] = content[g][l]
      BY <2>1, <3>1
    <3> QED
      BY <1>2, <2>2, <3>2 DEF Apart
  <2>3. CASE f = active /\ content'[f][k] = record
    BY <1>11, <2>1, <2>3
  <2> QED
    BY <2>1, <2>2, <2>3
<1>13. /\ \A f \in Files \cup {NoFile} : f # active => Records(f)' = Records(f)
       /\ Records(active)' = content'[active] /\ Records(active) = content[active]
       /\ active # NoFile
  BY <1>1, <1>2, <1>4 DEF Records
<1>14. Layout'
  <2>1. archived # active
    BY <1>2, <1>13 DEF Layout
  <2>2. Records(archived)' = Records(archived) /\ Records(archived) \in Seq(Entry)
    BY <1>1, <1>2, <1>13, <2>1, RecordsTyped
  <2>3. Run(Records(archived), q, log')
    BY <1>5, <1>8, <2>2
  <2>4. q + Len(Records(archived)) + Len(content'[active]) = Len(log')
    <3> DEFINE a == Len(Records(archived))
               d == Len(content[active])
               e == Len(log)
    <3>1. Len(content'[active]) = d + 1 /\ Len(log') = e + 1 /\ d \in Nat
      BY <1>3, <1>4
    <3>2. q + a + d = e /\ q \in Nat /\ a \in Nat
      BY <1>8, <1>9
    <3> HIDE DEF a, d, e
    <3>3. q + a + (d + 1) = e + 1
      BY <3>1, <3>2
    <3> QED
      BY <3>1, <3>3 DEF a
  <2>5. archived' # NoFile => archived' # active' /\ content'[archived'] # <<>>
    BY <1>1, <1>2, <1>4, <2>1 DEF Layout
  <2> QED
    BY <1>8, <1>9, <1>13, <2>2, <2>3, <2>4, <2>5 DEF Layout
<1>15. Records(active) # <<>> =>
         /\ Records(active)' # <<>> /\ Records(active)'[1] = Records(active)[1]
         /\ 1 \in 1..Len(content[active])
  <2> SUFFICES ASSUME content[active] # <<>>
               PROVE  /\ content'[active] # <<>> /\ content'[active][1] = content[active][1]
                      /\ 1 \in 1..Len(content[active])
    BY <1>13
  <2>1. Len(content[active]) \in Nat \ {0}
    BY <1>4, EmptySeq
  <2>2. Len(<<>>) = 0
    OBVIOUS
  <2> QED
    BY <1>4, <2>1, <2>2
<1>16. Opened'
  BY <1>1, <1>2, <1>13, <1>15 DEF Opened
<1>17. ASSUME reader.at # "closed", Real(reader.head), Joined(reader.second, reader.first),
              reader.second # active
       PROVE  Joined(reader.second, reader.first)'
  <2>1. PICK p \in Nat : /\ Run(Records(reader.second), p, log)
                         /\ Run(Records(reader.first), p + Len(Records(reader.second)), log)
    BY <1>17 DEF Joined
  <2>2. /\ Records(reader.second)' = Records(reader.second)
        /\ Records(reader.second) \in Seq(Entry) /\ Records(reader.first) \in Seq(Entry)
        /\ Len(Records(reader.second)) \in Nat
    BY <1>1, <1>2, <1>13, <1>17, RecordsTyped
  <2>3. Run(Records(reader.second), p, log')
    BY <1>5, <2>1, <2>2
  <2>4. CASE reader.first # active
    <3>1. Records(reader.first)' = Records(reader.first)
      BY <1>1, <1>2, <1>13, <2>4
    <3>2. Run(Records(reader.first), p + Len(Records(reader.second)), log')
      BY <1>5, <2>1, <2>2
    <3> QED
      BY <2>1, <2>2, <2>3, <3>1, <3>2 DEF Joined
  <2>5. CASE reader.first = active
    <3> DEFINE a == p + Len(Records(reader.second))
               b == q + Len(Records(archived))
    <3>1. 1 \in 1..Len(content[active])
      BY <1>2, <1>13, <1>15, <1>17, <2>5 DEF Opened
    <3>2. /\ a \in Nat /\ b \in Nat
          /\ Run(content[active], a, log) /\ Run(content[active], b, log)
      BY <1>8, <1>9, <1>13, <2>1, <2>2, <2>5
    <3>3. b + Len(content[active]) = Len(log)
      BY <1>8
    <3> HIDE DEF a, b
    <3>4. /\ a + 1 \in 1..Len(log) /\ b + 1 \in 1..Len(log)
          /\ log[a + 1] = content[active][1] /\ log[b + 1] = content[active][1]
      BY <1>3, <1>4, <3>1, <3>2 DEF Run
    <3>5. a + 1 = b + 1
      BY <1>2, <3>4, OnePlace
    <3>6. a = b
      BY <3>2, <3>5
    <3>7. Run(content'[active], a, log')
      BY <1>6, <3>2, <3>3, <3>6
    <3> QED
      BY <1>1, <1>13, <2>1, <2>2, <2>3, <2>5, <3>7 DEF Joined, a
  <2> QED
    BY <2>4, <2>5
<1>18. SecondOpened'
  <2>1. reader.at \in {"second", "pair"} => reader.second # active
    BY <1>2, <1>13 DEF SecondOpened
  <2>2. reader.at \in {"second", "pair"} /\ reader.second # NoFile =>
          Records(reader.second)' # <<>>
    BY <1>1, <1>2, <1>13, <2>1 DEF SecondOpened
  <2>3. /\ reader.at = "second" /\ Real(reader.head) /\ reader.first = active =>
             Joined(reader.second, reader.first)'
        /\ reader.at = "pair" /\ Real(reader.head) => Joined(reader.second, reader.first)'
    BY <1>2, <1>17, <2>1 DEF SecondOpened
  <2> QED
    BY <1>1, <2>1, <2>2, <2>3 DEF SecondOpened
<1>19. \E p \in Nat : Run(read', p, log')
  BY <1>1, <1>2, <1>5 DEF IInv, FilesInv
<1> QED
  BY <1>7, <1>10, <1>12, <1>14, <1>16, <1>18, <1>19 DEF FilesInv
-----------------------------------------------------------------------------
(***************************************************************************)
(* The invariant and what follows from it.                                 *)
(***************************************************************************)
LEMMA Initially == Init => IInv
<1> SUFFICES ASSUME Init PROVE IInv
  OBVIOUS
<1>1. /\ \A S : <<>> \in Seq(S) /\ Len(<<>>) = 0
      /\ Ready.at = "ready" /\ Closed.at = "closed" /\ NoFile \notin Files
      /\ Records(NoFile) = <<>>
  BY DEF Ready, Closed, Files, NoFile, Records
<1>2. DaemonTypes
  <2>0. up \in BOOLEAN /\ whole \in BOOLEAN
    BY DEF Init
  <2>1. /\ start \in 0..MaxStarts /\ emitted \in 0..MaxEvents
        /\ counted \in Nat /\ lagged \in Nat /\ sequence \in 0..MaxSeq
    BY SizesArePositive DEF Init
  <2>2. /\ channel \in Seq(1..MaxEvents) /\ Len(channel) <= Capacity
        /\ window \in Seq(1..MaxSeq) /\ Len(window) <= Retain
    BY <1>1, SizesArePositive DEF Init
  <2>3. poller \in [start : 0..MaxStarts, after : 0..MaxSeq]
    BY SizesArePositive DEF Init
  <2> QED
    BY <2>0, <2>1, <2>2, <2>3 DEF DaemonTypes
<1>3. FileTypes
  <2>1. /\ Ready \in [at : {"ready", "remove", "rename", "write"}, start : 0..MaxStarts,
                      seq : 0..MaxSeq]
        /\ Closed \in [at : {"closed", "first", "second", "pair"}, first : Files \cup {NoFile},
                       head : Entry \cup {NoRecord, Empty}, second : Files \cup {NoFile},
                       tries : 0..(Tries - 1)]
    BY SizesArePositive DEF Ready, Closed
  <2> QED
    BY <1>1, <2>1, SizesArePositive DEF Init, FileTypes
<1>4. EventsAccounted /\ PollsAreWhole /\ Appending /\ Windowed /\ Past
  BY <1>1 DEF Init, EventsAccounted, PollsAreWhole, Appending, Windowed, Past
<1>5. Ordered /\ Apart /\ Opened /\ SecondOpened
  BY <1>1 DEF Init, Ordered, Apart, Opened, SecondOpened
<1>6. Run(<<>>, 0, log)
  BY <1>1 DEF Init, Run
<1>7. Logged /\ \E p \in Nat : Run(read, p, log)
  BY <1>6 DEF Init, Logged
<1>8. Layout
  <2>1. Run(Records(archived), 0, log) /\ Run(Records(active), 0 + 0, log)
        /\ Len(Records(archived)) = 0 /\ Len(Records(active)) = 0 /\ Len(log) = 0
        /\ 0 + 0 + 0 = 0
    BY <1>1, <1>6 DEF Init
  <2> QED
    BY <2>1 DEF Init, Layout
<1> QED
  BY <1>2, <1>3, <1>4, <1>5, <1>7, <1>8 DEF IInv, FilesInv

LEMMA FilesSteps == IInv /\ [Next]_vars => FilesInv'
<1> SUFFICES ASSUME IInv, [Next]_vars PROVE FilesInv'
  OBVIOUS
<1>1. CASE Emit \/ Daemon \/ AppendFails \/ Poll \/ UNCHANGED vars
  <2>1. UNCHANGED <<active, archived, content, log, reader, read>>
    BY <1>1 DEF Emit, Daemon, Start, Crash, Receive, RecordChange, AppendFails, Poll, vars,
       files, follower
  <2> QED
    BY <2>1, FilesStay
<1> QED
  BY <1>1, ReaderSteps, ReadPairSteps, RotationSteps, WriteSteps DEF Next, Appends, Reads

LEMMA Step == IInv /\ [Next]_vars => IInv'
BY MemorySteps, FileTypesStep, AppendingSteps, FilesSteps DEF IInv

\* The types of the daemon and the files, what is counted, and where every record is:
\* the files that are named end the log, and each file is a run of it.
THEOREM Invariant == Spec => []IInv
<1> QED
  BY Initially, Step, PTL DEF Spec

\* No event of the engine is lost without a record that counts it, for any capacity of
\* the channel and however the daemon falls behind (run_inner).
THEOREM EventsAreAccounted == Spec => []EventsAccounted
<1>1. IInv => EventsAccounted
  BY DEF IInv
<1> QED
  BY <1>1, Invariant, PTL

\* A client that polls on from each answer misses no event without being told, for any
\* window and any size of a page (EventJournal::since).
THEOREM PollsWhole == Spec => []PollsAreWhole
<1>1. IInv => PollsAreWhole
  BY DEF IInv
<1> QED
  BY <1>1, Invariant, PTL

\* What one read of the two files returns is a run of consecutive records, wherever the
\* daemon rotates, crashes or fails to write meanwhile (read_history).
THEOREM ReadsConsecutive == Spec => []ReadsAreConsecutive
<1>1. IInv => ReadsAreConsecutive
  <2> SUFFICES ASSUME IInv PROVE ReadsAreConsecutive
    OBVIOUS
  <2>1. PICK p \in Nat : Run(read, p, log)
    BY DEF IInv, FilesInv
  <2>2. /\ read \in Seq(Entry) /\ log \in Seq(Entry)
        /\ Len(read) \in Nat /\ Len(log) \in Nat
    BY LenProperties DEF IInv, FileTypes
  <2> DEFINE from == p + 1
             last == from + Len(read) - 1
  <2>3. from \in 1..(Len(log) - Len(read) + 1) /\ last = p + Len(read)
    BY <2>1, <2>2 DEF Run
  <2>4. read = SubSeq(log, from, last)
    <3>1. CASE read = <<>>
      <4>1. last < from /\ from \in Int /\ last \in Int
        BY <2>2, <2>3, <3>1
      <4> QED
        BY <3>1, <4>1, SubSeqEmpty
    <3>2. CASE read # <<>>
      <4>1. from \in Int /\ last \in Int /\ from <= last /\ last - from + 1 = Len(read)
        BY <2>2, <2>3, <3>2, EmptySeq
      <4>2. \A i \in from..last : i \in 1..Len(log)
        BY <2>1, <2>2, <2>3 DEF Run
      <4>3. \A i \in from..last : log[i] \in Entry
        BY <2>2, <4>2, ElementOfSeq
      <4>4. /\ SubSeq(log, from, last) \in Seq(Entry)
            /\ Len(SubSeq(log, from, last)) = Len(read)
            /\ \A i \in 1..Len(read) : SubSeq(log, from, last)[i] = log[from + i - 1]
        BY <4>1, <4>3, SubSeqProperties
      <4>5. \A i \in 1..Len(read) : read[i] = SubSeq(log, from, last)[i]
        <5>1. \A i \in 1..Len(read) : from + i - 1 = p + i
          BY <2>1, <2>2
        <5> QED
          BY <2>1, <4>4, <5>1 DEF Run
      <4> HIDE DEF from, last
      <4> QED
        BY <2>2, <4>4, <4>5, SeqEqual
    <3> QED
      BY <3>1, <3>2
  <2> QED
    BY <2>3, <2>4 DEF ReadsAreConsecutive
<1> QED
  BY <1>1, Invariant, PTL
-----------------------------------------------------------------------------
(***************************************************************************)
(* The follower.  What one read does to its state is defined by recursion  *)
(* on the entries; that there is such a function, and what it preserves,   *)
(* is shown for the first entry where it would fail.                       *)
(***************************************************************************)
\* What a follower was given leaves no gap it was not told of, up to its cursor too.
Whole(state) ==
  /\ state.cursor \in [1..MaxStarts -> 0..MaxSeq]
  /\ state.seen \subseteq Entry /\ state.told \subseteq 1..MaxStarts
  /\ \A e \in state.seen : \A n \in 1..e.seq :
       [start |-> e.start, seq |-> n] \in state.seen \/ e.start \in state.told
  /\ \A i \in 1..MaxStarts : \A n \in 1..state.cursor[i] :
       [start |-> i, seq |-> n] \in state.seen \/ i \in state.told
Followed == Whole([cursor |-> cursor, seen |-> seen, told |-> told])

LEMMA TakeNewFits ==
  ASSUME NEW state, Whole(state), NEW entry \in Entry
  PROVE  Whole(TakeNew(state, entry))
<1> DEFINE last == state.cursor[entry.start]
           new == TakeNew(state, entry)
<1>1. CASE entry.seq <= last
  <2>1. new = state
    BY <1>1 DEF TakeNew
  <2> QED
    BY <2>1
<1>2. CASE ~(entry.seq <= last)
  <2>1. /\ entry.start \in 1..MaxStarts /\ entry.seq \in 1..MaxSeq /\ last \in 0..MaxSeq
        /\ MaxSeq \in Nat /\ entry = [start |-> entry.start, seq |-> entry.seq]
    BY BoundsAssumption DEF Entry, Whole
  <2>2. /\ new.cursor = [state.cursor EXCEPT ![entry.start] = entry.seq]
        /\ new.seen = state.seen \cup {entry}
        /\ new.told = IF entry.seq > last + 1 THEN state.told \cup {entry.start} ELSE state.told
    BY <1>2 DEF TakeNew
  <2> HIDE DEF new
  <2>3. /\ new.cursor \in [1..MaxStarts -> 0..MaxSeq]
        /\ new.seen \subseteq Entry /\ new.told \subseteq 1..MaxStarts
    <3>1. entry.seq \in 0..MaxSeq
      BY <2>1
    <3> QED
      BY <2>1, <2>2, <3>1 DEF Whole
  <2>4. \A n \in 1..entry.seq :
          [start |-> entry.start, seq |-> n] \in new.seen \/ entry.start \in new.told
    <3> SUFFICES ASSUME NEW n \in 1..entry.seq, entry.start \notin new.told
                 PROVE  [start |-> entry.start, seq |-> n] \in new.seen
      OBVIOUS
    <3>1. entry.seq = last + 1 /\ entry.start \notin state.told
      BY <1>2, <2>1, <2>2
    <3>2. CASE n = entry.seq
      BY <2>1, <2>2, <3>2
    <3>3. CASE n # entry.seq
      <4>1. n \in 1..last
        BY <2>1, <3>1, <3>3
      <4> QED
        BY <2>1, <2>2, <3>1, <4>1 DEF Whole
    <3> QED
      BY <3>2, <3>3
  <2>5. \A e \in new.seen : \A n \in 1..e.seq :
          [start |-> e.start, seq |-> n] \in new.seen \/ e.start \in new.told
    BY <2>2, <2>4 DEF Whole
  <2>6. ASSUME NEW i \in 1..MaxStarts, NEW n \in 1..new.cursor[i]
        PROVE  [start |-> i, seq |-> n] \in new.seen \/ i \in new.told
    <3>1. CASE i = entry.start
      <4>1. new.cursor[i] = entry.seq
        BY <2>1, <2>2, <3>1 DEF Whole
      <4> QED
        BY <2>4, <3>1, <4>1
    <3>2. CASE i # entry.start
      <4>1. new.cursor[i] = state.cursor[i]
        BY <2>1, <2>2, <3>2 DEF Whole
      <4> QED
        BY <2>2, <4>1 DEF Whole
    <3> QED
      BY <3>1, <3>2
  <2> QED
    BY <2>3, <2>5, <2>6 DEF Whole, new
<1> QED
  BY <1>1, <1>2

\* The states of a follower that starts in base, entry by entry up to the n-th.
Takes(f, base, entries, n) ==
  f = [k \in 0..n |-> IF k = 0 THEN base ELSE TakeNew(f[k - 1], entries[k])]

LEMMA LeastExists ==
  ASSUME NEW S \in SUBSET Nat, S # {}
  PROVE  \E i \in S : \A j \in S : i <= j
<1>1. \A i, j \in S : <<j, i>> \in OpToRel(<, Nat) <=> j < i
  BY DEF OpToRel
<1>2. \E R : IsWellFoundedOn(R, Nat) /\ \A i, j \in S : <<j, i>> \in R <=> j < i
  BY NatLessThanWellFounded, <1>1
<1>3. \E i \in S : \A j \in S : ~(j < i)
  BY <1>2, WFMin
<1> QED
  BY <1>3

LEMMA TakesExist ==
  ASSUME NEW base, NEW entries, NEW n \in Nat
  PROVE  \E f : Takes(f, base, entries, n)
<1> DEFINE Bad == {m \in Nat : ~ \E f : Takes(f, base, entries, m)}
<1>1. ASSUME Bad # {}
      PROVE  FALSE
  <2>1. PICK m \in Bad : \A l \in Bad : m <= l
    BY <1>1, LeastExists
  <2>2. CASE m = 0
    <3>1. Takes([k \in 0..0 |-> base], base, entries, 0)
      BY DEF Takes
    <3> QED
      BY <2>1, <2>2, <3>1
  <2>3. CASE m # 0
    <3>1. m - 1 \in Nat /\ m \in Nat /\ ~(m <= m - 1)
      BY <2>1, <2>3
    <3>2. PICK g : Takes(g, base, entries, m - 1)
      BY <2>1, <3>1
    <3> DEFINE f == [k \in 0..m |-> IF k = m THEN TakeNew(g[m - 1], entries[m]) ELSE g[k]]
    <3>3. ASSUME NEW k \in 0..m
          PROVE  f[k] = IF k = 0 THEN base ELSE TakeNew(f[k - 1], entries[k])
      <4>1. CASE k = m
        <5>1. f[k] = TakeNew(g[m - 1], entries[m]) /\ f[m - 1] = g[m - 1]
          BY <3>1, <4>1
        <5> QED
          BY <2>3, <4>1, <5>1
      <4>2. CASE k # m
        <5>1. k \in 0..(m - 1) /\ f[k] = g[k] /\ (k # 0 => f[k - 1] = g[k - 1])
          BY <3>1, <4>2
        <5>2. g[k] = IF k = 0 THEN base ELSE TakeNew(g[k - 1], entries[k])
          BY <3>2, <5>1 DEF Takes
        <5> QED
          BY <5>1, <5>2
      <4> QED
        BY <4>1, <4>2
    <3>4. f = [k \in 0..m |-> f[k]]
      OBVIOUS
    <3> HIDE DEF f
    <3>5. Takes(f, base, entries, m)
      BY <3>3, <3>4 DEF Takes
    <3> QED
      BY <2>1, <3>5
  <2> QED
    BY <2>2, <2>3
<1> QED
  BY <1>1

LEMMA TakesFit ==
  ASSUME NEW entries \in Seq(Entry), NEW base, Whole(base), NEW f,
         Takes(f, base, entries, Len(entries))
  PROVE  Whole(f[Len(entries)])
<1> DEFINE Bad == {m \in Nat : m <= Len(entries) /\ ~Whole(f[m])}
<1>0. Len(entries) \in Nat /\ \A k \in 1..Len(entries) : entries[k] \in Entry
  BY LenProperties, ElementOfSeq
<1>1. ASSUME Bad # {}
      PROVE  FALSE
  <2>1. PICK m \in Bad : \A l \in Bad : m <= l
    BY <1>1, LeastExists
  <2>2. m \in 0..Len(entries)
    BY <1>0, <2>1
  <2>3. CASE m = 0
    BY <2>1, <2>2, <2>3 DEF Takes
  <2>4. CASE m # 0
    <3>1. m - 1 \in Nat /\ m - 1 <= Len(entries) /\ ~(m <= m - 1) /\ m \in 1..Len(entries)
      BY <1>0, <2>2, <2>4
    <3>2. Whole(f[m - 1])
      BY <2>1, <3>1
    <3>3. f[m] = TakeNew(f[m - 1], entries[m])
      BY <2>2, <2>4 DEF Takes
    <3> QED
      BY <1>0, <2>1, <3>1, <3>2, <3>3, TakeNewFits
  <2> QED
    BY <2>3, <2>4
<1> QED
  BY <1>0, <1>1

LEMMA TakenFits ==
  ASSUME NEW entries \in Seq(Entry), Followed
  PROVE  Whole(Taken(entries))
<1> DEFINE base == [cursor |-> cursor, seen |-> seen, told |-> told]
           f == CHOOSE f : Takes(f, base, entries, Len(entries))
<1>1. Len(entries) \in Nat
  BY LenProperties
<1>2. \E g : Takes(g, base, entries, Len(entries))
  BY <1>1, TakesExist
<1>3. Takes(f, base, entries, Len(entries))
  BY <1>2
<1>4. Taken(entries) = f[Len(entries)]
  BY DEF Taken, Takes
<1> QED
  BY <1>3, <1>4, TakesFit DEF Followed

LEMMA FollowedSteps == IInv /\ Followed /\ [Next]_vars => Followed'
<1> SUFFICES ASSUME IInv, Followed, [Next]_vars
             PROVE  Followed'
  OBVIOUS
<1>1. CASE ReadPair
  <2>1. Entries \in Seq(Entry)
    BY <1>1, ReadPairFacts DEF IInv
  <2>2. Whole(Taken(Entries))
    BY <2>1, TakenFits
  <2>3. /\ seen' = Taken(Entries).seen /\ told' = Taken(Entries).told
        /\ cursor' = Forget(Taken(Entries).cursor, Entries)
    BY <1>1 DEF ReadPair, Entries
  <2> DEFINE state == Taken(Entries)
  <2> HIDE DEF state
  <2>4. \A i \in 1..MaxStarts : cursor'[i] = state.cursor[i] \/ cursor'[i] = 0
    BY <2>3 DEF Forget, state
  <2>5. cursor' \in [1..MaxStarts -> 0..MaxSeq]
    <3>1. 0 \in 0..MaxSeq /\ state.cursor \in [1..MaxStarts -> 0..MaxSeq]
      BY <2>2, BoundsAssumption DEF Whole, state
    <3> QED
      BY <2>3, <3>1 DEF Forget, state
  <2> QED
    BY <2>2, <2>3, <2>4, <2>5 DEF Whole, Followed, state
<1>2. CASE ~ReadPair
  <2>1. UNCHANGED <<cursor, seen, told>>
    BY <1>2 DEF Next, Emit, Daemon, Appends, Reads, Start, Crash, Receive, RecordChange, Unlink,
       Rename, Create, Write, AppendFails, OpenActive, OpenArchived, CheckPair, Poll, vars,
       follower
  <2> QED
    BY <2>1 DEF Followed
<1> QED
  BY <1>1, <1>2

LEMMA FollowedInvariant == Spec => []Followed
<1>1. Init => Followed
  BY BoundsAssumption DEF Init, Followed, Whole
<1> QED
  BY <1>1, FollowedSteps, Invariant, PTL DEF Spec

\* The state of daemon, files, reader, follower and client keeps its types, and what is kept
\* keeps its bounds, through every rotation, crash and failure to write.
THEOREM JournalTypeCorrect == Spec => []TypeOK
<1>1. IInv /\ Followed => TypeOK
  BY DEF IInv, Followed, Whole, TypeOK
<1> QED
  BY <1>1, Invariant, FollowedInvariant, PTL

\* Between two records of one daemon a follower was given it was given every record, or told that
\* some are missing, whatever the files lost between two of its reads (HistoryCursor::take_new).
THEOREM FollowerIsTold == Spec => []GapsAreTold
<1>1. Followed => GapsAreTold
  BY DEF Followed, Whole, GapsAreTold
<1> QED
  BY <1>1, FollowedInvariant, PTL
=============================================================================
