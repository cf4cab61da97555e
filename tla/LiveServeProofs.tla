-------------------------- MODULE LiveServeProofs ---------------------------
(***************************************************************************)
(* Proofs about LiveServe, for every size of the writer's buffer and every *)
(* number of packets: whatever the order of packets, ticks, Ctrl-C, a full *)
(* disk and a kill.                                                        *)
(***************************************************************************)
EXTENDS LiveServe, TLAPS

TypeOK ==
  /\ wire \in Nat /\ delivered \in Nat
  /\ gone \in BOOLEAN /\ full \in BOOLEAN /\ due \in BOOLEAN
  /\ worker \in {"check", "read", "write", "tick", "publish", "drain", "last",
                 "mark", "drop", "done"}
  /\ written \in 0 .. RecordWrites /\ packets \in Nat
  /\ buffered \in Nat /\ disk \in Nat /\ refused \in BOOLEAN
  /\ published \in [packets : Nat, running : BOOLEAN]
  /\ main \in {"serving", "closing", "joining", "exited"}
  /\ shutdown \in BOOLEAN /\ alive \in BOOLEAN

\* Between a flush and the next packet the file is whole, unless the disk
\* refused: this is what lets the capture thread publish.
FlushedBeforePublished ==
  (worker \in {"publish", "last", "mark", "drop", "done"} /\ ~refused) =>
    disk = Chunks(packets) + written

\* Nobody is told of a packet before it is analysed; and what the capture
\* thread has told the viewers once its loop is over.
LastWord ==
  /\ published.packets <= packets
  /\ worker \in {"mark", "drop", "done"} => published.packets = packets
  /\ worker \in {"drop", "done"} => ~published.running
  /\ main = "exited" => worker = "done"

LiveInv ==
  /\ TypeOK
  /\ FileHoldsEveryPacket
  /\ PublishedIsOnDisk
  /\ FlushedBeforePublished
  /\ LastWord

-----------------------------------------------------------------------------
(* The writer.                                                             *)

\* A packet is RecordWrites chunks.
LEMMA ChunksAdd ==
  ASSUME NEW n \in Nat
  PROVE  /\ Chunks(n) \in Nat
         /\ Chunks(n + 1) = Chunks(n) + RecordWrites
  BY LiveAssumption DEF Chunks

\* More packets are no fewer chunks.
LEMMA ChunksGrow ==
  ASSUME NEW m \in Nat, NEW n \in Nat, m <= n
  PROVE  Chunks(m) <= Chunks(n)
<1>1. PICK d \in Nat : n = m + d
  <2>1. n - m \in Nat /\ n = m + (n - m)
    OBVIOUS
  <2>. QED BY <2>1
<1>2. RecordWrites \in Nat
  BY LiveAssumption
<1>3. RecordWrites * n = RecordWrites * m + RecordWrites * d
  BY <1>1, <1>2
<1>4. /\ RecordWrites * n \in Nat /\ RecordWrites * m \in Nat
      /\ RecordWrites * d \in Nat
  BY <1>1, <1>2
<1>. QED BY <1>3, <1>4 DEF Chunks

\* Nothing is lost on the way from the buffer to the file.
Moved(taken) ==
  /\ disk' \in Nat /\ buffered' \in Nat /\ refused' \in BOOLEAN
  /\ disk' + buffered' = disk + buffered + taken
  /\ disk <= disk'
  /\ refused' = refused \/ refused' = TRUE \/ disk + buffered <= disk'

LEMMA PushOutMoves ==
  ASSUME TypeOK, NEW n \in 0 .. buffered, PushOut(n)
  PROVE  /\ Moved(0)
         /\ ~refused' => disk' = disk + buffered
<1>1. /\ disk \in Nat /\ buffered \in Nat /\ n \in Nat /\ n <= buffered
      /\ disk' = disk + n /\ buffered' = buffered - n
      /\ refused' = (n < buffered)
  BY DEF TypeOK, PushOut
<1>2. /\ disk' \in Nat /\ buffered' \in Nat
      /\ disk' + buffered' = disk + buffered + 0
      /\ disk <= disk'
  BY <1>1
<1>3. CASE n < buffered
  <2>1. refused' = TRUE
    BY <1>1, <1>3, Zenon
  <2>. QED BY <1>2, <2>1 DEF Moved
<1>4. CASE ~(n < buffered)
  <2>1. n = buffered
    BY <1>1, <1>4
  <2>2. refused' = FALSE
    <3>1. (n < buffered) = FALSE
      BY <1>4
    <3>. QED BY <1>1, <3>1, Zenon
  <2>3. disk' = disk + buffered
    BY <1>1, <2>1
  <2>4. disk + buffered <= disk'
    BY <1>1, <2>3
  <2>. QED BY <1>2, <2>2, <2>3, <2>4 DEF Moved
<1>. QED BY <1>3, <1>4

\* A flush the disk did not refuse empties the buffer into the file.
LEMMA FlushMoves ==
  ASSUME TypeOK, Flush
  PROVE  /\ Moved(0)
         /\ ~refused' => disk' = disk + buffered
<1>1. PICK n \in 0 .. buffered : PushOut(n)
  BY DEF Flush
<1>. QED BY <1>1, PushOutMoves

\* One chunk more, in the buffer or on the disk.
LEMMA PutMoves ==
  ASSUME TypeOK, Put
  PROVE  Moved(1)
<1>1. disk \in Nat /\ buffered \in Nat /\ refused \in BOOLEAN
  BY DEF TypeOK
<1>2. CASE buffered' = buffered + 1 /\ UNCHANGED <<disk, refused>>
  <2>1. /\ disk' \in Nat /\ buffered' \in Nat /\ disk <= disk'
        /\ disk' + buffered' = disk + buffered + 1
    BY <1>1, <1>2
  <2>2. refused' = refused /\ refused' \in BOOLEAN
    BY <1>1, <1>2, Zenon
  <2>. QED BY <2>1, <2>2, Zenon DEF Moved
<1>3. CASE disk' = disk + buffered /\ buffered' = 1 /\ refused' = FALSE
  <2>1. /\ disk' \in Nat /\ buffered' \in Nat /\ disk <= disk'
        /\ disk' + buffered' = disk + buffered + 1
        /\ disk + buffered <= disk'
    BY <1>1, <1>3
  <2>. QED BY <1>3, <2>1, Zenon DEF Moved
<1>. QED BY <1>2, <1>3 DEF Put

\* What was on the disk for the viewers is still there, or is there now.
LEMMA StillOnDisk ==
  ASSUME LiveInv, alive, NEW taken \in Nat, Moved(taken), UNCHANGED published
  PROVE  PublishedIsOnDisk'
<1>1. /\ disk \in Nat /\ buffered \in Nat /\ written \in Nat /\ packets \in Nat
      /\ published.packets \in Nat /\ published.packets <= packets
  BY DEF LiveInv, TypeOK, LastWord
<1>2. disk + buffered = Chunks(packets) + written
  BY DEF LiveInv, FileHoldsEveryPacket
<1>3. /\ Chunks(published.packets) \in Nat /\ Chunks(packets) \in Nat
      /\ Chunks(published.packets) <= Chunks(packets)
  BY <1>1, ChunksAdd, ChunksGrow
<1>4. Chunks(published'.packets) = Chunks(published.packets)
  OBVIOUS
<1>5. CASE refused' = TRUE
  BY <1>5 DEF PublishedIsOnDisk
<1>6. CASE refused' = refused
  <2>1. disk' \in Nat /\ disk <= disk'
    BY DEF Moved
  <2>2. CASE refused
    BY <1>6, <2>2 DEF PublishedIsOnDisk
  <2>3. CASE published.packets = 0
    BY <2>3 DEF PublishedIsOnDisk
  <2>4. CASE Chunks(published.packets) <= disk
    <3>1. Chunks(published'.packets) <= disk'
      BY <1>1, <1>3, <1>4, <2>1, <2>4
    <3>. QED BY <3>1 DEF PublishedIsOnDisk
  <2>. QED BY <2>2, <2>3, <2>4 DEF LiveInv, PublishedIsOnDisk
<1>7. CASE disk + buffered <= disk'
  <2>1. disk' \in Nat
    BY DEF Moved
  <2>2. Chunks(published'.packets) <= disk'
    BY <1>1, <1>2, <1>3, <1>4, <1>7, <2>1
  <2>. QED BY <2>2 DEF PublishedIsOnDisk
<1>. QED BY <1>5, <1>6, <1>7 DEF Moved

-----------------------------------------------------------------------------
(* The steps.                                                              *)

LEMMA InitLive == Init => LiveInv
<1> SUFFICES ASSUME Init
             PROVE  LiveInv
  OBVIOUS
<1>1. TypeOK
  <2>1. /\ wire \in Nat /\ delivered \in Nat
        /\ packets \in Nat /\ buffered \in Nat /\ disk \in Nat
        /\ published \in [packets : Nat, running : BOOLEAN]
        /\ written \in 0 .. RecordWrites
    BY LiveAssumption DEF Init
  <2>2. /\ gone \in BOOLEAN /\ full \in BOOLEAN /\ due \in BOOLEAN
        /\ refused \in BOOLEAN /\ shutdown \in BOOLEAN /\ alive \in BOOLEAN
    BY Zenon DEF Init
  <2>. QED BY <2>1, <2>2 DEF Init, TypeOK
<1>2. FileHoldsEveryPacket
  <2>1. Chunks(0) = 1
    BY LiveAssumption DEF Chunks
  <2>. QED BY <2>1 DEF Init, FileHoldsEveryPacket
<1>3. PublishedIsOnDisk
  BY DEF Init, PublishedIsOnDisk
<1>4. FlushedBeforePublished /\ LastWord
  BY DEF Init, FlushedBeforePublished, LastWord
<1>. QED BY <1>1, <1>2, <1>3, <1>4 DEF LiveInv

LEMMA NextLive == LiveInv /\ [Next]_vars => LiveInv'
<1> SUFFICES ASSUME LiveInv, [Next]_vars
             PROVE  LiveInv'
  OBVIOUS
<1>0. /\ TypeOK /\ FileHoldsEveryPacket /\ PublishedIsOnDisk
      /\ FlushedBeforePublished /\ LastWord
  BY DEF LiveInv
<1>1. CASE UNCHANGED vars
  BY <1>0, <1>1 DEF vars, environment, file, TypeOK, FileHoldsEveryPacket,
              PublishedIsOnDisk, FlushedBeforePublished, LastWord, LiveInv
\* The environment leaves the file, the counters and the threads alone.
<1>2. CASE Arrive \/ InterfaceEnds \/ RefreshElapses \/ DiskChanges
  <2>1. UNCHANGED <<worker, written, packets, buffered, disk, refused, published,
                    main, shutdown, alive>>
    BY <1>2 DEF Arrive, InterfaceEnds, RefreshElapses, DiskChanges, environment, file
  <2>2. /\ wire' \in Nat /\ delivered' \in Nat
        /\ gone' \in BOOLEAN /\ due' \in BOOLEAN /\ full' \in BOOLEAN
    <3>1. CASE Arrive
      BY <1>0, <3>1 DEF Arrive, TypeOK
    <3>2. CASE InterfaceEnds
      BY <1>0, <3>2 DEF InterfaceEnds, TypeOK
    <3>3. CASE RefreshElapses
      BY <1>0, <3>3 DEF RefreshElapses, environment, TypeOK
    <3>4. CASE DiskChanges
      BY <1>0, <3>4 DEF DiskChanges, TypeOK
    <3>. QED BY <1>2, <3>1, <3>2, <3>3, <3>4
  <2>. QED BY <1>0, <2>1, <2>2
           DEF TypeOK, FileHoldsEveryPacket, PublishedIsOnDisk,
               FlushedBeforePublished, LastWord, LiveInv
\* Nor do the steps that only decide what comes next.
<1>3. CASE CheckShutdown \/ ReadPacket \/ ReadMore \/ ReadEnds \/ NotDue
  <2>1. /\ alive /\ worker \in {"check", "read", "tick"}
        /\ worker' \in {"check", "read", "write", "tick", "drain"}
        /\ UNCHANGED <<full, written, packets, buffered, disk, refused,
                       published, main, shutdown, alive>>
    BY <1>3 DEF CheckShutdown, ReadPacket, ReadMore, ReadEnds, NotDue, Goto,
                environment, file
  <2>2. wire' \in Nat /\ delivered' \in Nat /\ gone' \in BOOLEAN /\ due' \in BOOLEAN
    <3>1. CASE ReadPacket
      BY <1>0, <3>1 DEF ReadPacket, TypeOK
    <3>2. CASE CheckShutdown \/ ReadMore \/ ReadEnds \/ NotDue
      BY <1>0, <3>2 DEF CheckShutdown, ReadMore, ReadEnds, NotDue, environment, TypeOK
    <3>. QED BY <1>3, <3>1, <3>2
  <2>. QED BY <1>0, <2>1, <2>2
           DEF TypeOK, FileHoldsEveryPacket, PublishedIsOnDisk,
               FlushedBeforePublished, LastWord, LiveInv
\* A chunk of a record, taken or refused: what the file and the buffer hold
\* together grows by what was taken.
<1>4. CASE WriteChunk
  <2>1. Moved(1)
    BY <1>0, <1>4, PutMoves DEF WriteChunk
  <2>2. /\ alive /\ worker = "write" /\ worker' = "write"
        /\ written < RecordWrites /\ written' = written + 1
        /\ UNCHANGED <<wire, delivered, gone, full, due, packets, published, main,
                       shutdown, alive>>
    BY <1>4 DEF WriteChunk, Goto, environment
  <2>3. TypeOK'
    <3>1. written' \in 0 .. RecordWrites
      BY <1>0, <2>2, LiveAssumption DEF TypeOK
    <3>. QED BY <1>0, <2>1, <2>2, <3>1 DEF TypeOK, Moved
  <2>4. FileHoldsEveryPacket'
    <3>1. /\ disk + buffered = Chunks(packets) + written
          /\ disk' + buffered' = disk + buffered + 1
          /\ Chunks(packets) \in Nat /\ written \in Nat
      <4>1. disk + buffered = Chunks(packets) + written
        BY <1>0, <2>2, Zenon DEF FileHoldsEveryPacket
      <4>2. disk' + buffered' = disk + buffered + 1
        BY <2>1, Zenon DEF Moved
      <4>3. packets \in Nat /\ written \in Nat
        BY <1>0 DEF TypeOK
      <4>. QED BY <4>1, <4>2, <4>3, ChunksAdd
    <3>2. disk' + buffered' = Chunks(packets) + (written + 1)
      BY <3>1
    <3>. QED BY <2>2, <3>2 DEF FileHoldsEveryPacket
  <2>5. PublishedIsOnDisk'
    BY <2>1, <2>2, StillOnDisk
  <2>6. FlushedBeforePublished' /\ LastWord'
    BY <1>0, <2>2 DEF FlushedBeforePublished, LastWord
  <2>. QED BY <2>3, <2>4, <2>5, <2>6 DEF LiveInv
<1>5. CASE WriteFails \/ FlushOnTick \/ FinalFlush \/ DropWriter
  <2>1. Moved(0)
    <3>1. CASE WriteFails
      <4>1. PICK n \in 0 .. buffered - 1 : PushOut(n)
        BY <3>1 DEF WriteFails
      <4>2. n \in 0 .. buffered
        BY <1>0 DEF TypeOK
      <4>. QED BY <1>0, <4>1, <4>2, PushOutMoves
    <3>2. CASE FlushOnTick \/ FinalFlush \/ DropWriter
      BY <1>0, <3>2, FlushMoves DEF FlushOnTick, FinalFlush, DropWriter
    <3>. QED BY <1>5, <3>1, <3>2
  <2>2. /\ alive /\ due' \in BOOLEAN
        /\ UNCHANGED <<wire, delivered, gone, full, written, packets, published,
                       main, shutdown, alive>>
    BY <1>0, <1>5 DEF WriteFails, FlushOnTick, FinalFlush, DropWriter, Goto,
                      environment, TypeOK
  <2>3. \/ worker = "write" /\ worker' = "drain" /\ WriteFails
        \/ /\ \/ worker = "tick" /\ worker' = "publish"
              \/ worker = "drain" /\ worker' = "last"
              \/ worker = "drop" /\ worker' = "done"
           /\ Flush
    BY <1>5 DEF WriteFails, FlushOnTick, FinalFlush, DropWriter, Goto
  <2>4. TypeOK'
    <3>1. worker' \in {"publish", "drain", "last", "done"}
      BY <2>3
    <3>. QED BY <1>0, <2>1, <2>2, <3>1 DEF TypeOK, Moved
  <2>5. FileHoldsEveryPacket'
    <3>1. disk' + buffered' = disk + buffered + 0
      BY <2>1, Zenon DEF Moved
    <3>2. disk \in Nat /\ buffered \in Nat
      BY <1>0 DEF TypeOK
    <3>3. disk' + buffered' = disk + buffered
      BY <3>1, <3>2
    <3>. QED BY <1>0, <2>2, <3>3 DEF FileHoldsEveryPacket
  <2>6. PublishedIsOnDisk'
    BY <2>1, <2>2, StillOnDisk
  <2>7. FlushedBeforePublished'
    <3>1. CASE worker' = "drain"
      BY <3>1 DEF FlushedBeforePublished
    <3>2. CASE Flush
      <4>1. ~refused' => disk' = disk + buffered
        BY <1>0, <3>2, FlushMoves
      <4>2. disk + buffered = Chunks(packets) + written
        BY <1>0, <2>2 DEF FileHoldsEveryPacket
      <4>. QED BY <2>2, <4>1, <4>2 DEF FlushedBeforePublished
    <3>. QED BY <2>3, <3>1, <3>2
  <2>8. LastWord'
    BY <1>0, <2>2, <2>3 DEF LastWord
  <2>. QED BY <2>4, <2>5, <2>6, <2>7, <2>8 DEF LiveInv
<1>6. CASE Analyze
  <2>1. /\ alive /\ worker = "write" /\ worker' = "tick"
        /\ written = RecordWrites /\ written' = 0 /\ packets' = packets + 1
        /\ UNCHANGED <<wire, delivered, gone, full, due, buffered, disk, refused,
                       published, main, shutdown, alive>>
    BY <1>6 DEF Analyze, Goto, environment
  <2>2. TypeOK'
    <3>1. written' \in 0 .. RecordWrites /\ packets' \in Nat
      BY <1>0, <2>1, LiveAssumption DEF TypeOK
    <3>. QED BY <1>0, <2>1, <3>1 DEF TypeOK
  <2>3. FileHoldsEveryPacket'
    <3>1. /\ disk + buffered = Chunks(packets) + RecordWrites
          /\ Chunks(packets + 1) = Chunks(packets) + RecordWrites
          /\ Chunks(packets + 1) \in Nat
      BY <1>0, <2>1, ChunksAdd DEF FileHoldsEveryPacket, TypeOK
    <3>2. disk + buffered = Chunks(packets + 1) + 0
      BY <3>1
    <3>. QED BY <2>1, <3>2 DEF FileHoldsEveryPacket
  <2>4. PublishedIsOnDisk'
    BY <1>0, <2>1 DEF PublishedIsOnDisk
  <2>5. FlushedBeforePublished' /\ LastWord'
    BY <1>0, <2>1 DEF FlushedBeforePublished, LastWord, TypeOK
  <2>. QED BY <2>2, <2>3, <2>4, <2>5 DEF LiveInv
<1>7. CASE Publish \/ FinalPublish
  <2>1. /\ published' = [packets |-> packets, running |-> TRUE]
        /\ \/ worker = "publish" /\ worker' = "check"
           \/ worker = "last" /\ worker' = "mark"
        /\ UNCHANGED <<wire, delivered, gone, full, due, written, packets, buffered,
                       disk, refused, main, shutdown, alive>>
    BY <1>7 DEF Publish, FinalPublish, Goto, environment, file
  <2>2. published'.packets = packets /\ published' \in [packets : Nat, running : BOOLEAN]
    BY <1>0, <2>1 DEF TypeOK
  <2>3. TypeOK'
    BY <1>0, <2>1, <2>2 DEF TypeOK
  <2>4. FileHoldsEveryPacket' /\ FlushedBeforePublished'
    BY <1>0, <2>1 DEF FileHoldsEveryPacket, FlushedBeforePublished
  <2>5. PublishedIsOnDisk'
    <3>1. CASE refused
      BY <2>1, <3>1 DEF PublishedIsOnDisk
    <3>2. CASE ~refused
      <4>1. disk = Chunks(packets) + written /\ Chunks(packets) \in Nat
            /\ written \in Nat
        BY <1>0, <2>1, <3>2, ChunksAdd DEF FlushedBeforePublished, TypeOK
      <4>2. Chunks(published'.packets) <= disk'
        BY <2>1, <2>2, <4>1
      <4>. QED BY <4>2 DEF PublishedIsOnDisk
    <3>. QED BY <3>1, <3>2
  <2>6. LastWord'
    BY <1>0, <2>1, <2>2 DEF LastWord, TypeOK
  <2>. QED BY <2>3, <2>4, <2>5, <2>6 DEF LiveInv
<1>8. CASE MarkFinished
  <2>1. /\ published' \in [packets : Nat, running : BOOLEAN]
        /\ published'.packets = published.packets /\ published'.running = FALSE
    BY <1>0, <1>8 DEF MarkFinished, TypeOK
  <2>2. /\ worker = "mark" /\ worker' = "drop"
        /\ UNCHANGED <<wire, delivered, gone, full, due, written, packets, buffered,
                       disk, refused, main, shutdown, alive>>
    BY <1>8 DEF MarkFinished, Goto, environment, file
  <2>3. TypeOK'
    BY <1>0, <2>1, <2>2 DEF TypeOK
  <2>4. FileHoldsEveryPacket' /\ FlushedBeforePublished' /\ PublishedIsOnDisk'
    BY <1>0, <2>1, <2>2 DEF FileHoldsEveryPacket, FlushedBeforePublished, PublishedIsOnDisk
  <2>5. LastWord'
    BY <1>0, <2>1, <2>2 DEF LastWord
  <2>. QED BY <2>3, <2>4, <2>5 DEF LiveInv
\* The main thread touches neither the file nor what was published.
<1>9. CASE CtrlC \/ ServeReturns \/ Join
  <2>1. /\ UNCHANGED <<wire, delivered, gone, full, due, worker, written, packets,
                       buffered, disk, refused, published, alive>>
        /\ shutdown' \in BOOLEAN
        /\ main' \in {"closing", "joining", "exited"}
        /\ main' = "exited" => worker = "done"
    <3>1. CASE CtrlC \/ ServeReturns
      BY <3>1 DEF CtrlC, ServeReturns, MainGoto, RaiseShutdown, environment, file
    <3>2. CASE Join
      BY <1>0, <3>2 DEF Join, MainGoto, environment, file, TypeOK
    <3>. QED BY <1>9, <3>1, <3>2
  <2>2. TypeOK'
    BY <1>0, <2>1 DEF TypeOK
  <2>3. FileHoldsEveryPacket' /\ FlushedBeforePublished' /\ PublishedIsOnDisk'
    BY <1>0, <2>1 DEF FileHoldsEveryPacket, FlushedBeforePublished, PublishedIsOnDisk
  <2>4. LastWord'
    BY <1>0, <2>1 DEF LastWord
  <2>. QED BY <2>2, <2>3, <2>4 DEF LiveInv
<1>10. CASE Kill
  <2>1. /\ buffered' = 0 /\ alive' = FALSE
        /\ UNCHANGED <<wire, delivered, gone, full, due, worker, written, packets,
                       disk, refused, published, main, shutdown>>
    BY <1>10 DEF Kill, environment
  <2>2. TypeOK'
    <3>1. buffered' \in Nat /\ alive' \in BOOLEAN
      BY <2>1
    <3>. QED BY <1>0, <2>1, <3>1, SMTT(30) DEF TypeOK
  <2>3. FileHoldsEveryPacket' /\ PublishedIsOnDisk'
    BY <1>0, <2>1 DEF FileHoldsEveryPacket, PublishedIsOnDisk
  <2>4. FlushedBeforePublished' /\ LastWord'
    BY <1>0, <2>1 DEF FlushedBeforePublished, LastWord
  <2>. QED BY <2>2, <2>3, <2>4 DEF LiveInv
<1>11. Worker => LiveInv'
  BY <1>3, <1>4, <1>5, <1>6, <1>7, <1>8 DEF Worker
<1>12. Next => LiveInv'
  BY <1>2, <1>3, <1>9, <1>10, <1>10, <1>11 DEF Next
<1>. QED BY <1>1, <1>12

\* The file, the snapshots and the threads agree after every step of every run.
THEOREM LiveInvariant == Spec => []LiveInv
  BY InitLive, NextLive, PTL DEF Spec

\* A viewer is never told of a packet that a kill could still lose, unless the
\* disk refused part of the buffer the last time it was pushed out.
THEOREM PublishedIsOnDiskHolds == Spec => []PublishedIsOnDisk
<1>1. LiveInv => PublishedIsOnDisk
  BY DEF LiveInv
<1>. QED BY <1>1, LiveInvariant, PTL

\* Across spills, flushes and failed writes the writer neither drops nor
\* doubles what it was handed, for every size of its buffer and every number of
\* pieces of a record: what is there beyond the packets analysed is the start of
\* one record.
THEOREM FileHoldsEveryPacketHolds == Spec => []FileHoldsEveryPacket
<1>1. LiveInv => FileHoldsEveryPacket
  BY DEF LiveInv
<1>. QED BY <1>1, LiveInvariant, PTL

\* An exit whose last flush succeeded leaves a file and a last snapshot of every
\* packet, in every order of Ctrl-C, the end of the interface, the last packet
\* and the last tick.
THEOREM CleanExitLosesNothingHolds == Spec => []CleanExitLosesNothing
<1>1. ASSUME LiveInv
      PROVE  CleanExitLosesNothing
  <2> SUFFICES ASSUME main = "exited", ~refused
               PROVE  /\ disk = Chunks(packets) + written
                      /\ published = [packets |-> packets, running |-> FALSE]
    BY DEF CleanExitLosesNothing
  <2>1. worker = "done" /\ published.packets = packets /\ ~published.running
    BY <1>1 DEF LiveInv, LastWord
  <2>2. disk = Chunks(packets) + written
    BY <1>1, <2>1 DEF LiveInv, FlushedBeforePublished
  <2>3. published = [packets |-> published.packets, running |-> published.running]
        /\ published.running \in BOOLEAN
    BY <1>1 DEF LiveInv, TypeOK
  <2>4. published.running = FALSE
    BY <2>1, <2>3
  <2>. QED BY <2>1, <2>2, <2>3, <2>4
<1>. QED BY <1>1, LiveInvariant, PTL
=============================================================================
