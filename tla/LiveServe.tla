----------------------------- MODULE LiveServe ------------------------------
(***************************************************************************)
(* `cbna serve --iface ... -w FILE`: the capture thread, the main thread   *)
(* with the web server, and the file being written                         *)
(* (crates/cbna/src/livecmd.rs, crates/cbna-capture/src/live.rs and        *)
(* writer.rs).  How a snapshot is published and read is Dashboard's        *)
(* subject; here publishing is one step.                                   *)
(*                                                                         *)
(* The file is counted in chunks: one for the file header, then            *)
(* RecordWrites for every packet, the pieces `write` hands to the buffered *)
(* writer one after the other, any of which may be refused.                *)
(***************************************************************************)
EXTENDS Naturals

CONSTANTS
  MaxPackets,    \* bound: packets of the interface that are counted
  BufCap,        \* chunks the BufWriter holds (1 MiB)
  RecordWrites   \* write_all calls for a record (5)

ASSUME LiveAssumption ==
  /\ MaxPackets \in Nat
  /\ BufCap \in Nat \ {0}
  /\ RecordWrites \in Nat \ {0}

VARIABLES
  wire,       \* packets delivered and not yet read
  delivered,  \* packets delivered so far
  gone,       \* the interface ended or failed
  due,        \* `refresh` has elapsed since last_publish
  full,       \* the disk takes no more for now
  refused,    \* history: the disk refused some of what was last pushed out
  worker,     \* where the capture thread is
  written,    \* chunks of the record in hand that the BufWriter took
  packets,    \* packets analysed
  buffered,   \* chunks in the BufWriter
  disk,       \* chunks in the file
  published,  \* the status served: packets and running
  main,       \* where the main thread is
  shutdown,   \* AppState.shutdown
  alive       \* the process has not been killed

environment == <<wire, delivered, gone, full>>
file        == <<written, buffered, disk, refused>>
vars == <<environment, due, worker, packets, file, published, main, shutdown,
          alive>>

\* Chunks of a file of n packets.
Chunks(n) == 1 + RecordWrites * n

-----------------------------------------------------------------------------
(* The writer.                                                             *)

\* The file took n chunks of the buffer.
PushOut(n) ==
  /\ disk' = disk + n
  /\ buffered' = buffered - n
  /\ refused' = (n < buffered)

\* A full disk takes some of the buffer, or none, and the rest stays in it.
Flush == \E n \in 0 .. buffered : (full \/ n = buffered) /\ PushOut(n)

\* BufWriter::write_all: a chunk that does not fit pushes the buffer out first.
Put ==
  \/ /\ buffered < BufCap
     /\ buffered' = buffered + 1
     /\ UNCHANGED <<disk, refused>>
  \/ /\ buffered = BufCap /\ ~full
     /\ disk' = disk + buffered
     /\ buffered' = 1
     /\ refused' = FALSE

-----------------------------------------------------------------------------
(* The interface and the machine.                                          *)

Arrive ==
  /\ ~gone /\ delivered < MaxPackets
  /\ wire' = wire + 1
  /\ delivered' = delivered + 1
  /\ UNCHANGED <<gone, full, due, worker, packets, file, published, main,
                 shutdown, alive>>

InterfaceEnds ==
  /\ ~gone
  /\ gone' = TRUE
  /\ UNCHANGED <<wire, delivered, full, due, worker, packets, file, published,
                 main, shutdown, alive>>

\* The disk fills up, or somebody makes room.
DiskChanges ==
  /\ full' = ~full
  /\ UNCHANGED <<wire, delivered, gone, due, worker, packets, file, published,
                 main, shutdown, alive>>

RefreshElapses ==
  /\ ~due
  /\ due' = TRUE
  /\ UNCHANGED <<environment, worker, packets, file, published, main, shutdown,
                 alive>>

-----------------------------------------------------------------------------
(* The capture thread.                                                     *)

Goto(here, there) == alive /\ worker = here /\ worker' = there

\* Mutant: the loop goes on whatever was asked.
CheckNothing ==
  /\ Goto("check", "read")
  /\ UNCHANGED <<environment, due, packets, file, published, main, shutdown,
                 alive>>

\* `while !capture_state.shutdown_requested()`
CheckShutdown ==
  /\ Goto("check", IF shutdown THEN "drain" ELSE "read")
  /\ UNCHANGED <<environment, due, packets, file, published, main, shutdown,
                 alive>>

\* next_packet returned a packet.  Read timeouts on a quiet interface do not
\* leave next_packet.
ReadPacket ==
  /\ Goto("read", "write")
  /\ 0 < wire
  /\ wire' = wire - 1
  /\ UNCHANGED <<delivered, gone, full, due, packets, file, published, main,
                 shutdown, alive>>

\* next_packet returned one of the packets beyond MaxPackets: the loop goes
\* round, and what the packet adds is no longer counted.
ReadMore ==
  /\ Goto("read", "tick")
  /\ wire = 0 /\ ~gone /\ delivered = MaxPackets
  /\ UNCHANGED <<environment, due, packets, file, published, main, shutdown,
                 alive>>

\* One write_all of PcapWriter::write.
WriteChunk ==
  /\ Goto("write", "write")
  /\ written < RecordWrites
  /\ Put
  /\ written' = written + 1
  /\ UNCHANGED <<environment, due, packets, published, main, shutdown, alive>>

\* Mutant: the error is ignored and the packet counted.
WriteFailsGoesOn ==
  /\ Goto("write", "tick")
  /\ written < RecordWrites /\ full /\ buffered = BufCap
  /\ \E n \in 0 .. buffered - 1 : PushOut(n)
  /\ written' = 0
  /\ packets' = packets + 1
  /\ UNCHANGED <<environment, due, published, main, shutdown, alive>>

\* The buffer had to be pushed out and the disk refused: stop capturing.  The
\* chunks of the record that were taken before stay in the buffer.
WriteFails ==
  /\ Goto("write", "drain")
  /\ written < RecordWrites /\ full /\ buffered = BufCap
  /\ \E n \in 0 .. buffered - 1 : PushOut(n)
  /\ UNCHANGED <<environment, due, written, packets, published, main, shutdown,
                 alive>>

\* The record is written and the packet goes to the analyzer.
Analyze ==
  /\ Goto("write", "tick")
  /\ written = RecordWrites
  /\ written' = 0
  /\ packets' = packets + 1
  /\ UNCHANGED <<environment, due, buffered, disk, refused, published, main,
                 shutdown, alive>>

\* next_packet returned None or an error.
ReadEnds ==
  /\ Goto("read", "drain")
  /\ wire = 0 /\ gone
  /\ UNCHANGED <<environment, due, packets, file, published, main, shutdown,
                 alive>>

NotDue ==
  /\ Goto("tick", "check")
  /\ ~due
  /\ UNCHANGED <<environment, due, packets, file, published, main, shutdown,
                 alive>>

\* Mutant: the tick publishes without flushing.
TickWithoutFlush ==
  /\ Goto("tick", "publish")
  /\ due
  /\ due' = FALSE
  /\ UNCHANGED <<environment, packets, file, published, main, shutdown, alive>>

\* The refresh tick restarts the clock and flushes ...
FlushOnTick ==
  /\ Goto("tick", "publish")
  /\ due
  /\ due' = FALSE
  /\ Flush
  /\ UNCHANGED <<environment, written, packets, published, main, shutdown, alive>>

\* Mutant: the snapshot is made and not published.
PublishNever ==
  /\ Goto("publish", "check")
  /\ UNCHANGED <<environment, due, packets, file, published, main, shutdown,
                 alive>>

\* ... and then publishes.
Publish ==
  /\ Goto("publish", "check")
  /\ published' = [packets |-> packets, running |-> TRUE]
  /\ UNCHANGED <<environment, due, packets, file, main, shutdown, alive>>

\* After the loop: flush, publish once more, mark finished.
FinalFlush ==
  /\ Goto("drain", "last")
  /\ Flush
  /\ UNCHANGED <<environment, due, written, packets, published, main, shutdown,
                 alive>>

FinalPublish ==
  /\ Goto("last", "mark")
  /\ published' = [packets |-> packets, running |-> TRUE]
  /\ UNCHANGED <<environment, due, packets, file, main, shutdown, alive>>

MarkFinished ==
  /\ Goto("mark", "drop")
  /\ published' = [published EXCEPT !.running = FALSE]
  /\ UNCHANGED <<environment, due, packets, file, main, shutdown, alive>>

\* The thread ends and drops the writer, which flushes once more.
DropWriter ==
  /\ Goto("drop", "done")
  /\ Flush
  /\ UNCHANGED <<environment, due, written, packets, published, main, shutdown,
                 alive>>

-----------------------------------------------------------------------------
(* The main thread.                                                        *)

RaiseShutdown ==
  /\ shutdown' = TRUE

MainGoto(here, there) == alive /\ main = here /\ main' = there

\* Ctrl-C: the graceful-shutdown future raises the flag and stops accepting.
CtrlC ==
  /\ MainGoto("serving", "closing")
  /\ RaiseShutdown
  /\ UNCHANGED <<environment, due, worker, packets, file, published, alive>>

\* serve returned: its connections closed, or the address could not be bound.
ServeReturns ==
  /\ MainGoto("closing", "joining") \/ MainGoto("serving", "joining")
  /\ RaiseShutdown
  /\ UNCHANGED <<environment, due, worker, packets, file, published, alive>>

\* Mutant: the command does not wait for the capture thread.
JoinAtOnce ==
  /\ MainGoto("joining", "exited")
  /\ UNCHANGED <<environment, due, worker, packets, file, published, shutdown,
                 alive>>

\* `worker.join()`, and the command ends.
Join ==
  /\ MainGoto("joining", "exited")
  /\ worker = "done"
  /\ UNCHANGED <<environment, due, worker, packets, file, published, shutdown,
                 alive>>

\* The process is killed: what the BufWriter holds is lost.
Kill ==
  /\ alive /\ main # "exited"
  /\ alive' = FALSE
  /\ buffered' = 0
  /\ UNCHANGED <<environment, due, worker, written, packets, disk, refused,
                 published, main, shutdown>>

-----------------------------------------------------------------------------

\* The file header is in the buffer; the first tick is due at once.
Init ==
  /\ wire = 0 /\ delivered = 0 /\ gone = FALSE /\ full = FALSE
  /\ due = TRUE
  /\ worker = "check" /\ written = 0 /\ refused = FALSE
  /\ packets = 0
  /\ buffered = 1 /\ disk = 0
  /\ published = [packets |-> 0, running |-> TRUE]
  /\ main = "serving" /\ shutdown = FALSE /\ alive = TRUE

Worker ==
  \/ CheckShutdown \/ ReadPacket \/ WriteChunk \/ WriteFails \/ Analyze
  \/ ReadEnds \/ NotDue \/ FlushOnTick \/ Publish
  \/ FinalFlush \/ FinalPublish \/ MarkFinished \/ DropWriter

Next ==
  \/ Arrive \/ InterfaceEnds \/ DiskChanges \/ RefreshElapses
  \/ Worker \/ ReadMore
  \/ CtrlC \/ ServeReturns \/ Join \/ Kill

Spec == Init /\ [][Next]_vars

\* Both threads are scheduled, the clock runs, and a server told to close
\* closes its connections.
Scheduled ==
  /\ WF_vars(Worker)
  /\ WF_vars(RefreshElapses)
  /\ WF_vars(main = "closing" /\ ServeReturns)
  /\ WF_vars(Join)

\* A busy interface: until it ends, if it ever does, a packet always comes, and
\* next_packet returns.  The code has no way out of next_packet but these.
Busy == WF_vars(Arrive) /\ WF_vars(ReadMore)

BusySpec == Spec /\ Scheduled /\ Busy

-----------------------------------------------------------------------------
(* Properties.                                                             *)

\* The flush comes before the snapshot: every packet a viewer has been told of
\* survives a kill, whatever the buffer held, unless the disk refused part of
\* the buffer the last time it was pushed out.
PublishedIsOnDisk ==
  refused \/ published.packets = 0 \/ Chunks(published.packets) <= disk

\* Nothing handed to the writer is ever dropped or doubled while the process
\* lives, across spills, failed writes and flushes: file and buffer hold the
\* packets analysed and, behind them, the chunks taken of one record, the one
\* being written or the one whose write failed.
FileHoldsEveryPacket == alive => disk + buffered = Chunks(packets) + written

\* An exit whose last flush the disk took leaves a file with every packet, and
\* at most the start of the record whose write failed behind them, and a final
\* snapshot, whatever the order of Ctrl-C, the last packet and the last tick.
CleanExitLosesNothing ==
  (main = "exited" /\ ~refused) =>
    /\ disk = Chunks(packets) + written
    /\ published = [packets |-> packets, running |-> FALSE]

\* Asked to stop while packets keep coming, the command ends: whatever the
\* capture thread is doing, failed writes and ticks included, it looks at the
\* flag again.  (The interface need not end.)
ShutdownCompletes == shutdown ~> (main = "exited" \/ ~alive)

\* While packets keep coming, a packet analysed is published: no run of
\* packets, failed flushes or the end of the loop keeps the tick from it.
CapturedIsPublished ==
  \A n \in 1 .. MaxPackets :
    packets >= n ~> (published.packets >= n \/ ~alive)
=============================================================================
