# A TLA+ model of CBNA

CBNA (`src/`) is a network analyzer written in Rust. It reads packets from a
capture file or an interface, decodes them, follows flows, puts split messages
back together, looks for indicators and suspicious patterns, and shows a report
on the terminal or on a live dashboard. This directory holds TLA+ modules of the
parts of it that keep state, the TLC configurations that check them, and proofs
that TLAPS checks.

Source paths below are relative to `src/crates/`.

## 1. The system

### Components, their state and their operations

| Component | State | Operations | Model |
|---|---|---|---|
| TCP stream reassembler (`cbna-core/src/reassembly.rs`) | a table from (flow, direction) to a 16 KiB head-of-stream buffer, its list of filled ranges, the base sequence number; three counters | `push`, and in it `rebase`, `write`, `add_range`, `finish` | `HeadBuffer`, `TcpReassembly`, `TcpCompleteness`, `HeadStore`, `TcpStore`, `RangeList` |
| IP fragment reassembler (`ip_reassembly.rs`) | a table from (source, destination, protocol, identification) to a buffer, its ranges and the total length; three counters | `push`, `write`, `finish` | `HeadBuffer`, `IpReassembly`, `HeadStore`, `IpStore`, `RangeList` |
| Flow table (`flow.rs`) | flows: per direction counters, flags and times; who opened; names, hosts, agents, first SNI and JA3 | `observe`, `record_app`, the accessors | `FlowTable` |
| Analyzer (`analysis/mod.rs`, `report.rs`) | the flow table, both reassemblers, counters, host, ARP, DNS, TLS and HTTP indexes | `observe`, `index_app`, `report` | `Indexes`, `Report`, `Analyzer` |
| Detectors (`analysis/findings.rs`, `beacon.rs`) | none | thirteen detectors over the indexes | `Findings` |
| Packet decoding (`packet.rs`, `link.rs`, `net.rs`, `transport.rs`, `bytes.rs`) | none | `decode` | `Decode` |
| Application decoders (`proto/`) | none | DNS, HTTP and TLS parsers, `app_from_payload` | `Messages` |
| Capture file reader (`cbna-capture/src/file.rs`, `cbna/src/pipeline.rs`) | file position, byte order, the interfaces of a pcapng section | `open`, `next_packet`, `run` | `CaptureFile` |
| Indicator matching (`cbna-core/src/ioc.rs`, `cbna-capture/src/ioc.rs`) | addresses, networks, domains, hashes with their sources | `insert_tagged`, `extend`, `match_*`, `parse_iocs` | `IocSet` |
| Threat-intelligence cache (`cbna-intel/src/`) | a manifest and a file per feed | `update`, `load`, `fetch_live` | `IntelCache` |
| Live serve command (`cbna/src/livecmd.rs`, `cbna-capture/src/live.rs`, `writer.rs`) | two threads, the shutdown flag, the refresh clock, the buffered capture file | the capture loop, the refresh tick, Ctrl-C, join | `LiveServe` |
| Dashboard snapshot protocol (`cbna-web/src/lib.rs`, `api.rs`, `assets/index.html`) | three locked fields in `AppState`; the page's displayed and held payloads | `publish`, `mark_finished`, the `/api/report` and `/api/health` handlers, `poll`, `applyPending` | `Dashboard` |
| Command line (`cbna/src/main.rs`) | none | arguments, combining indicator sources, exit codes | the indicator sources, in `IntelCache` |
| Rendering, samples, fuzzing | none | layout, test support | not modelled |

### How they interact

`Analyzer::observe` takes one decoded packet: it counts it, hands it to the flow
table, indexes what was decoded, and pushes it to the TCP reassembler and then
to the IP reassembler; a message either of them returns is indexed and recorded
in its flow. All of that runs in one thread and the reassemblers never see each
other. A report is computed from the indexes whenever one is asked for: the
detectors and the indicator matches keep nothing. `cbna analyze` feeds the
analyzer from a capture file, after it has built the indicator set from a list,
the feed cache or the feeds themselves. `cbna serve` runs the analyzer in a capture thread; every `refresh` it
flushes the capture file and publishes a report into `AppState`, which the web
server's handlers read field by field while the next one may be being written.
The page polls, and holds new snapshots back while the user is at work. Shutdown
is one atomic flag the capture thread looks at between packets.

### What is hard

* The input is hostile and unordered: segments and fragments are lost, repeated,
  reordered and contradictory, sequence numbers roll over, the capture may start
  in the middle of a connection, and every table and buffer has a cap.
* `AppState` has no lock around a whole publication, and polls may overlap: a
  request reads three fields of possibly different publications, and answers
  arrive in any order.
* The same traffic is kept in five places (flows, hosts, counters, time line,
  protocol indexes), under caps, and one message may arrive in one packet, in
  segments or in fragments.
* Files and frames are cut anywhere, and claim lengths they do not have.
* The feed cache is two kinds of files rewritten one after the other, by processes
  that may be killed, and that know nothing of each other.
* Two threads end together: Ctrl-C, the last packet, the last tick, a full disk
  and a kill come in any order.

`PROJECT.json` lists every hazard at its line, with the properties that cover
it or the reason none does.

### What makes each part correct

* TCP reassembler: it holds and returns only bytes the sender sent, in their
  place (`Integrity`, `EmittedIsSent`); ranges and bytes agree
  (`BufferMatchesRanges`); honest retransmissions accuse nobody
  (`NoFalseConflict`); nothing whole is left lying (`LiveHeadIncomplete`,
  `NoMissedMessage`); one message per direction (`RecoveredOnce`); and all of it is
  a store in which the first writer wins and finished is final (`ImplementsStore`).
* IP reassembler: what it returns is the datagram sent, once; the first writer
  wins for bytes and for the length; it is the same store (`ImplementsStore`).
* Analyzer, flow table, detectors: flows, hosts, counters and time line add up to what
  was captured (`ConversationsAddUp`), what flows and indexes say was transferred agrees
  however it arrived (`RecordedIsIndexed`), the client is the side that opened
  (`ClientIsOpener`), scanners and listed indicators are reported when and only
  when they are there (`ScanIsExact`, `ListedIsReported`), and an alert is not
  taken back because more was seen (`AlertsStay`).
* Decoding: the reassemblers get the sender's bytes and nothing else
  (`PayloadIsTheSenders`); a cut frame decodes to part of what the whole one does,
  with a warning, or to nothing (`CutFrameAgrees`).
* Capture files: everything before the damage is analysed, in order, once, and
  timed by its own interface (`CutKeepsWholePackets`, `TimesAreTheInterfaces`).
* Feed cache: whatever died when, the manifest describes the files beside it and
  forgets no feed (`ManifestDescribesData`, `NothingForgotten`); a match names the
  source that has the indicator (`MatchNamesItsFeed`).
* Live serve: a packet somebody was told of is on disk; nothing is dropped or
  doubled in the file, failed writes included; a clean exit loses nothing; while packets
  keep coming, the command stops when asked and what it has analysed is published.
* Dashboard: bounded skew inside an answer; what is held is newer than what is
  shown; the screen never goes back; it settles on the end state.

## 2. The modules

`HeadBuffer` — the bounded buffer both reassemblers are built on (the code has it
twice). A function from offsets to bytes, `Gap` where `resize` only zero-filled,
and the set of ranges that hold data. `AddRange`, `WriteBytes`, `Disagrees` and
`Contiguous` are the code's `add_range`, the copy and the comparison in `write`,
and `contiguous`. `MAX_STREAM_BYTES` is `Limit`.

`RangeList` — the vector code of `add_range` itself (one pass that absorbs, then a
sort), checked against two references: the sorted maximal runs of everything
inserted, and `HeadBuffer!AddRange`. It justifies keeping the list as a set
everywhere else. `Ordered` stands for `sort_unstable`: ranges are put one by one where
they belong, which is the same vector because equal ranges cannot be told apart.

`TcpReassembly` — `Reassembler::push`, one action per way through it:

| Action | Code path |
|---|---|
| `Close` | FIN, RST or a packet decoded whole: release the stream (247-254) |
| `Synchronize` | a SYN seats the stream, with no look at the cap (256-269) |
| `Ignore` | empty payload, finished stream, segment outside the window |
| `Refuse` | the table is full (275-282) |
| `Store` / `Abandon` / `Recover` | written, and then: nothing yet; too many ranges, or a full buffer without a message; a message |

`Seat` is the base moving backwards when an earlier segment turns up. The
decoders are the predicate `Whole`, which is all that the reassembler asks of them, and
there are two kinds of message for it. HTTP, TLS and DNS without a length begin with `head`, and are
whole when their `tail` is there, whatever follows. DNS behind its length begins with
`framed`, and is whole only when its `tail` is the last byte there is, since the length is
only stripped when it is that of the rest (packet.rs:470-481): one byte more and there
is no message. A DNS message behind its length that is nevertheless read as a bare one, as
those without the recursion flag are (section 5), counts as one of the first kind. `fragment` is the
first IP fragment of a packet: `decode` finds its TCP header and leaves its message alone
(packet.rs:350-356), but it is pushed like any other (analysis/mod.rs:242), so `Closes` and
`LiveHeadIncomplete` make a difference of it. The environment is the capture: any
packet of `Packets` next. `SynFirst` restricts it to captures where no SYN comes
after data of its direction, which `Integrity` needs (see section 5).

`TcpCompleteness` — the same with three history variables, to state what the
repository's README promises: a split message is not missed. `unread` holds the
directions whose first message came in one of the two ways the code does not read
(`Obscured`, `Unparsed`; section 5), and `NoMissedMessage` excepts them and no others.

`IpReassembly` — `IpReassembler::push`, in the same shape: `Refuse`, `Ignore`,
`Store`, `Abandon`, `Reassemble`. The early return for offsets beyond
`MAX_DATAGRAM_BYTES` is dead code (13 bits times 8), so fragments have offsets
below `Limit`; a last fragment may still end beyond it.

`HeadStore` — what both reassemblers promise, as a specification of its own: for each
key a starting point, the bytes around it, each kept as first written, and a flag
that closes the key for good. A piece that arrives may settle the start of an empty
store (`Settle`), add the bytes that are not there yet (`Keep`, which may move the start
back), close the key (`Close`), or complete a run of held bytes that is
handed out (`Give`). There are no ranges, counters or caps in it, and bytes are known by
their numbers, so a rebase is not a copy but the same bytes seen from another start.
`TcpStore` and `IpStore` say which store an entry of the table stands for (`StoreOf`: sequence
numbers modulo `SeqSpace`; offsets, with every datagram starting at 0), and state
`ImplementsStore`, the `Spec` of `HeadStore` under that mapping.

`FlowTable` — `flow.rs` as operators on a function from keys to flows, each named as
its method: `canonical` orders the two ends, `ObservePacket` counts a packet,
`RecordApp` and `RecordRecovered` note what a message told, `client_direction` and
what rests on it decide who is who. Ports keep their numbers, addresses are small
integers, names are members of a set with tables for their lower case.

`Indexes` — everything else `observe` keeps: `count`, `index_hosts`, `index_arp` and
`index_app`, on records of counters and functions that play the part of the maps.

`IocSet` — the indicator set and its two readers, lists (`parse_iocs`) and feeds
(`parse_into`). A line or row is already a token of some kind; whether `0.0.0.0/33`
is a range is still decided by `IsCidr`. Addresses are bit strings, so a prefix is one.

`Findings` — the detectors, `beacons`, `services`, `top_talkers` and `ioc_matches`. A
finding is its id, its severity and the facts it is based on. Scores keep their
thresholds: ratios of floating-point numbers are compared by cross multiplication,
entropy (`Entropy`, in tenths of a bit) is a table over names.

`Report` — `report.rs::build`, with the tables cut at `top_n` as the code cuts them.

`Analyzer` — `observe` as one action, `Observe`, in the code's order: the packet is
counted, put in its flow, indexed, and handed to `T!Push` and `I!Push`, which are the
`Push` of `TcpReassembly` and `IpReassembly` by INSTANCE; what they emit in that very
step is indexed and recorded (`Recovered`, `Rebuilt`, `Recorded`). The report is an operator of the
state. `Message` and `Datagrams` say what the bytes of a conversation decode to when
cut and when whole. Packets differ in length and in time, so that an amount put in the wrong place shows.

`Messages` and `Decode` — from a frame to a packet. A frame is what was sent: its layers
with their sizes and with the lengths their fields claim; `captured` of its bytes are there.
Every `Reader` of the code is a position and an end, and every `need`, `limit`
and early return is where it is in the code. A DNS message is kept by offset, so compression
pointers can loop. `DnsOf` has both readings of a payload over TCP: the first two bytes stripped when
they say how much follows (`declared`), and else, or when that is no message, the payload as it is.
`misread` is what the bytes of a message are when read from the wrong place, which may be DNS
too. `IsMessage` says what a sender may mean by one; the decoders do not see it.

`CaptureFile` — `FileSource` and `pipeline::run`: one action for each kind of block
and each way of ending; the file is chosen by `Init`.

`IntelCache` — `update` processes, each with its program counter, and one analysis. A
write is two steps, since `std::fs::write` truncates first; `UpdateDies` may follow any
of them. When a write ends, the file holds what this process wrote. History
variables (`fetched`, `in_doubt`, `recorded`, `overlapped`) only state the properties.

`LiveServe` — `serve_live`: the capture thread's program counter (`check`, `read`, `write`,
`tick`, `publish`, `drain`, `last`, `mark`, `drop`, `done`), the main thread's (`serving`,
`closing`, `joining`, `exited`), a clock, a disk that fills and has room again, and a kill at any
time. The `BufWriter` is a count of pieces: a record is `RecordWrites` of them (five
`write_all` in the code, `WriteChunk`), a piece that does not fit pushes the buffer out, and a disk
that is full takes any part of it (`PushOut`). When that happens in a record, `WriteFails` ends the loop with the pieces
already taken still in the buffer (`written`), and `FinalFlush` or `DropWriter` may yet write them.
`refused` remembers that the last push was cut short. `ReadMore` is a packet after the `MaxPackets`th: the loop
goes round as always, but nothing is counted any more, so that the interface can deliver for ever.

`Dashboard` — `publish` as its three locked writes, the `/api/report` handler as its
three reads, `/api/health` as its two, and the page: `Apply`, `Hold` and `Skip` are
the three outcomes of an answer in `poll()`, `NotReady` and `Disconnected` its error
paths, `ApplyPending` the later turn of the event loop that shows what was held.

`MCTcp`, `MCTcpCompleteness`, `MCIp`, `MCAnalyzer`, `MCCaptureFile` and `MCIntelCache`
hold the small captures, files and feeds; the modules whose names end in `Proofs` the
theorems about the module they are named after. Definitions whose comment begins "Mutant:"
are wrong on purpose: each replaces one definition to show that a property can
fail (`PROJECT.json`, "mutants").

## 3. The runs

| Run | Bounds | What it shows |
|---|---|---|
| `tcp_open` | two directions of 7 bytes each in a buffer of 8, a request and DNS behind its length, a second message behind the first; DNS cut in every way into segments of 1 to 3 bytes, the request in few; first fragments, empty ACKs and SYNs; captures of 6 packets, 20 sequence numbers with the rollover inside the text | all honest properties, and `NoMissedMessage`, for directions that stay open |
| `tcp_tampered` | a buffer of 5 under 7 bytes of text, 2 ranges, forged segments at four places, a second direction with DNS behind its length, whole messages in first fragments, room for one, captures of 6 | structure, one message, the store implemented: first writer wins, closed for good |
| `ip_fragments` | three datagrams of 5 bytes in a limit of 6, room for two: one cut in every way, one cut in two, one with forged, empty and over-long fragments and a second last one; 7 fragments | exactly the datagram sent, once, unaccused; structure; first writer wins; the store implemented |
| `range_list` | every insertion order on 8 offsets | the vector code is the set operator |
| `live_busy` | 3 packets that are counted and any number after them, 2 pieces to a record, a buffer of 3, `BusySpec` | the file, the snapshots and the end, in every interleaving |
| `dash` | 2 publications, 2 polls that may overlap, health probes, `FairSpec` | skew inside an answer, the screen never goes back, the page settles |
| `analyze` | 16 packets of 3 hosts, of 3 lengths, at 2 times or at none, captures of 4; caps of 1 and 2 on everything that is capped | the accounts add up; client, scan, indicators; alerts stay |
| `capture` | 24 frames cut after every byte, among them DNS over TCP with its length and without, asking for recursion and not, and with an id that is its own length; pcapng files of 15 kinds of block, up to 3 after the header, cut in each part of the last block, and of 5 sound kinds, up to 5, uncut; packets may name interfaces nobody described, and a query in a simple packet block has the padding of the block for data | what survives a cut, and what it means |
| `intel` | 3 feeds, 2 updates, 2 successful downloads, one analysis, four requests | the cache across crashes; provenance |
| `dash_stale`, `capture_link`, `analyze_twice` | small | a statement of the repository the code does not keep (section 5) |

Why the bounds are enough. In `tcp_tampered` the buffer is shorter than the text,
so clipping in `write` and `rebase`, the full buffer and the segment outside the
window occur; single bytes and pairs make more ranges than fit; moves of the
base by up to 5 are followed by more data. `tcp_open` leaves room instead, because
its promise is only made where there is room. In `ip_fragments` the limit lies one
beyond the text, so a fragment can end exactly at it, or past it. In `tcp_open` the last byte of the DNS message
comes in a segment of its own, with the bytes before it, and with the one behind it. Three packets
are seven pieces with the header, more than twice the buffer: it spills at every position of a
record, and is refused there. What happens after the third packet is what happens after any. Two publications put a read on either side of each write. In `analyze` the split
request needs two packets, the fragmented query two, the scan two, a cap that is
met two or three; any two of them meet in four packets. A beacon needs
`beacon_min_packets` of them and does not fire; its operators are evaluated on every
report, with too few packets. In `capture` the header of every layer is cut
inside, and two sections with two interfaces each fit in five blocks. In `intel` the
second update finds whatever the first left, and two downloads are an old and a new
copy of one feed or copies of two; the cap on indicators (20) is not met. The
proofs remove the bounds for what they cover: every property of `tcp_open`,
`tcp_tampered` and `ip_fragments`, the safety properties of `live_busy` and `dash`, and of
`capture`, `intel` and `analyze` those named in section 4.

`HeldIsNewer` and `NeverGoesBack` speak of sessions in which no two polls have overlapped,
`ManifestDescribesData`, `NothingForgotten` and `MatchNamesItsFeed` of caches that no two updates
have rewritten at once: with overlaps the code does not keep them (section 5). `MatchNamesItsFeed`
is about sets with room for more: a full one drops what comes (ioc.rs), and the run's are never full. `RecordedIsIndexed` is
an equality until a cap is met, an inclusion after it. `AlertsStay` is about the eleven findings that rest on
things seen; ratios and shares (beacons, egress, capture quality, cleartext
services by flow) may rightly change with more traffic.

Deadlock is not checked where the system stops by design: a capture or a file that
ended, a command that exited or was killed, updates that have all ended. `RangeList`
and `Dashboard` must not stop, and are checked for it. `Push` and `Observe` count
packets (`MaxPackets`, `MaxFragments`) only to end the run; `MaxPublish` is the number of publications of a
session, `MaxUpdates` and `MaxFetches` the updates and successful downloads.

### Fairness

`LiveServe!Scheduled`: the operating system schedules the capture thread and the
main thread; time passes, so `refresh` elapses; a server told to close closes its
connections (axum's graceful shutdown); `join` returns once the thread ended.
Nothing is assumed of the disk, of Ctrl-C, of the kill, or that a server that
was not told to stop returns. `BusySpec` adds that a packet always comes while the interface
has not ended, and that `next_packet` then returns (`Busy`): an assumption about the network and not
about the code, made openly, since on an interface that falls silent the code keeps neither promise (section 5).
The interface need never end, so the two liveness properties of the run rest on the
loop: with packets coming for ever, `ShutdownCompletes` needs the look at the flag and `CapturedIsPublished`
the refresh tick, and the mutants that drop them (`CheckNothing`, `PublishNever`) violate them.

`Dashboard!Scheduled`: the publisher runs; `setInterval` polls for ever; handlers
answer and the event loop handles answers; the event that ends an interaction
gets its turn. `Connected` says the network fails only finitely often. The user is
not assumed to let go: `LastGenerationIsShown` is conditional on it, and
`StoppedIsShown` holds for a user who never does. A poll is strongly fair: the timer
fires again and again, and health probes that take the request's place in the model come and go in between.

## 4. The proofs

`HeadBufferProofs` proves, for every size of buffer, that `AddRange` keeps the range
list sorted, merged and inside the buffer, fills exactly the offsets inserted and
leaves the others (`AddRangeWellFormed`, `AddRangeFills`), and that the contiguous
run is filled and is all of it (`ContiguousIsFilled`, `ContiguousIsLongest`). A
well-formed list has no more ranges than half the buffer (`FewRanges`).

It also proves that these set operators are what the vector code computes:
`RunsStaySorted` (`SortedRuns`) and `VectorImplementsHeadBuffer`
(`ImplementsHeadBuffer`), for every size of buffer and every sequence of insertions.
The inductive invariant is `InOrder`: the vector is a `Chain` (each range ends before
every later one starts) that fills the offsets inserted. Inside one insertion the pass
has an invariant of its own, `Passed`, by induction on its turns: the merged range is
apart from every range kept so far, though it grew after they were kept, and it covers
the insertion, what was absorbed, and no other offset. `RangesAreOrdered` then places
the ranges one by one. Both folds are turned into sequences of intermediate results
(`FoldingAccumulates`), over which ordinary induction works. `RangesAreRuns` says ranges
that are apart are determined by the offsets they fill; that makes vector and set equal.

`TcpReassemblyProofs` proves, for every `Limit`, `SeqSpace`, table size, range cap and
set of packets:

* `TypeCorrect` and `BufferAlwaysMatchesRanges` — on any capture, tampered with or
  not. The inductive invariant is `TableInv`: types, well-formed ranges, and
  "filled says exactly where `buf` is not `Gap`" for every entry. `TypeOK` alone is
  not inductive: a returned message is made of bytes, and not of holes, only
  because the contiguous run is filled and filled offsets hold bytes.
* `IntegrityHolds`, `EmittedIsSentHolds`, `NoFalseConflictHolds` — assuming
  `HonestPackets` (packets carry only what their sender sent) and `SynFirst`. The
  inductive invariant `HonestInv` adds to `TableInv` that every filled offset holds
  the byte sent at base + offset; the heart of it is the arithmetic of moving the
  base, `WrapAdd(WrapSub(base, back), at)`, with the rollover.

* `FinishedIsFinalHolds` — a finished stream is exactly what `finish` makes of it
  (this needs the agreement of ranges and bytes), so finishing it again changes
  nothing, and every other action refuses it.
* `FirstWriterWinsHolds` — for captures with `SynFirst`, tampered with or not:
  seating moves every byte as far as it moves the base, and a write leaves every
  filled offset. A SYN is the only other action that touches a base. These two
  are not run: the refinement below says the same of every step, and more.
* `LiveHeadIncompleteHolds` — a stream with two segments was just looked at; one
  with a single segment holds what the buffer keeps of a payload, which `decode` had rejected (`FirstIsTried`),
  unless it had not tried: the payload of a first fragment, or a segment longer than the buffer.
* `MidStreamCapHolds`, `RecoveredOnceHolds` — by the cardinality of the sets that
  are counted.
* `NoMissedMessageHolds` — for `TcpCompleteness`, on honest captures of streams that stay
  open (`OpenCapture`: the SYN, if captured, is the number before the message, there is no FIN, and
  the data fits the buffer), however segments are lost, repeated and reordered, as
  long as the table and the range lists have room (`Room`). The invariant follows the
  bytes: whatever was captured of a direction that has returned nothing is filled, at
  its distance from a base that never lies before the message; so when the
  last byte comes the contiguous run holds the message (`ContiguousIsLongest`), from its first byte
  (`MessageAtHead`), and, where its length stands before it, nothing behind it (`NothingBehind`), unless the byte
  behind it had been captured; so the decoders accept it (`CompletedIsSettled`). `NoMissedMessageInRoom` replaces `Room` by two conditions on the
  constants: a table as large as the set of directions, and half as many ranges as
  bytes, since `AddRange` merges ranges that touch (`FewRanges`).
* `ImplementsStoreHolds` — for captures with `SynFirst`, tampered with or not, `Spec`
  implies `HeadStore!Spec` under the mapping of `TcpStore`. Each action is one step
  of the store or a stutter: `Synchronize` settles, `Store` keeps, `Recover` gives, `Close` and
  `Abandon` close, and `Ignore` and `Refuse` do nothing. The lemmas are `SeatHolds` (moving a base keeps every
  byte under its number, except those that leave the window), `WriteHolds` (a write adds
  exactly the numbers nobody wrote) and `CandidateIsRun` (what is returned is a run).
  `LengthAssumption`, a segment is shorter than the sequence space less a buffer, keeps
  a number from being carried twice.

`IpReassemblyProofs` proves the same of the fragment reassembler, for every `Limit`,
table size, range cap and set of fragments, with no hypothesis. `TableInv` (types,
well-formed ranges, filled exactly where there are bytes, finished entries empty)
gives `BufferMatchesRangesHolds` and `FirstWriterWinsHolds`, forged fragments included.
`EmittedIsSentHolds` and `NoFalseConflictHolds` are about the datagrams nobody meddles
with, whose fragments carry the bytes sent at their offsets: `HonestInv` adds that every filled byte is the
byte sent there and that a known length is the length sent, so that the contiguous
run that reaches it is the datagram. `ReassembledOnceHolds` counts with sets, as
for TCP. `ImplementsStoreHolds` is the same refinement, with no condition at all: nothing moves
a datagram's start.

`CaptureFileProofs` proves, for every set of files made of the blocks of their format
(`WellMade`: after the header a pcap file has records and a pcapng file blocks; damage
may be anywhere) whose packets hold frames (`IsFrame`: sizes and offsets are numbers):

* `CutKeepsWholePacketsHolds` — read without `--limit` (`Limit = None`), the packets before the
  damage are analysed, each once, in order and under its number, and a file that was only
  cut is no corrupt one. The invariant (`ReadInv`) relates the position to what was found: every
  packet block behind it was analysed, no fatal block lies behind it, and the errors
  counted so far are the short interface blocks passed.
* `TimesAreTheInterfacesHolds` — with any limit. `FileSource.interfaces` is cleared
  by a section header and pushed to by an interface block; `KnowsInterfaces` says
  that at every moment it is, number by number, what the blocks of the section so far
  describe (`OwnIsFinite`, `OwnGrows`: an interface block takes the next number).
* `PayloadIsTheSendersHolds` — with any limit and any frames, cut anywhere. `PayloadInv` says that what was
  analysed is a frame, decoded as the link type the run was opened with; the rest is about `decode`, layer by
  layer: the link layer finds the network layer (`LinkFinds`), `Ipv4Finds` and
  `Ipv6Finds` show that the reader of the payload goes from the end of the network
  header to the end of the message or of the capture, and `TransportHasPayload` that the same
  holds behind TCP and UDP headers. The walk over IPv6 extension headers and the sum of
  their sizes are recursive functions, and what they compute is shown by induction on
  the number of headers (`TurnsExist`, `EndsAddUp`, `WalkGoesOn`). `Truthful` is what the property asks of
  the frame; section 5 says which frames that excludes.
* `CutFrameAgreesHolds` — with any limit and any messages. Two readers at the same place, of which one may
  read further (`Behind`), stay so through every header (`Ipv4Cut`, `Ipv6Cut`,
  `TransportHeaderCut`), so a layer read from less is the layer read from more and has no more
  behind it. Then message by message. DNS: `Spells` says that after each turn of `read_name` the
  labels read and those the sender means at the offset reached are the name's, and that the
  pointers followed and still to follow are those on its way; so a name is read as it is spelt or
  refused (`NameIsSpelt`), never shortened, and questions and answers follow (`DnsIsRead`). HTTP and TLS:
  what differs says it is not complete (`HttpCut`, `TlsCut`). A DNS message over TCP that is read from the wrong place
  (`Misread`) is excepted, before anything is said of its names. A capture that kept more than was sent (the
  padding of a simple packet block) decodes as what was sent (`PaddingIsNothing`). The loops are folds;
  `FoldsAreSteps` turns one into a sequence of states, as long as the loop's bound.

`AnalyzerProofs` proves, for every capture, of any packets in any number and order, every
value of the caps and thresholds, and every set of indicators:

* `ClientIsOpenerHolds` — `OpenersKnown`: a flow remembers an opener exactly when a bare
  SYN of it was seen, and it is one of those who sent such a SYN. What a reassembler hands back leaves it alone.
* `ScanIsExactHolds` — `AttemptsKept`: the ports in `scanned` are those of the bare SYNs
  captured, host by host and destination by destination.
* `ConversationsAddUpHolds` — `AddsUp`: each packet adds the same amounts to one flow, to
  its two hosts and to the counters, and a recovered message to none. `Weighed`: counters, flows' bytes
  and every bin of the time line are the sums over the bag of packets captured, since a step adds one
  packet to the bag and its weight to each (`OneMore`, `CountTimes`, `PacketIsWeighed`).
* `RecordedIsIndexedHolds` — `Told`: flows and indexes agree (`Agree`), every packet has
  its flow, and a datagram that is handed back was seen from its first byte on
  (`StartsAreSeen`, `RebuiltIsStarted`). Indexing a message and putting it on its flow keeps the two in
  agreement (`MessageIsEntered`, `FlowTakes`, `MessageKeepsAgreement`), a set at its cap included; a step does so up to three
  times: for the packet's message, the stream's and the datagram's. The flow of the last is the one its first
  fragment made, which is where `FirstFragmentHasPorts` is needed (section 5).
* `AlertsStayHolds` — `IndexesOK` and `SeenMore`: what a step does to the indexes only adds to what each
  of the eleven detectors counts; then detector by detector, a finding of the
  report before has one with its id and no milder severity in the report after.

* `ListedIsReportedHolds` — with indicators attached. `Listing`: hosts have sent and received as many
  packets as the capture holds copies with their address (`Exchanged`), and every name a flow carries is
  indexed in lower case, from one packet, from segments or from fragments (`AllCarryKnown`; `SaidIsKnown`
  and `FlowTakesSaid` are its two halves). What is listed is looked up in the indexes (`ListedAre`,
  `KnownIsObserved`), and the sort of the findings puts a grave one first whenever there is one
  (`FirstIsGrave`, by induction over the set that is sorted). `LowerIsNormal` says that the indexes'
  lower case and the indicators' are the same.

Sums over a table (`SumOver`) and passes over the questions and answers of a message are folds of
the community modules. The module proves what it needs of them from
their definition: a fold is an iteration over subsets that exists and is unique, by
taking a smallest set for which it fails (`IterationExists`, `IterationsAgree`); a sum changes by what one entry changes
(`TotalChanges`).

`LiveServeProofs` proves, for every size of the buffer and of a record, every number of packets, and every
interleaving of the two threads, the interface, a disk that fills and empties, and a kill:
`FileHoldsEveryPacketHolds`, `PublishedIsOnDiskHolds` and `CleanExitLosesNothingHolds`, with any part of a push refused.
`PublishedIsOnDisk` is not inductive: what carries it is that from the flush to the
next look at the flag nothing is analysed, so the file holds `Chunks(packets)`
whenever the thread is about to publish and nothing was refused (`FlushedBeforePublished`), and for a clean exit
that the last snapshot is of everything (`LastWord`).

`DashboardProofs` proves, for every number of publications and of requests in flight,
`AnswerSkewHolds`, `HealthAgreesHolds`, `HeldIsNewerHolds` and `NeverGoesBackHolds`. The
invariant says which prefix of the three fields a publication has moved (`Fields`), that what
a handler has read so far is not ahead of the server (`ReadOk`), and, until two polls
overlap, that the poll in flight is ahead of what is displayed and of what is held,
and what is held ahead of what is displayed (`Told`, `HeldIsAhead`). That an answer of the generation
on screen never meets a newer one that is held follows from the same order.

`IntelCacheProofs` proves, for every set of feeds' answers, requests and update processes, dying
anywhere, `ManifestDescribesDataHolds` and `NothingForgottenHolds`. The manifest on
disk alone is not inductive: `CacheInv` also says of every update at work that the
manifest in its memory describes every feed but those in doubt that it has not
brought home, and the one it is writing (`Unsure`); then recording it takes exactly
the feeds it brought home out of doubt. For these two, what parsing computes
(`count_indicators`) is never unfolded. `MatchNamesItsFeedHolds` does unfold it. A
list and a feed are folds; `FoldingAccumulates` turns one into a sequence of states, one per
line or row, and an induction over it shows that each address belongs to the last row
that has it (`ReadSoFar`, `FeedTells`) and each line of the list to the user (`ListTells`).
`Vouches` says that of the set an analysis is building: it holds the addresses of its feeds, each
as its last feed has it. `ContributeVouches` keeps it when a feed is added, and `CombineMatches` when
the set is laid over the list. What the analysis reads is the history's download because
`Analysis` keeps, beside `CacheInv`, that the entries it has still to read describe
the files, except of feeds that were in doubt when it started or have been written since.

The assumptions are the `ASSUME`s of the modules (`2 * Limit < SeqSpace` is
16 KiB against 2^32) and the named hypotheses in the theorems' statements:
`HonestPackets`, `SynFirst` and `OpenCapture` for TCP, `FirstFragmentHasPorts` for
`RecordedIsIndexedHolds` and `LowerIsNormal` for `ListedIsReportedHolds` (`ASSUME`s of `MCAnalyzer`
check both of `analyze`), `FramesAreCuts` and `NoneIsApart` for `CutFrameAgreesHolds`, `Limit = None` where a capture file must be read to
its end, and `MissingIsNoSequence` for
`NothingForgottenHolds`, which says that the value standing for "no file" is not
a list of entries. `FramesAreCuts` (an `ASSUME` of `MCCaptureFile`, for all of the run's files) says that a
frame captured beyond what was sent is ended by its own lengths; that an IPv6 packet has no
extension header called TCP or UDP; and that a DNS message is laid out as its sender means it
(`LaidOut`: names spelt in labels and pointers back, no more of them than the decoder follows, everything
within the message) and is all of its packet's payload, or is one the decoder refuses however much of it
there is, like one whose pointers loop. Messages that are malformed and yet
decoded in part are left out, since nothing says what their names mean. `NoneIsApart` says
that the value for "nothing" is no number and no record, which TLC has no way to ask. `IntelCacheAssumption` says that requests, lists and bodies are sequences, and that
a token is an address exactly when it reads as one. `SynFirst` cannot be dropped (section 5), and the capture of `tcp_open` meets
all of the TCP hypotheses, as an `ASSUME` of `MCTcpCompleteness` that TLC evaluates says.

Only model-checked: every liveness property, which the prover cannot do. Each invariant and each
action property of a passing run is a theorem, as far as its hypotheses go.

## 5. Where the code and its text disagree

Three are runs that find the statement violated:

* `dash_stale`: the report is read before the generation (api.rs:34), so a
  publication in between gives the old report the new generation, and the page
  skips every later answer of that generation. If it was the last one, the old
  report stays.
* `capture_link`: the pipeline asks for the link type before the first packet
  (pipeline.rs:29), and a pcapng file tells it in an interface block that is read
  with the packets: every packet of a pcapng file is decoded as Ethernet.
* `analyze_twice`: what the reassembler hands back "has not been counted yet"
  (analysis/mod.rs:239-241), but a message whose first segment already parsed in
  part has been: hosts, names and fingerprints of split messages count twice.

Seen while modelling, and not kept as runs:

* Reassembly. SYNs make entries without a look at `MAX_TRACKED_STREAMS`
  (reassembly.rs:260, against 28-30); streams opened by data do keep to it
  (`MidStreamCapHolds`). A SYN captured after data sets a new base (264-267) and leaves
  the bytes where they were, against the test's comment at 516-518; hence `SynFirst`. A
  message whose tail shares a segment with the FIN is dropped (249). Finished
  datagrams count against "datagrams in flight" (ip_reassembly.rs:257); a datagram
  filled to the largest size without completing keeps its buffer (289); an IPv6
  atomic fragment completes a datagram by itself, which the comment at 240-243
  excludes; a last fragment cut by the snaplen yields a shortened datagram (278).
* Split messages. "Messages split across TCP segments are reassembled before decoding, so a request
  whose headers straddle a packet boundary is not missed" (src/README.md:52-54). Two kinds are. Over TCP the length before
  a DNS message is stripped only when it is that of the rest (packet.rs:470-481): when the last
  byte of the message shares a segment with the next message, or comes after it, the reassembler sees a message
  and a half and finds none. And a first IP fragment is pushed to the TCP reassembler without having been decoded
  (packet.rs:350-356, analysis/mod.rs:242), whose comment at reassembly.rs:324-325 says it was: a whole head in it is
  stored and not looked at until a second segment comes, so when none does, the message is only seen if the datagram is
  completed. `NoMissedMessage` and `LiveHeadIncomplete` except these and say so.
* DNS over TCP read from the wrong place. When the length does not match, or what follows it does not parse, the
  payload is read as a bare message (packet.rs:476-478). With the length for its id, the message's id is taken for the flags and its
  flags for the count of questions, which is implausible when the recursion flag is set; but a query that asks for no
  recursion has flags of zero, so one cut by the snaplen, or split, comes out as a DNS message without
  its questions (and ends the reassembly of its direction, since DNS that parses is taken to be whole,
  reassembly.rs:202-203). Likewise a bare message whose id happens to be its own length less two
  may be read without its id. `Misread` is when, and `CutFrameAgrees` excepts it.
* Analyzer. "The flow already exists from the first fragment's ports"
  (analysis/mod.rs:252-253) does not hold when the first fragment is too short for them: nothing
  is attached then, and what the indexes hold is on no flow. An HTTP host that names its port
  never matches a listed domain (ioc.rs:251 walks to the next dot only). "n unencrypted service flow(s)"
  counts the flows after those with the same text were merged (findings.rs:472-480).
* Decoding. A total length of zero means that the card had not filled it in (net.rs:102-106), and the
  code treats a length that covers the header alone in the same way: padding to the
  smallest Ethernet frame is then the payload, as is the padding of a simple packet
  block (file.rs:306) when the length is zero. `Truthful` leaves these frames out. The address family of a `Loop` frame, which is in network order, is read
  in the order of this machine like that of a `Null` frame (packet.rs:297). IPv6 headers behind a fragment header stay in the
  payload of the fragment.
* Capture files. "Files that were cut short or contained a bad record still produce
  results; the error is reported rather than swallowed" (pipeline.rs:15-16), but of a cut file there is no error. A section in the
  other byte order cannot be read on, since its length is taken in the old one
  (file.rs:249-257). A cut in the last four bytes of a block loses its packet, and is an error.
* Feeds. `--intel-feed` restricts an update and a live fetch, but a load reads the whole cache
  (main.rs:440-454, against the help text at 152). A manifest left half-written fails
  every later update and load until it is deleted, although cache.rs:161-162 names only the
  feed id and I/O as reasons. Two updates at once lose each other's entries.
* Live. The read timeout is said to let the loop look at the shutdown flag
  (live.rs:42-43), but `TimeoutExpired` never leaves `next_packet` (164): on an interface that falls silent
  the command does not end on Ctrl-C, and packets before the silence are
  neither flushed nor published until the next one (livecmd.rs:226). `BusySpec` assumes that this does not happen;
  the liveness properties of `live_busy` say nothing of such interfaces. A kill may
  leave the last record cut, since the writer spills between refreshes, and so may a write that failed:
  what was put of the record before (writer.rs:53-57) is flushed later (livecmd.rs:240-241, writer.rs:81) if there is room again. An answer
  that arrives late is taken for a newer snapshot (index.html:2126).

## 6. Not modelled

* The wording of findings, reports and errors, colours, sorting of equal rows,
  rendering, filtering, the terminal and the page's layout, and the dashboard's other
  endpoints, each one read of the report.
* Floating-point results as numbers: scores are compared with thresholds exactly;
  `DirectionStats.timestamps` is kept, rates of the report are not.
* Fields nothing in the modelled code depends on: TTLs, windows, checksums, MAC
  vendors, MSS; record data of DNS beyond names and addresses; the MD5 inside JA3.
* Addresses and names character by character: `parse` of an address or a name is a
  token of a kind. The limits on CSV quoting in feeds are in the row that results.
* The `capture` command: the loop of `serve_live` in one thread with a count and a duration.
* Argument parsing and the findings gate, one comparison of severities.
* Sample generator and fuzz targets, which exercise the code and are not part of it.
* `LinkType::Other`, which is no link layer the code decodes, and the lack of a warning when a frame is read
  under the wrong one; errors of reading a capture file other than its end (file.rs:158, 247).
* The capture engine, the file system, the network, the operating system and the
  browser appear as the environment of the modules that use them.

## 7. Plan

Done: all modules of section 2 and the proofs of section 4. What is left, in this
order: the key of a
datagram or flow used again; the `capture` command's loop beside `serve_live`.
