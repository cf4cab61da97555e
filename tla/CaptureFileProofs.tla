------------------------- MODULE CaptureFileProofs --------------------------
(***************************************************************************)
(* Proofs that a damaged or cut capture file loses no packet before the    *)
(* damage, that the packets of a sound one are timed by their own          *)
(* interfaces, that a frame hands on the bytes of its sender and nothing   *)
(* else, and that a frame cut anywhere is decoded as the whole frame is, as*)
(* far as it goes: for every file made of the blocks of its format.        *)
(***************************************************************************)
EXTENDS CaptureFile, FiniteSetTheorems, SequenceTheorems, WellFoundedInduction, TLAPS

-----------------------------------------------------------------------------
(* The blocks of the file, by what the reader does with them.              *)

FatalBlocks == {i \in Blocks : Fatal(i)}
PacketBlocks == {i \in Blocks : IsPacket(file.blocks[i])}
ShortBlocks == {i \in Blocks : file.blocks[i].type = "IDB" /\ file.blocks[i].short}

SaneBlocks == {i \in PacketBlocks : \A j \in FatalBlocks : i < j}

\* Nothing in the file is wrong that a reader could report.
Clean == Sound /\ file.cut # "trailer"

\* The blocks whose packets have been analysed.
Found == {analyzed[i].block : i \in DOMAIN analyzed}

aboutFile == <<Blocks, FatalBlocks, PacketBlocks, ShortBlocks, SaneBlocks, Clean>>

\* None of this changes while the file is read.
LEMMA FileStays == file' = file => UNCHANGED aboutFile
<1> SUFFICES ASSUME file' = file
             PROVE  UNCHANGED aboutFile
  OBVIOUS
<1>1. Blocks' = Blocks /\ PacketBlocks' = PacketBlocks /\ ShortBlocks' = ShortBlocks
  BY DEF Blocks, PacketBlocks, ShortBlocks, IsPacket
<1>2. FatalBlocks' = FatalBlocks
  BY <1>1 DEF FatalBlocks, Fatal, CutAt, Header
<1>3. SaneBlocks' = SaneBlocks
  BY <1>1, <1>2 DEF SaneBlocks
<1>4. Clean' = Clean
  BY <1>1 DEF Clean, Sound, Header
<1>. QED BY <1>1, <1>2, <1>3, <1>4 DEF aboutFile

-----------------------------------------------------------------------------
(* The list of what was analysed.                                          *)

IsSeq(s) == \E T : s \in Seq(T)

LEMMA AppendOne ==
  ASSUME NEW s, IsSeq(s), NEW e
  PROVE  /\ IsSeq(Append(s, e)) /\ Len(s) \in Nat
         /\ DOMAIN s = 1 .. Len(s)
         /\ DOMAIN Append(s, e) = 1 .. Len(s) + 1
         /\ \A i \in 1 .. Len(s) : Append(s, e)[i] = s[i]
         /\ Append(s, e)[Len(s) + 1] = e
<1>1. PICK T : s \in Seq(T)
  BY DEF IsSeq
<1>2. s \in Seq(T \cup {e}) /\ e \in T \cup {e}
  BY <1>1, SeqMonotonic, Zenon
<1>3. Append(s, e) \in Seq(T \cup {e}) /\ Len(Append(s, e)) = Len(s) + 1
  BY <1>2, AppendProperties
<1>. QED BY <1>2, <1>3, AppendProperties, LenProperties DEF IsSeq

-----------------------------------------------------------------------------
(* The invariant.                                                          *)

\* The source and the counters are records, and the list is a list.
Shape ==
  /\ src = [big_endian |-> src.big_endian, link_type |-> src.link_type,
            interfaces |-> src.interfaces, index |-> src.index, finished |-> src.finished]
  /\ src.index \in Nat /\ src.finished \in BOOLEAN
  /\ stats = [packets |-> stats.packets, read_errors |-> stats.read_errors]
  /\ stats.read_errors \in Nat
  /\ at \in Nat \ {0}
  /\ IsSeq(analyzed)

\* Nothing has been read of a file that is not open.
Untouched ==
  pc = "open" => /\ at = 1 /\ src = NewSource
                 /\ stats.read_errors = 0 /\ analyzed = <<>>

\* Packets are analysed once, in order and under their own numbers.
InOrder ==
  \A i \in DOMAIN analyzed :
    /\ analyzed[i].index = i
    /\ analyzed[i].block \in 1 .. at - 1
    /\ \A j \in 1 .. (i - 1) : analyzed[j].block < analyzed[i].block

ShortBefore(n) == {i \in ShortBlocks : i < n}

\* While the reader goes on it has met nothing fatal, has analysed every packet
\* it passed, and has reported nothing but short interfaces.
GoingOn ==
  pc = "run" /\ ~src.finished =>
    /\ 1 < at /\ at <= Len(file.blocks) + 1
    /\ file.format \in {"pcap", "pcapng"}
    /\ file.format = "pcapng" => src.big_endian = Header.big_endian
    /\ src.index = Len(analyzed)
    /\ \A i \in FatalBlocks : at <= i
    /\ Found = {i \in PacketBlocks : i < at}
    /\ stats.read_errors = Cardinality(ShortBefore(at))

\* When it stops it has the packets before the damage, and an error only when
\* more than the last bytes are missing.
Stopped ==
  /\ pc \in {"run", "done"} /\ (pc = "done" \/ src.finished)
  /\ Cardinality(ShortBlocks) < MaxReadErrors
     => /\ Found = SaneBlocks
        /\ Clean => stats.read_errors = 0

ReadInv ==
  /\ file \in Files
  /\ pc \in {"open", "run", "done", "failed"}
  /\ Shape /\ Untouched /\ InOrder /\ GoingOn
  /\ (pc = "done" \/ (pc = "run" /\ src.finished)) => Stopped

-----------------------------------------------------------------------------
(* What a step does, without what it decodes.                              *)

GoesOn ==
  /\ pc = "run" /\ ~src.finished /\ at \in Blocks
  /\ at \notin FatalBlocks
  /\ file' = file /\ at' = at + 1

\* The source may learn of interfaces, and nothing else.
SourceKept ==
  \E l, s : src' = [big_endian |-> src.big_endian, link_type |-> l, interfaces |-> s,
                    index |-> src.index, finished |-> src.finished]

TakesPacket ==
  /\ GoesOn /\ at \in PacketBlocks
  /\ pc' = "run"
  /\ src' = [src EXCEPT !.index = @ + 1]
  /\ stats' = [stats EXCEPT !.packets = @ + 1]
  /\ \E e : analyzed' = Append(analyzed, e) /\ e.index = src.index + 1 /\ e.block = at

PassesBlock ==
  /\ GoesOn /\ at \notin PacketBlocks /\ at \notin ShortBlocks
  /\ pc' = "run" /\ SourceKept /\ UNCHANGED <<stats, analyzed>>

NotesShort ==
  /\ GoesOn /\ at \notin PacketBlocks /\ at \in ShortBlocks
  /\ pc' = IF stats.read_errors + 1 >= MaxReadErrors THEN "done" ELSE "run"
  /\ stats' = [stats EXCEPT !.read_errors = @ + 1]
  /\ src' = src /\ analyzed' = analyzed

\* It is at the damage, or at the end.
Stops ==
  /\ pc = "run" /\ ~src.finished
  /\ at \in FatalBlocks \/ at > Len(file.blocks)
  /\ pc' \in {"run", "done"} /\ file' = file /\ at' \in {at, at + 1} /\ analyzed' = analyzed
  /\ \E n \in Nat : src' = [src EXCEPT !.index = n, !.finished = TRUE]
  /\ \/ stats' = stats
     \/ stats' = [stats EXCEPT !.read_errors = @ + 1] /\ ~Clean

HasStopped ==
  /\ pc = "run" /\ src.finished
  /\ pc' = "done" /\ src' = [src EXCEPT !.finished = TRUE]
  /\ UNCHANGED <<file, at, link_type, stats, analyzed>>

\* What the blocks after the header are like, in a file of its format.
LEMMA BlockIsMade ==
  ASSUME ReadInv, Reading
  PROVE  /\ at \in Blocks /\ at \in Int
         /\ Block.caplen \in Nat
         /\ \/ file.format = "pcap" /\ Block.type = "record" /\ ~Block.short
            \/ /\ file.format = "pcapng" /\ src.big_endian = Header.big_endian
               /\ Block.type \in {"SHB", "IDB", "EPB", "SPB", "other"}
               /\ Block.caplen > MaxPacketBytes => Block.type = "EPB"
               /\ Block.type = "SHB" => Block.valid
         /\ {Block.big_endian, Block.valid, Block.length_valid, Block.fits, Block.short}
              \subseteq BOOLEAN
<1>1. pc = "run" /\ ~src.finished /\ at <= Len(file.blocks)
  BY DEF Reading
<1>2. 1 < at /\ at \in Nat /\ file.format \in {"pcap", "pcapng"}
      /\ (file.format = "pcapng" => src.big_endian = Header.big_endian)
  BY <1>1 DEF ReadInv, Shape, GoingOn
<1>3. WellMade(file)
  BY FilesAssumption DEF ReadInv
<1>4. at \in Blocks /\ at > 1
  BY <1>1, <1>2, <1>3 DEF WellMade, Blocks
<1>5. /\ Block.caplen \in Nat
      /\ {Block.big_endian, Block.valid, Block.length_valid, Block.fits, Block.short}
              \subseteq BOOLEAN
      /\ Block.caplen > MaxPacketBytes => Block.type \in {"record", "EPB"}
      /\ file.format = "pcap" => Block.type = "record" /\ ~Block.short
      /\ file.format = "pcapng" => Block.type \in {"SHB", "IDB", "EPB", "SPB", "other"}
      /\ Block.type = "SHB" => Block.valid
  BY <1>3, <1>4 DEF WellMade, Blocks, Block
<1>. QED BY <1>2, <1>4, <1>5

\* A whole block with plausible lengths is no damage, unless its packet is.
LEMMA WholeIsFine ==
  ASSUME ReadInv, Whole,
         Block.type = "EPB" => ~Block.short /\ Block.fits /\ Block.caplen <= MaxPacketBytes
  PROVE  at \notin FatalBlocks
<1>1. Reading /\ CutAt(at) = None /\ Plausible
  BY DEF Whole
<1>2. Block.caplen \in Nat /\ MaxPacketBytes \in Nat
  BY <1>1, BlockIsMade, CaptureFileAssumption
<1>3. ~(Block.caplen > MaxPacketBytes)
  <2>1. CASE file.format = "pcap"
    BY <1>1, <1>2, <2>1 DEF Plausible
  <2>2. CASE file.format # "pcap"
    BY <1>1, <1>2, <2>2, BlockIsMade
  <2>. QED BY <2>1, <2>2
<1>4. ~(file.format = "pcapng" /\ (Block.big_endian # Header.big_endian \/ ~Block.length_valid))
  BY <1>1, BlockIsMade DEF Plausible
<1>. QED BY <1>1, <1>3, <1>4 DEF FatalBlocks, Fatal, Block

\* What is reported is damage, and the damage is not merely a cut.
LEMMA DamageIsFatal ==
  ASSUME ReadInv, BadLength \/ CutTrailer \/ BadEnhancedPacket
  PROVE  at \in FatalBlocks /\ ~Clean
<1>1. Reading
  BY DEF BadLength, CutTrailer, BadEnhancedPacket, Is, Whole
<1>2. at \in Blocks /\ Block.caplen \in Nat /\ MaxPacketBytes \in Nat
  BY <1>1, BlockIsMade, CaptureFileAssumption
<1>3. CASE BadLength
  <2>1. ~Plausible
    BY <1>3 DEF BadLength
  <2>2. CASE file.format = "pcap"
    <3>1. Block.caplen > MaxPacketBytes
      BY <1>2, <2>1, <2>2 DEF Plausible
    <3>2. ~Sound
      BY <1>2, <3>1 DEF Sound, Block
    <3>. QED BY <1>2, <3>1, <3>2 DEF FatalBlocks, Fatal, Block, Clean
  <2>3. CASE file.format # "pcap"
    <3>1. file.format = "pcapng" /\ src.big_endian = Header.big_endian
      BY <1>1, <2>3, BlockIsMade
    <3>2. Block.big_endian # Header.big_endian \/ ~Block.length_valid
      BY <2>1, <2>3, <3>1 DEF Plausible
    <3>3. ~Sound
      BY <1>2, <3>2 DEF Sound, Block
    <3>. QED BY <1>2, <3>1, <3>2, <3>3 DEF FatalBlocks, Fatal, Block, Clean
  <2>. QED BY <2>2, <2>3
<1>4. CASE CutTrailer
  <2>1. CutAt(at) = "trailer" /\ "trailer" # None
    BY <1>4, FilesAssumption DEF CutTrailer
  <2>2. file.cut = "trailer"
    BY <2>1 DEF CutAt
  <2>. QED BY <1>2, <2>1, <2>2 DEF FatalBlocks, Fatal, Clean
<1>5. CASE BadEnhancedPacket
  <2>1. Block.type = "EPB" /\ (Block.short \/ Block.caplen > MaxPacketBytes \/ ~Block.fits)
    BY <1>5 DEF BadEnhancedPacket, Is
  <2>2. ~Sound
    BY <1>2, <2>1 DEF Sound, Block
  <2>. QED BY <1>2, <2>1, <2>2 DEF FatalBlocks, Fatal, Block, Clean
<1>. QED BY <1>3, <1>4, <1>5

\* A packet that is yielded was there and undamaged.
LEMMA YieldTakes ==
  ASSUME Limit = None, ReadInv, PcapRecord \/ EnhancedPacket \/ SimplePacket
  PROVE  TakesPacket
<1>1. /\ Whole
      /\ IsPacket(Block)
      /\ Block.type = "EPB" => ~Block.short /\ Block.fits /\ Block.caplen <= MaxPacketBytes
  <2>1. CASE PcapRecord
    <3>1. Whole /\ file.format = "pcap"
      BY <2>1 DEF PcapRecord
    <3>2. Block.type = "record" /\ ~Block.short
      BY <3>1, BlockIsMade DEF Whole
    <3>. QED BY <3>1, <3>2 DEF IsPacket
  <2>2. CASE EnhancedPacket
    BY <2>2 DEF EnhancedPacket, Is, IsPacket
  <2>3. CASE SimplePacket
    BY <2>3 DEF SimplePacket, Is, IsPacket
  <2>. QED BY <2>1, <2>2, <2>3
<1>2. Reading /\ at \in Blocks /\ pc = "run" /\ ~src.finished
  BY <1>1, BlockIsMade DEF Whole, Reading
<1>3. at \in PacketBlocks \ FatalBlocks
  BY <1>1, <1>2, WholeIsFine DEF PacketBlocks, Block
<1>4. PICK frame, time : Yield(src, frame, time)
  BY Zenon DEF PcapRecord, EnhancedPacket, SimplePacket
<1>5. pc' = "run"
  BY <1>4 DEF Yield
<1>6. \E e : analyzed' = Append(analyzed, e) /\ e.index = src.index + 1 /\ e.block = at
  BY <1>4 DEF Yield
<1>. QED BY <1>2, <1>3, <1>4, <1>5, <1>6 DEF TakesPacket, GoesOn, Yield

\* A block that is passed has no packet.
LEMMA PassPasses ==
  ASSUME ReadInv, SectionHeader \/ Interface \/ OtherBlock
  PROVE  PassesBlock
<1>1. /\ Whole
      /\ \/ Block.type = "SHB" \/ Block.type = "other"
         \/ Block.type = "IDB" /\ ~Block.short
         \/ Block.type = "SPB" /\ Block.short
  BY DEF SectionHeader, Interface, OtherBlock, Is
<1>2. Reading /\ at \in Blocks /\ pc = "run" /\ ~src.finished
  BY <1>1, BlockIsMade DEF Whole, Reading
<1>3. at \notin PacketBlocks \cup ShortBlocks
  BY <1>1 DEF PacketBlocks, ShortBlocks, IsPacket, Block
<1>4. at \notin FatalBlocks
  BY <1>1, WholeIsFine
<1>5. src = [big_endian |-> src.big_endian, link_type |-> src.link_type,
             interfaces |-> src.interfaces, index |-> src.index, finished |-> src.finished]
  BY DEF ReadInv, Shape
<1>6. CASE SectionHeader
  <2>1. Is("SHB") /\ Pass([src EXCEPT !.big_endian = Block.valid /\ Block.big_endian,
                                      !.interfaces = <<>>])
    BY <1>6 DEF SectionHeader
  <2>2. Block.type = "SHB" /\ file.format = "pcapng" /\ Plausible
    BY <2>1 DEF Is, Whole
  <2>3. Block.valid
    BY <1>2, <2>2, BlockIsMade
  <2>4. Block.big_endian = src.big_endian /\ Block.big_endian \in BOOLEAN
        /\ Block.valid \in BOOLEAN
    BY <1>2, <2>2, BlockIsMade DEF Plausible
  <2>5. (Block.valid /\ Block.big_endian) = src.big_endian
    BY <2>3, <2>4
  <2>6. src' = [src EXCEPT !.big_endian = Block.valid /\ Block.big_endian, !.interfaces = <<>>]
    BY <2>1 DEF Pass
  <2>7. src' = [src EXCEPT !.big_endian = src.big_endian, !.interfaces = <<>>]
    BY <2>5, <2>6, Zenon
  <2>8. src' = [big_endian |-> src.big_endian, link_type |-> src.link_type,
                interfaces |-> <<>>, index |-> src.index, finished |-> src.finished]
    BY <1>5, <2>7
  <2>9. SourceKept
    BY <2>8, Zenon DEF SourceKept
  <2>. QED BY <1>2, <1>3, <1>4, <2>1, <2>9 DEF PassesBlock, GoesOn, Pass
<1>7. CASE Interface
  <2>1. PICK l, s : Pass([src EXCEPT !.link_type = l, !.interfaces = s])
    BY <1>7 DEF Interface
  <2>2. src' = [big_endian |-> src.big_endian, link_type |-> l,
                interfaces |-> s, index |-> src.index, finished |-> src.finished]
    BY <1>5, <2>1 DEF Pass
  <2>3. SourceKept
    BY <2>2, Zenon DEF SourceKept
  <2>. QED BY <1>2, <1>3, <1>4, <2>1, <2>3 DEF PassesBlock, GoesOn, Pass
<1>8. CASE OtherBlock
  <2>1. Pass(src)
    BY <1>8 DEF OtherBlock
  <2>2. SourceKept
    BY <1>5, <2>1, Zenon DEF SourceKept, Pass
  <2>. QED BY <1>2, <1>3, <1>4, <2>1, <2>2 DEF PassesBlock, GoesOn, Pass
<1>. QED BY <1>6, <1>7, <1>8

\* A short interface is no damage.
LEMMA ShortNotes ==
  ASSUME ReadInv, ShortInterface
  PROVE  NotesShort
<1>1. Whole /\ Block.type = "IDB" /\ Block.short /\ Report(src)
  BY DEF ShortInterface, Is
<1>2. Reading /\ at \in Blocks /\ pc = "run" /\ ~src.finished
  BY <1>1, BlockIsMade DEF Whole, Reading
<1>3. at \in ShortBlocks /\ at \notin PacketBlocks
  BY <1>1, <1>2 DEF PacketBlocks, ShortBlocks, IsPacket, Block
<1>4. at \notin FatalBlocks
  BY <1>1, WholeIsFine
<1>. QED BY <1>1, <1>2, <1>3, <1>4 DEF NotesShort, GoesOn, Report

\* The reader stops at the end, at a cut or at damage, and nowhere else.
LEMMA EndStops ==
  ASSUME ReadInv, EndOfFile \/ BadLength \/ CutTrailer \/ BadEnhancedPacket
  PROVE  Stops \/ HasStopped
<1>1. pc = "run"
  BY DEF EndOfFile, BadLength, CutTrailer, BadEnhancedPacket, Is, Whole, Reading
<1>2. /\ src = [big_endian |-> src.big_endian, link_type |-> src.link_type,
                interfaces |-> src.interfaces, index |-> src.index, finished |-> src.finished]
      /\ src.index \in Nat /\ at \in Nat /\ src.finished \in BOOLEAN
  BY DEF ReadInv, Shape
<1>3. CASE EndOfFile
  <2>1. End
    BY <1>3 DEF EndOfFile
  <2>2. CASE src.finished
    BY <1>1, <2>1, <2>2 DEF HasStopped, End
  <2>3. CASE ~src.finished
    <3>1. CASE at <= Len(file.blocks)
      <4>1. Reading
        BY <1>1, <2>3, <3>1 DEF Reading
      <4>2. CutAt(at) \in {"header", "body"}
        BY <1>3, <4>1 DEF EndOfFile
      <4>3. CutAt(at) # None
        BY <4>2, FilesAssumption
      <4>4. at \in FatalBlocks
        BY <4>1, <4>3, BlockIsMade DEF FatalBlocks, Fatal
      <4>5. src' = [src EXCEPT !.index = src.index, !.finished = TRUE]
        BY <1>2, <2>1 DEF End
      <4>. QED BY <1>1, <1>2, <2>1, <2>3, <4>4, <4>5 DEF Stops, End
    <3>2. CASE ~(at <= Len(file.blocks))
      <4>1. Len(file.blocks) \in Nat
        BY FilesAssumption DEF ReadInv, WellMade
      <4>2. at > Len(file.blocks)
        BY <1>2, <3>2, <4>1
      <4>3. src' = [src EXCEPT !.index = src.index, !.finished = TRUE]
        BY <1>2, <2>1 DEF End
      <4>. QED BY <1>1, <1>2, <2>1, <2>3, <4>2, <4>3 DEF Stops, End
    <3>. QED BY <3>1, <3>2
  <2>. QED BY <2>2, <2>3
<1>4. CASE BadLength \/ CutTrailer \/ BadEnhancedPacket
  <2>1. at \in FatalBlocks /\ ~Clean
    BY <1>4, DamageIsFatal
  <2>2. ~src.finished
    BY <1>4 DEF BadLength, CutTrailer, BadEnhancedPacket, Is, Whole, Reading
  <2>3. PICK n \in Nat : Report(Finish([src EXCEPT !.index = n]))
    <3>1. CASE BadLength
      <4>1. PICK k \in {0, 1} : Report(Finish([src EXCEPT !.index = @ + k]))
        BY <3>1, Zenon DEF BadLength
      <4>. QED BY <1>2, <4>1
    <3>2. CASE CutTrailer
      <4>1. src = [src EXCEPT !.index = src.index]
        BY <1>2
      <4>. QED BY <1>2, <3>2, <4>1 DEF CutTrailer
    <3>3. CASE BadEnhancedPacket
      <4>1. PICK k \in {0, 1} : Report(Finish([src EXCEPT !.index = @ + k]))
        BY <3>3, Zenon DEF BadEnhancedPacket
      <4>. QED BY <1>2, <4>1
    <3>. QED BY <1>4, <3>1, <3>2, <3>3
  <2>4. src' = [src EXCEPT !.index = n, !.finished = TRUE]
    BY <1>2, <2>3 DEF Report, Finish
  <2>. QED BY <1>1, <2>1, <2>2, <2>3, <2>4 DEF Stops, Report
<1>. QED BY <1>3, <1>4

-----------------------------------------------------------------------------
(* The short interfaces, counted.                                          *)

LEMMA ShortCount ==
  ASSUME ReadInv
  PROVE  /\ IsFiniteSet(ShortBlocks) /\ Cardinality(ShortBlocks) \in Nat
         /\ ShortBlocks \subseteq Nat
         /\ \A n \in Nat :
              /\ IsFiniteSet(ShortBefore(n))
              /\ Cardinality(ShortBefore(n)) \in Nat
              /\ Cardinality(ShortBefore(n)) <= Cardinality(ShortBlocks)
              /\ ShortBefore(n + 1) = IF n \in ShortBlocks THEN ShortBefore(n) \cup {n}
                                      ELSE ShortBefore(n)
              /\ Cardinality(ShortBefore(n + 1)) =
                   IF n \in ShortBlocks THEN Cardinality(ShortBefore(n)) + 1
                   ELSE Cardinality(ShortBefore(n))
<1>1. Blocks = 1 .. Len(file.blocks) /\ Len(file.blocks) \in Nat
  BY FilesAssumption DEF ReadInv, WellMade, Blocks
<1>2. IsFiniteSet(Blocks)
  BY <1>1, FS_Interval
<1>3. ShortBlocks \subseteq Blocks /\ ShortBlocks \subseteq Nat
  BY <1>1 DEF ShortBlocks
<1>4. IsFiniteSet(ShortBlocks)
  BY <1>2, <1>3, FS_Subset
<1>5. ASSUME NEW n \in Nat
      PROVE  /\ IsFiniteSet(ShortBefore(n))
             /\ Cardinality(ShortBefore(n)) <= Cardinality(ShortBlocks)
  BY <1>4, FS_Subset DEF ShortBefore
<1>6. ASSUME NEW n \in Nat
      PROVE  /\ ShortBefore(n + 1) = IF n \in ShortBlocks THEN ShortBefore(n) \cup {n}
                                     ELSE ShortBefore(n)
             /\ n \notin ShortBefore(n)
  <2>1. \A i \in ShortBlocks : i \in Nat /\ (i < n + 1 <=> i < n \/ i = n)
    BY <1>3
  <2>2. ~(n < n)
    OBVIOUS
  <2>. QED BY <2>1, <2>2 DEF ShortBefore
<1>7. ASSUME NEW n \in Nat
      PROVE  Cardinality(ShortBefore(n + 1)) =
               IF n \in ShortBlocks THEN Cardinality(ShortBefore(n)) + 1
               ELSE Cardinality(ShortBefore(n))
  <2>1. IsFiniteSet(ShortBefore(n)) /\ n \notin ShortBefore(n)
    BY <1>5, <1>6
  <2>2. Cardinality(ShortBefore(n) \cup {n}) = Cardinality(ShortBefore(n)) + 1
    BY <2>1, FS_AddElement
  <2>. QED BY <1>6, <2>2
<1>. QED BY <1>3, <1>4, <1>5, <1>6, <1>7, FS_CardinalityType

-----------------------------------------------------------------------------
(* Every step keeps the invariant.                                         *)

\* What the reader passed before it stopped is all there was to read.
LEMMA AllBeforeDamage ==
  ASSUME ReadInv, pc = "run", ~src.finished,
         at \in FatalBlocks \/ at > Len(file.blocks)
  PROVE  Found = SaneBlocks
<1>1. /\ at \in Nat /\ at <= Len(file.blocks) + 1
      /\ \A i \in FatalBlocks : at <= i
      /\ Found = {i \in PacketBlocks : i < at}
  BY DEF ReadInv, Shape, GoingOn
<1>2. /\ Blocks = 1 .. Len(file.blocks) /\ Len(file.blocks) \in Nat
      /\ PacketBlocks \subseteq Blocks /\ FatalBlocks \subseteq Blocks
  BY FilesAssumption DEF ReadInv, WellMade, Blocks, PacketBlocks, FatalBlocks
<1>3. ASSUME NEW i \in PacketBlocks
      PROVE  i < at <=> \A j \in FatalBlocks : i < j
  <2>1. i \in Nat /\ i <= Len(file.blocks)
    BY <1>2
  <2>2. CASE at \in FatalBlocks
    BY <1>1, <1>2, <2>1, <2>2
  <2>3. CASE at \notin FatalBlocks
    <3>1. at > Len(file.blocks)
      BY <2>3
    <3>2. \A j \in FatalBlocks : j \in Nat /\ j <= Len(file.blocks) /\ at <= j
      BY <1>1, <1>2
    <3>. QED BY <1>1, <1>2, <2>1, <3>1, <3>2
  <2>. QED BY <2>2, <2>3
<1>. QED BY <1>1, <1>3 DEF SaneBlocks

\* A packet is appended once, in order, under its own number.
LEMMA TakesStep ==
  ASSUME ReadInv, TakesPacket
  PROVE  Shape' /\ InOrder' /\ GoingOn'
<1>1. PICK e : analyzed' = Append(analyzed, e) /\ e.index = src.index + 1 /\ e.block = at
  BY DEF TakesPacket
<1>2. /\ pc = "run" /\ ~src.finished /\ at \in PacketBlocks /\ at \notin FatalBlocks
      /\ at \in Blocks /\ file' = file /\ at' = at + 1
  BY DEF TakesPacket, GoesOn
<1>3. /\ src = [big_endian |-> src.big_endian, link_type |-> src.link_type,
                interfaces |-> src.interfaces, index |-> src.index, finished |-> src.finished]
      /\ src.index \in Nat /\ src.finished \in BOOLEAN
      /\ stats = [packets |-> stats.packets, read_errors |-> stats.read_errors]
      /\ stats.read_errors \in Nat /\ at \in Nat \ {0} /\ IsSeq(analyzed)
  BY DEF ReadInv, Shape
<1>4. /\ src'.big_endian = src.big_endian /\ src'.index = src.index + 1
      /\ src'.finished = src.finished
      /\ src' = [big_endian |-> src'.big_endian, link_type |-> src'.link_type,
                 interfaces |-> src'.interfaces, index |-> src'.index,
                 finished |-> src'.finished]
  BY <1>3 DEF TakesPacket
<1>5. /\ stats'.read_errors = stats.read_errors
      /\ stats' = [packets |-> stats'.packets, read_errors |-> stats'.read_errors]
  BY <1>3 DEF TakesPacket
<1>6. /\ IsSeq(analyzed') /\ Len(analyzed) \in Nat
      /\ DOMAIN analyzed = 1 .. Len(analyzed)
      /\ DOMAIN analyzed' = 1 .. Len(analyzed) + 1
      /\ \A i \in 1 .. Len(analyzed) : analyzed'[i] = analyzed[i]
      /\ analyzed'[Len(analyzed) + 1] = e
  BY <1>1, <1>3, AppendOne
<1>7. Len(analyzed') = Len(analyzed) + 1
  <2>1. PICK T : analyzed' \in Seq(T)
    BY <1>6 DEF IsSeq
  <2>2. Len(analyzed') \in Nat /\ DOMAIN analyzed' = 1 .. Len(analyzed')
    BY <2>1
  <2>. QED BY <1>6, <2>2
<1>8. UNCHANGED aboutFile
  BY <1>2, FileStays
<1>9. Shape'
  BY <1>2, <1>3, <1>4, <1>5, <1>6 DEF Shape
<1>10. src.index = Len(analyzed) /\ 1 < at
  BY <1>2 DEF ReadInv, GoingOn
<1>11. InOrder'
  <2>1. ASSUME NEW i \in 1 .. Len(analyzed)
        PROVE  /\ analyzed[i].index = i
               /\ analyzed[i].block \in 1 .. at - 1
               /\ \A j \in 1 .. (i - 1) : analyzed[j].block < analyzed[i].block
    BY <1>6 DEF ReadInv, InOrder
  <2>2. ASSUME NEW i \in DOMAIN analyzed'
        PROVE  /\ analyzed'[i].index = i
               /\ analyzed'[i].block \in 1 .. at' - 1
               /\ \A j \in 1 .. (i - 1) : analyzed'[j].block < analyzed'[i].block
    <3>1. CASE i \in 1 .. Len(analyzed)
      <4>1. analyzed'[i] = analyzed[i]
            /\ \A j \in 1 .. (i - 1) : analyzed'[j] = analyzed[j]
        BY <1>6, <3>1
      <4>2. analyzed[i].block \in 1 .. at' - 1
        BY <1>2, <1>3, <2>1, <3>1
      <4>. QED BY <2>1, <3>1, <4>1, <4>2
    <3>2. CASE i = Len(analyzed) + 1
      <4>1. analyzed'[i] = e /\ \A j \in 1 .. (i - 1) : analyzed'[j] = analyzed[j]
        BY <1>6, <3>2
      <4>2. e.index = i /\ e.block \in 1 .. at' - 1
        BY <1>1, <1>2, <1>3, <1>10, <3>2
      <4>3. \A j \in 1 .. (i - 1) : j \in 1 .. Len(analyzed)
        BY <1>6, <3>2
      <4>4. \A j \in 1 .. (i - 1) : analyzed[j].block < at
        BY <1>3, <2>1, <4>3
      <4>. QED BY <1>1, <4>1, <4>2, <4>4
    <3>. QED BY <1>6, <3>1, <3>2
  <2>. QED BY <2>2 DEF InOrder
<1>12. Found' = Found \cup {at}
  <2>1. Found' = {analyzed'[i].block : i \in 1 .. Len(analyzed) + 1}
    BY <1>6 DEF Found
  <2>2. Found = {analyzed[i].block : i \in 1 .. Len(analyzed)}
    BY <1>6 DEF Found
  <2>3. 1 .. Len(analyzed) + 1 = (1 .. Len(analyzed)) \cup {Len(analyzed) + 1}
    BY <1>6
  <2>. QED BY <1>1, <1>6, <2>1, <2>2, <2>3
<1>13. GoingOn'
  <2>1. /\ file.format \in {"pcap", "pcapng"}
        /\ file.format = "pcapng" => src.big_endian = Header.big_endian
        /\ \A i \in FatalBlocks : at <= i
        /\ Found = {i \in PacketBlocks : i < at}
        /\ stats.read_errors = Cardinality(ShortBefore(at))
    BY <1>2 DEF ReadInv, GoingOn
  <2>2. /\ Blocks = 1 .. Len(file.blocks) /\ Len(file.blocks) \in Nat
        /\ PacketBlocks \subseteq Blocks /\ FatalBlocks \subseteq Blocks
    BY FilesAssumption DEF ReadInv, WellMade, Blocks, PacketBlocks, FatalBlocks
  <2>3. 1 < at' /\ at' <= Len(file.blocks) + 1
    BY <1>2, <1>3, <2>2
  <2>4. \A i \in FatalBlocks : at' <= i
    <3>1. \A i \in FatalBlocks : i \in Nat /\ at <= i /\ i # at
      BY <1>2, <2>1, <2>2
    <3>. QED BY <1>2, <1>3, <3>1
  <2>5. Found' = {i \in PacketBlocks : i < at'}
    <3>1. \A i \in PacketBlocks : i \in Nat
      BY <2>2
    <3>2. {i \in PacketBlocks : i < at'} = {i \in PacketBlocks : i < at} \cup {at}
      BY <1>2, <1>3, <3>1
    <3>. QED BY <1>12, <2>1, <3>2
  <2>6. Cardinality(ShortBefore(at + 1)) = Cardinality(ShortBefore(at))
    <3>1. at \notin ShortBlocks
      BY <1>2 DEF PacketBlocks, ShortBlocks, IsPacket
    <3>. QED BY <1>3, <3>1, ShortCount
  <2>7. Header' = Header /\ ShortBefore(at)' = ShortBefore(at + 1)
    BY <1>2, <1>8 DEF Header, ShortBefore, aboutFile
  <2>8. stats'.read_errors = Cardinality(ShortBefore(at)')
    BY <1>5, <2>1, <2>6, <2>7
  <2>. QED BY <1>2, <1>4, <1>7, <1>8, <1>10, <2>1, <2>3, <2>4, <2>5, <2>7, <2>8
       DEF GoingOn, aboutFile
<1>. QED BY <1>9, <1>11, <1>13

\* A block without a packet changes none of what is counted.
LEMMA PassesStep ==
  ASSUME ReadInv, PassesBlock
  PROVE  Shape' /\ InOrder' /\ GoingOn'
<1>1. /\ pc = "run" /\ ~src.finished /\ at \in Blocks /\ at \notin FatalBlocks
      /\ at \notin PacketBlocks /\ at \notin ShortBlocks
      /\ file' = file /\ at' = at + 1 /\ stats' = stats /\ analyzed' = analyzed
  BY DEF PassesBlock, GoesOn
<1>2. /\ src.index \in Nat /\ src.finished \in BOOLEAN /\ at \in Nat \ {0} /\ IsSeq(analyzed)
      /\ stats = [packets |-> stats.packets, read_errors |-> stats.read_errors]
      /\ stats.read_errors \in Nat
  BY DEF ReadInv, Shape
<1>3. /\ src'.big_endian = src.big_endian /\ src'.index = src.index
      /\ src'.finished = src.finished
      /\ src' = [big_endian |-> src'.big_endian, link_type |-> src'.link_type,
                 interfaces |-> src'.interfaces, index |-> src'.index,
                 finished |-> src'.finished]
  BY DEF PassesBlock, SourceKept
<1>4. UNCHANGED aboutFile
  BY <1>1, FileStays
<1>5. Shape'
  BY <1>1, <1>2, <1>3 DEF Shape
<1>6. InOrder'
  <2>1. \A i \in DOMAIN analyzed : analyzed[i].block \in 1 .. at' - 1
    <3>1. \A b \in 1 .. at - 1 : b \in 1 .. at' - 1
      BY <1>1, <1>2
    <3>. QED BY <3>1 DEF ReadInv, InOrder
  <2>. QED BY <1>1, <2>1 DEF ReadInv, InOrder
<1>7. GoingOn'
  <2>1. /\ file.format \in {"pcap", "pcapng"}
        /\ file.format = "pcapng" => src.big_endian = Header.big_endian
        /\ \A i \in FatalBlocks : at <= i
        /\ Found = {i \in PacketBlocks : i < at}
        /\ stats.read_errors = Cardinality(ShortBefore(at))
        /\ src.index = Len(analyzed) /\ 1 < at
    BY <1>1 DEF ReadInv, GoingOn
  <2>2. /\ Blocks = 1 .. Len(file.blocks) /\ Len(file.blocks) \in Nat
        /\ PacketBlocks \subseteq Blocks /\ FatalBlocks \subseteq Blocks
    BY FilesAssumption DEF ReadInv, WellMade, Blocks, PacketBlocks, FatalBlocks
  <2>3. 1 < at' /\ at' <= Len(file.blocks) + 1
    BY <1>1, <1>2, <2>1, <2>2
  <2>4. \A i \in FatalBlocks : at' <= i
    <3>1. \A i \in FatalBlocks : i \in Nat /\ at <= i /\ i # at
      BY <1>1, <2>1, <2>2
    <3>. QED BY <1>1, <1>2, <3>1
  <2>5. Found' = {i \in PacketBlocks : i < at'}
    <3>1. Found' = Found
      BY <1>1 DEF Found
    <3>2. \A i \in PacketBlocks : i \in Nat /\ i # at
      BY <1>1, <2>2
    <3>3. {i \in PacketBlocks : i < at'} = {i \in PacketBlocks : i < at}
      BY <1>1, <1>2, <3>2
    <3>. QED BY <2>1, <3>1, <3>3
  <2>6. Cardinality(ShortBefore(at + 1)) = Cardinality(ShortBefore(at))
    BY <1>1, <1>2, ShortCount
  <2>7. Header' = Header /\ ShortBefore(at)' = ShortBefore(at + 1)
    BY <1>1, <1>4 DEF Header, ShortBefore, aboutFile
  <2>. QED BY <1>1, <1>3, <1>4, <2>1, <2>3, <2>4, <2>5, <2>6, <2>7 DEF GoingOn, aboutFile
<1>. QED BY <1>5, <1>6, <1>7

\* A short interface is counted, and ends the reading only as one of many.
LEMMA ShortStep ==
  ASSUME ReadInv, NotesShort
  PROVE  Shape' /\ InOrder' /\ GoingOn' /\ (pc' = "done" => Stopped')
<1>1. /\ pc = "run" /\ ~src.finished /\ at \in Blocks /\ at \notin FatalBlocks
      /\ at \notin PacketBlocks /\ at \in ShortBlocks
      /\ file' = file /\ at' = at + 1 /\ src' = src /\ analyzed' = analyzed
      /\ pc' = IF stats.read_errors + 1 >= MaxReadErrors THEN "done" ELSE "run"
  BY DEF NotesShort, GoesOn
<1>2. /\ at \in Nat \ {0} /\ IsSeq(analyzed)
      /\ stats = [packets |-> stats.packets, read_errors |-> stats.read_errors]
      /\ stats.read_errors \in Nat
  BY DEF ReadInv, Shape
<1>3. /\ stats'.read_errors = stats.read_errors + 1
      /\ stats' = [packets |-> stats'.packets, read_errors |-> stats'.read_errors]
  BY <1>2 DEF NotesShort
<1>4. UNCHANGED aboutFile
  BY <1>1, FileStays
<1>5. Shape'
  BY <1>1, <1>2, <1>3 DEF ReadInv, Shape
<1>6. InOrder'
  <2>1. \A i \in DOMAIN analyzed : analyzed[i].block \in 1 .. at' - 1
    <3>1. \A b \in 1 .. at - 1 : b \in 1 .. at' - 1
      BY <1>1, <1>2
    <3>. QED BY <3>1 DEF ReadInv, InOrder
  <2>. QED BY <1>1, <2>1 DEF ReadInv, InOrder
<1>7. /\ file.format \in {"pcap", "pcapng"}
      /\ file.format = "pcapng" => src.big_endian = Header.big_endian
      /\ \A i \in FatalBlocks : at <= i
      /\ Found = {i \in PacketBlocks : i < at}
      /\ stats.read_errors = Cardinality(ShortBefore(at))
      /\ src.index = Len(analyzed) /\ 1 < at
  BY <1>1 DEF ReadInv, GoingOn
<1>8. Cardinality(ShortBefore(at + 1)) = stats'.read_errors
  BY <1>1, <1>2, <1>3, <1>7, ShortCount
<1>9. GoingOn'
  <2>2. /\ Blocks = 1 .. Len(file.blocks) /\ Len(file.blocks) \in Nat
        /\ PacketBlocks \subseteq Blocks /\ FatalBlocks \subseteq Blocks
    BY FilesAssumption DEF ReadInv, WellMade, Blocks, PacketBlocks, FatalBlocks
  <2>3. 1 < at' /\ at' <= Len(file.blocks) + 1
    BY <1>1, <1>2, <1>7, <2>2
  <2>4. \A i \in FatalBlocks : at' <= i
    <3>1. \A i \in FatalBlocks : i \in Nat /\ at <= i /\ i # at
      BY <1>1, <1>7, <2>2
    <3>. QED BY <1>1, <1>2, <3>1
  <2>5. Found' = {i \in PacketBlocks : i < at'}
    <3>1. Found' = Found
      BY <1>1 DEF Found
    <3>2. \A i \in PacketBlocks : i \in Nat /\ i # at
      BY <1>1, <2>2
    <3>3. {i \in PacketBlocks : i < at'} = {i \in PacketBlocks : i < at}
      BY <1>1, <1>2, <3>2
    <3>. QED BY <1>7, <3>1, <3>3
  <2>7. Header' = Header /\ ShortBefore(at)' = ShortBefore(at + 1)
    BY <1>1, <1>4 DEF Header, ShortBefore, aboutFile
  <2>. QED BY <1>1, <1>4, <1>7, <1>8, <2>3, <2>4, <2>5, <2>7 DEF GoingOn, aboutFile
<1>10. ASSUME pc' = "done" PROVE Stopped'
  <2>1. stats.read_errors + 1 >= MaxReadErrors
    BY <1>1, <1>10
  <2>2. Cardinality(ShortBlocks) \in Nat
        /\ Cardinality(ShortBefore(at + 1)) <= Cardinality(ShortBlocks)
    <3>1. at + 1 \in Nat
      BY <1>2
    <3>. QED BY <3>1, ShortCount
  <2>3. MaxReadErrors \in Nat
    BY CaptureFileAssumption
  <2>4. ~(Cardinality(ShortBlocks) < MaxReadErrors)
    BY <1>2, <1>3, <1>8, <2>1, <2>2, <2>3
  <2>5. ShortBlocks' = ShortBlocks
    BY <1>4 DEF aboutFile
  <2>. QED BY <1>10, <2>4, <2>5 DEF Stopped
<1>. QED BY <1>5, <1>6, <1>9, <1>10

\* Where the reader stops it has every packet before the damage.
LEMMA StopsStep ==
  ASSUME ReadInv, Stops
  PROVE  Shape' /\ InOrder' /\ GoingOn' /\ Stopped'
<1>1. PICK n \in Nat : src' = [src EXCEPT !.index = n, !.finished = TRUE]
  BY DEF Stops
<1>2. /\ pc = "run" /\ ~src.finished
      /\ at \in FatalBlocks \/ at > Len(file.blocks)
      /\ pc' \in {"run", "done"} /\ file' = file /\ analyzed' = analyzed
  BY DEF Stops
<1>3. at' \in {at, at + 1}
  BY DEF Stops
<1>4. /\ src = [big_endian |-> src.big_endian, link_type |-> src.link_type,
                interfaces |-> src.interfaces, index |-> src.index, finished |-> src.finished]
      /\ at \in Nat \ {0} /\ IsSeq(analyzed)
      /\ stats = [packets |-> stats.packets, read_errors |-> stats.read_errors]
      /\ stats.read_errors \in Nat
  BY DEF ReadInv, Shape
<1>5. /\ src'.finished = TRUE /\ src'.index = n
      /\ src' = [big_endian |-> src'.big_endian, link_type |-> src'.link_type,
                 interfaces |-> src'.interfaces, index |-> src'.index,
                 finished |-> src'.finished]
  BY <1>1, <1>4
<1>6. UNCHANGED aboutFile
  BY <1>2, FileStays
<1>7. /\ stats'.read_errors \in Nat
      /\ stats' = [packets |-> stats'.packets, read_errors |-> stats'.read_errors]
      /\ stats'.read_errors = stats.read_errors \/ ~Clean
  BY <1>4 DEF Stops
<1>8. Shape'
  <2>1. at' \in Nat \ {0}
    BY <1>3, <1>4
  <2>2. IsSeq(analyzed')
    BY <1>2, <1>4
  <2>3. src'.index \in Nat /\ src'.finished \in BOOLEAN
    BY <1>5
  <2>. QED BY <1>5, <1>7, <2>1, <2>2, <2>3 DEF Shape
<1>9. InOrder'
  <2>1. \A i \in DOMAIN analyzed : analyzed[i].block \in 1 .. at' - 1
    <3>1. \A b \in 1 .. at - 1 : b \in 1 .. at' - 1
      BY <1>3, <1>4
    <3>. QED BY <3>1 DEF ReadInv, InOrder
  <2>. QED BY <1>2, <2>1 DEF ReadInv, InOrder
<1>10. GoingOn'
  BY <1>5 DEF GoingOn
<1>11. Found' = SaneBlocks
  BY <1>2, AllBeforeDamage DEF Found, Stops
<1>12. ASSUME Clean PROVE stats'.read_errors = 0
  <2>1. stats'.read_errors = Cardinality(ShortBefore(at))
    BY <1>7, <1>12 DEF ReadInv, GoingOn, Stops
  <2>2. ShortBlocks = {}
    BY <1>12 DEF Clean, Sound, ShortBlocks
  <2>3. ShortBefore(at) = {}
    BY <2>2 DEF ShortBefore
  <2>. QED BY <2>1, <2>3, FS_EmptySet
<1>13. Stopped'
  BY <1>2, <1>5, <1>6, <1>11, <1>12 DEF Stopped, aboutFile
<1>. QED BY <1>8, <1>9, <1>10, <1>13

\* A file that is open has its header read, and nothing else.
LEMMA OpenStep ==
  ASSUME ReadInv, Open
  PROVE  Shape' /\ InOrder' /\ GoingOn'
<1>1. /\ pc = "open" /\ pc' = "run" /\ at' = 2 /\ src' = Opened /\ file' = file
      /\ file.format \in {"pcap", "pcapng"} /\ CutAt(1) = None
      /\ stats' = stats /\ analyzed' = analyzed
  BY DEF Open
<1>2. at = 1 /\ src = NewSource /\ stats.read_errors = 0 /\ analyzed = <<>>
  BY <1>1 DEF ReadInv, Untouched
<1>3. /\ src'.big_endian = Header.big_endian /\ src'.index = 0 /\ src'.finished = FALSE
      /\ src' = [big_endian |-> src'.big_endian, link_type |-> src'.link_type,
                 interfaces |-> src'.interfaces, index |-> src'.index,
                 finished |-> src'.finished]
  <2>1. PICK l : src' = [NewSource EXCEPT !.big_endian = Header.big_endian, !.link_type = l]
    BY <1>1 DEF Opened
  <2>2. src' = [big_endian |-> Header.big_endian, link_type |-> l, interfaces |-> <<>>,
                index |-> 0, finished |-> FALSE]
    BY <2>1 DEF NewSource
  <2>. QED BY <2>2
<1>4. UNCHANGED aboutFile
  BY <1>1, FileStays
<1>5. Shape'
  <2>1. IsSeq(analyzed)
    BY DEF ReadInv, Shape
  <2>2. stats = [packets |-> stats.packets, read_errors |-> stats.read_errors]
    BY DEF ReadInv, Shape
  <2>3. IsSeq(analyzed') /\ stats' = stats
    BY <1>1, <2>1
  <2>4. stats' = [packets |-> stats'.packets, read_errors |-> stats'.read_errors]
        /\ stats'.read_errors = 0
    BY <1>2, <2>2, <2>3
  <2>5. at' \in Nat \ {0}
    <3>1. at' = 2
      BY <1>1
    <3>. QED BY <3>1
  <2>6. src'.index \in Nat
    <3>1. src'.index = 0
      BY <1>3
    <3>. QED BY <3>1
  <2>7. src'.finished \in BOOLEAN
    BY <1>3
  <2>8. stats'.read_errors \in Nat
    BY <2>4
  <2>. QED BY <1>3, <2>3, <2>4, <2>5, <2>6, <2>7, <2>8 DEF Shape
<1>6. InOrder'
  BY <1>1, <1>2 DEF InOrder
<1>7. /\ Blocks = 1 .. Len(file.blocks) /\ Len(file.blocks) \in Nat \ {0}
      /\ PacketBlocks \subseteq Blocks /\ FatalBlocks \subseteq Blocks
      /\ ShortBlocks \subseteq Blocks
  BY FilesAssumption
     DEF ReadInv, WellMade, Blocks, PacketBlocks, FatalBlocks, ShortBlocks
<1>8. /\ Header.caplen \in Nat /\ Header.length_valid
      /\ Header.type \notin {"record", "IDB", "EPB", "SPB"}
      /\ ~(Header.caplen > MaxPacketBytes)
  <2>1. 1 \in Blocks
    BY <1>7
  <2>2. /\ Header.caplen \in Nat /\ Header.length_valid
        /\ Header.type \notin {"record", "IDB", "EPB", "SPB"}
        /\ Header.caplen > MaxPacketBytes => Header.type \in {"record", "EPB"}
    BY <2>1, FilesAssumption DEF ReadInv, WellMade, Blocks, Header
  <2>. QED BY <2>2
<1>9. 1 \notin FatalBlocks /\ 1 \notin PacketBlocks /\ 1 \notin ShortBlocks
  BY <1>1, <1>8 DEF FatalBlocks, PacketBlocks, ShortBlocks, Fatal, IsPacket, Header
<1>10. \A i \in PacketBlocks \cup FatalBlocks \cup ShortBlocks : i \in Nat /\ 2 <= i
  BY <1>7, <1>9
<1>11. Cardinality(ShortBefore(2)) = 0
  <2>1. ShortBefore(2) = {}
    BY <1>10 DEF ShortBefore
  <2>. QED BY <2>1, FS_EmptySet
<1>12. GoingOn'
  <2>1. Found' = {}
    BY <1>1, <1>2 DEF Found
  <2>2. {i \in PacketBlocks : i < 2} = {}
    BY <1>10
  <2>3. \A i \in FatalBlocks : 2 <= i
    BY <1>10
  <2>4. Header' = Header /\ ShortBefore(at)' = ShortBefore(2)
    BY <1>1, <1>4 DEF Header, ShortBefore, aboutFile
  <2>5. 1 < 2 /\ 2 <= Len(file.blocks) + 1 /\ Len(analyzed') = 0
    BY <1>1, <1>2, <1>7
  <2>. QED BY <1>1, <1>2, <1>3, <1>4, <1>11, <2>1, <2>2, <2>3, <2>4, <2>5
       DEF GoingOn, aboutFile
<1>. QED BY <1>5, <1>6, <1>12

\* The invariant holds of a file not yet open.
LEMMA InitReads == Init => ReadInv
<1> SUFFICES ASSUME Init
             PROVE  ReadInv
  OBVIOUS
<1>1. /\ file \in Files /\ pc = "open" /\ at = 1 /\ src = NewSource
      /\ stats = [packets |-> 0, read_errors |-> 0] /\ analyzed = <<>>
  BY DEF Init
<1>2. IsSeq(<<>>)
  <2>1. <<>> \in Seq({})
    OBVIOUS
  <2>. QED BY <2>1 DEF IsSeq
<1>3. Shape
  BY <1>1, <1>2 DEF Shape, NewSource
<1>4. Untouched /\ InOrder /\ GoingOn
  BY <1>1 DEF Untouched, InOrder, GoingOn
<1>. QED BY <1>1, <1>3, <1>4 DEF ReadInv

\* Every step keeps it.
LEMMA NextReads ==
  ASSUME Limit = None, ReadInv, [Next]_vars
  PROVE  ReadInv'
<1>1. ASSUME TakesPacket \/ PassesBlock
      PROVE  ReadInv'
  <2>1. Shape' /\ InOrder' /\ GoingOn'
    BY <1>1, TakesStep, PassesStep
  <2>2. file' = file /\ pc' = "run"
    BY <1>1 DEF TakesPacket, PassesBlock, GoesOn
  <2>3. src'.finished = src.finished /\ ~src.finished
    <3>1. src = [big_endian |-> src.big_endian, link_type |-> src.link_type,
                 interfaces |-> src.interfaces, index |-> src.index,
                 finished |-> src.finished]
      BY DEF ReadInv, Shape
    <3>. QED BY <1>1, <3>1 DEF TakesPacket, PassesBlock, GoesOn, SourceKept
  <2>4. Untouched'
    BY <2>2 DEF Untouched
  <2>. QED BY <2>1, <2>2, <2>3, <2>4 DEF ReadInv
<1>2. ASSUME NotesShort
      PROVE  ReadInv'
  <2>1. Shape' /\ InOrder' /\ GoingOn' /\ (pc' = "done" => Stopped')
    BY <1>2, ShortStep
  <2>2. file' = file /\ pc' \in {"run", "done"} /\ ~src'.finished
    BY <1>2 DEF NotesShort, GoesOn
  <2>3. Untouched'
    BY <2>2 DEF Untouched
  <2>. QED BY <2>1, <2>2, <2>3 DEF ReadInv
<1>3. ASSUME Stops
      PROVE  ReadInv'
  <2>1. Shape' /\ InOrder' /\ GoingOn' /\ Stopped'
    BY <1>3, StopsStep
  <2>2. file' = file /\ pc' \in {"run", "done"}
    BY <1>3 DEF Stops
  <2>3. Untouched'
    BY <2>2 DEF Untouched
  <2>. QED BY <2>1, <2>2, <2>3 DEF ReadInv
<1>4. ASSUME HasStopped
      PROVE  ReadInv'
  <2>1. pc = "run" /\ src.finished /\ pc' = "done"
        /\ file' = file /\ at' = at /\ stats' = stats /\ analyzed' = analyzed
    BY <1>4 DEF HasStopped
  <2>2. src = [big_endian |-> src.big_endian, link_type |-> src.link_type,
               interfaces |-> src.interfaces, index |-> src.index,
               finished |-> src.finished]
        /\ src.index \in Nat
    BY DEF ReadInv, Shape
  <2>3. src' = [big_endian |-> src'.big_endian, link_type |-> src'.link_type,
                interfaces |-> src'.interfaces, index |-> src'.index,
                finished |-> src'.finished]
        /\ src'.index = src.index /\ src'.finished = TRUE
    BY <1>4, <2>2 DEF HasStopped
  <2>4. Shape'
    BY <2>1, <2>2, <2>3 DEF ReadInv, Shape
  <2>5. InOrder' /\ Untouched' /\ GoingOn'
    BY <2>1 DEF ReadInv, InOrder, Untouched, GoingOn
  <2>6. UNCHANGED aboutFile
    BY <2>1, FileStays
  <2>7. Stopped
    BY <2>1 DEF ReadInv
  <2>8. Stopped'
    BY <2>1, <2>6, <2>7 DEF Stopped, Found, aboutFile
  <2>. QED BY <2>1, <2>4, <2>5, <2>8 DEF ReadInv
<1>5. ASSUME Open
      PROVE  ReadInv'
  <2>1. Shape' /\ InOrder' /\ GoingOn'
    BY <1>5, OpenStep
  <2>2. file' = file /\ pc' = "run" /\ src' = Opened
    BY <1>5 DEF Open
  <2>3. src'.finished = FALSE
    BY <2>2 DEF Opened, NewSource
  <2>4. Untouched'
    BY <2>2 DEF Untouched
  <2>. QED BY <2>1, <2>2, <2>3, <2>4 DEF ReadInv
<1>6. ASSUME OpenFails
      PROVE  ReadInv'
  <2>1. pc' = "failed" /\ UNCHANGED <<file, at, src, link_type, stats, analyzed>>
    BY <1>6 DEF OpenFails
  <2>. QED BY <2>1 DEF ReadInv, Shape, Untouched, InOrder, GoingOn
<1>7. ASSUME UNCHANGED vars
      PROVE  ReadInv'
  <2>1. UNCHANGED <<file, pc, at, src, stats, analyzed>>
    BY <1>7 DEF vars
  <2>2. UNCHANGED aboutFile
    BY <2>1, FileStays
  <2>3. Shape' /\ Untouched' /\ InOrder'
    BY <2>1 DEF ReadInv, Shape, Untouched, InOrder
  <2>4. GoingOn'
    BY <2>1, <2>2 DEF ReadInv, GoingOn, Found, ShortBefore, Header, aboutFile
  <2>5. Stopped => Stopped'
    BY <2>1, <2>2 DEF Stopped, Found, aboutFile
  <2>. QED BY <2>1, <2>3, <2>4, <2>5 DEF ReadInv
<1>. QED
  BY <1>1, <1>2, <1>3, <1>4, <1>5, <1>6, <1>7, YieldTakes, PassPasses, ShortNotes, EndStops
     DEF Next

-----------------------------------------------------------------------------
(* The theorem.                                                            *)

\* Whatever is wrong with a file of either format, in however many places, and
\* wherever it is cut: without --limit a run that ends has analysed exactly the
\* packets before the damage, once, in order and under their own numbers, unless
\* short interface blocks used up the errors; and a file that was only cut is
\* not reported as corrupt.
THEOREM CutKeepsWholePacketsHolds ==
  ASSUME Limit = None
  PROVE  Spec => []CutKeepsWholePackets
<1>1. Init => ReadInv
  BY InitReads
<1>2. ReadInv /\ [Next]_vars => ReadInv'
  BY NextReads
<1>3. ReadInv => CutKeepsWholePackets
  <2> SUFFICES ASSUME ReadInv, pc = "done", Cardinality(ShortBlocks) < MaxReadErrors
               PROVE  /\ Found = SaneBlocks
                      /\ \A i \in DOMAIN analyzed :
                           /\ analyzed[i].index = i
                           /\ \A j \in 1 .. (i - 1) : analyzed[j].block < analyzed[i].block
                      /\ Clean => stats.read_errors = 0
    <3>1. SaneBlocks = {i \in Blocks : /\ IsPacket(file.blocks[i])
                                       /\ \A j \in FatalBlocks : i < j}
      BY DEF SaneBlocks, PacketBlocks
    <3>. QED BY <3>1, Zenon DEF CutKeepsWholePackets, Found, FatalBlocks, ShortBlocks, Clean
  <2>1. Stopped
    BY DEF ReadInv
  <2>. QED BY <2>1 DEF Stopped, ReadInv, InOrder
<1>. QED BY <1>1, <1>2, <1>3, PTL DEF Spec

-----------------------------------------------------------------------------
(* The interfaces of a section.                                            *)

\* The number of the interface that block k describes, for a packet at n.
Number(k, n) == Cardinality({j \in OwnInterfaces(n) : j < k})

\* The interfaces known are those the section has described so far, in order.
Known(interfaces, n) ==
  /\ IsSeq(interfaces)
  /\ Len(interfaces) = Cardinality(OwnInterfaces(n))
  /\ \A k \in OwnInterfaces(n) :
       /\ Number(k, n) + 1 \in 1 .. Len(interfaces)
       /\ interfaces[Number(k, n) + 1] = Resolution(file.blocks[k].tsresol)
  /\ \A i \in 1 .. Len(interfaces) : \E k \in OwnInterfaces(n) : Number(k, n) + 1 = i

LEMMA OwnIsFinite ==
  ASSUME NEW n \in Nat
  PROVE  /\ IsFiniteSet(OwnInterfaces(n)) /\ OwnInterfaces(n) \subseteq 1 .. (n - 1)
         /\ \A k : IsFiniteSet({j \in OwnInterfaces(n) : j < k}) /\ Number(k, n) \in Nat
<1>1. OwnInterfaces(n) \subseteq 1 .. (n - 1)
  BY DEF OwnInterfaces
<1>2. IsFiniteSet(1 .. (n - 1))
  BY FS_Interval
<1>3. IsFiniteSet(OwnInterfaces(n))
  BY <1>1, <1>2, FS_Subset
<1>4. ASSUME NEW k
      PROVE  IsFiniteSet({j \in OwnInterfaces(n) : j < k}) /\ Number(k, n) \in Nat
  <2>1. IsFiniteSet({j \in OwnInterfaces(n) : j < k})
    BY <1>3, FS_Subset
  <2>. QED BY <2>1, FS_CardinalityType DEF Number
<1>. QED BY <1>1, <1>3, <1>4

\* What a block does to the interfaces of its section.
LEMMA OwnGrows ==
  ASSUME NEW n \in Nat, n > 0
  PROVE  /\ file.blocks[n].type = "SHB" => OwnInterfaces(n + 1) = {}
         /\ file.blocks[n].type = "IDB" => OwnInterfaces(n + 1) = OwnInterfaces(n) \cup {n}
         /\ file.blocks[n].type \notin {"SHB", "IDB"} => OwnInterfaces(n + 1) = OwnInterfaces(n)
<1>0. \A k : k \in 1 .. ((n + 1) - 1) <=> k \in 1 .. (n - 1) \/ k = n
  OBVIOUS
<1>1. \A k \in 1 .. (n - 1) : \A j : j \in (k + 1) .. ((n + 1) - 1)
                                       <=> j \in (k + 1) .. (n - 1) \/ j = n
  OBVIOUS
<1>2. \A j : j \notin (n + 1) .. ((n + 1) - 1)
  OBVIOUS
<1>3. \A k : k \in OwnInterfaces(n + 1)
               <=> /\ file.blocks[k].type = "IDB"
                   /\ \/ k = n
                      \/ k \in 1 .. (n - 1) /\ k \in OwnInterfaces(n)
                                            /\ file.blocks[n].type # "SHB"
  <2> SUFFICES ASSUME NEW k
               PROVE  k \in OwnInterfaces(n + 1)
               <=> /\ file.blocks[k].type = "IDB"
                   /\ \/ k = n
                      \/ k \in 1 .. (n - 1) /\ k \in OwnInterfaces(n)
                                            /\ file.blocks[n].type # "SHB"
    OBVIOUS
  <2>1. CASE k = n
    <3>1. k \in 1 .. ((n + 1) - 1)
      BY <1>0, <2>1
    <3>. QED BY <1>2, <2>1, <3>1 DEF OwnInterfaces
  <2>2. CASE k \in 1 .. (n - 1) /\ k # n
    <3>1. k \in 1 .. ((n + 1) - 1)
      BY <1>0, <2>2
    <3>2. (\A j \in (k + 1) .. ((n + 1) - 1) : file.blocks[j].type # "SHB")
            <=> /\ \A j \in (k + 1) .. (n - 1) : file.blocks[j].type # "SHB"
                /\ file.blocks[n].type # "SHB"
      BY <1>1, <2>2
    <3>3. k \in OwnInterfaces(n + 1)
            <=> /\ file.blocks[k].type = "IDB"
                /\ \A j \in (k + 1) .. ((n + 1) - 1) : file.blocks[j].type # "SHB"
      BY <3>1 DEF OwnInterfaces
    <3>4. k \in OwnInterfaces(n)
            <=> /\ file.blocks[k].type = "IDB"
                /\ \A j \in (k + 1) .. (n - 1) : file.blocks[j].type # "SHB"
      BY <2>2 DEF OwnInterfaces
    <3>. QED BY <2>2, <3>2, <3>3, <3>4
  <2>3. CASE ~(k \in 1 .. (n - 1)) /\ k # n
    BY <1>0, <2>3 DEF OwnInterfaces
  <2>. QED BY <2>1, <2>2, <2>3
<1>4. \A k : k \in OwnInterfaces(n) => k \in 1 .. (n - 1) /\ file.blocks[k].type = "IDB"
  BY DEF OwnInterfaces
<1>5. file.blocks[n].type = "SHB" => OwnInterfaces(n + 1) = {}
  BY <1>3
<1>6. file.blocks[n].type = "IDB" => OwnInterfaces(n + 1) = OwnInterfaces(n) \cup {n}
  BY <1>3, <1>4
<1>7. file.blocks[n].type \notin {"SHB", "IDB"} => OwnInterfaces(n + 1) = OwnInterfaces(n)
  BY <1>3, <1>4
<1>. QED BY <1>5, <1>6, <1>7

\* A section that has described nothing yet has no interfaces.
LEMMA KnownNothing ==
  ASSUME NEW n, OwnInterfaces(n) = {}
  PROVE  Known(<<>>, n)
<1>1. Cardinality({}) = 0 /\ Len(<<>>) = 0 /\ <<>> \in Seq({})
  BY FS_EmptySet, EmptySeq
<1>. QED BY <1>1 DEF Known, IsSeq

LEMMA KnownSame ==
  ASSUME NEW s, NEW n, NEW m, Known(s, n), OwnInterfaces(m) = OwnInterfaces(n)
  PROVE  Known(s, m)
BY DEF Known, Number

\* One more description is one more interface, with the next number.
LEMMA KnownMore ==
  ASSUME NEW s, NEW n \in Nat, n > 0, Known(s, n), file.blocks[n].type = "IDB"
  PROVE  Known(Append(s, Resolution(file.blocks[n].tsresol)), n + 1)
<1> DEFINE e == Resolution(file.blocks[n].tsresol)
           t == Append(s, e)
           own == OwnInterfaces(n)
           more == OwnInterfaces(n + 1)
           len == Len(s)
<1>1. more = own \cup {n}
  BY OwnGrows
<1>2. own \subseteq 1 .. (n - 1) /\ IsFiniteSet(own)
  BY OwnIsFinite
<1>3. n \notin own
  BY <1>2
<1>4. /\ IsSeq(t) /\ len \in Nat /\ DOMAIN t = 1 .. len + 1
      /\ \A i \in 1 .. len : t[i] = s[i]
      /\ t[len + 1] = e
  BY AppendOne DEF Known
<1>5. Len(t) = len + 1
  <2> HIDE DEF t
  <2>1. PICK T : t \in Seq(T)
    BY <1>4 DEF IsSeq
  <2>2. Len(t) \in Nat /\ DOMAIN t = 1 .. Len(t)
    BY <2>1, LenProperties
  <2>. QED BY <1>4, <2>2
<1>6. Cardinality(more) = len + 1
  <2>1. Cardinality(own \cup {n}) = Cardinality(own) + 1
    BY <1>2, <1>3, FS_AddElement
  <2>. QED BY <1>1, <2>1 DEF Known
<1>7. \A k \in own : Number(k, n + 1) = Number(k, n)
  <2> SUFFICES ASSUME NEW k \in own
               PROVE  Number(k, n + 1) = Number(k, n)
    OBVIOUS
  <2>1. k < n /\ k \in Int
    BY <1>2
  <2>2. {j \in more : j < k} = {j \in own : j < k}
    <3> HIDE DEF own, more
    <3>. QED BY <1>1, <2>1
  <2>. QED BY <2>2 DEF Number
<1>8. Number(n, n + 1) = len
  <2>1. \A j \in own : j < n
    BY <1>2
  <2>2. {j \in more : j < n} = own
    <3> HIDE DEF own, more
    <3>. QED BY <1>1, <2>1
  <2>. QED BY <2>2 DEF Number, Known
<1>9. ASSUME NEW k \in more
      PROVE  /\ Number(k, n + 1) + 1 \in 1 .. len + 1
             /\ t[Number(k, n + 1) + 1] = Resolution(file.blocks[k].tsresol)
  <2>1. CASE k = n
    BY <1>4, <1>8, <2>1
  <2>2. CASE k \in own
    <3>1. /\ Number(k, n) + 1 \in 1 .. len
          /\ s[Number(k, n) + 1] = Resolution(file.blocks[k].tsresol)
      BY <2>2 DEF Known
    <3> HIDE DEF len, t
    <3>. QED BY <1>4, <1>7, <2>2, <3>1
  <2>. QED BY <1>1, <2>1, <2>2
<1>10. ASSUME NEW i \in 1 .. len + 1
       PROVE  \E k \in more : Number(k, n + 1) + 1 = i
  <2>1. CASE i = len + 1
    BY <1>1, <1>8, <2>1
  <2>2. CASE i \in 1 .. len
    <3>1. PICK k \in own : Number(k, n) + 1 = i
      BY <2>2 DEF Known
    <3>. QED BY <1>1, <1>7, <3>1
  <2>3. i = len + 1 \/ i \in 1 .. len
    BY <1>4
  <2>. QED BY <2>1, <2>2, <2>3
<1> HIDE DEF t, more, len
<1>11. Known(t, n + 1)
  BY <1>4, <1>5, <1>6, <1>9, <1>10 DEF Known, more
<1>. QED BY <1>11 DEF t

\* What a packet's number is taken for is what it means.
LEMMA ResolutionIsMeant ==
  ASSUME NEW n \in Nat, NEW s, Known(s, n), NEW iface \in Nat,
         OwnInterfaces(n) \subseteq Blocks
  PROVE  (IF iface < Len(s) THEN s[iface + 1] ELSE DefaultTicks)
           = IF \E k \in Blocks : Describes(k, iface, n)
             THEN Resolution(file.blocks[CHOOSE k \in Blocks : Describes(k, iface, n)].tsresol)
             ELSE DefaultTicks
<1>0. Len(s) \in Nat
  BY LenProperties DEF Known, IsSeq
<1>1. \A k : Describes(k, iface, n) <=> k \in OwnInterfaces(n) /\ Number(k, n) = iface
  BY DEF Describes, Number
<1>2. CASE \E k \in Blocks : Describes(k, iface, n)
  <2> DEFINE c == CHOOSE k \in Blocks : Describes(k, iface, n)
  <2>1. Describes(c, iface, n)
    BY <1>2
  <2> HIDE DEF c
  <2>2. c \in OwnInterfaces(n) /\ Number(c, n) = iface
    BY <1>1, <2>1
  <2>3. iface + 1 \in 1 .. Len(s) /\ s[iface + 1] = Resolution(file.blocks[c].tsresol)
    BY <2>2 DEF Known
  <2>4. iface < Len(s)
    BY <1>0, <2>3
  <2>. QED BY <1>2, <2>3, <2>4 DEF c
<1>3. CASE ~\E k \in Blocks : Describes(k, iface, n)
  <2>1. ASSUME iface < Len(s)
        PROVE  FALSE
    <3>1. iface + 1 \in 1 .. Len(s)
      BY <1>0, <2>1
    <3>2. PICK k \in OwnInterfaces(n) : Number(k, n) + 1 = iface + 1
      BY <3>1 DEF Known
    <3>3. Number(k, n) = iface
      <4>1. Number(k, n) \in Nat
        BY OwnIsFinite
      <4>. QED BY <3>2, <4>1
    <3>4. k \in Blocks
      BY <3>2
    <3>. QED BY <1>1, <1>3, <3>2, <3>3, <3>4
  <2>. QED BY <1>3, <2>1
<1>. QED BY <1>2, <1>3

-----------------------------------------------------------------------------
(* The times of packets.                                                   *)

IsSource ==
  src = [big_endian |-> src.big_endian, link_type |-> src.link_type,
         interfaces |-> src.interfaces, index |-> src.index, finished |-> src.finished]

\* The interface of a packet of block n, by the file.
TimeMeant(n) ==
  Time(file.blocks[n].ticks,
       IF IsDescribed(n) THEN Resolution(InterfaceOf(n).tsresol) ELSE DefaultTicks)

\* While the reader goes on through a sound pcapng file it knows exactly the
\* interfaces its section has described.
KnowsInterfaces ==
  pc = "run" /\ ~src.finished /\ Sound /\ file.format = "pcapng" =>
    Known(src.interfaces, at)

TimesInv ==
  /\ file \in Files
  /\ at \in Nat \ {0} /\ IsSeq(analyzed) /\ IsSource
  /\ pc \in {"open", "run", "done", "failed"}
  /\ pc = "open" => at = 1
  /\ pc = "run" => at > 1
  /\ KnowsInterfaces
  /\ TimesAreTheInterfaces

\* The file means the same at every step.
LEMMA MeaningStays ==
  ASSUME file' = file
  PROVE  /\ Sound' = Sound
         /\ \A n : TimeMeant(n)' = TimeMeant(n)
         /\ \A s, n : Known(s, n)' <=> Known(s, n)
<1>1. Sound' = Sound
  BY DEF Sound, Blocks, Header
<1>2. ASSUME NEW n
      PROVE  OwnInterfaces(n)' = OwnInterfaces(n)
  BY DEF OwnInterfaces
<1>3. ASSUME NEW n
      PROVE  /\ IsDescribed(n)' = IsDescribed(n)
             /\ InterfaceOf(n)' = InterfaceOf(n)
  BY <1>2 DEF IsDescribed, InterfaceOf, Describes, Blocks
<1>4. \A n : TimeMeant(n)' = TimeMeant(n)
  BY <1>3 DEF TimeMeant
<1>5. ASSUME NEW s, NEW n
      PROVE  Known(s, n)' <=> Known(s, n)
  BY <1>2 DEF Known, Number
<1>. QED BY <1>1, <1>4, <1>5

\* The property, by packet.
LEMMA TimesByPacket ==
  TimesAreTheInterfaces <=>
    (Sound => \A i \in DOMAIN analyzed :
       file.blocks[analyzed[i].block].type = "EPB" =>
         analyzed[i].time = TimeMeant(analyzed[i].block))
  BY Zenon DEF TimesAreTheInterfaces, TimeMeant

\* A step that analyses nothing keeps the times.
LEMMA TimesStay ==
  ASSUME TimesAreTheInterfaces, UNCHANGED <<file, analyzed>>
  PROVE  TimesAreTheInterfaces'
<1>1. Sound' = Sound /\ \A n : TimeMeant(n)' = TimeMeant(n)
  BY MeaningStays
<1>. QED BY <1>1 DEF TimesAreTheInterfaces, TimeMeant

\* A block after the header, in a file of its format.
LEMMA BlockAfterHeader ==
  ASSUME TimesInv, Reading
  PROVE  /\ at \in Blocks /\ at \in Nat /\ at > 1 /\ Block.iface \in Nat
         /\ file.format = "pcap" => Block.type = "record"
<1>1. WellMade(file)
  BY FilesAssumption DEF TimesInv
<1>2. at \in Nat /\ at > 1 /\ at <= Len(file.blocks)
  BY DEF TimesInv, Reading
<1>3. at \in Blocks
  BY <1>1, <1>2 DEF WellMade, Blocks
<1>. QED BY <1>1, <1>2, <1>3 DEF WellMade, Blocks, Block

\* A packet that is yielded has the time it should.
LEMMA TimesYield ==
  ASSUME TimesInv, PcapRecord \/ EnhancedPacket \/ SimplePacket
  PROVE  TimesInv'
<1>1. Whole /\ Reading /\ pc = "run" /\ ~src.finished
  BY DEF PcapRecord, EnhancedPacket, SimplePacket, Is, Whole, Reading
<1>2. at \in Nat /\ at > 1 /\ at \in Blocks /\ Block.iface \in Nat
      /\ (file.format = "pcap" => Block.type = "record")
  BY <1>1, BlockAfterHeader
<1>3. PICK frame, time :
        /\ Yield(src, frame, time)
        /\ Block.type = "EPB" =>
             file.format = "pcapng" /\ time = Time(Block.ticks, ResolutionOf(Block.iface))
  <2>1. CASE PcapRecord
    BY <1>2, <2>1 DEF PcapRecord
  <2>2. CASE EnhancedPacket
    BY <2>2 DEF EnhancedPacket, Is
  <2>3. CASE SimplePacket
    BY <2>3 DEF SimplePacket, Is
  <2>. QED BY <2>1, <2>2, <2>3
<1>4. /\ file' = file /\ at' = at + 1 /\ pc' \in {"run", "done"}
      /\ src' = [src EXCEPT !.index = @ + 1]
  BY <1>3 DEF Yield
<1>5. PICK e : analyzed' = Append(analyzed, e) /\ e.time = time /\ e.block = at
  BY <1>3 DEF Yield
<1>6. IsSource' /\ src'.interfaces = src.interfaces
  BY <1>4 DEF TimesInv, IsSource
<1>7. Block.type \notin {"SHB", "IDB"}
  <2>1. PcapRecord => Block.type = "record"
    BY <1>2 DEF PcapRecord
  <2>. QED BY <2>1 DEF EnhancedPacket, SimplePacket, Is
<1>8. OwnInterfaces(at + 1) = OwnInterfaces(at)
  BY <1>2, <1>7, OwnGrows DEF Block
<1>9. KnowsInterfaces'
  <2> SUFFICES ASSUME Sound', file'.format = "pcapng"
               PROVE  Known(src.interfaces, at)'
    BY DEF KnowsInterfaces
  <2>1. Known(src.interfaces, at)
    BY <1>1, <1>4, MeaningStays DEF TimesInv, KnowsInterfaces
  <2>2. Known(src.interfaces, at + 1)
    BY <1>8, <2>1, KnownSame
  <2>3. Known(src'.interfaces, at')
    BY <1>4, <1>6, <2>2
  <2>. QED BY <1>4, <2>3, MeaningStays
<1>10. IsSeq(analyzed') /\ DOMAIN analyzed = 1 .. Len(analyzed) /\ Len(analyzed) \in Nat
       /\ DOMAIN analyzed' = 1 .. Len(analyzed) + 1
       /\ (\A i \in 1 .. Len(analyzed) : analyzed'[i] = analyzed[i])
       /\ analyzed'[Len(analyzed) + 1] = e
  BY <1>5, AppendOne DEF TimesInv
<1>11. ASSUME Sound, Block.type = "EPB"
       PROVE  e.time = TimeMeant(at)
  <2>1. Known(src.interfaces, at)
    BY <1>1, <1>3, <1>11 DEF TimesInv, KnowsInterfaces
  <2>2. OwnInterfaces(at) \subseteq Blocks
    <3>1. Blocks = 1 .. Len(file.blocks) /\ Len(file.blocks) \in Nat
      BY FilesAssumption DEF TimesInv, WellMade, Blocks
    <3>2. OwnInterfaces(at) \subseteq 1 .. (at - 1)
      BY <1>2, OwnIsFinite
    <3>. QED BY <1>2, <3>1, <3>2
  <2>3. ResolutionOf(Block.iface)
          = IF IsDescribed(at) THEN Resolution(InterfaceOf(at).tsresol) ELSE DefaultTicks
    BY <1>2, <2>1, <2>2, ResolutionIsMeant DEF ResolutionOf, IsDescribed, InterfaceOf, Block
  <2>. QED BY <1>3, <1>5, <1>11, <2>3 DEF TimeMeant, Block
<1>12. TimesAreTheInterfaces'
  <2> SUFFICES ASSUME Sound', NEW i \in DOMAIN analyzed', NEW n, n = analyzed'[i].block,
                      file'.blocks[n].type = "EPB"
               PROVE  analyzed'[i].time = TimeMeant(n)'
    BY DEF TimesAreTheInterfaces, TimeMeant
  <2>0. TimeMeant(n)' = TimeMeant(n)
    BY <1>4, MeaningStays
  <2>1. Sound /\ file' = file
    BY <1>4, MeaningStays
  <2>2. CASE i = Len(analyzed) + 1
    <3>1. n = at
      BY <1>5, <1>10, <2>2
    <3>2. file.blocks[at].type = "EPB"
      BY <2>1, <3>1
    <3>3. e.time = TimeMeant(n)
      BY <1>11, <2>1, <3>1, <3>2 DEF Block
    <3>. QED BY <1>5, <1>10, <2>0, <2>2, <3>3
  <2>3. CASE i \in 1 .. Len(analyzed)
    <3>1. analyzed[i].time = TimeMeant(analyzed[i].block)
      BY <1>10, <2>1, <2>3, TimesByPacket DEF TimesInv
    <3>. QED BY <1>10, <2>0, <2>3, <3>1
  <2>. QED BY <1>10, <2>2, <2>3
<1>. QED BY <1>2, <1>4, <1>6, <1>9, <1>10, <1>12 DEF TimesInv

\* A block that is passed leaves the interfaces its section has described.
LEMMA TimesPass ==
  ASSUME TimesInv, SectionHeader \/ Interface \/ OtherBlock
  PROVE  TimesInv'
<1>1. /\ Whole /\ Reading /\ pc = "run" /\ ~src.finished
      /\ file' = file /\ pc' = pc /\ at' = at + 1 /\ analyzed' = analyzed
  BY DEF SectionHeader, Interface, OtherBlock, Is, Whole, Reading, Pass
<1>2. at \in Nat /\ at > 1 /\ at \in Blocks
  BY <1>1, BlockAfterHeader
<1>3. ASSUME IsSource', Known(src.interfaces, at) => Known(src'.interfaces, at + 1)
      PROVE  TimesInv'
  <2>1. KnowsInterfaces'
    <3> SUFFICES ASSUME Sound', file'.format = "pcapng"
                 PROVE  Known(src.interfaces, at)'
      BY DEF KnowsInterfaces
    <3>1. Known(src.interfaces, at)
      BY <1>1, MeaningStays DEF TimesInv, KnowsInterfaces
    <3>2. Known(src'.interfaces, at')
      BY <1>1, <1>3, <3>1
    <3>. QED BY <1>1, <3>2, MeaningStays
  <2>2. TimesAreTheInterfaces'
    BY <1>1, TimesStay DEF TimesInv
  <2>. QED BY <1>1, <1>2, <1>3, <2>1, <2>2 DEF TimesInv
<1>4. CASE SectionHeader
  <2>1. PICK big : src' = [src EXCEPT !.big_endian = big, !.interfaces = <<>>]
    BY <1>4 DEF SectionHeader, Pass
  <2>2. IsSource' /\ src'.interfaces = <<>>
    BY <2>1 DEF TimesInv, IsSource
  <2>3. Block.type = "SHB"
    BY <1>4 DEF SectionHeader, Is
  <2>4. OwnInterfaces(at + 1) = {}
    BY <1>2, <2>3, OwnGrows DEF Block
  <2>. QED BY <1>3, <2>2, <2>4, KnownNothing
<1>5. CASE Interface
  <2>1. PICK l : src' = [src EXCEPT !.link_type = l,
                                    !.interfaces = Append(@, Resolution(Block.tsresol))]
    BY <1>5 DEF Interface, Pass
  <2>2. IsSource' /\ src'.interfaces = Append(src.interfaces, Resolution(Block.tsresol))
    BY <2>1 DEF TimesInv, IsSource
  <2>3. Block.type = "IDB"
    BY <1>5 DEF Interface, Is
  <2>4. Known(src.interfaces, at) => Known(src'.interfaces, at + 1)
    BY <1>2, <2>2, <2>3, KnownMore DEF Block
  <2>. QED BY <1>3, <2>2, <2>4
<1>6. CASE OtherBlock
  <2>1. src' = src /\ Block.type \notin {"SHB", "IDB"}
    BY <1>6 DEF OtherBlock, Is, Pass
  <2>2. OwnInterfaces(at + 1) = OwnInterfaces(at)
    BY <1>2, <2>1, OwnGrows DEF Block
  <2>3. Known(src.interfaces, at) => Known(src'.interfaces, at + 1)
    BY <2>1, <2>2, KnownSame
  <2>. QED BY <1>3, <2>1, <2>3 DEF TimesInv, IsSource
<1>. QED BY <1>4, <1>5, <1>6

\* Every other step stops the reader, or notes a short interface, which a sound
\* file does not have.
LEMMA TimesStop ==
  ASSUME TimesInv,
         EndOfFile \/ BadLength \/ CutTrailer \/ BadEnhancedPacket \/ ShortInterface
  PROVE  TimesInv'
<1>1. /\ pc = "run" /\ file' = file /\ at' \in {at, at + 1} /\ analyzed' = analyzed
      /\ pc' \in {"run", "done"}
  BY DEF EndOfFile, BadLength, CutTrailer, BadEnhancedPacket, ShortInterface, Is, Whole,
         Reading, End, Report
<1>2. /\ IsSource'
      /\ pc' = "run" => src'.finished \/ ShortInterface
  <2>1. CASE EndOfFile
    BY <2>1 DEF EndOfFile, End, TimesInv, IsSource
  <2>2. CASE BadLength
    <3>1. PICK n : src' = Finish([src EXCEPT !.index = n])
      BY <2>2 DEF BadLength, Report
    <3>. QED BY <3>1 DEF Finish, TimesInv, IsSource
  <2>3. CASE CutTrailer
    BY <2>3 DEF CutTrailer, Report, Finish, TimesInv, IsSource
  <2>4. CASE BadEnhancedPacket
    <3>1. PICK n : src' = Finish([src EXCEPT !.index = n])
      BY <2>4 DEF BadEnhancedPacket, Report
    <3>. QED BY <3>1 DEF Finish, TimesInv, IsSource
  <2>5. CASE ShortInterface
    BY <2>5 DEF ShortInterface, Report, TimesInv, IsSource
  <2>. QED BY <2>1, <2>2, <2>3, <2>4, <2>5
<1>3. ShortInterface => ~Sound
  <2> SUFFICES ASSUME ShortInterface
               PROVE  ~Sound
    OBVIOUS
  <2>1. Reading /\ Block.short
    BY DEF ShortInterface, Is, Whole
  <2>. QED BY <2>1, BlockAfterHeader DEF Sound, Block
<1>4. KnowsInterfaces'
  BY <1>1, <1>2, <1>3, MeaningStays DEF KnowsInterfaces
<1>5. TimesAreTheInterfaces'
  BY <1>1, TimesStay DEF TimesInv
<1>6. at' \in Nat \ {0} /\ at' > 1
  BY <1>1 DEF TimesInv
<1>. QED BY <1>1, <1>2, <1>4, <1>5, <1>6 DEF TimesInv

LEMMA TimesOpen ==
  ASSUME TimesInv, Open \/ OpenFails
  PROVE  TimesInv'
<1>1. /\ pc = "open" /\ file' = file /\ analyzed' = analyzed /\ at = 1
  BY DEF Open, OpenFails, TimesInv
<1>2. TimesAreTheInterfaces'
  BY <1>1, TimesStay DEF TimesInv
<1>3. CASE Open
  <2>1. pc' = "run" /\ at' = 2 /\ src' = Opened
    BY <1>3 DEF Open
  <2>2. IsSource' /\ src'.interfaces = <<>>
    BY <2>1 DEF Opened, NewSource, IsSource
  <2>3. OwnInterfaces(2) = {}
    <3>1. WellMade(file)
      BY FilesAssumption DEF TimesInv
    <3>2. file.blocks[1].type # "IDB"
      BY <3>1 DEF WellMade
    <3>3. 1 .. (2 - 1) = {1}
      OBVIOUS
    <3>. QED BY <3>2, <3>3 DEF OwnInterfaces
  <2>4. Known(src'.interfaces, at')
    BY <2>1, <2>2, <2>3, KnownNothing
  <2>5. KnowsInterfaces'
    BY <1>1, <2>4, MeaningStays DEF KnowsInterfaces
  <2>. QED BY <1>1, <1>2, <2>1, <2>2, <2>5 DEF TimesInv
<1>4. CASE OpenFails
  <2>1. pc' = "failed" /\ UNCHANGED <<file, at, src, analyzed>>
    BY <1>4 DEF OpenFails
  <2>. QED BY <1>2, <2>1 DEF TimesInv, KnowsInterfaces, IsSource
<1>. QED BY <1>3, <1>4

LEMMA TimesInvariant == Spec => []TimesInv
<1>1. Init => TimesInv
  <2> SUFFICES ASSUME Init
               PROVE  TimesInv
    OBVIOUS
  <2>1. /\ file \in Files /\ pc = "open" /\ at = 1 /\ src = NewSource /\ analyzed = <<>>
    BY DEF Init
  <2>2. <<>> \in Seq({}) /\ IsSource
    BY <2>1 DEF IsSource, NewSource
  <2>3. DOMAIN analyzed = {}
    BY <2>1
  <2>. QED BY <2>1, <2>2, <2>3 DEF TimesInv, IsSeq, KnowsInterfaces, TimesAreTheInterfaces
<1>2. TimesInv /\ [Next]_vars => TimesInv'
  <2>1. TimesInv /\ Next => TimesInv'
    BY TimesOpen, TimesStop, TimesYield, TimesPass DEF Next
  <2>2. TimesInv /\ UNCHANGED vars => TimesInv'
    <3> SUFFICES ASSUME TimesInv, UNCHANGED vars
                 PROVE  TimesInv'
      OBVIOUS
    <3>1. UNCHANGED <<file, pc, at, src, analyzed>>
      BY DEF vars
    <3>2. TimesAreTheInterfaces'
      BY <3>1, TimesStay DEF TimesInv
    <3>3. KnowsInterfaces'
      BY <3>1, MeaningStays DEF TimesInv, KnowsInterfaces
    <3>. QED BY <3>1, <3>2, <3>3 DEF TimesInv, IsSource
  <2>. QED BY <2>1, <2>2
<1>. QED BY <1>1, <1>2, PTL DEF Spec

\* For every file of either format, cut or not, and every limit: a packet of a
\* sound file is timed by the interface it was captured on, whatever sections
\* and interfaces come before it.
THEOREM TimesAreTheInterfacesHolds == Spec => []TimesAreTheInterfaces
<1>1. TimesInv => TimesAreTheInterfaces
  BY DEF TimesInv
<1>. QED BY <1>1, TimesInvariant, PTL

-----------------------------------------------------------------------------
(* Recursion.                                                              *)

LEMMA Induction ==
  ASSUME NEW S, 0 \in S, \A n \in Nat : n \in S => n + 1 \in S
  PROVE  Nat \subseteq S
<1> DEFINE B == {n \in Nat : n \notin S}
           R == OpToRel(<, Nat)
<1> SUFFICES ASSUME B # {} PROVE FALSE
  OBVIOUS
<1>1. PICK least \in B : \A y \in B : ~(<<y, least>> \in R)
  <2>1. IsWellFoundedOn(R, Nat)
    BY NatLessThanWellFounded
  <2>2. B \subseteq Nat
    OBVIOUS
  <2> HIDE DEF R, B
  <2>. QED BY <2>1, <2>2, WFMin
<1>2. \A y \in B : ~(y < least)
  BY <1>1 DEF OpToRel
<1> HIDE DEF R
<1>3. least - 1 \in Nat /\ least - 1 < least /\ least - 1 + 1 = least
  OBVIOUS
<1>. QED BY <1>2, <1>3

\* One turn of the folds over a DNS message, which does not depend on the element:
\* of the loop of read_name, over the questions, or over the answers.
Step(p, acc) ==
  CASE p.does = "name"     -> NameStep(acc, p.of, p.avail)
    [] p.does = "question" -> ReadQuestion(acc, p.of, p.avail)
    [] p.does = "answer"   -> ReadAnswer(acc, p.of, p.avail)

\* One turn of a recursion: the sizes of parts are added up, an extension header
\* is walked, or a fold goes on.
Turn(p, i, acc) ==
  CASE p.does = "add"  -> acc + p.of[i].size
    [] p.does = "walk" -> WalkExtension(acc, p.of, i)
    [] OTHER           -> Step(p, acc)

Turns(it, p, base, n) ==
  it = [i \in 0 .. n |-> IF i = 0 THEN base ELSE Turn(p, i, it[i - 1])]

\* There is a function that takes n turns.
LEMMA TurnsExist ==
  ASSUME NEW p, NEW base, NEW n \in Nat
  PROVE  \E it : Turns(it, p, base, n)
<1> DEFINE N == {m \in Nat : \E it : Turns(it, p, base, m)}
<1>1. 0 \in N
  <2>1. Turns([i \in 0 .. 0 |-> base], p, base, 0)
    BY DEF Turns
  <2>. QED BY <2>1
<1>2. ASSUME NEW m \in Nat, m \in N
      PROVE  m + 1 \in N
  <2>1. PICK it : Turns(it, p, base, m)
    BY <1>2
  <2> DEFINE next == [i \in 0 .. m + 1 |-> IF i = 0 THEN base ELSE Turn(p, i, it[i - 1])]
  <2>2. \A i \in 0 .. m : next[i] = it[i]
    BY <2>1 DEF Turns
  <2>3. \A i \in 0 .. m + 1 : i # 0 => i - 1 \in 0 .. m
    OBVIOUS
  <2>4. next = [i \in 0 .. m + 1 |-> IF i = 0 THEN base ELSE Turn(p, i, next[i - 1])]
    BY <2>2, <2>3
  <2>5. Turns(next, p, base, m + 1)
    BY <2>4 DEF Turns
  <2> HIDE DEF next
  <2>. QED BY <2>5
<1>3. Nat \subseteq N
  <2> HIDE DEF N
  <2>. QED BY <1>1, <1>2, Induction
<1>. QED BY <1>3

\* The end of each part is that of the part before and its size.
LEMMA EndsAddUp ==
  ASSUME NEW seq, Len(seq) \in Nat, \A i \in 1 .. Len(seq) : seq[i].size \in Nat
  PROVE  /\ EndOf(seq, 0) = 0
         /\ \A i \in 1 .. Len(seq) : EndOf(seq, i) = EndOf(seq, i - 1) + seq[i].size
         /\ \A i \in 0 .. Len(seq) : EndOf(seq, i) \in Nat
<1> DEFINE n == Len(seq)
           p == [does |-> "add", of |-> seq]
           ends(it) == it = [i \in 0 .. n |-> IF i = 0 THEN 0 ELSE it[i - 1] + seq[i].size]
           end == CHOOSE it : ends(it)
<1>1. \A it : Turns(it, p, 0, n) <=> ends(it)
  BY DEF Turns, Turn
<1>2. ends(end)
  <2>1. \E it : ends(it)
    BY <1>1, TurnsExist
  <2> HIDE DEF ends
  <2>. QED BY <2>1
<1>3. \A i : EndOf(seq, i) = end[i]
  BY DEF EndOf
<1> HIDE DEF end
<1>4. end[0] = 0 /\ \A i \in 1 .. n : end[i] = end[i - 1] + seq[i].size
  BY <1>2
<1> DEFINE N == {i \in Nat : i <= n => end[i] \in Nat}
<1>5. 0 \in N
  BY <1>4
<1>6. ASSUME NEW i \in Nat, i \in N
      PROVE  i + 1 \in N
  <2> SUFFICES ASSUME i + 1 <= n PROVE end[i + 1] \in Nat
    OBVIOUS
  <2>1. i + 1 \in 1 .. n /\ i + 1 - 1 = i
    OBVIOUS
  <2>. QED BY <1>4, <1>6, <2>1
<1>7. Nat \subseteq N
  <2> HIDE DEF N
  <2>. QED BY <1>5, <1>6, Induction
<1>. QED BY <1>3, <1>4, <1>7

-----------------------------------------------------------------------------
(* Where the layers of a frame are.                                        *)

\* The sender's offsets are numbers, in the order of the layers.
LEMMA LayersInOrder ==
  ASSUME NEW f, IsFrame(f), IsIp(f)
  PROVE  /\ NetworkStart(f) \in Nat
         /\ NetworkEnd(f) \in Nat /\ NetworkEnd(f) >= NetworkStart(f)
         /\ MessageStart(f) \in Nat /\ MessageStart(f) >= NetworkEnd(f)
         /\ MessageEnd(f) \in Nat /\ MessageEnd(f) >= MessageStart(f)
         /\ f.captured \in Nat
<1>1. NetworkStart(f) \in Nat
  BY DEF IsFrame, IsIp, NetworkStart, LinkSize, EthernetSize
<1>2. f.network.kind \in {"ipv4", "ipv6"}
  BY DEF IsIp
<1>3. NetworkEnd(f) \in Nat /\ NetworkEnd(f) >= NetworkStart(f)
  <2>1. CASE f.network.kind = "ipv4"
    BY <1>1, <2>1 DEF IsFrame, NetworkEnd, Ipv4Size
  <2>2. CASE f.network.kind = "ipv6"
    <3> DEFINE extensions == f.network.extensions
    <3>1. Len(extensions) \in Nat /\ \A i \in 1 .. Len(extensions) : extensions[i].size \in Nat
      BY <2>2 DEF IsFrame
    <3>2. EndOf(extensions, Len(extensions)) \in Nat
      <4>1. Len(extensions) \in 0 .. Len(extensions)
        BY <3>1
      <4> HIDE DEF extensions
      <4>. QED BY <3>1, <4>1, EndsAddUp
    <3>. QED BY <1>1, <2>2, <3>2 DEF NetworkEnd
  <2>. QED BY <1>2, <2>1, <2>2
<1>4. ASSUME f.network.protocol = "tcp"
      PROVE  TcpSize(f.transport) \in Nat
  BY <1>2, <1>4 DEF IsFrame, TcpSize
<1>5. MessageStart(f) \in Nat /\ MessageStart(f) >= NetworkEnd(f)
  BY <1>3, <1>4 DEF MessageStart
<1>6. f.payload \in Nat /\ f.captured \in Nat
  BY DEF IsFrame
<1>. QED BY <1>1, <1>3, <1>5, <1>6 DEF MessageEnd

\* What a header parser should find: the payload from the end of the network
\* header to the end of the message, as far as it was captured, and the
\* sender's offset and protocol.
Finds(parsed, f) ==
  /\ parsed.payload = Reader(NetworkEnd(f), Lesser(MessageEnd(f), f.captured))
  /\ parsed.header.fragment_offset = Offset(f)
  /\ parsed.header.protocol = f.network.protocol

LEMMA Ipv4Finds ==
  ASSUME NEW f, IsFrame(f), Truthful(f), f.network.kind = "ipv4",
         NEW r, r = Reader(NetworkStart(f), f.captured),
         parse_ipv4(r, f.network) # None
  PROVE  Finds(parse_ipv4(r, f.network), f)
<1> DEFINE ip == f.network
           start == NetworkStart(f)
           end == MessageEnd(f)
           size == Ipv4Size(ip)
           payload == skip(r, size)
           read == parse_ipv4(r, ip)
<1>1. /\ start \in Nat /\ end \in Nat /\ f.captured \in Nat
      /\ NetworkEnd(f) \in Nat /\ NetworkEnd(f) < end
  BY LayersInOrder DEF Truthful
<1>2. ip.ihl \in Nat /\ size \in Nat /\ NetworkEnd(f) = start + size
  BY DEF IsFrame, Ipv4Size, NetworkEnd
<1>3. ip.ihl >= 5
  BY <1>2 DEF parse_ipv4
<1>4. size > 0
  BY <1>2, <1>3 DEF Ipv4Size
<1>5. ip.total_len = end - start \/ (ip.total_len = 0 /\ f.captured <= end)
  BY DEF Truthful
<1>6. payload = [pos |-> start + size, end |-> f.captured]
  BY DEF skip, Reader
<1> HIDE DEF payload
<1>7. read.payload = (IF ip.total_len > size THEN limit(payload, ip.total_len - size) ELSE payload)
  BY DEF parse_ipv4, payload
<1>8. read.header.fragment_offset = ip.fragment_offset /\ read.header.protocol = ip.protocol
  BY DEF parse_ipv4
<1> HIDE DEF read, ip, size, start, end
<1>9. read.payload = Reader(start + size, Lesser(end, f.captured))
  <2>1. CASE ip.total_len = end - start
    <3>1. ip.total_len > size /\ start + size + (ip.total_len - size) = end
      BY <1>1, <1>2, <2>1
    <3>2. read.payload = [pos |-> start + size, end |-> Lesser(f.captured, end)]
      BY <1>6, <1>7, <3>1 DEF limit
    <3>. QED BY <1>1, <3>2 DEF Reader, Lesser
  <2>2. CASE ip.total_len = 0 /\ f.captured <= end
    <3>1. ~(ip.total_len > size)
      BY <1>2, <1>4, <2>2
    <3>. QED BY <1>1, <1>6, <1>7, <2>2, <3>1 DEF Reader, Lesser
  <2>. QED BY <1>5, <2>1, <2>2
<1>10. Offset(f) = ip.fragment_offset
  BY DEF Offset, ip
<1>. QED BY <1>2, <1>8, <1>9, <1>10 DEF Finds, ip, size, start, end, read

-----------------------------------------------------------------------------
(* Extension headers.                                                      *)

\* What a walk has found behind i headers of an IPv6 packet, from `pos`.
Walked(w, ip, i, pos, end) ==
  /\ {"reader", "header", "stopped"} \subseteq DOMAIN w
  /\ {"protocol", "fragment_offset"} \subseteq DOMAIN w.header
  /\ w.reader = Reader(pos + EndOf(ip.extensions, i), end)
  /\ w.header.protocol = NextHeader(ip, i)
  /\ w.header.fragment_offset =
       IF i > 0 /\ LaterFragment(ip.extensions[i]) THEN ip.extensions[i].offset ELSE 0
  /\ i < Len(ip.extensions) => ~w.stopped

\* One more header.
LEMMA WalkGoesOn ==
  ASSUME NEW ip, NEW i, NEW pos \in Nat, NEW end \in Nat, NEW w,
         Len(ip.extensions) \in Nat, i \in 1 .. Len(ip.extensions),
         \A j \in 1 .. Len(ip.extensions) :
           /\ ip.extensions[j].size \in Nat
           /\ ip.extensions[j].kind = "fragment" => ip.extensions[j].offset \in Nat
           /\ LaterFragment(ip.extensions[j]) => j = Len(ip.extensions),
         w # None, Walked(w, ip, i - 1, pos, end),
         WalkExtension(w, ip, i) # None
  PROVE  Walked(WalkExtension(w, ip, i), ip, i, pos, end)
<1> DEFINE ext == ip.extensions[i]
           n == Len(ip.extensions)
           next == WalkExtension(w, ip, i)
           before == EndOf(ip.extensions, i - 1)
<1>1. ~w.stopped /\ w.reader = Reader(pos + before, end)
  BY DEF Walked
<1>2. need(w.reader, ext.size)
  BY <1>1 DEF WalkExtension
<1>3. /\ next = [w EXCEPT
                   !.reader = skip(@, ext.size),
                   !.header = IF ext.kind # "fragment" THEN [@ EXCEPT !.protocol = NextHeader(ip, i)]
                              ELSE [@ EXCEPT !.protocol = NextHeader(ip, i), !.fragmented = TRUE,
                                             !.fragment_offset = ext.offset,
                                             !.more_fragments = ext.more_fragments,
                                             !.identification = ext.identification],
                   !.stopped = ext.kind = "fragment" /\ ext.offset > 0]
  BY <1>1, <1>2 DEF WalkExtension
<1>4. /\ before \in Nat /\ ext.size \in Nat
      /\ EndOf(ip.extensions, i) = before + ext.size
  <2>1. /\ \A j \in 1 .. n : EndOf(ip.extensions, j)
                               = EndOf(ip.extensions, j - 1) + ip.extensions[j].size
        /\ \A j \in 0 .. n : EndOf(ip.extensions, j) \in Nat
    <3>1. \A j \in 1 .. Len(ip.extensions) : ip.extensions[j].size \in Nat
      OBVIOUS
    <3>. QED BY <3>1, EndsAddUp, Zenon
  <2>2. i - 1 \in 0 .. n
    OBVIOUS
  <2>. QED BY <2>1, <2>2
<1> HIDE DEF next, before
<1>5. next.reader = Reader(pos + EndOf(ip.extensions, i), end)
  <2>1. next.reader = skip(w.reader, ext.size)
    BY <1>3 DEF Walked
  <2>2. next.reader = [pos |-> pos + before + ext.size, end |-> end]
    BY <1>1, <2>1 DEF skip, Reader
  <2>. QED BY <1>4, <2>2 DEF Reader
<1>6. /\ {"reader", "header", "stopped"} \subseteq DOMAIN next
      /\ next.stopped = (ext.kind = "fragment" /\ ext.offset > 0)
  BY <1>3 DEF Walked
<1>7. /\ {"protocol", "fragment_offset"} \subseteq DOMAIN next.header
      /\ next.header.protocol = NextHeader(ip, i)
      /\ next.header.fragment_offset =
           IF ext.kind = "fragment" THEN ext.offset ELSE w.header.fragment_offset
  <2>1. CASE ext.kind # "fragment"
    <3>1. next.header = [w.header EXCEPT !.protocol = NextHeader(ip, i)]
      BY <1>3, <2>1 DEF Walked
    <3>. QED BY <2>1, <3>1 DEF Walked
  <2>2. CASE ext.kind = "fragment"
    <3>1. next.header = [w.header EXCEPT !.protocol = NextHeader(ip, i), !.fragmented = TRUE,
                                         !.fragment_offset = ext.offset,
                                         !.more_fragments = ext.more_fragments,
                                         !.identification = ext.identification]
      BY <1>3, <2>2 DEF Walked
    <3>. QED BY <2>2, <3>1 DEF Walked
  <2>. QED BY <2>1, <2>2
<1>8. next.header.fragment_offset = IF LaterFragment(ext) THEN ext.offset ELSE 0
  <2>1. CASE ext.kind = "fragment"
    <3>1. ext.offset \in Nat
      BY <2>1
    <3>. QED BY <1>7, <2>1, <3>1 DEF LaterFragment
  <2>2. CASE ext.kind # "fragment"
    <3>1. ~(i - 1 > 0 /\ LaterFragment(ip.extensions[i - 1]))
      <4>1. i - 1 > 0 => i - 1 \in 1 .. n /\ i - 1 # n
        OBVIOUS
      <4>. QED BY <4>1
    <3>2. w.header.fragment_offset = 0
      BY <3>1 DEF Walked
    <3>. QED BY <1>7, <2>2, <3>2 DEF LaterFragment
  <2>. QED BY <2>1, <2>2
<1>9. i < n => ~next.stopped
  <2>1. i < n => ~LaterFragment(ext)
    OBVIOUS
  <2>. QED BY <1>6, <2>1 DEF LaterFragment
<1>10. i > 0
  OBVIOUS
<1>. QED BY <1>5, <1>6, <1>7, <1>8, <1>9, <1>10 DEF Walked, next

LEMMA Ipv6Finds ==
  ASSUME NEW f, IsFrame(f), Truthful(f), f.network.kind = "ipv6",
         NEW r, r = Reader(NetworkStart(f), f.captured),
         parse_ipv6(r, f.network) # None
  PROVE  Finds(parse_ipv6(r, f.network), f)
<1> DEFINE ip == f.network
           n == Len(ip.extensions)
           pos == NetworkStart(f) + 40
           end == Lesser(MessageEnd(f), f.captured)
           fixed == skip(r, 40)
           start == [reader |-> IF ip.payload_len > 0 THEN limit(fixed, ip.payload_len) ELSE fixed,
                     header |-> [kind |-> ip.kind, protocol |-> NextHeader(ip, 0),
                                 fragmented |-> FALSE, fragment_offset |-> 0,
                                 more_fragments |-> FALSE, identification |-> 0],
                     stopped |-> FALSE]
           turns == Lesser(n, MaxExtensions)
           p == [does |-> "walk", of |-> ip]
           walks(it) == it = [i \in 0 .. turns |->
                                IF i = 0 THEN start ELSE WalkExtension(it[i - 1], ip, i)]
           walk == CHOOSE it : walks(it)
           read == parse_ipv6(r, ip)
<1>1. /\ NetworkStart(f) \in Nat /\ MessageEnd(f) \in Nat /\ f.captured \in Nat
      /\ NetworkEnd(f) \in Nat /\ NetworkEnd(f) < MessageEnd(f)
  BY LayersInOrder DEF Truthful
<1>2. /\ n \in Nat /\ turns = n
      /\ ip.payload_len = MessageEnd(f) - NetworkStart(f) - 40
      /\ NetworkEnd(f) = NetworkStart(f) + (40 + EndOf(ip.extensions, n))
  BY DEF Truthful, IsFrame, MaxExtensions, Lesser, NetworkEnd
<1>3. \A j \in 1 .. n :
        /\ ip.extensions[j].size \in Nat
        /\ ip.extensions[j].kind = "fragment" => ip.extensions[j].offset \in Nat
        /\ LaterFragment(ip.extensions[j]) => j = n
  BY DEF Truthful, IsFrame
<1>4. EndOf(ip.extensions, 0) = 0 /\ EndOf(ip.extensions, n) \in Nat
  <2>1. \A j \in 1 .. Len(ip.extensions) : ip.extensions[j].size \in Nat
    BY <1>3
  <2>2. n \in 0 .. Len(ip.extensions)
    BY <1>2
  <2> HIDE DEF ip
  <2>. QED BY <1>2, <2>1, <2>2, EndsAddUp
<1>5. start.reader = Reader(pos, end)
  <2>1. ip.payload_len > 0 /\ pos + ip.payload_len = MessageEnd(f)
    BY <1>1, <1>2, <1>4
  <2>2. fixed = [pos |-> pos, end |-> f.captured]
    BY DEF skip, Reader
  <2>3. start.reader = limit(fixed, ip.payload_len)
    BY <2>1
  <2> HIDE DEF fixed, pos, ip, start
  <2>4. start.reader = [pos |-> pos, end |-> Lesser(f.captured, MessageEnd(f))]
    BY <2>1, <2>2, <2>3 DEF limit
  <2>. QED BY <1>1, <2>4 DEF Reader, Lesser
<1>6. Walked(start, ip, 0, pos, end)
  <2>1. pos + EndOf(ip.extensions, 0) = pos
    BY <1>1, <1>4
  <2>. QED BY <1>5, <2>1 DEF Walked
<1>7. walks(walk)
  <2>1. \E it : Turns(it, p, start, turns)
    <3> HIDE DEF p, start, turns, n
    <3>. QED BY <1>2, TurnsExist
  <2>2. \A it : Turns(it, p, start, turns) <=> walks(it)
    BY DEF Turns, Turn
  <2> HIDE DEF walks, start, turns, p
  <2>. QED BY <2>1, <2>2
<1>8. /\ walk[turns] # None
      /\ read.payload = walk[turns].reader /\ read.header = walk[turns].header
  BY DEF parse_ipv6
<1>9. walk[0] = start /\ \A i \in 1 .. n : walk[i] = WalkExtension(walk[i - 1], ip, i)
  <2> HIDE DEF start, ip, walk
  <2>. QED BY <1>2, <1>7
<1> HIDE DEF walk, start, read
<1>10. pos \in Nat /\ end \in Nat
  BY <1>1 DEF Lesser
<1> DEFINE N == {i \in Nat : i <= n => walk[i] = None \/ Walked(walk[i], ip, i, pos, end)}
<1>11. 0 \in N
  BY <1>6, <1>9
<1>12. ASSUME NEW i \in Nat, i \in N
       PROVE  i + 1 \in N
  <2> SUFFICES ASSUME i + 1 <= n, walk[i + 1] # None
               PROVE  Walked(walk[i + 1], ip, i + 1, pos, end)
    OBVIOUS
  <2> DEFINE next == i + 1
             w == walk[i]
  <2>1. next \in 1 .. n /\ next - 1 = i
    BY <1>2
  <2>2. walk[next] = WalkExtension(w, ip, next)
    BY <1>9, <2>1
  <2>3. w # None
    BY <2>2 DEF WalkExtension
  <2>4. Walked(w, ip, next - 1, pos, end)
    <3>1. Walked(w, ip, i, pos, end)
      BY <1>12, <2>1, <2>3
    <3>. QED BY <2>1, <3>1
  <2>5. WalkExtension(w, ip, next) # None
    BY <2>2
  <2>6. Len(ip.extensions) \in Nat /\ next \in 1 .. Len(ip.extensions)
    BY <1>2, <2>1
  <2>7. \A j \in 1 .. Len(ip.extensions) :
          /\ ip.extensions[j].size \in Nat
          /\ ip.extensions[j].kind = "fragment" => ip.extensions[j].offset \in Nat
          /\ LaterFragment(ip.extensions[j]) => j = Len(ip.extensions)
    BY <1>3
  <2>8. Walked(WalkExtension(w, ip, next), ip, next, pos, end)
    <3> HIDE DEF ip, pos, end, n, next, w
    <3>. QED BY <1>10, <2>3, <2>4, <2>5, <2>6, <2>7, WalkGoesOn
  <2>. QED BY <2>2, <2>8
<1>13. Walked(walk[n], ip, n, pos, end)
  <2>1. Nat \subseteq N
    <3> HIDE DEF N
    <3>. QED BY <1>11, <1>12, Induction
  <2>. QED BY <1>2, <1>8, <2>1
<1>14. read.payload = Reader(NetworkEnd(f), end)
  <2>1. pos + EndOf(ip.extensions, n) = NetworkEnd(f)
    BY <1>1, <1>2, <1>4
  <2>. QED BY <1>2, <1>8, <1>13, <2>1 DEF Walked
<1>15. read.header.protocol = ip.protocol
  BY <1>2, <1>8, <1>13 DEF Walked, NextHeader
<1>16. read.header.fragment_offset = Offset(f)
  <2> DEFINE later == {e \in Range(ip.extensions) : LaterFragment(e)}
  <2>1. DOMAIN ip.extensions = 1 .. n
    BY DEF IsFrame
  <2>2. CASE n > 0 /\ LaterFragment(ip.extensions[n])
    <3>1. later = {ip.extensions[n]}
      BY <1>2, <1>3, <2>1, <2>2 DEF Range
    <3>2. Offset(f) = ip.extensions[n].offset
      BY <3>1 DEF Offset
    <3>. QED BY <1>2, <1>8, <1>13, <2>2, <3>2 DEF Walked
  <2>3. CASE ~(n > 0 /\ LaterFragment(ip.extensions[n]))
    <3>1. later = {}
      BY <1>2, <1>3, <2>1, <2>3 DEF Range
    <3>2. Offset(f) = 0
      BY <3>1 DEF Offset
    <3>. QED BY <1>2, <1>8, <1>13, <2>3, <3>2 DEF Walked
  <2>. QED BY <2>2, <2>3
<1>. QED BY <1>14, <1>15, <1>16 DEF Finds, read

-----------------------------------------------------------------------------
(* What is handed to the reassemblers.                                     *)

\* The reassemblers' bytes of a packet are those the sender put in the frame.
HasPayload(p, f) ==
  /\ p.transport # None /\ f.network.protocol \in {"tcp", "udp"} =>
       <<p.payload_offset, p.payload_len>> = Captured(f, MessageStart(f), MessageEnd(f))
  /\ p.ip_payload # None => p.ip_payload = Captured(f, NetworkEnd(f), MessageEnd(f))

\* The parts of a packet decoding fills in.
IsPacketRecord(p) ==
  DOMAIN p = {"network", "transport", "app", "payload_offset", "payload_len", "ip_payload",
              "warnings"}

LEMMA TransportHasPayload ==
  ASSUME NEW f, IsFrame(f), Truthful(f), Offset(f) = 0,
         NEW pkt, IsPacketRecord(pkt), pkt.transport = None,
         NEW decode_app_layer,
         NEW r, r = Reader(NetworkEnd(f), Lesser(MessageEnd(f), f.captured)),
         NEW p, p = decode_transport(pkt, f.network.protocol, r, f, decode_app_layer)
  PROVE  /\ p.ip_payload = pkt.ip_payload
         /\ p.transport # None /\ f.network.protocol \in {"tcp", "udp"} =>
              <<p.payload_offset, p.payload_len>> = Captured(f, MessageStart(f), MessageEnd(f))
<1> DEFINE protocol == f.network.protocol
           parsed == ParseTransport(r, protocol, f.transport)
           carried == [pkt EXCEPT !.transport = parsed.header,
                                  !.payload_len = remaining(parsed.payload),
                                  !.payload_offset = IF protocol \in {"tcp", "udp"}
                                                     THEN parsed.payload.pos ELSE @]
           end == Lesser(MessageEnd(f), f.captured)
<1>1. CASE protocol \notin {"tcp", "udp", "icmp", "icmpv6"}
  <2>1. p = [pkt EXCEPT !.payload_len = remaining(r)]
    BY <1>1 DEF decode_transport
  <2>. QED BY <1>1, <2>1 DEF IsPacketRecord
<1>2. CASE protocol \in {"tcp", "udp", "icmp", "icmpv6"} /\ parsed = None
  <2>1. p = [pkt EXCEPT !.warnings = @ + 1]
    BY <1>2 DEF decode_transport, Warn
  <2>. QED BY <2>1 DEF IsPacketRecord
<1>3. CASE protocol \in {"tcp", "udp", "icmp", "icmpv6"} /\ parsed # None
  <2>1. \/ p = carried
        \/ \E app : p = [carried EXCEPT !.app = app]
    BY <1>3, Zenon DEF decode_transport, decode_app
  <2>2. /\ p.ip_payload = pkt.ip_payload
        /\ p.payload_len = remaining(parsed.payload)
        /\ protocol \in {"tcp", "udp"} => p.payload_offset = parsed.payload.pos
    <3> DEFINE header == parsed.header
               len == remaining(parsed.payload)
               offset == IF protocol \in {"tcp", "udp"} THEN parsed.payload.pos
                         ELSE pkt.payload_offset
               filled == [pkt EXCEPT !.transport = header, !.payload_len = len,
                                     !.payload_offset = offset]
    <3>1. carried = filled
      OBVIOUS
    <3>2. /\ DOMAIN filled = DOMAIN pkt
          /\ filled.ip_payload = pkt.ip_payload
          /\ filled.payload_len = len /\ filled.payload_offset = offset
      <4> HIDE DEF header, len, offset
      <4>. QED BY DEF IsPacketRecord
    <3> HIDE DEF filled, carried
    <3>3. /\ p.ip_payload = filled.ip_payload
          /\ p.payload_len = filled.payload_len /\ p.payload_offset = filled.payload_offset
      <4>1. CASE p = filled
        BY <4>1
      <4>2. ASSUME NEW app, p = [filled EXCEPT !.app = app]
            PROVE  p.ip_payload = filled.ip_payload
                   /\ p.payload_len = filled.payload_len /\ p.payload_offset = filled.payload_offset
        BY <3>2, <4>2 DEF IsPacketRecord
      <4>. QED BY <2>1, <3>1, <4>1, <4>2
    <3>. QED BY <3>2, <3>3
  <2>3. ASSUME protocol \in {"tcp", "udp"}
        PROVE  parsed.payload = Reader(MessageStart(f), end)
    <3>1. /\ NetworkEnd(f) \in Nat /\ MessageStart(f) \in Nat /\ MessageEnd(f) \in Nat
          /\ f.captured \in Nat /\ f.payload \in Nat
          /\ MessageEnd(f) = MessageStart(f) + f.payload
      BY LayersInOrder DEF Truthful, IsFrame, MessageEnd
    <3>2. CASE protocol = "tcp"
      <4>1. MessageStart(f) = NetworkEnd(f) + TcpSize(f.transport)
        BY <3>1, <3>2 DEF MessageStart
      <4>2. parsed.payload = skip(r, TcpSize(f.transport))
        BY <1>3, <3>2 DEF ParseTransport, parse_tcp
      <4>. QED BY <4>1, <4>2 DEF skip, Reader
    <3>3. CASE protocol = "udp"
      <4>1. MessageStart(f) = NetworkEnd(f) + 8 /\ f.transport.length = 8 + f.payload
        BY <3>1, <3>3 DEF MessageStart, Truthful
      <4>2. parsed.payload = (IF f.transport.length >= 8
                              THEN limit(skip(r, 8), f.transport.length - 8) ELSE skip(r, 8))
        BY <1>3, <3>3 DEF ParseTransport, parse_udp
      <4>3. parsed.payload = limit(skip(r, 8), f.payload)
        BY <3>1, <4>1, <4>2
      <4>4. skip(r, 8) = [pos |-> MessageStart(f), end |-> end]
        BY <4>1 DEF skip, Reader
      <4> HIDE DEF parsed
      <4>5. parsed.payload = [pos |-> MessageStart(f), end |-> Lesser(end, MessageEnd(f))]
        BY <3>1, <4>3, <4>4 DEF limit
      <4>. QED BY <3>1, <4>5 DEF Lesser, Reader
    <3>. QED BY <2>3, <3>2, <3>3
  <2> HIDE DEF parsed, protocol
  <2>4. protocol \in {"tcp", "udp"} =>
          <<p.payload_offset, p.payload_len>> = Captured(f, MessageStart(f), MessageEnd(f))
    BY <2>2, <2>3 DEF Reader, remaining, Captured
  <2>. QED BY <2>2, <2>4 DEF protocol
<1>. QED BY <1>1, <1>2, <1>3

\* A frame read as its own link type is taken for what it carries.
LEMMA LinkFinds ==
  ASSUME NEW f, IsFrame(f), IsIp(f), ParseLink(f, f.link.type) # None
  PROVE  /\ ParseLink(f, f.link.type).ethertype = f.network.kind
         /\ ParseLink(f, f.link.type).pos = NetworkStart(f)
<1> DEFINE link == ParseLink(f, f.link.type)
<1>1. f.link.type \in {"Ethernet", "Raw", "Null", "Loop", "LinuxSll", "LinuxSll2"}
  BY DEF IsFrame
<1>2. CASE f.link.type = "Ethernet"
  <2>1. f.link.tags \in Nat /\ f.link.tags <= 3
    BY <1>2 DEF IsFrame, IsIp
  <2>2. Lesser(f.link.tags, 3) = f.link.tags
    BY <2>1 DEF Lesser
  <2>3. link = [ethertype |-> f.network.kind, pos |-> EthernetSize(f.link.tags)]
    BY <1>2, <2>1, <2>2 DEF ParseLink, parse_ethernet
  <2>. QED BY <1>2, <2>3 DEF NetworkStart, LinkSize
<1>3. CASE f.link.type = "Raw"
  <2>1. link = [ethertype |-> f.network.kind, pos |-> 0]
    BY <1>3 DEF ParseLink
  <2>. QED BY <1>3, <2>1 DEF NetworkStart, LinkSize
<1>4. CASE f.link.type \in {"Null", "Loop"}
  <2>1. link = [ethertype |-> f.network.kind, pos |-> 4]
    BY <1>4 DEF ParseLink
  <2>. QED BY <1>4, <2>1 DEF NetworkStart, LinkSize
<1>5. CASE f.link.type \in {"LinuxSll", "LinuxSll2"}
  <2>1. link = [ethertype |-> f.network.kind, pos |-> LinkSize(f.link)]
    BY <1>5 DEF ParseLink
  <2>. QED BY <2>1 DEF NetworkStart
<1>. QED BY <1>1, <1>2, <1>3, <1>4, <1>5

\* Decoding as the link type the frame has.
LEMMA DecodeHasPayload ==
  ASSUME NEW f, IsFrame(f), Truthful(f)
  PROVE  HasPayload(decode(f, f.link.type), f)
<1> DEFINE link == ParseLink(f, f.link.type)
           r == Reader(NetworkStart(f), f.captured)
           ethertype == f.network.kind
           parsed == IF ethertype = "ipv4" THEN parse_ipv4(r, f.network)
                     ELSE parse_ipv6(r, f.network)
           p == decode(f, f.link.type)
<1>1. /\ IsPacketRecord(Undecoded) /\ IsPacketRecord(Warn(Undecoded))
      /\ Undecoded.transport = None /\ Undecoded.ip_payload = None
      /\ Warn(Undecoded).transport = None /\ Warn(Undecoded).ip_payload = None
  BY DEF Undecoded, Warn, IsPacketRecord
<1>2. ethertype \in {"ipv4", "ipv6"}
  BY DEF Truthful, IsIp
<1>3. link # None => link.ethertype = ethertype /\ link.pos = NetworkStart(f)
  <2>1. IsIp(f)
    BY DEF Truthful
  <2>. QED BY <2>1, LinkFinds
<1>4. link # None => p = decode_network(Undecoded, ethertype, r, f)
  BY <1>3, Zenon DEF decode
<1>5. CASE link = None
  <2>1. p = Warn(Undecoded)
    BY <1>5 DEF decode
  <2>. QED BY <1>1, <2>1 DEF HasPayload
<1>6. CASE link # None /\ parsed = None
  <2>1. p = Warn(Undecoded)
    BY <1>2, <1>6, <1>4 DEF decode_network
  <2>. QED BY <1>1, <2>1 DEF HasPayload
<1>7. CASE link # None /\ parsed # None
  <2> DEFINE h == parsed.header
             payload == Reader(NetworkEnd(f), Lesser(MessageEnd(f), f.captured))
             bytes == IF h.fragmented THEN <<payload.pos, remaining(payload)>>
                      ELSE Undecoded.ip_payload
             layered == [Undecoded EXCEPT !.network = h, !.ip_payload = bytes]
  <2>1. Finds(parsed, f)
    BY <1>2, <1>7, Ipv4Finds, Ipv6Finds
  <2>2. p = DecodeIp(Undecoded, parsed, f)
    BY <1>2, <1>7, <1>4 DEF decode_network
  <2>3. p = IF h.fragment_offset = 0
            THEN decode_transport(layered, h.protocol, payload, f, ~h.fragmented)
            ELSE [layered EXCEPT !.payload_len = remaining(payload)]
    BY <2>1, <2>2 DEF DecodeIp, Finds
  <2>4. bytes # None => bytes = Captured(f, NetworkEnd(f), MessageEnd(f))
    BY <1>1 DEF Captured, Reader, remaining
  <2> HIDE DEF parsed, p, payload, bytes
  <2>5. IsPacketRecord(layered) /\ layered.transport = None /\ layered.ip_payload = bytes
    BY DEF Undecoded, IsPacketRecord
  <2> HIDE DEF layered
  <2>6. CASE Offset(f) = 0
    <3> DEFINE app == ~h.fragmented
    <3>1. p = decode_transport(layered, f.network.protocol, payload, f, app)
      BY <2>1, <2>3, <2>6 DEF Finds
    <3> HIDE DEF app
    <3>2. /\ p.ip_payload = layered.ip_payload
          /\ p.transport # None /\ f.network.protocol \in {"tcp", "udp"} =>
               <<p.payload_offset, p.payload_len>> = Captured(f, MessageStart(f), MessageEnd(f))
      BY <2>5, <2>6, <3>1, TransportHasPayload DEF payload
    <3>. QED BY <2>4, <2>5, <3>2 DEF HasPayload, p
  <2>7. CASE Offset(f) # 0
    <3>1. p = [layered EXCEPT !.payload_len = remaining(payload)]
      BY <2>1, <2>3, <2>7 DEF Finds
    <3>2. p.transport = None /\ p.ip_payload = bytes
      BY <2>5, <3>1 DEF IsPacketRecord
    <3>. QED BY <2>4, <3>2 DEF HasPayload, p
  <2>. QED BY <2>6, <2>7
<1>. QED BY <1>5, <1>6, <1>7

-----------------------------------------------------------------------------
(* What was analysed.                                                      *)

\* Nothing is analysed before the file is opened, and what is analysed is a
\* frame decoded as the link type the run was opened with.
PayloadInv ==
  /\ pc = "open" => DOMAIN analyzed = {}
  /\ \A i \in DOMAIN analyzed :
       /\ IsFrame(analyzed[i].frame)
       /\ analyzed[i].packet = decode(analyzed[i].frame, link_type)

\* A block with a packet holds a frame, padded or not.
LEMMA FramesAreFrames ==
  ASSUME NEW f, IsFrame(f)
  PROVE  IsFrame(Padded(f))
<1> DEFINE padded == Padded(f)
           n == f.captured + 3
<1>1. DOMAIN f = {"link", "network", "transport", "message", "payload", "captured", "sent"}
      /\ f.captured \in Nat /\ f.payload \in Nat /\ f.sent \in Nat
  BY DEF IsFrame
<1>2. DOMAIN padded = DOMAIN f
      /\ padded.link = f.link /\ padded.network = f.network
      /\ padded.transport = f.transport /\ padded.payload = f.payload /\ padded.sent = f.sent
      /\ padded.captured = (n \div 4) * 4
  BY <1>1 DEF Padded
<1>3. padded.captured \in Nat
  <2>1. n \in Nat
    BY <1>1
  <2>2. n \div 4 \in Nat
    <3> HIDE DEF n
    <3>. QED BY <2>1
  <2> HIDE DEF n, padded
  <2>. QED BY <1>2, <2>2
<1> HIDE DEF padded
<1>4. {padded.payload, padded.captured, padded.sent} \subseteq Nat
  BY <1>1, <1>2, <1>3
<1>5. IsFrame(padded)
  BY <1>2, <1>4, Zenon DEF IsFrame
<1>. QED BY <1>5 DEF padded

LEMMA PayloadYield ==
  ASSUME TimesInv, PayloadInv, PcapRecord \/ EnhancedPacket \/ SimplePacket
  PROVE  PayloadInv'
<1>1. PICK frame : \E source, time : IsFrame(frame) /\ Yield(source, frame, time)
  <2>1. /\ Reading /\ Block.type \in {"record", "EPB", "SPB"}
        /\ \E source, time : \/ Yield(source, Block.frame, time)
                             \/ Yield(source, Padded(Block.frame), time)
    <3>1. CASE PcapRecord
      <4>1. Block.type = "record"
        <5>1. Reading /\ file.format = "pcap"
          BY <3>1 DEF PcapRecord, Whole
        <5>. QED BY <5>1, BlockAfterHeader DEF Block
      <4>. QED BY <3>1, <4>1 DEF PcapRecord, Whole
    <3>2. CASE EnhancedPacket
      BY <3>2 DEF EnhancedPacket, Is, Whole
    <3>3. CASE SimplePacket
      BY <3>3 DEF SimplePacket, Is, Whole
    <3>. QED BY <3>1, <3>2, <3>3
  <2>2. at \in DOMAIN file.blocks
    BY <2>1, BlockAfterHeader DEF Blocks
  <2>3. file \in Files
    BY DEF TimesInv
  <2>4. IsFrame(Block.frame) /\ IsFrame(Padded(Block.frame))
    BY <2>1, <2>2, <2>3, FilesAssumption, FramesAreFrames DEF Block
  <2>. QED BY <2>1, <2>4
<1>2. PICK source, time : Yield(source, frame, time)
  BY <1>1
<1> DEFINE one == [packet |-> decode(frame, link_type), frame |-> frame,
                   index |-> src.index + 1, time |-> time, block |-> at]
<1>3. /\ analyzed' = Append(analyzed, one) /\ link_type' = link_type
      /\ pc' \in {"run", "done"}
  BY <1>2 DEF Yield
<1>4. one.frame = frame /\ one.packet = decode(frame, link_type)
  OBVIOUS
<1> HIDE DEF one
<1>5. IsSeq(analyzed)
  BY DEF TimesInv
<1>. QED BY <1>1, <1>3, <1>4, <1>5, AppendOne DEF PayloadInv

\* Whatever else happens, what was analysed stays, and the link type once the
\* file is open.
LEMMA PayloadStays ==
  ASSUME PayloadInv, analyzed' = analyzed,
         \/ pc = "open" /\ pc' \in {"open", "run", "failed"}
         \/ pc # "open" /\ pc' # "open" /\ link_type' = link_type
  PROVE  PayloadInv'
  BY DEF PayloadInv

\* For every file of either format, with any frames, cut anywhere, and every
\* limit: whatever its tags, options and extension headers, and however much of
\* it was captured, a truthful frame hands a reassembler the sender's bytes.
THEOREM PayloadIsTheSendersHolds == Spec => []PayloadIsTheSenders
<1> DEFINE Inv == TimesInv /\ PayloadInv
<1>1. Init => PayloadInv
  BY DEF Init, PayloadInv
<1>2. TimesInv /\ PayloadInv /\ [Next]_vars => PayloadInv'
  <2> SUFFICES ASSUME TimesInv, PayloadInv, [Next]_vars
               PROVE  PayloadInv'
    OBVIOUS
  <2>1. CASE PcapRecord \/ EnhancedPacket \/ SimplePacket
    BY <2>1, PayloadYield
  <2>2. CASE Open \/ OpenFails
    BY <2>2, PayloadStays DEF Open, OpenFails
  <2>3. CASE EndOfFile \/ BadLength \/ CutTrailer \/ ShortInterface \/ BadEnhancedPacket
    BY <2>3, PayloadStays
       DEF EndOfFile, BadLength, CutTrailer, ShortInterface, BadEnhancedPacket, End, Report,
           Is, Whole, Reading
  <2>4. CASE SectionHeader \/ Interface \/ OtherBlock
    BY <2>4, PayloadStays DEF SectionHeader, Interface, OtherBlock, Pass, Is, Whole, Reading
  <2>5. CASE UNCHANGED vars
    BY <2>5, PayloadStays DEF vars, PayloadInv
  <2>. QED BY <2>1, <2>2, <2>3, <2>4, <2>5 DEF Next
<1>3. PayloadInv => PayloadIsTheSenders
  <2> SUFFICES ASSUME PayloadInv, NEW i \in DOMAIN analyzed,
                      Truthful(analyzed[i].frame), link_type = analyzed[i].frame.link.type
               PROVE  HasPayload(analyzed[i].packet, analyzed[i].frame)
    BY Zenon DEF PayloadIsTheSenders, HasPayload
  <2>. QED BY DecodeHasPayload DEF PayloadInv
<1>. QED BY <1>1, <1>2, <1>3, TimesInvariant, PTL DEF Spec

-----------------------------------------------------------------------------
(* Folds.                                                                  *)

\* Numbers up to n have a last one.
LEMMA LastOf ==
  ASSUME NEW n \in Nat, NEW S \in SUBSET (1 .. n), S # {}
  PROVE  Max(S) \in S /\ \A y \in S : y <= Max(S)
<1> DEFINE last(s) == \E x \in s : \A y \in s : x >= y
           N == {k \in Nat : \A s \in SUBSET (1 .. k) : s # {} => last(s)}
<1>1. 0 \in N
  <2>1. 1 .. 0 = {}
    OBVIOUS
  <2>. QED BY <2>1
<1>2. ASSUME NEW k \in Nat, k \in N
      PROVE  k + 1 \in N
  <2>1. ASSUME NEW s \in SUBSET (1 .. k + 1), s # {}
        PROVE  last(s)
    <3>1. CASE k + 1 \in s
      BY <3>1
    <3>2. CASE k + 1 \notin s
      <4>1. s \in SUBSET (1 .. k)
        BY <3>2
      <4>. QED BY <1>2, <2>1, <4>1
    <3>. QED BY <3>1, <3>2
  <2>. QED BY <2>1
<1>3. Nat \subseteq N
  <2> HIDE DEF N
  <2>. QED BY <1>1, <1>2, Induction
<1>4. last(S)
  BY <1>3
<1>5. Max(S) \in S /\ \A y \in S : Max(S) >= y
  BY <1>4 DEF Max
<1>. QED BY <1>5

\* A fold as FoldLeft computes it, over the sets of indices.
Folding(it, p, base, n) ==
  it = [s \in SUBSET (1 .. n) |-> IF s = {} THEN base ELSE Step(p, it[s \ {Max(s)}])]

LEMMA FoldsExist ==
  ASSUME NEW p, p.does \in {"name", "question", "answer"}, NEW base, NEW n \in Nat
  PROVE  \E it : Folding(it, p, base, n)
<1>1. PICK t : Turns(t, p, base, n)
  BY TurnsExist
<1>2. t[0] = base /\ \A i \in 1 .. n : t[i] = Step(p, t[i - 1])
  BY <1>1 DEF Turns, Turn
<1> DEFINE it == [s \in SUBSET (1 .. n) |-> t[Cardinality(s)]]
<1>3. ASSUME NEW s \in SUBSET (1 .. n)
      PROVE  it[s] = IF s = {} THEN base ELSE Step(p, it[s \ {Max(s)}])
  <2>1. CASE s = {}
    BY <1>2, <2>1, FS_EmptySet
  <2>2. CASE s # {}
    <3> DEFINE rest == s \ {Max(s)}
               c == Cardinality(s)
    <3>1. IsFiniteSet(1 .. n) /\ Cardinality(1 .. n) = n
      <4>1. 1 \in Int /\ n \in Int
        OBVIOUS
      <4>. QED BY <4>1, FS_Interval
    <3>2. IsFiniteSet(s) /\ c <= n
      BY <3>1, FS_Subset
    <3>3. Max(s) \in s
      BY <2>2, LastOf
    <3>4. Cardinality(rest) = c - 1
      BY <3>2, <3>3, FS_RemoveElement
    <3>5. c \in Nat /\ Cardinality(rest) \in Nat
      <4>1. IsFiniteSet(rest)
        BY <3>2, <3>3, FS_RemoveElement
      <4>. QED BY <3>2, <4>1, FS_CardinalityType
    <3>6. rest \in SUBSET (1 .. n)
      OBVIOUS
    <3> HIDE DEF rest, c
    <3>7. c \in 1 .. n /\ Cardinality(rest) = c - 1
      BY <3>2, <3>4, <3>5
    <3>8. it[s] = t[c] /\ it[rest] = t[c - 1]
      BY <3>6, <3>7 DEF c
    <3>9. t[c] = Step(p, t[c - 1])
      BY <1>2, <3>7
    <3>. QED BY <2>2, <3>8, <3>9 DEF rest
  <2>. QED BY <2>1, <2>2
<1>4. Folding(it, p, base, n)
  <2>1. it = [s \in SUBSET (1 .. n) |-> it[s]]
    OBVIOUS
  <2> HIDE DEF it
  <2>. QED BY <1>3, <2>1 DEF Folding
<1>. QED BY <1>4

\* What has been read after each turn.
Steps(acc, p, base, n) ==
  /\ acc[0] = base
  /\ \A i \in 1 .. n : acc[i] = Step(p, acc[i - 1])

LEMMA FoldsAreSteps ==
  ASSUME NEW p, p.does \in {"name", "question", "answer"}, NEW base, NEW n \in Nat,
         NEW folded, Folding(folded, p, base, n)
  PROVE  \E acc : Steps(acc, p, base, n) /\ folded[1 .. n] = acc[n]
<1> DEFINE acc == [i \in 0 .. n |-> folded[1 .. i]]
<1>2. ASSUME NEW i \in 1 .. n
      PROVE  acc[i] = Step(p, acc[i - 1])
  <2> DEFINE s == 1 .. i
  <2>1. s \in SUBSET (1 .. n) /\ s # {} /\ i \in Nat
    OBVIOUS
  <2>2. Max(s) = i
    <3>1. Max(s) \in s /\ \A y \in s : y <= Max(s)
      <4>1. s \in SUBSET (1 .. i)
        OBVIOUS
      <4> HIDE DEF s
      <4>. QED BY <2>1, <4>1, LastOf
    <3>. QED BY <3>1
  <2>3. s \ {i} = 1 .. i - 1
    OBVIOUS
  <2>4. folded[s] = Step(p, folded[s \ {Max(s)}])
    <3> HIDE DEF s
    <3>. QED BY <2>1 DEF Folding
  <2>5. acc[i] = folded[1 .. i] /\ acc[i - 1] = folded[1 .. i - 1]
    OBVIOUS
  <2> HIDE DEF acc
  <2>. QED BY <2>2, <2>3, <2>4, <2>5
<1>3. acc[0] = base
  <2>1. 1 .. 0 = {} /\ {} \in SUBSET (1 .. n) /\ acc[0] = folded[1 .. 0]
    OBVIOUS
  <2>2. folded[{}] = base
    BY <2>1 DEF Folding
  <2>. QED BY <2>1, <2>2
<1>4. acc[n] = folded[1 .. n]
  OBVIOUS
<1>5. Steps(acc, p, base, n)
  <2> HIDE DEF acc
  <2>. QED BY <1>2, <1>3 DEF Steps
<1> HIDE DEF acc
<1>. QED BY <1>4, <1>5

\* read_name: the turns of its loop.
NameStart(o) == [state |-> "reading", offset |-> o, labels |-> <<>>, jumps |-> 0, next |-> None]
NameTurns == MaxJumps + MaxLabels + 2

LEMMA NameSteps ==
  ASSUME NEW cells, NEW avail, NEW o
  PROVE  \E acc : /\ acc[0] = NameStart(o)
                  /\ \A i \in 1 .. NameTurns : acc[i] = NameStep(acc[i - 1], cells, avail)
                  /\ read_name(cells, avail, o) = acc[NameTurns]
<1> DEFINE n == NameTurns
           base == NameStart(o)
           p == [does |-> "name", of |-> cells, avail |-> avail]
           list == [turn \in 1 .. n |-> turn]
           folds(it) == it = [s \in SUBSET (1 .. n) |->
                                IF s = {} THEN base
                                ELSE NameStep(it[s \ {Max(s)}], cells, avail)]
           folded == CHOOSE it : folds(it)
<1>0. n \in Nat
  BY MessagesAssumption DEF NameTurns
<1>1. read_name(cells, avail, o) = folded[1 .. n]
  BY DEF read_name, FoldLeft, MapThenFoldSet, NameStart, NameTurns
<1>2. \A acc : Step(p, acc) = NameStep(acc, cells, avail)
  BY DEF Step
<1>3. \A it : Folding(it, p, base, n) <=> folds(it)
  BY <1>2 DEF Folding
<1>4. Folding(folded, p, base, n)
  <2>1. p.does = "name"
    OBVIOUS
  <2>2. \E it : folds(it)
    <3> HIDE DEF p, base, n, folds
    <3>. QED BY <1>0, <1>3, <2>1, FoldsExist
  <2> HIDE DEF folds
  <2>. QED BY <1>3, <2>2
<1> HIDE DEF folded, folds, base, n
<1>5. PICK acc : Steps(acc, p, base, n) /\ folded[1 .. n] = acc[n]
  <2>1. p.does = "name"
    OBVIOUS
  <2> HIDE DEF p
  <2>. QED BY <1>0, <1>4, <2>1, FoldsAreSteps
<1>. QED BY <1>1, <1>2, <1>5 DEF Steps, base, n

\* The two folds of ParseDns.
DnsStart(m, avail) ==
  [offset |-> DnsHeader, questions |-> <<>>, answers |-> <<>>,
   failed |-> avail < DnsHeader \/ ~m.plausible, ended |-> FALSE]

LEMMA DnsSteps ==
  ASSUME NEW m, m.qdcount \in Nat, m.ancount \in Nat, NEW avail
  PROVE  \E q, a : /\ q[0] = DnsStart(m, avail)
                   /\ \A i \in 1 .. m.qdcount : q[i] = ReadQuestion(q[i - 1], m, avail)
                   /\ a[0] = q[m.qdcount]
                   /\ \A i \in 1 .. m.ancount : a[i] = ReadAnswer(a[i - 1], m, avail)
                   /\ ParseDns(m, avail) =
                        IF a[m.ancount].failed THEN None
                        ELSE [proto |-> "dns", is_response |-> m.is_response, rcode |-> m.rcode,
                              questions |-> a[m.ancount].questions,
                              answers |-> a[m.ancount].answers]
<1> DEFINE base == DnsStart(m, avail)
           qp == [does |-> "question", of |-> m, avail |-> avail]
           ap == [does |-> "answer", of |-> m, avail |-> avail]
           asks(it) == it = [s \in SUBSET (1 .. m.qdcount) |->
                               IF s = {} THEN base
                               ELSE ReadQuestion(it[s \ {Max(s)}], m, avail)]
           askedFolded == CHOOSE it : asks(it)
           asked == askedFolded[1 .. m.qdcount]
           reads(it) == it = [s \in SUBSET (1 .. m.ancount) |->
                                IF s = {} THEN asked
                                ELSE ReadAnswer(it[s \ {Max(s)}], m, avail)]
           readFolded == CHOOSE it : reads(it)
           read == readFolded[1 .. m.ancount]
<1>1. ParseDns(m, avail) =
        IF read.failed THEN None
        ELSE [proto |-> "dns", is_response |-> m.is_response, rcode |-> m.rcode,
              questions |-> read.questions, answers |-> read.answers]
  BY SMTT(90) DEF ParseDns, FoldLeft, MapThenFoldSet, DnsStart
<1>2. PICK q : Steps(q, qp, base, m.qdcount) /\ asked = q[m.qdcount]
  <2>1. \A acc : Step(qp, acc) = ReadQuestion(acc, m, avail)
    BY DEF Step
  <2>2. \A it : Folding(it, qp, base, m.qdcount) <=> asks(it)
    BY <2>1 DEF Folding
  <2>3. qp.does = "question"
    OBVIOUS
  <2>4. Folding(askedFolded, qp, base, m.qdcount)
    <3>1. \E it : asks(it)
      <4> HIDE DEF asks, qp, base
      <4>. QED BY <2>2, <2>3, FoldsExist
    <3> HIDE DEF asks
    <3>. QED BY <2>2, <3>1
  <2> HIDE DEF askedFolded, asks, qp, base
  <2>. QED BY <2>3, <2>4, FoldsAreSteps
<1> HIDE DEF asked, askedFolded
<1>3. PICK a : Steps(a, ap, asked, m.ancount) /\ read = a[m.ancount]
  <2>1. \A acc : Step(ap, acc) = ReadAnswer(acc, m, avail)
    BY DEF Step
  <2>2. \A it : Folding(it, ap, asked, m.ancount) <=> reads(it)
    BY <2>1 DEF Folding
  <2>3. ap.does = "answer"
    OBVIOUS
  <2>4. Folding(readFolded, ap, asked, m.ancount)
    <3>1. \E it : reads(it)
      <4> HIDE DEF reads, ap, asked
      <4>. QED BY <2>2, <2>3, FoldsExist
    <3> HIDE DEF reads
    <3>. QED BY <2>2, <3>1
  <2> HIDE DEF readFolded, reads, ap
  <2>. QED BY <2>3, <2>4, FoldsAreSteps
<1> HIDE DEF read, readFolded
<1>4. /\ \A i \in 1 .. m.qdcount : q[i] = ReadQuestion(q[i - 1], m, avail)
      /\ q[0] = base
  BY <1>2 DEF Steps, Step
<1>5. /\ \A i \in 1 .. m.ancount : a[i] = ReadAnswer(a[i - 1], m, avail)
      /\ a[0] = asked
  BY <1>3 DEF Steps, Step
<1> HIDE DEF base
<1>6. ParseDns(m, avail) =
        IF a[m.ancount].failed THEN None
        ELSE [proto |-> "dns", is_response |-> m.is_response, rcode |-> m.rcode,
              questions |-> a[m.ancount].questions, answers |-> a[m.ancount].answers]
  BY <1>1, <1>3
<1>. QED BY <1>2, <1>4, <1>5, <1>6, Zenon DEF base

-----------------------------------------------------------------------------
(* Names.                                                                  *)

\* The value that stands for nothing is no number and no record.
NoneIsApart == None \notin Nat /\ None # [x \in DOMAIN None |-> None[x]]

Texts(m) == {m.cells[o].text : o \in {o \in DOMAIN m.cells : m.cells[o].kind = "label"}}

LEMMA SpeltIs ==
  ASSUME NEW m, m.size \in Nat, Spelt(m), NEW o \in DOMAIN m.spelt
  PROVE  /\ o \in DOMAIN m.cells /\ o \in Nat /\ o < m.size
         /\ m.spelt[o].labels \in Seq(Texts(m)) /\ Len(m.spelt[o].labels) \in Nat
         /\ Len(m.spelt[o].labels) <= MaxLabels
         /\ m.spelt[o].jumps \in Nat /\ m.spelt[o].jumps <= MaxJumps
         /\ m.spelt[o].next \in Nat /\ m.spelt[o].next <= m.size
<1>1. m.spelt[o] \in [labels : Seq(Texts(m)), jumps : 0 .. MaxJumps, next : 0 .. m.size]
  BY DEF Spelt, Texts
<1>2. m.spelt[o].labels \in Seq(Texts(m))
      /\ m.spelt[o].jumps \in 0 .. MaxJumps /\ m.spelt[o].next \in 0 .. m.size
  BY <1>1
<1>3. Len(m.spelt[o].labels) \in Nat
  BY <1>2, LenProperties
<1>4. o \in DOMAIN m.cells /\ o \in 0 .. (m.size - 1) /\ Len(m.spelt[o].labels) <= MaxLabels
  BY DEF Spelt
<1>. QED BY <1>2, <1>3, <1>4, MessagesAssumption

\* What read_name has of the name spelt at an offset after i turns.  It has failed,
\* which it never does when the whole message is there,
Fails(n, m, avail) == n.state = "error" /\ avail < m.size

\* or it has read the name,
HasRead(n, m, o) ==
  n.state = "read" /\ n.labels = m.spelt[o].labels /\ n.next = m.spelt[o].next

\* or what is still to be read completes what it has.
ReadsOn(n, m, o, i) ==
  /\ n = [state |-> "reading", offset |-> n.offset, labels |-> n.labels, jumps |-> n.jumps,
          next |-> n.next]
  /\ n.offset \in DOMAIN m.spelt
  /\ n.labels \in Seq(Texts(m)) /\ n.jumps \in Nat /\ n.next \in Nat \cup {None}
  /\ LET rest == m.spelt[n.offset] IN
     /\ n.labels \o rest.labels = m.spelt[o].labels
     /\ n.jumps + rest.jumps = m.spelt[o].jumps
     /\ (IF n.next = None THEN rest.next ELSE n.next) = m.spelt[o].next
     /\ rest.jumps + Len(rest.labels) + i <= MaxJumps + MaxLabels

Spells(n, m, o, avail, i) == Fails(n, m, avail) \/ HasRead(n, m, o) \/ ReadsOn(n, m, o, i)

LEMMA NameGoesOn ==
  ASSUME NoneIsApart, NEW m, m.size \in Nat, Spelt(m), NEW o \in DOMAIN m.spelt,
         NEW avail \in Nat, NEW i \in Nat, NEW n, Spells(n, m, o, avail, i),
         NEW next, next = NameStep(n, m.cells, avail)
  PROVE  Spells(next, m, o, avail, i + 1)
<1>1. CASE n.state # "reading"
  <2>1. next = n
    BY <1>1 DEF NameStep
  <2>2. ~ReadsOn(n, m, o, i)
    <3>1. ASSUME n = [state |-> "reading", offset |-> n.offset, labels |-> n.labels,
                      jumps |-> n.jumps, next |-> n.next]
          PROVE  n.state = "reading"
      BY <3>1
    <3>. QED BY <1>1, <3>1, Zenon DEF ReadsOn
  <2>. QED BY <2>1, <2>2, Zenon DEF Spells
<1>2. CASE n.state = "reading"
  <2> DEFINE here == n.offset
             cell == m.cells[here]
             rest == m.spelt[here]
             whole == m.spelt[o]
  <2>1. /\ n = [state |-> "reading", offset |-> n.offset, labels |-> n.labels, jumps |-> n.jumps,
                next |-> n.next]
        /\ n.offset \in DOMAIN m.spelt
        /\ n.labels \in Seq(Texts(m)) /\ n.jumps \in Nat /\ n.next \in Nat \cup {None}
        /\ n.labels \o rest.labels = whole.labels
        /\ n.jumps + rest.jumps = whole.jumps
        /\ (IF n.next = None THEN rest.next ELSE n.next) = whole.next
        /\ rest.jumps + Len(rest.labels) + i <= MaxJumps + MaxLabels
    BY <1>2 DEF Spells, Fails, HasRead, ReadsOn
  <2>2. /\ here \in DOMAIN m.cells /\ here \in Nat /\ here < m.size
        /\ rest.labels \in Seq(Texts(m)) /\ Len(rest.labels) \in Nat
        /\ rest.jumps \in Nat /\ rest.next \in Nat /\ rest.next <= m.size
    BY <2>1, SpeltIs
  <2>3. Len(whole.labels) \in Nat /\ Len(whole.labels) <= MaxLabels
        /\ whole.jumps \in Nat /\ whole.jumps <= MaxJumps
    BY SpeltIs
  <2>4. Len(n.labels) \in Nat /\ Len(n.labels) + Len(rest.labels) = Len(whole.labels)
    <3>1. Len(n.labels \o rest.labels) = Len(n.labels) + Len(rest.labels)
      BY <2>1, <2>2, ConcatProperties
    <3>. QED BY <2>1, <3>1, LenProperties
  <2> DEFINE failed == [n EXCEPT !.state = "error"]
             label == [n EXCEPT !.labels = Append(@, cell.text), !.offset = @ + 1 + cell.size]
             pointer == [n EXCEPT !.jumps = @ + 1, !.offset = cell.target,
                                  !.next = IF @ = None THEN n.offset + 2 ELSE @]
             root == [n EXCEPT !.state = "read", !.next = IF @ = None THEN n.offset + 1 ELSE @]
  <2>5. ASSUME next = failed, avail < m.size
        PROVE  Spells(next, m, o, avail, i + 1)
    <3>1. next.state = "error"
      BY <2>1, <2>5
    <3>. QED BY <2>5, <3>1 DEF Spells, Fails
  <2>6. next = IF here >= avail THEN failed
               ELSE CASE cell.kind = "pointer" ->
                           IF /\ here + 1 < avail /\ n.jumps < MaxJumps
                              /\ cell.target < avail /\ cell.target < here
                           THEN pointer ELSE failed
                      [] cell.kind = "root"    -> root
                      [] cell.kind = "label"   ->
                           IF here + 1 + cell.size <= avail /\ Len(n.labels) < MaxLabels
                           THEN label ELSE failed
                      [] OTHER                 -> failed
    BY <1>2, <2>2, Zenon DEF NameStep
  <2>7. \/ /\ cell.kind = "root"
           /\ rest = [labels |-> <<>>, jumps |-> 0, next |-> here + 1]
        \/ /\ cell.kind = "label" /\ cell.size \in Nat
           /\ here + 1 + cell.size \in DOMAIN m.spelt
           /\ rest = [m.spelt[here + 1 + cell.size] EXCEPT !.labels = <<cell.text>> \o @]
        \/ /\ cell.kind = "pointer" /\ cell.target < here /\ here + 1 < m.size
           /\ cell.target \in DOMAIN m.spelt
           /\ rest = [m.spelt[cell.target] EXCEPT !.jumps = @ + 1, !.next = here + 2]
    BY <2>1, Zenon DEF Spelt
  <2> HIDE DEF whole, cell
  <2>8. CASE here >= avail
    <3>1. m.size \in Nat /\ avail < m.size
      BY <2>2, <2>8
    <3>2. next = failed
      BY <2>6, <2>8, Zenon
    <3>. QED BY <2>5, <3>1, <3>2
  <2>9. CASE ~(here >= avail) /\ cell.kind = "root"
    <3>1. next = root /\ rest = [labels |-> <<>>, jumps |-> 0, next |-> here + 1]
      BY <2>6, <2>7, <2>9
    <3>2. next.state = "read" /\ next.labels = n.labels
          /\ next.next = IF n.next = None THEN here + 1 ELSE n.next
      BY <2>1, <3>1
    <3>3. n.labels \o <<>> = n.labels
      BY <2>1, ConcatEmptySeq
    <3>4. next.labels = whole.labels /\ next.next = whole.next
      BY <2>1, <3>1, <3>2, <3>3
    <3>. QED BY <3>2, <3>4, Zenon DEF Spells, HasRead, whole
  <2>10. CASE ~(here >= avail) /\ cell.kind = "pointer"
    <3> DEFINE to == cell.target
               there == m.spelt[to]
    <3>1. /\ to < here /\ here + 1 < m.size /\ to \in DOMAIN m.spelt
          /\ rest = [there EXCEPT !.jumps = @ + 1, !.next = here + 2]
      BY <2>7, <2>10
    <3>2. /\ to \in Nat /\ there.labels \in Seq(Texts(m)) /\ Len(there.labels) \in Nat
          /\ there.jumps \in Nat /\ there.next \in Nat
      BY <3>1, SpeltIs
    <3>3. rest.labels = there.labels /\ rest.jumps = there.jumps + 1 /\ rest.next = here + 2
      <4>1. there \in [labels : Seq(Texts(m)), jumps : 0 .. MaxJumps, next : 0 .. m.size]
        BY <3>1 DEF Spelt, Texts
      <4> HIDE DEF there, rest
      <4>. QED BY <3>1, <4>1
    <3> HIDE DEF there, rest, to
    <3>10. n.jumps \in Nat /\ n.jumps + rest.jumps = whole.jumps
           /\ rest.jumps + Len(rest.labels) + i <= MaxJumps + MaxLabels
      BY <2>1
    <3>4. n.jumps < MaxJumps
      BY <3>10, <2>3, <3>2, <3>3, MessagesAssumption, SMTT(30)
    <3>5. CASE ~(here + 1 < avail)
      <4>1. next = failed
        <5>1. ~(cell.kind = "root") /\ ~(cell.kind = "label")
          BY <2>10
        <5>. QED BY <2>6, <2>10, <3>5, <5>1, Zenon
      <4>2. avail < m.size
        BY <2>2, <3>1, <3>5
      <4>. QED BY <2>5, <4>1, <4>2
    <3>6. CASE here + 1 < avail
      <4>1. next = pointer
        <5>1. to < avail
          BY <2>2, <3>1, <3>2, <3>6
        <5>2. ~(cell.kind = "root") /\ ~(cell.kind = "label")
          BY <2>10
        <5>. QED BY <2>6, <2>10, <3>1, <3>4, <3>6, <5>1, <5>2, Zenon DEF to
      <4>2. next = [state |-> "reading", offset |-> to, labels |-> n.labels,
                    jumps |-> n.jumps + 1, next |-> IF n.next = None THEN here + 2 ELSE n.next]
        <5>1. n = [state |-> "reading", offset |-> n.offset, labels |-> n.labels,
                   jumps |-> n.jumps, next |-> n.next]
          BY <2>1, Zenon
        <5>2. next = [n EXCEPT !.jumps = @ + 1, !.offset = to, !.next = IF @ = None THEN here + 2 ELSE @]
          BY <4>1 DEF to
        <5> DEFINE offset == n.offset
                   labels == n.labels
                   jumps == n.jumps
                   behind == n.next
        <5>3. n = [state |-> "reading", offset |-> offset, labels |-> labels, jumps |-> jumps,
                   next |-> behind]
          BY <5>1
        <5> HIDE DEF offset, labels, jumps, behind
        <5>4. n.offset = offset /\ n.labels = labels /\ n.jumps = jumps /\ n.next = behind
          BY <5>3
        <5>. QED BY <5>2, <5>3, <5>4
      <4>3. next.next \in Nat /\ next.next # None /\ next.next = whole.next
        BY <2>1, <2>2, <3>3, <4>2 DEF NoneIsApart
      <4>4. next.labels \o there.labels = whole.labels
        BY <2>1, <3>3, <4>2
      <4>5. next.jumps + there.jumps = whole.jumps
        <5>1. next.jumps = n.jumps + 1
          BY <4>2
        <5>3. whole.jumps \in Nat /\ n.jumps \in Nat /\ there.jumps \in Nat
          BY <2>3, <3>2, <3>10
        <5>4. n.jumps + (there.jumps + 1) = whole.jumps
          BY <3>3, <3>10, Zenon
        <5>5. (n.jumps + 1) + there.jumps = whole.jumps
          <6> DEFINE a == n.jumps
                     b == there.jumps
                     c == whole.jumps
          <6>1. a \in Nat /\ b \in Nat /\ c \in Nat /\ a + (b + 1) = c
            BY <5>3, <5>4, Zenon
          <6> HIDE DEF a, b, c
          <6>2. a + 1 + b = c
            BY <6>1
          <6>. QED BY <6>2 DEF a, b, c
        <5>. QED BY <5>1, <5>5, Zenon
      <4>6. there.jumps + Len(there.labels) + (i + 1) <= MaxJumps + MaxLabels
        BY <3>2, <3>3, <3>10, MessagesAssumption, SMTT(30)
      <4>7. /\ next = [state |-> "reading", offset |-> next.offset, labels |-> next.labels,
                       jumps |-> next.jumps, next |-> next.next]
            /\ next.offset = to
            /\ next.labels \in Seq(Texts(m)) /\ next.jumps \in Nat
        BY <2>1, <4>2
      <4>8. (IF next.next = None THEN there.next ELSE next.next) = whole.next
        BY <4>3, Zenon
      <4>9. ReadsOn(next, m, o, i + 1)
        BY <3>1, <4>3, <4>4, <4>5, <4>6, <4>7, <4>8, Zenon DEF ReadsOn, whole, there
      <4>. QED BY <4>9, Zenon DEF Spells
    <3>. QED BY <3>5, <3>6
  <2>11. CASE ~(here >= avail) /\ cell.kind = "label"
    <3> DEFINE to == here + 1 + cell.size
               there == m.spelt[to]
               text == cell.text
    <3>1. /\ cell.size \in Nat /\ to \in DOMAIN m.spelt
          /\ rest = [there EXCEPT !.labels = <<text>> \o @]
      BY <2>7, <2>11
    <3>2. /\ to \in Nat /\ to < m.size
          /\ there.labels \in Seq(Texts(m)) /\ Len(there.labels) \in Nat
          /\ there.jumps \in Nat /\ there.next \in Nat
      BY <3>1, SpeltIs
    <3>3. rest.labels = <<text>> \o there.labels /\ rest.jumps = there.jumps
          /\ rest.next = there.next
      <4>1. there \in [labels : Seq(Texts(m)), jumps : 0 .. MaxJumps, next : 0 .. m.size]
        BY <3>1 DEF Spelt, Texts
      <4> HIDE DEF there, rest
      <4>. QED BY <3>1, <4>1
    <3>4. text \in Texts(m)
      BY <2>2, <2>11 DEF Texts, cell
    <3> HIDE DEF text, there, rest, to
    <3>10. n.jumps \in Nat /\ n.jumps + rest.jumps = whole.jumps
           /\ rest.jumps + Len(rest.labels) + i <= MaxJumps + MaxLabels
      BY <2>1
    <3>11. n.labels \in Seq(Texts(m)) /\ there.labels \in Seq(Texts(m))
      BY <2>1, <3>2
    <3>5. <<text>> \in Seq(Texts(m)) /\ Len(<<text>>) = 1
      BY <3>4
    <3>6. Len(rest.labels) = 1 + Len(there.labels)
      BY <3>2, <3>3, <3>5, ConcatProperties
    <3>7. Len(n.labels) < MaxLabels
      <4>1. Len(n.labels) \in Nat /\ Len(n.labels) + Len(rest.labels) = Len(whole.labels)
        BY <2>4
      <4>2. Len(whole.labels) \in Nat /\ Len(whole.labels) <= MaxLabels
        BY <2>3
      <4>3. Len(there.labels) \in Nat
        BY <3>2
      <4>4. \A a, b, c \in Nat : a + (1 + b) = c /\ c <= MaxLabels => a < MaxLabels
        BY MessagesAssumption
      <4>5. Len(n.labels) + (1 + Len(there.labels)) = Len(whole.labels)
        BY <3>6, <4>1, Zenon
      <4>. QED BY <4>1, <4>2, <4>3, <4>4, <4>5, Zenon
    <3>8. CASE ~(to <= avail)
      <4>1. next = failed
        <5>1. ~(cell.kind = "root") /\ ~(cell.kind = "pointer")
          BY <2>11
        <5>. QED BY <2>6, <2>11, <3>8, <5>1, Zenon DEF to
      <4>2. avail < m.size
        BY <3>2, <3>8
      <4>. QED BY <2>5, <4>1, <4>2
    <3>9. CASE to <= avail
      <4>1. next = label
        <5>1. ~(cell.kind = "root") /\ ~(cell.kind = "pointer")
          BY <2>11
        <5>. QED BY <2>6, <2>11, <3>7, <3>9, <5>1, Zenon DEF to
      <4>2. next = [state |-> "reading", offset |-> to, labels |-> Append(n.labels, text),
                    jumps |-> n.jumps, next |-> n.next]
        <5>1. n = [state |-> "reading", offset |-> n.offset, labels |-> n.labels,
                   jumps |-> n.jumps, next |-> n.next]
          BY <2>1, Zenon
        <5>2. next = [n EXCEPT !.labels = Append(@, text), !.offset = to]
          BY <4>1 DEF to, text
        <5> DEFINE offset == n.offset
                   labels == n.labels
                   jumps == n.jumps
                   behind == n.next
        <5>3. n = [state |-> "reading", offset |-> offset, labels |-> labels, jumps |-> jumps,
                   next |-> behind]
          BY <5>1
        <5> HIDE DEF offset, labels, jumps, behind
        <5>4. n.offset = offset /\ n.labels = labels /\ n.jumps = jumps /\ n.next = behind
          BY <5>3
        <5>. QED BY <5>2, <5>3, <5>4
      <4>3. Append(n.labels, text) \in Seq(Texts(m))
        BY <2>1, <3>4
      <4>4. Append(n.labels, text) \o there.labels = whole.labels
        <5>1. Append(n.labels, text) = n.labels \o <<text>>
          BY <2>1, <3>4, AppendIsConcat
        <5>2. (n.labels \o <<text>>) \o there.labels = n.labels \o (<<text>> \o there.labels)
          <6> DEFINE T == Texts(m)
                     one == <<text>>
                     x == n.labels
                     z == there.labels
          <6>1. one \in Seq(T) /\ x \in Seq(T) /\ z \in Seq(T)
            BY <3>5, <3>11
          <6> HIDE DEF one, T, x, z
          <6>2. (x \o one) \o z = x \o (one \o z)
            BY <6>1, ConcatAssociative, SMTT(30)
          <6>. QED BY <6>2 DEF one, x, z
        <5>. QED BY <2>1, <3>3, <5>1, <5>2
      <4>5. next.jumps + there.jumps = whole.jumps
        BY <2>1, <3>3, <4>2
      <4>6. there.jumps + Len(there.labels) + (i + 1) <= MaxJumps + MaxLabels
        BY <3>2, <3>3, <3>6, <3>10, MessagesAssumption, SMTT(30)
      <4>7. /\ next = [state |-> "reading", offset |-> next.offset, labels |-> next.labels,
                       jumps |-> next.jumps, next |-> next.next]
            /\ next.offset = to /\ next.labels = Append(n.labels, text)
            /\ next.jumps \in Nat /\ next.next \in Nat \cup {None}
            /\ (IF next.next = None THEN there.next ELSE next.next) = whole.next
        BY <2>1, <3>3, <4>2
      <4>8. next.labels \o there.labels = whole.labels /\ next.labels \in Seq(Texts(m))
        BY <4>3, <4>4, <4>7
      <4>9. ReadsOn(next, m, o, i + 1)
        BY <3>1, <4>5, <4>6, <4>7, <4>8, Zenon DEF ReadsOn, whole, there
      <4>. QED BY <4>9, Zenon DEF Spells
    <3>. QED BY <3>8, <3>9
  <2>. QED BY <2>7, <2>8, <2>9, <2>10, <2>11
<1>. QED BY <1>1, <1>2

\* A name is read as it is spelt, or not at all, and not at all only when some of
\* the message is missing.
LEMMA NameIsSpelt ==
  ASSUME NoneIsApart, NEW m, m.size \in Nat, Spelt(m), NEW o \in DOMAIN m.spelt,
         NEW avail \in Nat, NEW name, name = read_name(m.cells, avail, o)
  PROVE  /\ name.state = "read" => name.labels = m.spelt[o].labels /\ name.next = m.spelt[o].next
         /\ avail >= m.size => name.state = "read"
<1>1. PICK acc : /\ acc[0] = NameStart(o)
                 /\ \A i \in 1 .. NameTurns : acc[i] = NameStep(acc[i - 1], m.cells, avail)
                 /\ name = acc[NameTurns]
  BY NameSteps
<1> DEFINE N == {i \in Nat : i <= NameTurns => Spells(acc[i], m, o, avail, i)}
<1>2. 0 \in N
  <2> DEFINE n == acc[0]
  <2>1. n = [state |-> "reading", offset |-> o, labels |-> <<>>, jumps |-> 0, next |-> None]
    BY <1>1 DEF NameStart
  <2>2. /\ m.spelt[o].labels \in Seq(Texts(m)) /\ Len(m.spelt[o].labels) \in Nat
        /\ Len(m.spelt[o].labels) <= MaxLabels
        /\ m.spelt[o].jumps \in Nat /\ m.spelt[o].jumps <= MaxJumps
    BY SpeltIs
  <2>3. <<>> \in Seq(Texts(m)) /\ <<>> \o m.spelt[o].labels = m.spelt[o].labels
    BY <2>2, ConcatEmptySeq
  <2>4. m.spelt[o].jumps + Len(m.spelt[o].labels) + 0 <= MaxJumps + MaxLabels
        /\ 0 + m.spelt[o].jumps = m.spelt[o].jumps
    BY <2>2, MessagesAssumption
  <2>5. Spells(n, m, o, avail, 0)
    <3> HIDE DEF n
    <3>1. /\ n = [state |-> "reading", offset |-> n.offset, labels |-> n.labels,
                  jumps |-> n.jumps, next |-> n.next]
          /\ n.offset = o /\ n.labels = <<>> /\ n.jumps = 0 /\ n.next = None
      BY <2>1
    <3>2. ReadsOn(n, m, o, 0)
      BY <2>3, <2>4, <3>1 DEF ReadsOn
    <3>. QED BY <3>2, Zenon DEF Spells
  <2>. QED BY <2>5
<1>3. ASSUME NEW i \in Nat, i \in N
      PROVE  i + 1 \in N
  <2> SUFFICES ASSUME i + 1 <= NameTurns
               PROVE  Spells(acc[i + 1], m, o, avail, i + 1)
    OBVIOUS
  <2>1. NameTurns \in Nat
    BY MessagesAssumption DEF NameTurns
  <2>2. i + 1 \in 1 .. NameTurns /\ i + 1 - 1 = i /\ i <= NameTurns
    BY <2>1
  <2>3. acc[i + 1] = NameStep(acc[i], m.cells, avail)
    BY <1>1, <2>2
  <2>4. Spells(acc[i], m, o, avail, i)
    BY <1>3, <2>2
  <2>. QED BY <2>3, <2>4, NameGoesOn
<1>4. Nat \subseteq N
  <2> HIDE DEF N
  <2>. QED BY <1>2, <1>3, Induction
<1>5. Spells(name, m, o, avail, NameTurns)
  <2>1. NameTurns \in Nat
    BY MessagesAssumption DEF NameTurns
  <2>. QED BY <1>1, <1>4, <2>1
<1>6. name.state # "reading"
  <2> SUFFICES ASSUME name.state = "reading" PROVE FALSE
    OBVIOUS
  <2> DEFINE rest == m.spelt[name.offset]
  <2>1. /\ name.offset \in DOMAIN m.spelt
        /\ rest.jumps + Len(rest.labels) + NameTurns <= MaxJumps + MaxLabels
    BY <1>5 DEF Spells, ReadsOn, Fails, HasRead
  <2>2. rest.jumps \in Nat /\ Len(rest.labels) \in Nat
    BY <2>1, SpeltIs
  <2>. QED BY <2>1, <2>2, MessagesAssumption DEF NameTurns
<1>7. \/ name.state = "error" /\ avail < m.size
      \/ name.state = "read" /\ name.labels = m.spelt[o].labels /\ name.next = m.spelt[o].next
  <2>1. (name = [state |-> "reading", offset |-> name.offset, labels |-> name.labels,
                 jumps |-> name.jumps, next |-> name.next]) => name.state = "reading"
    OBVIOUS
  <2>. QED BY <1>5, <1>6, <2>1 DEF Spells, ReadsOn, Fails, HasRead
<1>. QED BY <1>7

-----------------------------------------------------------------------------
(* Questions and answers.                                                  *)

\* The questions and answers a message is laid out with.
Asked(m) ==
  [i \in 1 .. m.qdcount |->
     LET name == m.spelt[m.starts[i]]
     IN  [name |-> name.labels, qtype |-> m.cells[name.next].qtype]]

Answered(m) ==
  [i \in 1 .. m.ancount |->
     LET name == m.spelt[m.starts[m.qdcount + i]]
         rr   == m.cells[name.next]
     IN  [name |-> name.labels, rtype |-> rr.rtype, data |-> rr.data]]

LEMMA LaidOutIs ==
  ASSUME NEW m, LaidOut(m)
  PROVE  /\ m.qdcount \in Nat /\ m.ancount \in Nat /\ m.size \in Nat /\ DnsHeader <= m.size
         /\ m.plausible /\ Spelt(m) /\ m.starts[1] = DnsHeader
         /\ \A i \in 1 .. m.qdcount + m.ancount :
              /\ m.starts[i] \in DOMAIN m.spelt
              /\ m.starts[i + 1] \in Nat /\ m.starts[i + 1] <= m.size
              /\ i <= m.qdcount => m.starts[i + 1] = m.spelt[m.starts[i]].next + 4
              /\ ~(i <= m.qdcount) =>
                   LET next == m.spelt[m.starts[i]].next IN
                   /\ m.cells[next].rdlength \in Nat
                   /\ m.starts[i + 1] = next + 10 + m.cells[next].rdlength
<1>1. /\ m.qdcount \in Nat /\ m.ancount \in Nat /\ m.size \in Nat /\ DnsHeader <= m.size
      /\ m.plausible /\ Spelt(m) /\ m.starts[1] = DnsHeader
  BY DEF LaidOut
<1>2. ASSUME NEW i \in 1 .. m.qdcount + m.ancount
      PROVE  /\ m.starts[i] \in DOMAIN m.spelt
             /\ m.starts[i + 1] \in Nat /\ m.starts[i + 1] <= m.size
             /\ i <= m.qdcount => m.starts[i + 1] = m.spelt[m.starts[i]].next + 4
             /\ ~(i <= m.qdcount) =>
                  LET next == m.spelt[m.starts[i]].next IN
                  /\ m.cells[next].rdlength \in Nat
                  /\ m.starts[i + 1] = next + 10 + m.cells[next].rdlength
  <2>1. /\ m.starts[i] \in DOMAIN m.spelt
        /\ LET next == m.spelt[m.starts[i]].next IN
           IF i <= m.qdcount THEN m.starts[i + 1] = next + 4
           ELSE /\ m.cells[next].rdlength \in Nat
                /\ m.starts[i + 1] = next + 10 + m.cells[next].rdlength
    BY Zenon DEF LaidOut
  <2>2. i + 1 \in 1 .. m.qdcount + m.ancount + 1
    BY <1>1
  <2>3. m.starts \in [1 .. m.qdcount + m.ancount + 1 -> 0 .. m.size]
    BY DEF LaidOut
  <2>4. m.starts[i + 1] \in 0 .. m.size
    BY <2>2, <2>3
  <2>5. m.starts[i + 1] \in Nat /\ m.starts[i + 1] <= m.size
    BY <1>1, <2>4
  <2>. QED BY <2>1, <2>5, Zenon
<1>. QED BY <1>1, <1>2

\* A sequence of what is made for each index, by one more.
LEMMA OneMore ==
  ASSUME NEW n \in Nat, NEW s, s = [i \in 1 .. n |-> s[i]], NEW k \in 0 .. n
  PROVE  /\ SubSeq(s, 1, k) = [i \in 1 .. k |-> s[i]]
         /\ SubSeq(s, 1, n) = s /\ SubSeq(s, 1, 0) = <<>>
         /\ k < n => Append(SubSeq(s, 1, k), s[k + 1]) = SubSeq(s, 1, k + 1)
         /\ Len(SubSeq(s, 1, k)) = k
         /\ IsPrefix(SubSeq(s, 1, k), s)
<1> DEFINE T == {s[i] : i \in 1 .. n}
<1>1. s \in Seq(T) /\ Len(s) = n
  OBVIOUS
<1>2. \A j \in 0 .. n : /\ SubSeq(s, 1, j) = [i \in 1 .. j |-> s[i]]
                        /\ SubSeq(s, 1, j) \in Seq(T) /\ Len(SubSeq(s, 1, j)) = j
  <2> SUFFICES ASSUME NEW j \in 0 .. n
               PROVE  /\ SubSeq(s, 1, j) = [i \in 1 .. j |-> s[i]]
                      /\ SubSeq(s, 1, j) \in Seq(T) /\ Len(SubSeq(s, 1, j)) = j
    OBVIOUS
  <2>1. j \in Nat /\ \A i \in 1 .. j : s[i] \in T
    OBVIOUS
  <2> HIDE DEF T
  <2> DEFINE p == [i \in 1 .. j |-> s[i]]
  <2>2. p \in Seq(T) /\ Len(p) = j
    <3>1. p \in [1 .. j -> T]
      BY <2>1
    <3>2. DOMAIN p = 1 .. j
      OBVIOUS
    <3> HIDE DEF p
    <3>. QED BY <2>1, <3>1, <3>2
  <2>3. SubSeq(s, 1, j) = p
    BY <1>1
  <2>. QED BY <2>2, <2>3
<1>3. SubSeq(s, 1, n) = s /\ SubSeq(s, 1, 0) = <<>>
  BY <1>1, <1>2
<1>4. ASSUME k < n
      PROVE  Append(SubSeq(s, 1, k), s[k + 1]) = SubSeq(s, 1, k + 1)
  <2>1. k + 1 \in 0 .. n /\ k + 1 \in 1 .. n
    BY <1>4
  <2> DEFINE a == Append(SubSeq(s, 1, k), s[k + 1])
             b == SubSeq(s, 1, k + 1)
  <2>2. b = [i \in 1 .. k + 1 |-> s[i]]
    BY <1>2, <2>1
  <2>3. a \in Seq(T) /\ Len(a) = k + 1
        /\ \A i \in 1 .. k + 1 : a[i] = IF i <= k THEN SubSeq(s, 1, k)[i] ELSE s[k + 1]
    <3> DEFINE c == SubSeq(s, 1, k)
               e == s[k + 1]
    <3>1. c \in Seq(T) /\ Len(c) = k /\ e \in T
      BY <1>1, <1>2, <2>1
    <3> HIDE DEF c, e, T
    <3>2. Append(c, e) \in Seq(T) /\ Len(Append(c, e)) = k + 1
          /\ \A i \in 1 .. k + 1 : Append(c, e)[i] = IF i <= k THEN c[i] ELSE e
      BY <3>1, AppendProperties
    <3>. QED BY <3>2 DEF c, e
  <2>4. \A i \in 1 .. k + 1 : a[i] = s[i]
    BY <1>2, <2>3
  <2>5. a = [i \in 1 .. k + 1 |-> a[i]]
    <3> HIDE DEF a, T
    <3>. QED BY <2>3
  <2> HIDE DEF a, b
  <2>6. a = b
    BY <2>2, <2>4, <2>5
  <2>. QED BY <2>6 DEF a, b
<1>5. IsPrefix(SubSeq(s, 1, k), s)
  <2> DEFINE p == SubSeq(s, 1, k)
  <2>1. p \in Seq(T) /\ Len(p) = k /\ Len(s) = n
    BY <1>1, <1>2
  <2>2. SubSeq(p, 1, k) = p
    <3> HIDE DEF p, T
    <3>. QED BY <2>1
  <2> HIDE DEF p
  <2>3. IsPrefix(p, s)
    BY <2>1, <2>2 DEF IsPrefix, p
  <2>. QED BY <2>3 DEF p
<1>. QED BY <1>2, <1>3, <1>4, <1>5

\* After i questions: it has failed, which it does only when some of the message is
\* missing, or it has read them.
Refused(r, m, avail) == r.failed /\ avail < m.size

QuestionsRead(r, m, i) ==
  r = [offset |-> m.starts[i + 1], questions |-> SubSeq(Asked(m), 1, i), answers |-> <<>>,
       failed |-> FALSE, ended |-> FALSE]

\* After i answers: some are missing, or it has read them.
AnswersEnd(r, m, avail, i) ==
  /\ ~r.failed /\ r.ended /\ avail < m.size
  /\ r.questions = Asked(m)
  /\ \E k \in 0 .. i : r.answers = SubSeq(Answered(m), 1, k)

AnswersRead(r, m, i) ==
  r = [offset |-> m.starts[m.qdcount + i + 1], questions |-> Asked(m),
       answers |-> SubSeq(Answered(m), 1, i), failed |-> FALSE, ended |-> FALSE]

LEMMA QuestionGoesOn ==
  ASSUME NoneIsApart, NEW m, LaidOut(m), NEW avail \in Nat,
         NEW i \in Nat, i < m.qdcount, NEW r,
         Refused(r, m, avail) \/ QuestionsRead(r, m, i),
         NEW next, next = ReadQuestion(r, m, avail)
  PROVE  Refused(next, m, avail) \/ QuestionsRead(next, m, i + 1)
<1>1. CASE Refused(r, m, avail)
  <2>1. r.failed
    BY <1>1 DEF Refused
  <2>2. next = [r EXCEPT !.failed = TRUE]
    BY <2>1, Zenon DEF ReadQuestion
  <2>3. next.failed
    <3>1. "failed" \in DOMAIN r \/ "failed" \notin DOMAIN r
      OBVIOUS
    <3>. QED BY <2>1, <2>2
  <2>. QED BY <1>1, <2>3 DEF Refused
<1>2. CASE QuestionsRead(r, m, i)
  <2> DEFINE start == m.starts[i + 1]
             end == m.starts[i + 1 + 1]
             spelt == m.spelt[start]
             asked == SubSeq(Asked(m), 1, i)
             name == read_name(m.cells, avail, start)
             question == [name |-> name.labels, qtype |-> m.cells[name.next].qtype]
  <2>1. r = [offset |-> start, questions |-> asked, answers |-> <<>>,
             failed |-> FALSE, ended |-> FALSE]
    BY <1>2 DEF QuestionsRead
  <2>2. /\ start \in DOMAIN m.spelt /\ end \in Nat /\ end <= m.size
        /\ end = spelt.next + 4 /\ m.size \in Nat /\ Spelt(m)
        /\ m.qdcount \in Nat
    <3>1. i + 1 \in 1 .. m.qdcount + m.ancount /\ i + 1 <= m.qdcount
      BY LaidOutIs
    <3>. QED BY <3>1, LaidOutIs
  <2>3. /\ name.state = "read" => name.labels = spelt.labels /\ name.next = spelt.next
        /\ avail >= m.size => name.state = "read"
    <3>1. start \in DOMAIN m.spelt /\ m.size \in Nat /\ Spelt(m)
      BY <2>2
    <3> HIDE DEF start, end, asked
    <3>. QED BY <3>1, NameIsSpelt, SMTT(30)
  <2> HIDE DEF name, asked, spelt, start, end
  <2>4. r.offset = start
    BY <2>1
  <2>5. next = IF r.failed \/ name.state # "read" \/ name.next + 4 > avail
               THEN [r EXCEPT !.failed = TRUE]
               ELSE [r EXCEPT !.offset = name.next + 4, !.questions = Append(@, question)]
    BY <2>4, Zenon DEF ReadQuestion, name
  <2>6. CASE name.state # "read" \/ name.next + 4 > avail
    <3>1. next = [r EXCEPT !.failed = TRUE]
      BY <2>5, <2>6, Zenon
    <3>2. next.failed
      BY <2>1, <3>1
    <3>3. avail < m.size
      <4>1. CASE name.state # "read"
        <5>1. ~(avail >= m.size)
          BY <2>3, <4>1
        <5>. QED BY <2>2, <5>1
      <4>2. CASE name.state = "read"
        <5>1. end > avail
          BY <2>2, <2>3, <2>6, <4>2
        <5>. QED BY <2>2, <5>1
      <4>. QED BY <4>1, <4>2
    <3>. QED BY <3>2, <3>3 DEF Refused
  <2>7. CASE ~(name.state # "read" \/ name.next + 4 > avail)
    <3>1. name.labels = spelt.labels /\ name.next = spelt.next
      BY <2>3, <2>7
    <3>2. ~r.failed
      BY <2>1
    <3>3. next = [r EXCEPT !.offset = name.next + 4, !.questions = Append(@, question)]
      BY <2>5, <2>7, <3>2, Zenon
    <3>4. question = Asked(m)[i + 1]
      <4>1. i + 1 \in 1 .. m.qdcount
        BY <2>2
      <4>2. Asked(m)[i + 1] = [name |-> spelt.labels, qtype |-> m.cells[spelt.next].qtype]
        BY <4>1 DEF Asked, spelt, start
      <4>. QED BY <3>1, <4>2
    <3>5. name.next + 4 = end
      BY <2>2, <3>1
    <3>6. Append(asked, question) = SubSeq(Asked(m), 1, i + 1)
      <4>1. Asked(m) = [k \in 1 .. m.qdcount |-> Asked(m)[k]]
        BY DEF Asked
      <4>2. i \in 0 .. m.qdcount
        BY <2>2
      <4>. QED BY <2>2, <3>4, <4>1, <4>2, OneMore DEF asked
    <3> DEFINE more == SubSeq(Asked(m), 1, i + 1)
    <3> HIDE DEF question, more
    <3>7. next = [r EXCEPT !.offset = end, !.questions = more]
      BY <2>1, <3>3, <3>5, <3>6 DEF more
    <3>8. next = [offset |-> end, questions |-> more, answers |-> <<>>,
                  failed |-> FALSE, ended |-> FALSE]
      BY <2>1, <3>7
    <3>. QED BY <3>8 DEF QuestionsRead, end, more
  <2>. QED BY <2>6, <2>7
<1>. QED BY <1>1, <1>2

LEMMA AnswerGoesOn ==
  ASSUME NoneIsApart, NEW m, LaidOut(m), NEW avail \in Nat,
         NEW i \in Nat, i < m.ancount, NEW r,
         Refused(r, m, avail) \/ AnswersEnd(r, m, avail, i) \/ AnswersRead(r, m, i),
         NEW next, next = ReadAnswer(r, m, avail)
  PROVE  \/ Refused(next, m, avail) \/ AnswersEnd(next, m, avail, i + 1)
         \/ AnswersRead(next, m, i + 1)
<1>1. CASE Refused(r, m, avail)
  <2>1. r.failed
    BY <1>1 DEF Refused
  <2>2. next = r
    BY <2>1, Zenon DEF ReadAnswer
  <2>. QED BY <1>1, <2>2
<1>2. CASE AnswersEnd(r, m, avail, i)
  <2>1. r.ended
    BY <1>2 DEF AnswersEnd
  <2>2. next = r
    BY <2>1, Zenon DEF ReadAnswer
  <2>3. 0 .. i \subseteq 0 .. i + 1
    OBVIOUS
  <2>4. AnswersEnd(next, m, avail, i + 1)
    BY <1>2, <2>2, <2>3, Zenon DEF AnswersEnd
  <2>. QED BY <2>4
<1>3. CASE AnswersRead(r, m, i)
  <2> DEFINE j == m.qdcount + i + 1
             start == m.starts[j]
             end == m.starts[j + 1]
             spelt == m.spelt[start]
             given == SubSeq(Answered(m), 1, i)
             asked == Asked(m)
             name == read_name(m.cells, avail, start)
             rr == m.cells[name.next]
             answer == [name |-> name.labels, rtype |-> rr.rtype, data |-> rr.data]
             length == m.cells[spelt.next].rdlength
  <2>1. r = [offset |-> start, questions |-> asked, answers |-> given,
             failed |-> FALSE, ended |-> FALSE]
    BY <1>3 DEF AnswersRead
  <2>2. /\ start \in DOMAIN m.spelt /\ end \in Nat /\ end <= m.size
        /\ length \in Nat
        /\ end = spelt.next + 10 + length /\ m.size \in Nat /\ Spelt(m)
        /\ m.ancount \in Nat
    <3>1. m.qdcount \in Nat /\ m.ancount \in Nat
      BY LaidOutIs
    <3>2. j \in 1 .. m.qdcount + m.ancount /\ ~(j <= m.qdcount)
      BY <3>1
    <3> HIDE DEF j
    <3>. QED BY <3>2, LaidOutIs
  <2>3. /\ name.state = "read" => name.labels = spelt.labels /\ name.next = spelt.next
        /\ avail >= m.size => name.state = "read"
    <3>1. start \in DOMAIN m.spelt /\ m.size \in Nat /\ Spelt(m)
      BY <2>2
    <3> HIDE DEF j, start, end, given, asked, length
    <3>. QED BY <3>1, NameIsSpelt, SMTT(30)
  <2>4. spelt.next \in Nat
    BY <2>2, SpeltIs
  <2> HIDE DEF name, given, asked, spelt, start, end, j, length
  <2>5. r.offset = start /\ ~r.failed /\ ~r.ended
    BY <2>1
  <2>6. next = IF name.state # "read" \/ name.next + 10 > avail THEN [r EXCEPT !.ended = TRUE]
               ELSE IF name.next + 10 + rr.rdlength > avail THEN [r EXCEPT !.ended = TRUE]
               ELSE [r EXCEPT !.offset = name.next + 10 + rr.rdlength,
                              !.answers = Append(@, answer)]
    BY <2>5, Zenon DEF ReadAnswer, name
  <2>7. ASSUME next = [r EXCEPT !.ended = TRUE], avail < m.size
        PROVE  AnswersEnd(next, m, avail, i + 1)
    <3>1. /\ ~next.failed /\ next.ended /\ next.questions = asked /\ next.answers = given
      BY <2>1, <2>7
    <3>2. i \in 0 .. i + 1
      OBVIOUS
    <3>. QED BY <2>7, <3>1, <3>2, Zenon DEF AnswersEnd, asked, given
  <2>8. CASE name.state # "read"
    <3>1. next = [r EXCEPT !.ended = TRUE]
      BY <2>6, <2>8, Zenon
    <3>2. ~(avail >= m.size)
      BY <2>3, <2>8
    <3>. QED BY <2>2, <2>7, <3>1, <3>2
  <2>9. CASE name.state = "read"
    <3>1. name.labels = spelt.labels /\ name.next = spelt.next /\ rr.rdlength = length
      BY <2>3, <2>9 DEF length
    <3>2. CASE name.next + 10 > avail \/ name.next + 10 + rr.rdlength > avail
      <4>1. next = [r EXCEPT !.ended = TRUE]
        BY <2>6, <3>2, Zenon
      <4>2. avail < end
        BY <2>2, <2>4, <3>1, <3>2
      <4>. QED BY <2>2, <2>7, <4>1, <4>2
    <3>3. CASE ~(name.next + 10 > avail) /\ ~(name.next + 10 + rr.rdlength > avail)
      <4>1. next = [r EXCEPT !.offset = name.next + 10 + rr.rdlength,
                             !.answers = Append(@, answer)]
        BY <2>6, <2>9, <3>3, Zenon
      <4>2. answer = Answered(m)[i + 1]
        <5>1. i + 1 \in 1 .. m.ancount
          BY <2>2
        <5>2. m.qdcount + (i + 1) = j
          <6>1. m.qdcount \in Nat
            BY LaidOutIs
          <6>. QED BY <6>1 DEF j
        <5>3. Answered(m)[i + 1] = [name |-> spelt.labels, rtype |-> m.cells[spelt.next].rtype,
                                    data |-> m.cells[spelt.next].data]
          BY <5>1, <5>2 DEF Answered, spelt, start
        <5>. QED BY <3>1, <5>3
      <4>3. name.next + 10 + rr.rdlength = end
        BY <2>2, <3>1
      <4>4. Append(given, answer) = SubSeq(Answered(m), 1, i + 1)
        <5>1. Answered(m) = [k \in 1 .. m.ancount |-> Answered(m)[k]]
          BY DEF Answered
        <5>2. i \in 0 .. m.ancount
          BY <2>2
        <5>. QED BY <2>2, <4>2, <5>1, <5>2, OneMore DEF given
      <4> DEFINE more == SubSeq(Answered(m), 1, i + 1)
      <4> HIDE DEF answer, more, rr
      <4>5. next = [r EXCEPT !.offset = end, !.answers = more]
        BY <2>1, <4>1, <4>3, <4>4 DEF more
      <4>6. next = [offset |-> end, questions |-> asked, answers |-> more,
                    failed |-> FALSE, ended |-> FALSE]
        BY <2>1, <4>5
      <4>7. j + 1 = m.qdcount + (i + 1) + 1
        <5>1. m.qdcount \in Nat
          BY LaidOutIs
        <5>. QED BY <5>1 DEF j
      <4>8. AnswersRead(next, m, i + 1)
        BY <4>6, <4>7 DEF AnswersRead, end, more, asked
      <4>. QED BY <4>8
    <3>. QED BY <3>2, <3>3
  <2>. QED BY <2>8, <2>9
<1>. QED BY <1>1, <1>2, <1>3

\* A message that is laid out is read with every question and with answers from the
\* first on, all of them when all of it is there.
LEMMA DnsIsRead ==
  ASSUME NoneIsApart, NEW m, LaidOut(m), NEW avail \in Nat,
         NEW d, d = ParseDns(m, avail)
  PROVE  /\ d # None =>
              /\ d.proto = "dns" /\ d.questions = Asked(m)
              /\ \E k \in 0 .. m.ancount : /\ d.answers = SubSeq(Answered(m), 1, k)
                                           /\ avail >= m.size => k = m.ancount
         /\ avail >= m.size => d # None
<1>1. /\ m.qdcount \in Nat /\ m.ancount \in Nat /\ m.size \in Nat /\ DnsHeader <= m.size
      /\ m.plausible /\ m.starts[1] = DnsHeader
  BY LaidOutIs
<1>2. PICK q, a : /\ q[0] = DnsStart(m, avail)
                  /\ \A i \in 1 .. m.qdcount : q[i] = ReadQuestion(q[i - 1], m, avail)
                  /\ a[0] = q[m.qdcount]
                  /\ \A i \in 1 .. m.ancount : a[i] = ReadAnswer(a[i - 1], m, avail)
                  /\ d = IF a[m.ancount].failed THEN None
                         ELSE [proto |-> "dns", is_response |-> m.is_response, rcode |-> m.rcode,
                               questions |-> a[m.ancount].questions,
                               answers |-> a[m.ancount].answers]
  BY <1>1, DnsSteps
<1> DEFINE Q == {i \in Nat : i <= m.qdcount =>
                               Refused(q[i], m, avail) \/ QuestionsRead(q[i], m, i)}
           A == {i \in Nat : i <= m.ancount => \/ Refused(a[i], m, avail)
                                              \/ AnswersEnd(a[i], m, avail, i)
                                              \/ AnswersRead(a[i], m, i)}
<1>3. 0 \in Q
  <2> DEFINE r == q[0]
  <2>1. r = DnsStart(m, avail)
    BY <1>2
  <2>2. CASE avail < DnsHeader
    <3>1. r.failed
      <4>1. r.failed = (avail < DnsHeader \/ ~m.plausible)
        BY <2>1 DEF DnsStart
      <4>. QED BY <2>2, <4>1, Zenon
    <3>2. avail < m.size
      BY <1>1, <2>2 DEF DnsHeader
    <3>. QED BY <3>1, <3>2 DEF Refused
  <2>3. CASE ~(avail < DnsHeader)
    <3>1. r = [offset |-> DnsHeader, questions |-> <<>>, answers |-> <<>>,
               failed |-> FALSE, ended |-> FALSE]
      BY <1>1, <2>1, <2>3 DEF DnsStart
    <3>2. SubSeq(Asked(m), 1, 0) = <<>>
      <4>1. Asked(m) = [k \in 1 .. m.qdcount |-> Asked(m)[k]]
        BY DEF Asked
      <4>2. 0 \in 0 .. m.qdcount
        BY <1>1
      <4>. QED BY <1>1, <4>1, <4>2, OneMore
    <3>3. QuestionsRead(r, m, 0)
      <4>1. m.starts[0 + 1] = DnsHeader
        BY <1>1
      <4> HIDE DEF r
      <4>. QED BY <3>1, <3>2, <4>1 DEF QuestionsRead
    <3>. QED BY <3>3
  <2>. QED BY <2>2, <2>3
<1>4. ASSUME NEW i \in Nat, i \in Q
      PROVE  i + 1 \in Q
  <2> SUFFICES ASSUME i + 1 <= m.qdcount
               PROVE  Refused(q[i + 1], m, avail) \/ QuestionsRead(q[i + 1], m, i + 1)
    OBVIOUS
  <2>1. i + 1 \in 1 .. m.qdcount /\ i + 1 - 1 = i /\ i < m.qdcount
    BY <1>1
  <2>2. q[i + 1] = ReadQuestion(q[i], m, avail)
    BY <1>2, <2>1
  <2>3. Refused(q[i], m, avail) \/ QuestionsRead(q[i], m, i)
    <3>1. i <= m.qdcount
      BY <1>1, <2>1
    <3>. QED BY <1>4, <3>1, Zenon
  <2>. QED BY <2>1, <2>2, <2>3, QuestionGoesOn
<1>5. Refused(q[m.qdcount], m, avail) \/ QuestionsRead(q[m.qdcount], m, m.qdcount)
  <2>1. Nat \subseteq Q
    <3> HIDE DEF Q
    <3>. QED BY <1>3, <1>4, Induction
  <2>. QED BY <1>1, <2>1
<1>6. 0 \in A
  <2>1. CASE Refused(q[m.qdcount], m, avail)
    BY <1>2, <2>1
  <2>2. CASE QuestionsRead(q[m.qdcount], m, m.qdcount)
    <3> DEFINE r == a[0]
    <3>1. SubSeq(Asked(m), 1, m.qdcount) = Asked(m)
      <4>1. Asked(m) = [k \in 1 .. m.qdcount |-> Asked(m)[k]]
        BY DEF Asked
      <4>2. 0 \in 0 .. m.qdcount
        BY <1>1
      <4>. QED BY <1>1, <4>1, <4>2, OneMore
    <3>2. SubSeq(Answered(m), 1, 0) = <<>>
      <4>1. Answered(m) = [k \in 1 .. m.ancount |-> Answered(m)[k]]
        BY DEF Answered
      <4>2. 0 \in 0 .. m.ancount
        BY <1>1
      <4>. QED BY <1>1, <4>1, <4>2, OneMore
    <3>3. m.qdcount + 0 + 1 = m.qdcount + 1
      BY <1>1
    <3>4. AnswersRead(r, m, 0)
      BY <1>2, <2>2, <3>1, <3>2, <3>3 DEF QuestionsRead, AnswersRead
    <3>. QED BY <3>4
  <2>. QED BY <1>5, <2>1, <2>2
<1>7. ASSUME NEW i \in Nat, i \in A
      PROVE  i + 1 \in A
  <2> SUFFICES ASSUME i + 1 <= m.ancount
               PROVE  \/ Refused(a[i + 1], m, avail) \/ AnswersEnd(a[i + 1], m, avail, i + 1)
                      \/ AnswersRead(a[i + 1], m, i + 1)
    OBVIOUS
  <2>1. i + 1 \in 1 .. m.ancount /\ i + 1 - 1 = i /\ i < m.ancount
    BY <1>1
  <2>2. a[i + 1] = ReadAnswer(a[i], m, avail)
    BY <1>2, <2>1
  <2>3. \/ Refused(a[i], m, avail) \/ AnswersEnd(a[i], m, avail, i) \/ AnswersRead(a[i], m, i)
    <3>1. i <= m.ancount
      BY <1>1, <2>1
    <3>. QED BY <1>7, <3>1, Zenon
  <2>. QED BY <2>1, <2>2, <2>3, AnswerGoesOn
<1> DEFINE n == m.ancount
           r == a[n]
<1>8. Refused(r, m, avail) \/ AnswersEnd(r, m, avail, n) \/ AnswersRead(r, m, n)
  <2>1. Nat \subseteq A
    <3> HIDE DEF A
    <3>. QED BY <1>6, <1>7, Induction
  <2>. QED BY <1>1, <2>1
<1>9. /\ d = IF r.failed THEN None
             ELSE [proto |-> "dns", is_response |-> m.is_response, rcode |-> m.rcode,
                   questions |-> r.questions, answers |-> r.answers]
  BY <1>2
<1> HIDE DEF r
<1>10. r.failed => d = None /\ ~(avail >= m.size)
  <2>1. r.failed => Refused(r, m, avail)
    <3>1. AnswersRead(r, m, n) => ~r.failed
      BY DEF AnswersRead
    <3>. QED BY <1>8, <3>1 DEF AnswersEnd
  <2>2. Refused(r, m, avail) => ~(avail >= m.size)
    BY <1>1 DEF Refused
  <2>. QED BY <1>9, <2>1, <2>2
<1>11. ASSUME ~r.failed
       PROVE  /\ d # None
              /\ d.proto = "dns" /\ d.questions = r.questions /\ d.answers = r.answers
  <2>1. d = [proto |-> "dns", is_response |-> m.is_response, rcode |-> m.rcode,
             questions |-> r.questions, answers |-> r.answers]
    BY <1>9, <1>11
  <2>. QED BY <2>1 DEF NoneIsApart
<1>12. CASE AnswersEnd(r, m, avail, n)
  <2>1. ~r.failed /\ avail < m.size /\ r.questions = Asked(m)
    BY <1>12 DEF AnswersEnd
  <2>2. PICK k \in 0 .. n : r.answers = SubSeq(Answered(m), 1, k)
    BY <1>12 DEF AnswersEnd
  <2>3. ~(avail >= m.size)
    BY <1>1, <2>1
  <2>. QED BY <1>11, <2>1, <2>2, <2>3
<1>13. CASE AnswersRead(r, m, n)
  <2>1. ~r.failed /\ r.questions = Asked(m) /\ r.answers = SubSeq(Answered(m), 1, n)
    BY <1>13 DEF AnswersRead
  <2>2. n \in 0 .. n
    BY <1>1
  <2>. QED BY <1>11, <2>1, <2>2
<1>14. CASE Refused(r, m, avail)
  BY <1>10, <1>14 DEF Refused
<1>. QED BY <1>8, <1>12, <1>13, <1>14

-----------------------------------------------------------------------------
(* Messages cut short.                                                     *)

\* The parts that follow each other end in their order.
LEMMA EndsGrow ==
  ASSUME NEW seq, Len(seq) \in Nat, \A i \in 1 .. Len(seq) : seq[i].size \in Nat,
         NEW i \in 0 .. Len(seq)
  PROVE  EndOf(seq, i) <= EndOf(seq, Len(seq))
<1> DEFINE n == Len(seq)
           N == {k \in Nat : i + k <= n => EndOf(seq, i) <= EndOf(seq, i + k)}
<1>1. /\ \A j \in 1 .. n : EndOf(seq, j) = EndOf(seq, j - 1) + seq[j].size
      /\ \A j \in 0 .. n : EndOf(seq, j) \in Nat
  BY EndsAddUp
<1>2. 0 \in N
  BY <1>1
<1>3. ASSUME NEW k \in Nat, k \in N
      PROVE  k + 1 \in N
  <2> SUFFICES ASSUME i + (k + 1) <= n
               PROVE  EndOf(seq, i) <= EndOf(seq, i + (k + 1))
    OBVIOUS
  <2> DEFINE j == i + k
  <2>1. j \in 0 .. n /\ j + 1 \in 1 .. n /\ j + 1 - 1 = j /\ i + (k + 1) = j + 1
    OBVIOUS
  <2>2. EndOf(seq, i) <= EndOf(seq, j)
    BY <1>3, <2>1
  <2> HIDE DEF j
  <2>3. EndOf(seq, j + 1) = EndOf(seq, j) + seq[j + 1].size
    BY <1>1, <2>1
  <2>4. EndOf(seq, i) \in Nat /\ EndOf(seq, j) \in Nat /\ seq[j + 1].size \in Nat
    BY <1>1, <2>1
  <2>. QED BY <2>1, <2>2, <2>3, <2>4
<1>4. Nat \subseteq N
  <2> HIDE DEF N
  <2>. QED BY <1>2, <1>3, Induction
<1>5. n - i \in Nat /\ i + (n - i) = n
  OBVIOUS
<1>. QED BY <1>4, <1>5

\* The last header of a name.
LastNamed(m, name) == {i \in DOMAIN m.headers : m.headers[i].name = name}
WholeValue(m, name) ==
  IF LastNamed(m, name) = {} THEN None
  ELSE m.headers[CHOOSE k \in LastNamed(m, name) : \A j \in LastNamed(m, name) : j <= k].value

IsHttp(m) ==
  /\ {m.needed, m.start} \subseteq Nat
  /\ Len(m.headers) \in Nat /\ DOMAIN m.headers = 1 .. Len(m.headers)
  /\ \A i \in DOMAIN m.headers :
       {m.headers[i].size, m.headers[i].colon} \subseteq Nat /\ m.headers[i].colon <= m.headers[i].size

\* A whole head has the whole of its headers.
LEMMA WholeHead ==
  ASSUME NEW m, IsHttp(m), NEW hay \in Nat, HeadSize(m) <= hay, NEW name
  PROVE  HeaderValue(m, hay, name) = WholeValue(m, name)
<1> DEFINE n == Len(m.headers)
           start(i) == m.start + EndOf(m.headers, i - 1)
           named == {i \in DOMAIN m.headers :
                       m.headers[i].name = name /\ start(i) + m.headers[i].colon <= hay}
           last == CHOOSE k \in named : \A j \in named : j <= k
<1>1. n \in Nat /\ DOMAIN m.headers = 1 .. n /\ m.start \in Nat
      /\ \A i \in 1 .. n : /\ m.headers[i].size \in Nat /\ m.headers[i].colon \in Nat
                           /\ m.headers[i].colon <= m.headers[i].size
  BY DEF IsHttp
<1>2. ASSUME NEW i \in 1 .. n
      PROVE  start(i) + m.headers[i].colon <= hay /\ start(i) + m.headers[i].size - 2 <= hay
  <2> DEFINE before == EndOf(m.headers, i - 1)
             behind == EndOf(m.headers, i)
             end == EndOf(m.headers, n)
             size == m.headers[i].size
             colon == m.headers[i].colon
             first == m.start
  <2>1. /\ \A j \in 1 .. n : EndOf(m.headers, j) = EndOf(m.headers, j - 1) + m.headers[j].size
        /\ \A j \in 0 .. n : EndOf(m.headers, j) \in Nat
    BY <1>1, EndsAddUp
  <2>2. i \in 0 .. n /\ i - 1 \in 0 .. n /\ n \in 0 .. n
    BY <1>1
  <2>3. before \in Nat /\ behind = before + size /\ end \in Nat
    BY <2>1, <2>2
  <2>4. behind <= end
    BY <1>1, <2>2, EndsGrow
  <2>5. first + end + 2 <= hay
    BY DEF HeadSize
  <2>6. first \in Nat /\ size \in Nat /\ colon \in Nat /\ colon <= size
    BY <1>1
  <2> HIDE DEF before, behind, end, size, colon, first
  <2>7. first + before + colon <= hay /\ first + before + size - 2 <= hay
    BY <2>3, <2>4, <2>5, <2>6
  <2>. QED BY <2>7 DEF before, size, colon, first
<1>3. named = LastNamed(m, name)
  BY <1>1, <1>2 DEF LastNamed
<1>4. HeaderValue(m, hay, name) =
        IF named = {} THEN None
        ELSE IF start(last) + m.headers[last].size - 2 <= hay THEN m.headers[last].value
        ELSE [cut |-> m.headers[last].value]
  BY DEF HeaderValue
<1>5. CASE named = {}
  BY <1>3, <1>4, <1>5 DEF WholeValue
<1>6. CASE named # {}
  <2>1. named \in SUBSET (1 .. n)
    BY <1>1
  <2> HIDE DEF named
  <2>2. \E k \in named : \A j \in named : j <= k
    BY <1>1, <1>6, <2>1, LastOf
  <2>3. last \in named
    BY <2>2
  <2>4. last \in 1 .. n
    BY <2>1, <2>3
  <2>5. last = CHOOSE k \in LastNamed(m, name) : \A j \in LastNamed(m, name) : j <= k
    BY <1>3
  <2> HIDE DEF last
  <2>6. start(last) + m.headers[last].size - 2 <= hay
    BY <1>2, <2>4
  <2> HIDE DEF start
  <2>7. HeaderValue(m, hay, name) = m.headers[last].value
    BY <1>4, <1>6, <2>6
  <2>. QED BY <1>3, <1>6, <2>5, <2>7, Zenon DEF WholeValue
<1>. QED BY <1>5, <1>6

\* More of a head, or of a record, is decoded as the same message, unless what there
\* was of it is said to be incomplete.
MoreOf(x, y, proto) ==
  x # None => /\ y # None /\ x.proto = proto /\ y.proto = proto
              /\ x # y => x.kind = y.kind /\ ~x.complete

LEMMA HttpCut ==
  ASSUME NoneIsApart, NEW m, IsHttp(m), NEW low \in Nat, NEW high \in Nat, low <= high
  PROVE  MoreOf(ParseHttp(m, low), ParseHttp(m, high), "http")
<1> DEFINE h1 == Smaller(low, HeaderLimit)
           h2 == Smaller(high, HeaderLimit)
           here(h) == [proto |-> "http", kind |-> m.kind, host |-> HeaderValue(m, h, "host"),
                      user_agent |-> HeaderValue(m, h, "user-agent"),
                      has_authorization |-> HeaderValue(m, h, "authorization") # None,
                      complete |-> HeadSize(m) <= h]
           x == ParseHttp(m, low)
           y == ParseHttp(m, high)
<1>1. h1 \in Nat /\ h2 \in Nat /\ h1 <= h2
  BY MessagesAssumption DEF Smaller
<1>2. m.needed \in Nat
  BY DEF IsHttp
<1>3. /\ x = IF h1 < m.needed THEN None ELSE here(h1)
      /\ y = IF h2 < m.needed THEN None ELSE here(h2)
  BY Zenon DEF ParseHttp
<1> HIDE DEF x, y
<1> SUFFICES ASSUME x # None
             PROVE  /\ y # None /\ x.proto = "http" /\ y.proto = "http"
                    /\ x # y => x.kind = y.kind /\ ~x.complete
  BY Zenon DEF MoreOf, x, y
<1>4. ~(h1 < m.needed) /\ ~(h2 < m.needed)
  <2>1. ~(h1 < m.needed)
    BY <1>3, Zenon
  <2> HIDE DEF h1, h2
  <2>. QED BY <1>1, <1>2, <2>1
<1>5. x = here(h1) /\ y = here(h2)
  BY <1>3, <1>4, Zenon
<1>6. HeadSize(m) \in Nat
  <2>1. /\ Len(m.headers) \in Nat /\ m.start \in Nat
        /\ \A i \in 1 .. Len(m.headers) : m.headers[i].size \in Nat
    BY DEF IsHttp
  <2>2. Len(m.headers) \in 0 .. Len(m.headers)
    BY <2>1
  <2>3. EndOf(m.headers, Len(m.headers)) \in Nat
    BY <2>1, <2>2, EndsAddUp
  <2>. QED BY <2>1, <2>3 DEF HeadSize
<1> HIDE DEF h1, h2
<1>7. x.complete = (HeadSize(m) <= h1) /\ x.kind = m.kind /\ y.kind = m.kind
      /\ x.proto = "http" /\ y.proto = "http" /\ y # None
  BY <1>5 DEF NoneIsApart
<1>8. ASSUME HeadSize(m) <= h1
      PROVE  x = y
  <2>1. HeadSize(m) <= h2
    BY <1>1, <1>6, <1>8
  <2>2. \A name : HeaderValue(m, h1, name) = HeaderValue(m, h2, name)
    BY <1>1, <1>8, <2>1, WholeHead
  <2>3. (HeadSize(m) <= h1) = (HeadSize(m) <= h2)
    BY <1>8, <2>1
  <2>. QED BY <1>5, <2>2, <2>3, Zenon
<1>. QED BY <1>7, <1>8

\* What a record is decoded as, by how much of it is there.
TlsOf(m, there, complete) ==
  LET whole(i) == m.hello + 2 + EndOf(m.extensions, i) <= there
      kept  == SelectSeq(m.extensions, LAMBDA e :
                 \E i \in DOMAIN m.extensions : m.extensions[i] = e /\ whole(i) /\ e.type # "grease")
      ofType(t) == SelectSeq(kept, LAMBDA e : e.type = t)
      sni == ofType("server_name")
      versions == {m.legacy_version} \cup {e.value : e \in Range(ofType("supported_versions"))}
  IN  [proto |-> "tls", kind |-> m.kind,
       sni |-> IF sni = <<>> THEN None ELSE Last(sni).value,
       negotiated_version |-> CHOOSE v \in versions : \A w \in versions : w <= v,
       ja3 |-> <<m.legacy_version, m.cipher_suites, [i \in DOMAIN kept |-> kept[i].type]>>,
       complete |-> complete]

LEMMA TlsIs ==
  ASSUME NEW m, NEW avail
  PROVE  ParseTls(m, avail) =
           LET there == Smaller(m.record_len, avail - RecordHeader) IN
           IF avail < RecordHeader \/ there < m.hello \/ m.kind \notin {"client", "server"} THEN None
           ELSE TlsOf(m, there, m.record_len <= avail - RecordHeader)
BY Zenon DEF ParseTls, TlsOf

LEMMA TlsFields ==
  ASSUME NoneIsApart, NEW m, NEW there, NEW complete
  PROVE  LET x == TlsOf(m, there, complete) IN
         x # None /\ x.proto = "tls" /\ x.kind = m.kind /\ x.complete = complete
BY DEF TlsOf, NoneIsApart

LEMMA TlsCut ==
  ASSUME NoneIsApart, NEW m, m.record_len \in Nat, m.hello \in Nat,
         NEW low \in Nat, NEW high \in Nat, low <= high
  PROVE  MoreOf(ParseTls(m, low), ParseTls(m, high), "tls")
<1> DEFINE b1 == low - RecordHeader
           b2 == high - RecordHeader
           t1 == Smaller(m.record_len, b1)
           t2 == Smaller(m.record_len, b2)
           whole1 == m.record_len <= b1
           whole2 == m.record_len <= b2
           x == ParseTls(m, low)
           y == ParseTls(m, high)
<1>1. /\ x = IF low < RecordHeader \/ t1 < m.hello \/ m.kind \notin {"client", "server"} THEN None
            ELSE TlsOf(m, t1, whole1)
      /\ y = IF high < RecordHeader \/ t2 < m.hello \/ m.kind \notin {"client", "server"} THEN None
            ELSE TlsOf(m, t2, whole2)
  BY TlsIs, Zenon
<1>2. /\ t1 \in Int /\ t2 \in Int /\ t1 <= t2
      /\ ~(low < RecordHeader) => ~(high < RecordHeader)
      /\ whole1 => whole2 /\ t1 = m.record_len /\ t2 = m.record_len
  BY DEF Smaller, RecordHeader
<1> HIDE DEF x, y, t1, t2, whole1, whole2
<1> SUFFICES ASSUME x # None
             PROVE  /\ y # None /\ x.proto = "tls" /\ y.proto = "tls"
                    /\ x # y => x.kind = y.kind /\ ~x.complete
  BY Zenon DEF MoreOf, x, y
<1>3. ~(low < RecordHeader \/ t1 < m.hello \/ m.kind \notin {"client", "server"})
  BY <1>1, Zenon
<1>4. ~(high < RecordHeader \/ t2 < m.hello \/ m.kind \notin {"client", "server"})
  <2>1. ~(t2 < m.hello)
    BY <1>2, <1>3
  <2>. QED BY <1>2, <1>3, <2>1, Zenon
<1>5. x = TlsOf(m, t1, whole1) /\ y = TlsOf(m, t2, whole2)
  BY <1>1, <1>3, <1>4, Zenon
<1>6. /\ x # None /\ x.proto = "tls" /\ x.kind = m.kind /\ x.complete = whole1
      /\ y # None /\ y.proto = "tls" /\ y.kind = m.kind
  BY <1>5, TlsFields
<1>7. ASSUME whole1
      PROVE  x = y
  <2>1. t1 = t2 /\ whole2
    BY <1>2, <1>7
  <2>2. whole1 = whole2
    BY <1>7, <2>1 DEF whole1, whole2
  <2>. QED BY <1>5, <2>1, <2>2, Zenon
<1>. QED BY <1>6, <1>7, Zenon

-----------------------------------------------------------------------------
(* What a payload holds.                                                   *)

\* The payload of a message, and the length before it.
PayloadSize(m) == m.size + (IF m.prefixed THEN 2 ELSE 0)

LEMMA DnsCut ==
  ASSUME NoneIsApart, NEW m, LaidOut(m), NEW low \in Nat, NEW high \in Nat, m.size <= high
  PROVE  /\ AppAgrees(ParseDns(m, low), ParseDns(m, high))
         /\ AppIsSent(ParseDns(m, high), m)
<1> DEFINE x == ParseDns(m, low)
           y == ParseDns(m, high)
           n == m.ancount
           answers == Answered(m)
<1>1. m.size \in Nat /\ n \in Nat /\ m.qdcount \in Nat
  BY LaidOutIs
<1>2. high >= m.size
  BY <1>1
<1>3. y # None /\ y.proto = "dns" /\ y.questions = Asked(m) /\ y.answers = SubSeq(answers, 1, n)
  BY <1>2, DnsIsRead
<1>4. answers = [k \in 1 .. n |-> answers[k]]
  BY DEF Answered
<1>5. y.answers = answers /\ Len(y.answers) = n
  <2>1. n \in 0 .. n
    BY <1>1
  <2> HIDE DEF answers, y
  <2>. QED BY <1>1, <1>3, <1>4, <2>1, OneMore
<1>6. AppAgrees(x, y)
  <2> SUFFICES ASSUME x # None
               PROVE  /\ x.proto = y.proto /\ x.proto = "dns" /\ x.questions = y.questions
                      /\ IsPrefix(x.answers, y.answers)
    BY Zenon DEF AppAgrees
  <2>1. PICK k \in 0 .. n : /\ x.proto = "dns" /\ x.questions = Asked(m)
                            /\ x.answers = SubSeq(answers, 1, k)
    BY DnsIsRead
  <2>2. IsPrefix(SubSeq(answers, 1, k), answers)
    <3> HIDE DEF answers
    <3>. QED BY <1>1, <1>4, OneMore
  <2>. QED BY <1>3, <1>5, <2>1, <2>2
<1>7. AppIsSent(y, m)
  <2>1. Asked(m) = [i \in 1 .. m.qdcount |->
                      [name |-> m.spelt[m.starts[i]].labels,
                       qtype |-> m.cells[m.spelt[m.starts[i]].next].qtype]]
    BY DEF Asked
  <2>2. [q \in DOMAIN Asked(m) |-> Asked(m)[q].name]
          = [i \in 1 .. m.qdcount |-> m.spelt[m.starts[i]].labels]
    <3> DEFINE asked == Asked(m)
    <3>1. DOMAIN asked = 1 .. m.qdcount
          /\ \A i \in 1 .. m.qdcount : asked[i].name = m.spelt[m.starts[i]].labels
      <4>1. DOMAIN asked = 1 .. m.qdcount
        BY <2>1
      <4>2. ASSUME NEW i \in 1 .. m.qdcount
            PROVE  asked[i].name = m.spelt[m.starts[i]].labels
        <5> DEFINE name == m.spelt[m.starts[i]].labels
                   qtype == m.cells[m.spelt[m.starts[i]].next].qtype
        <5>1. asked[i] = [name |-> name, qtype |-> qtype]
          BY <2>1
        <5> HIDE DEF name, qtype, asked
        <5>2. asked[i].name = name
          BY <5>1
        <5>. QED BY <5>2 DEF name
      <4>. QED BY <4>1, <4>2
    <3> HIDE DEF asked
    <3>2. [q \in DOMAIN asked |-> asked[q].name]
            = [i \in 1 .. m.qdcount |-> m.spelt[m.starts[i]].labels]
      BY <3>1
    <3>. QED BY <3>2 DEF asked
  <2>3. m.names = [i \in 1 .. m.qdcount |-> m.spelt[m.starts[i]].labels]
    BY DEF LaidOut
  <2>. QED BY <1>3, <1>5, <2>2, <2>3 DEF AppIsSent
<1>. QED BY <1>6, <1>7

\* and then it is read for what it is, or not at all.
LEMMA BareIsRead ==
  ASSUME NEW m, m # None, m.proto = "dns", NEW tcp \in BOOLEAN, ~(tcp /\ m.prefixed),
         NEW avail \in Nat, Clear(m, avail, tcp)
  PROVE  DnsOf(m, avail, tcp) = ParseDns(m, avail)
<1> DEFINE read == ParseDns(m.misread, avail - 2)
           framed == tcp /\ avail > 2 /\ m.declared = avail - 2
<1>1. DnsOf(m, avail, tcp) = IF framed /\ read # None THEN read ELSE ParseDns(m, avail)
  BY Zenon DEF DnsOf
<1>2. ~(framed /\ read # None)
  <2> SUFFICES ASSUME tcp, m.declared = avail - 2, read # None PROVE FALSE
    BY Zenon
  <2>1. ~m.prefixed
    BY Zenon
  <2>2. Misread(m, avail)
    BY <2>1, Zenon DEF Misread
  <2>. QED BY <2>2, Zenon DEF Clear
<1> HIDE DEF read, framed
<1>. QED BY <1>1, <1>2, Zenon

LEMMA PrefixedIsRead ==
  ASSUME NEW m, m # None, m.proto = "dns", m.prefixed,
         m.size \in Nat, m.declared = m.size, NEW avail \in Nat, Clear(m, avail, TRUE)
  PROVE  /\ avail # m.size + 2 => DnsOf(m, avail, TRUE) = None
         /\ avail = m.size + 2 /\ m.size > 0 /\ ParseDns(m, m.size) # None =>
              DnsOf(m, avail, TRUE) = ParseDns(m, m.size)
<1> DEFINE read == ParseDns(m, avail - 2)
           bare == ParseDns(m.misread, avail)
           framed == avail > 2 /\ m.declared = avail - 2
<1>1. DnsOf(m, avail, TRUE) = IF framed /\ read # None THEN read ELSE bare
  BY Zenon DEF DnsOf
<1>2. ASSUME avail # m.size + 2
      PROVE  DnsOf(m, avail, TRUE) = None
  <2>1. m.declared # avail - 2
    BY <1>2
  <2>2. ~Misread(m, avail)
    BY Zenon DEF Clear
  <2>3. bare = None
    BY <2>1, <2>2, Zenon DEF Misread
  <2>. QED BY <1>1, <2>1, <2>3, Zenon
<1>3. ASSUME avail = m.size + 2, m.size > 0, ParseDns(m, m.size) # None
      PROVE  DnsOf(m, avail, TRUE) = ParseDns(m, m.size)
  <2>1. avail > 2 /\ m.declared = avail - 2 /\ avail - 2 = m.size
    BY <1>3
  <2>2. read = ParseDns(m, m.size)
    BY <2>1, Zenon
  <2>. QED BY <1>1, <1>3, <2>1, <2>2, Zenon
<1>. QED BY <1>2, <1>3

LEMMA AppCut ==
  ASSUME NoneIsApart, NEW m, IsMessage(m), NEW ports, NEW tcp \in BOOLEAN,
         NEW low \in Nat, NEW high \in Nat, low <= high, Clear(m, high, tcp),
         m # None /\ m.proto = "dns" => high = PayloadSize(m),
         NEW x, x = app_from_payload(ports, m, low, tcp),
         NEW y, y = app_from_payload(ports, m, high, tcp)
  PROVE  (Clear(m, low, tcp) => AppAgrees(x, y)) /\ AppIsSent(y, m)
<1>1. CASE m = None
  <2>1. x = None /\ y = None
    BY <1>1, Zenon DEF app_from_payload
  <2>. QED BY <2>1, Zenon DEF AppAgrees, AppIsSent
<1>2. ASSUME x = None, y = None
      PROVE  AppAgrees(x, y) /\ AppIsSent(y, m)
  BY <1>2, Zenon DEF AppAgrees, AppIsSent
<1>3. CASE m # None /\ m.proto = "dns" /\ LaidOut(m) /\ (m.prefixed => m.declared = m.size)
  <2> DEFINE port == {ports.src_port, ports.dst_port} \cap DnsPorts = {}
             prefixed == tcp /\ m.prefixed
  <2>1. /\ x = IF low = 0 \/ port THEN None ELSE DnsOf(m, low, tcp)
        /\ y = IF high = 0 \/ port THEN None ELSE DnsOf(m, high, tcp)
    BY <1>3 DEF app_from_payload
  <2> HIDE DEF port
  <2>2. m.size \in Nat /\ m.size <= high /\ high # 0 /\ m.size > 0
    <3>1. m.size \in Nat /\ 12 <= m.size
      BY <1>3, LaidOutIs DEF DnsHeader
    <3>2. high = m.size + 2 \/ high = m.size
      <4>1. high = m.size + (IF m.prefixed THEN 2 ELSE 0)
        BY <1>3, Zenon DEF PayloadSize
      <4>2. CASE m.prefixed
        BY <4>1, <4>2
      <4>3. CASE ~m.prefixed
        BY <3>1, <4>1, <4>3
      <4>. QED BY <4>2, <4>3, Zenon
    <3>. QED BY <3>1, <3>2
  <2>3. CASE port
    <3>1. x = None /\ y = None
      BY <2>1, <2>3, Zenon
    <3>. QED BY <1>2, <3>1
  <2>4. CASE ~port /\ ~prefixed
    <3>1. y = ParseDns(m, high)
      <4>1. DnsOf(m, high, tcp) = ParseDns(m, high)
        BY <1>3, <2>4, BareIsRead
      <4>. QED BY <2>1, <2>2, <2>4, <4>1, Zenon
    <3>2. AppAgrees(ParseDns(m, low), y) /\ AppIsSent(y, m)
      BY <1>3, <2>2, <3>1, DnsCut
    <3>3. x = None => AppAgrees(x, y)
      BY Zenon DEF AppAgrees
    <3>4. Clear(m, low, tcp) => x \in {None, ParseDns(m, low)}
      <4>1. Clear(m, low, tcp) => DnsOf(m, low, tcp) = ParseDns(m, low)
        BY <1>3, <2>4, BareIsRead
      <4>. QED BY <2>1, <4>1, Zenon
    <3>. QED BY <3>2, <3>3, <3>4, Zenon
  <2>5. CASE ~port /\ prefixed
    <3>1. /\ high = m.size + 2 /\ high - 2 = m.size
      BY <1>3, <2>2, <2>5 DEF PayloadSize
    <3>2. ParseDns(m, m.size) # None
      <4>1. m.size <= m.size
        BY <2>2
      <4>. QED BY <1>3, <2>2, <4>1, DnsIsRead
    <3>3. tcp = TRUE /\ m.prefixed /\ m.declared = m.size
      BY <1>3, <2>5, Zenon
    <3>4. y = ParseDns(m, m.size)
      <4>1. Clear(m, high, TRUE)
        BY <3>3, Zenon
      <4>2. DnsOf(m, high, TRUE) = ParseDns(m, m.size)
        BY <1>3, <2>2, <3>1, <3>2, <3>3, <4>1, PrefixedIsRead
      <4>. QED BY <2>1, <2>2, <2>5, <3>3, <4>2, Zenon
    <3>5. ASSUME Clear(m, low, tcp)
          PROVE  x \in {None, y}
      <4>1. CASE low = high
        BY <2>1, <4>1, Zenon
      <4>2. CASE low # high
        <5>1. low # m.size + 2
          BY <3>1, <4>2
        <5>2. Clear(m, low, TRUE)
          BY <3>3, <3>5, Zenon
        <5>3. DnsOf(m, low, TRUE) = None
          BY <1>3, <2>2, <3>3, <5>1, <5>2, PrefixedIsRead
        <5>. QED BY <2>1, <3>3, <5>3, Zenon
      <4>. QED BY <4>1, <4>2
    <3>6. AppIsSent(y, m)
      <4>1. m.size <= m.size
        BY <2>2
      <4>. QED BY <1>3, <2>2, <3>4, <4>1, DnsCut
    <3>. QED BY <3>5, <3>6, Zenon DEF AppAgrees
  <2>. QED BY <2>3, <2>4, <2>5
<1>4. CASE m # None /\ m.proto = "dns" /\ m.size \in Nat /\ ~m.prefixed
           /\ \A n \in 0 .. m.size : ParseDns(m, n) = None
  <2>1. high = m.size
    BY <1>4 DEF PayloadSize
  <2>2. low \in 0 .. m.size /\ high \in 0 .. m.size
    BY <2>1
  <2>3. ParseDns(m, low) = None /\ ParseDns(m, high) = None
    BY <1>4, <2>2
  <2>4. DnsOf(m, high, tcp) = None /\ (Clear(m, low, tcp) => DnsOf(m, low, tcp) = None)
    <3>1. DnsOf(m, high, tcp) = ParseDns(m, high)
      BY <1>4, BareIsRead
    <3>2. Clear(m, low, tcp) => DnsOf(m, low, tcp) = ParseDns(m, low)
      BY <1>4, BareIsRead
    <3>. QED BY <2>3, <3>1, <3>2
  <2>5. y = None /\ (Clear(m, low, tcp) => x = None)
    <3>1. /\ x \in {None, DnsOf(m, low, tcp)} /\ y \in {None, DnsOf(m, high, tcp)}
      BY <1>4 DEF app_from_payload
    <3>. QED BY <2>4, <3>1, Zenon
  <2>. QED BY <1>2, <2>5, Zenon DEF AppAgrees, AppIsSent
<1>5. ASSUME NEW proto \in {"http", "tls"}, x = None \/ MoreOf(x, y, proto),
             y # None => y.proto = proto
      PROVE  AppAgrees(x, y) /\ AppIsSent(y, m)
  <2>1. proto # "dns"
    OBVIOUS
  <2>2. AppIsSent(y, m)
    BY <1>5, <2>1 DEF AppIsSent
  <2>3. AppAgrees(x, y)
    BY <1>5, <2>1 DEF AppAgrees, MoreOf
  <2>. QED BY <2>2, <2>3
<1>6. CASE m # None /\ m.proto = "http" /\ IsHttp(m)
  <2>1. /\ x = IF low = 0 \/ ~tcp THEN None ELSE ParseHttp(m, low)
        /\ y = IF high = 0 \/ ~tcp THEN None ELSE ParseHttp(m, high)
    BY <1>6 DEF app_from_payload
  <2>2. /\ MoreOf(ParseHttp(m, low), ParseHttp(m, high), "http")
        /\ MoreOf(ParseHttp(m, high), ParseHttp(m, high), "http")
    BY <1>6, HttpCut
  <2>3. high = 0 => low = 0
    OBVIOUS
  <2>4. x = None \/ MoreOf(x, y, "http")
    BY <2>1, <2>2, <2>3, Zenon
  <2>5. y # None => y.proto = "http"
    BY <2>1, <2>2, Zenon DEF MoreOf
  <2>. QED BY <1>5, <2>4, <2>5
<1>7. CASE m # None /\ m.proto = "tls" /\ m.record_len \in Nat /\ m.hello \in Nat
  <2>1. /\ x = IF low = 0 \/ ~tcp THEN None ELSE ParseTls(m, low)
        /\ y = IF high = 0 \/ ~tcp THEN None ELSE ParseTls(m, high)
    BY <1>7 DEF app_from_payload
  <2>2. /\ MoreOf(ParseTls(m, low), ParseTls(m, high), "tls")
        /\ MoreOf(ParseTls(m, high), ParseTls(m, high), "tls")
    BY <1>7, TlsCut
  <2>3. high = 0 => low = 0
    OBVIOUS
  <2>4. x = None \/ MoreOf(x, y, "tls")
    BY <2>1, <2>2, <2>3, Zenon
  <2>5. y # None => y.proto = "tls"
    BY <2>1, <2>2, Zenon DEF MoreOf
  <2>. QED BY <1>5, <2>4, <2>5
<1>8. \/ m = None
      \/ /\ m.proto = "dns" /\ m.size \in Nat
         /\ \/ LaidOut(m) /\ (m.prefixed => m.declared = m.size)
            \/ ~m.prefixed /\ \A n \in 0 .. m.size : ParseDns(m, n) = None
      \/ m.proto = "http" /\ IsHttp(m)
      \/ m.proto = "tls" /\ m.record_len \in Nat /\ m.hello \in Nat
  <2>1. {m.size, m.declared} \subseteq Nat => m.size \in Nat
    OBVIOUS
  <2>. QED BY <2>1, Zenon DEF IsMessage, IsHttp
<1>. QED BY <1>1, <1>3, <1>4, <1>6, <1>7, <1>8, Zenon

-----------------------------------------------------------------------------
(* Layers cut short.                                                       *)

\* Two readers stand at the same place, and what the first may read the second may.
Behind(r, s) ==
  /\ r.pos \in Nat /\ r.end \in Nat /\ s.end \in Nat /\ r.end <= s.end
  /\ r = Reader(r.pos, r.end) /\ s = Reader(r.pos, s.end)

LEMMA ReadersBehind ==
  ASSUME NEW pos \in Nat, NEW e \in Nat, NEW f \in Nat, e <= f
  PROVE  Behind(Reader(pos, e), Reader(pos, f))
BY DEF Behind, Reader

LEMMA NeedBehind ==
  ASSUME NEW r, NEW s, Behind(r, s), NEW n \in Nat
  PROVE  /\ need(r, n) => need(s, n) /\ r.pos + n <= r.end
         /\ Behind(skip(r, n), skip(s, n)) /\ Behind(limit(r, n), limit(s, n))
         /\ skip(r, n).pos = r.pos + n /\ skip(r, n).end = r.end
         /\ limit(r, n).pos = r.pos /\ limit(r, n).end = Lesser(r.end, r.pos + n)
<1> DEFINE pos == r.pos
           e == r.end
           f == s.end
<1>1. /\ pos \in Nat /\ e \in Nat /\ f \in Nat /\ e <= f
      /\ r = [pos |-> pos, end |-> e] /\ s = [pos |-> pos, end |-> f]
  BY DEF Behind, Reader
<1> HIDE DEF pos, e, f
<1>2. r.pos = pos /\ r.end = e /\ s.pos = pos /\ s.end = f
  BY <1>1
<1>3. need(r, n) => need(s, n) /\ pos + n <= e
  BY <1>1, <1>2 DEF need, remaining
<1>4. skip(r, n) = Reader(pos + n, e) /\ skip(s, n) = Reader(pos + n, f)
  BY <1>1 DEF skip, Reader
<1>5. limit(r, n) = Reader(pos, Lesser(e, pos + n)) /\ limit(s, n) = Reader(pos, Lesser(f, pos + n))
  BY <1>1 DEF limit, Reader
<1>6. /\ Lesser(e, pos + n) \in Nat /\ Lesser(f, pos + n) \in Nat
      /\ Lesser(e, pos + n) <= Lesser(f, pos + n)
  BY <1>1 DEF Lesser
<1>7. pos + n \in Nat
  BY <1>1
<1>8. Behind(skip(r, n), skip(s, n)) /\ Behind(limit(r, n), limit(s, n))
  BY <1>1, <1>4, <1>5, <1>6, <1>7, ReadersBehind
<1>9. /\ skip(r, n).pos = pos + n /\ skip(r, n).end = e
      /\ limit(r, n).pos = pos /\ limit(r, n).end = Lesser(e, pos + n)
  BY <1>4, <1>5 DEF Reader
<1>. QED BY <1>2, <1>3, <1>8, <1>9

\* A header that is read from less is read from more, and the same.
HeaderAgrees(x, y) ==
  x # None => y # None /\ y.header = x.header /\ Behind(x.payload, y.payload)

\* and there is something behind it, be it nothing.
Room(x) == x # None => x.payload.pos <= x.payload.end

LEMMA Ipv4Cut ==
  ASSUME NoneIsApart, NEW ip, ip.ihl \in Nat, ip.total_len \in Nat, NEW r, NEW s, Behind(r, s)
  PROVE  HeaderAgrees(parse_ipv4(r, ip), parse_ipv4(s, ip))
<1> DEFINE size == Ipv4Size(ip)
           header == [kind |-> ip.kind, protocol |-> ip.protocol,
                      fragmented |-> ip.more_fragments \/ ip.fragment_offset > 0,
                      fragment_offset |-> ip.fragment_offset,
                      more_fragments |-> ip.more_fragments,
                      identification |-> ip.identification]
           payload(t) == IF ip.total_len > size THEN limit(skip(t, size), ip.total_len - size)
                         ELSE skip(t, size)
           x == parse_ipv4(r, ip)
           y == parse_ipv4(s, ip)
<1>1. size \in Nat
  BY DEF Ipv4Size
<1>2. \A t : parse_ipv4(t, ip) = IF ip.ihl < 5 \/ ~need(t, size) THEN None
                                 ELSE [header |-> header, payload |-> payload(t)]
  BY Zenon DEF parse_ipv4
<1>3. Behind(skip(r, size), skip(s, size)) /\ (need(r, size) => need(s, size))
  BY <1>1, NeedBehind
<1>4. Behind(payload(r), payload(s))
  <2>1. CASE ip.total_len > size
    <3>1. ip.total_len - size \in Nat
      BY <1>1, <2>1
    <3>2. Behind(limit(skip(r, size), ip.total_len - size), limit(skip(s, size), ip.total_len - size))
      BY <1>3, <3>1, NeedBehind
    <3>. QED BY <2>1, <3>2
  <2>2. CASE ~(ip.total_len > size)
    BY <1>3, <2>2
  <2>. QED BY <2>1, <2>2
<1> HIDE DEF size, header, payload
<1>5. ASSUME x # None
      PROVE  y # None /\ y.header = x.header /\ Behind(x.payload, y.payload)
  <2>1. ~(ip.ihl < 5 \/ ~need(r, size))
    BY <1>2, <1>5, Zenon
  <2>2. ~(ip.ihl < 5 \/ ~need(s, size))
    BY <1>3, <2>1, Zenon
  <2>3. /\ x = [header |-> header, payload |-> payload(r)]
        /\ y = [header |-> header, payload |-> payload(s)]
    BY <1>2, <2>1, <2>2, Zenon
  <2>. QED BY <1>4, <2>3 DEF NoneIsApart
<1>. QED BY <1>5, Zenon DEF HeaderAgrees

\* The extension headers.
Kinds(ip) == {ip.protocol} \cup {ip.extensions[i].kind : i \in 1 .. Len(ip.extensions)}

\* Two walks at the same header.
WalksAgree(w, v, ip) ==
  w # None =>
    /\ v # None
    /\ w = [reader |-> w.reader, header |-> w.header, stopped |-> w.stopped]
    /\ v = [reader |-> v.reader, header |-> w.header, stopped |-> w.stopped]
    /\ Behind(w.reader, v.reader)
    /\ "protocol" \in DOMAIN w.header /\ w.header.protocol \in Kinds(ip)

LEMMA WalkStepAgrees ==
  ASSUME NoneIsApart, NEW ip, Len(ip.extensions) \in Nat, NEW i \in 1 .. Len(ip.extensions),
         ip.extensions[i].size \in Nat, NEW w, NEW v, WalksAgree(w, v, ip)
  PROVE  WalksAgree(WalkExtension(w, ip, i), WalkExtension(v, ip, i), ip)
<1> DEFINE ext == ip.extensions[i]
           next == WalkExtension(w, ip, i)
           after == WalkExtension(v, ip, i)
           header(h) == IF ext.kind # "fragment" THEN [h EXCEPT !.protocol = NextHeader(ip, i)]
                        ELSE [h EXCEPT !.protocol = NextHeader(ip, i), !.fragmented = TRUE,
                                       !.fragment_offset = ext.offset,
                                       !.more_fragments = ext.more_fragments,
                                       !.identification = ext.identification]
           stops == ext.kind = "fragment" /\ ext.offset > 0
<1> SUFFICES ASSUME next # None
             PROVE  /\ after # None
                    /\ next = [reader |-> next.reader, header |-> next.header,
                               stopped |-> next.stopped]
                    /\ after = [reader |-> after.reader, header |-> next.header,
                                stopped |-> next.stopped]
                    /\ Behind(next.reader, after.reader)
                    /\ "protocol" \in DOMAIN next.header /\ next.header.protocol \in Kinds(ip)
  BY Zenon DEF WalksAgree
<1>1. w # None
  BY Zenon DEF WalkExtension
<1>2. /\ v # None
      /\ w = [reader |-> w.reader, header |-> w.header, stopped |-> w.stopped]
      /\ v = [reader |-> v.reader, header |-> w.header, stopped |-> w.stopped]
      /\ Behind(w.reader, v.reader)
      /\ "protocol" \in DOMAIN w.header /\ w.header.protocol \in Kinds(ip)
  BY <1>1, Zenon DEF WalksAgree
<1>3. v.header = w.header /\ v.stopped = w.stopped
  BY <1>2
<1>4. CASE w.stopped
  <2>1. next = w /\ after = v
    BY <1>3, <1>4, Zenon DEF WalkExtension
  <2>. QED BY <1>2, <2>1
<1>5. CASE ~w.stopped
  <2>1. need(w.reader, ext.size)
    BY <1>1, <1>5, Zenon DEF WalkExtension
  <2>2. need(v.reader, ext.size) /\ Behind(skip(w.reader, ext.size), skip(v.reader, ext.size))
    BY <1>2, <2>1, NeedBehind
  <2>3. next = [w EXCEPT !.reader = skip(@, ext.size), !.header = header(@), !.stopped = stops]
    BY <1>1, <1>5, <2>1 DEF WalkExtension
  <2>4. after = [v EXCEPT !.reader = skip(@, ext.size), !.header = header(@), !.stopped = stops]
    BY <1>2, <1>3, <1>5, <2>2 DEF WalkExtension
  <2> DEFINE h == header(w.header)
             a == skip(w.reader, ext.size)
             b == skip(v.reader, ext.size)
  <2>5. "protocol" \in DOMAIN h /\ h.protocol = NextHeader(ip, i)
    BY <1>2
  <2>6. NextHeader(ip, i) \in Kinds(ip)
    <3>1. CASE i < Len(ip.extensions)
      <4>1. i + 1 \in 1 .. Len(ip.extensions)
        BY <3>1
      <4>. QED BY <3>1, <4>1 DEF NextHeader, Kinds
    <3>2. CASE ~(i < Len(ip.extensions))
      BY <3>2 DEF NextHeader, Kinds
    <3>. QED BY <3>1, <3>2
  <2>7. header(v.header) = h
    BY <1>3, Zenon
  <2> HIDE DEF next, after, header, stops
  <2>8. next = [reader |-> a, header |-> h, stopped |-> stops]
    BY <1>2, <2>3
  <2>9. after = [reader |-> b, header |-> h, stopped |-> stops]
    BY <1>2, <1>3, <2>4, <2>7
  <2> HIDE DEF h, a, b
  <2>10. next.reader = a /\ next.header = h /\ next.stopped = stops
         /\ after.reader = b
    BY <2>8, <2>9
  <2>11. after # None
    BY <2>9 DEF NoneIsApart
  <2>. QED BY <2>2, <2>5, <2>6, <2>8, <2>9, <2>10, <2>11 DEF a, b
<1>. QED BY <1>4, <1>5

\* The walk over the extension headers of an IPv6 packet.
FirstWalk(r, ip) ==
  [reader |-> IF ip.payload_len > 0 THEN limit(skip(r, 40), ip.payload_len) ELSE skip(r, 40),
   header |-> [kind |-> ip.kind, protocol |-> NextHeader(ip, 0),
               fragmented |-> FALSE, fragment_offset |-> 0,
               more_fragments |-> FALSE, identification |-> 0],
   stopped |-> FALSE]

Headers(ip) == Lesser(Len(ip.extensions), MaxExtensions)

IsWalk(walk, r, ip) ==
  /\ walk[0] = FirstWalk(r, ip)
  /\ \A i \in 1 .. Headers(ip) : walk[i] = WalkExtension(walk[i - 1], ip, i)

LEMMA Ipv6Walks ==
  ASSUME NEW ip, Len(ip.extensions) \in Nat, NEW r
  PROVE  \E walk :
           /\ IsWalk(walk, r, ip)
           /\ parse_ipv6(r, ip) =
                IF ~need(r, 40) \/ walk[Headers(ip)] = None THEN None
                ELSE [header |-> walk[Headers(ip)].header, payload |-> walk[Headers(ip)].reader]
<1> DEFINE start == FirstWalk(r, ip)
           turns == Headers(ip)
           p == [does |-> "walk", of |-> ip]
           walks(it) == it = [i \in 0 .. turns |->
                                IF i = 0 THEN start ELSE WalkExtension(it[i - 1], ip, i)]
           walk == CHOOSE it : walks(it)
<1>1. turns \in Nat
  BY DEF Headers, Lesser, MaxExtensions
<1>2. walks(walk)
  <2>1. \E it : Turns(it, p, start, turns)
    <3> HIDE DEF p, start, turns
    <3>. QED BY <1>1, TurnsExist
  <2>2. \A it : Turns(it, p, start, turns) <=> walks(it)
    BY DEF Turns, Turn
  <2> HIDE DEF walks, start, turns, p
  <2>. QED BY <2>1, <2>2
<1>3. parse_ipv6(r, ip) =
        IF ~need(r, 40) \/ walk[turns] = None THEN None
        ELSE [header |-> walk[turns].header, payload |-> walk[turns].reader]
  BY Zenon DEF parse_ipv6, FirstWalk, Headers
<1> HIDE DEF walk, start, turns
<1>4. walk[0] = start /\ \A i \in 1 .. turns : walk[i] = WalkExtension(walk[i - 1], ip, i)
  <2> HIDE DEF p
  <2>. QED BY <1>1, <1>2
<1>. QED BY <1>3, <1>4 DEF IsWalk, start, turns

LEMMA Ipv6Cut ==
  ASSUME NoneIsApart, NEW ip, Len(ip.extensions) \in Nat, ip.payload_len \in Nat,
         \A i \in 1 .. Len(ip.extensions) : ip.extensions[i].size \in Nat,
         NEW r, NEW s, Behind(r, s), NEW x, x = parse_ipv6(r, ip)
  PROVE  /\ HeaderAgrees(x, parse_ipv6(s, ip))
         /\ x # None => x.header.protocol \in Kinds(ip)
<1> DEFINE y == parse_ipv6(s, ip)
           n == Headers(ip)
<1>1. n \in Nat /\ n <= Len(ip.extensions)
  BY DEF Headers, Lesser, MaxExtensions
<1>2. PICK walk : /\ IsWalk(walk, r, ip)
                  /\ x = IF ~need(r, 40) \/ walk[n] = None THEN None
                         ELSE [header |-> walk[n].header, payload |-> walk[n].reader]
  BY Ipv6Walks
<1>3. PICK whole : /\ IsWalk(whole, s, ip)
                   /\ y = IF ~need(s, 40) \/ whole[n] = None THEN None
                          ELSE [header |-> whole[n].header, payload |-> whole[n].reader]
  BY Ipv6Walks
<1>4. Behind(skip(r, 40), skip(s, 40)) /\ (need(r, 40) => need(s, 40))
  BY NeedBehind
<1>5. WalksAgree(FirstWalk(r, ip), FirstWalk(s, ip), ip)
  <2> DEFINE a == FirstWalk(r, ip)
             b == FirstWalk(s, ip)
             header == [kind |-> ip.kind, protocol |-> NextHeader(ip, 0),
                        fragmented |-> FALSE, fragment_offset |-> 0,
                        more_fragments |-> FALSE, identification |-> 0]
             low == IF ip.payload_len > 0 THEN limit(skip(r, 40), ip.payload_len) ELSE skip(r, 40)
             high == IF ip.payload_len > 0 THEN limit(skip(s, 40), ip.payload_len) ELSE skip(s, 40)
  <2>1. Behind(low, high)
    <3>1. Behind(limit(skip(r, 40), ip.payload_len), limit(skip(s, 40), ip.payload_len))
      BY <1>4, NeedBehind
    <3>. QED BY <1>4, <3>1
  <2>2. NextHeader(ip, 0) \in Kinds(ip)
    <3>1. CASE 0 < Len(ip.extensions)
      <4>1. 0 + 1 \in 1 .. Len(ip.extensions)
        BY <3>1
      <4>. QED BY <3>1, <4>1 DEF NextHeader, Kinds
    <3>2. CASE ~(0 < Len(ip.extensions))
      BY <3>2 DEF NextHeader, Kinds
    <3>. QED BY <3>1, <3>2
  <2>3. "protocol" \in DOMAIN header /\ header.protocol = NextHeader(ip, 0)
    OBVIOUS
  <2>4. /\ a = [reader |-> low, header |-> header, stopped |-> FALSE]
        /\ b = [reader |-> high, header |-> header, stopped |-> FALSE]
    BY Zenon DEF FirstWalk
  <2> HIDE DEF a, b, low, high, header
  <2>5. /\ a.reader = low /\ a.header = header /\ a.stopped = FALSE /\ b.reader = high
    BY <2>4
  <2>6. b # None
    BY <2>4 DEF NoneIsApart
  <2>. QED BY <2>1, <2>2, <2>3, <2>4, <2>5, <2>6 DEF WalksAgree, a, b
<1> DEFINE N == {i \in Nat : i <= n => WalksAgree(walk[i], whole[i], ip)}
<1>6. 0 \in N
  BY <1>2, <1>3, <1>5 DEF IsWalk
<1>7. ASSUME NEW i \in Nat, i \in N
      PROVE  i + 1 \in N
  <2> DEFINE next == i + 1
  <2> SUFFICES ASSUME next <= n
               PROVE  WalksAgree(walk[next], whole[next], ip)
    OBVIOUS
  <2>1. next \in 1 .. n /\ next \in 1 .. Len(ip.extensions) /\ next - 1 = i /\ i <= n
    BY <1>1
  <2>2. WalksAgree(walk[i], whole[i], ip)
    BY <1>7, <2>1, Zenon
  <2>3. /\ walk[next] = WalkExtension(walk[i], ip, next)
        /\ whole[next] = WalkExtension(whole[i], ip, next)
    <3> HIDE DEF next
    <3>. QED BY <1>2, <1>3, <2>1 DEF IsWalk
  <2> HIDE DEF next
  <2>4. ip.extensions[next].size \in Nat
    BY <2>1
  <2>5. WalksAgree(WalkExtension(walk[i], ip, next), WalkExtension(whole[i], ip, next), ip)
    BY <2>1, <2>2, <2>4, WalkStepAgrees
  <2>. QED BY <2>3, <2>5
<1>8. WalksAgree(walk[n], whole[n], ip)
  <2>1. Nat \subseteq N
    <3> HIDE DEF N
    <3>. QED BY <1>6, <1>7, Induction
  <2>. QED BY <1>1, <2>1
<1> HIDE DEF n, y
<1>9. ASSUME x # None
      PROVE  /\ y # None /\ y.header = x.header /\ Behind(x.payload, y.payload)
             /\ x.header.protocol \in Kinds(ip)
  <2>1. need(r, 40) /\ walk[n] # None
    BY <1>2, <1>9, Zenon
  <2>2. /\ whole[n] # None /\ Behind(walk[n].reader, whole[n].reader)
        /\ walk[n].header.protocol \in Kinds(ip)
        /\ whole[n] = [reader |-> whole[n].reader, header |-> walk[n].header,
                       stopped |-> walk[n].stopped]
    BY <1>8, <2>1, Zenon DEF WalksAgree
  <2>3. whole[n].header = walk[n].header
    BY <2>2
  <2>4. /\ x = [header |-> walk[n].header, payload |-> walk[n].reader]
        /\ y = [header |-> whole[n].header, payload |-> whole[n].reader]
    BY <1>2, <1>3, <1>4, <2>1, <2>2, Zenon
  <2>. QED BY <2>2, <2>3, <2>4 DEF NoneIsApart
<1>. QED BY <1>9, Zenon DEF HeaderAgrees, y

\* The protocols with a decoder.
Protocols == {"tcp", "udp", "icmp", "icmpv6"}

\* A transport header is the sender's, and what is behind it has a size.
Carries(x, t) == x # None => x.header = t /\ remaining(x.payload) \in Nat

LEMMA HeaderCut ==
  ASSUME NoneIsApart, NEW t, NEW size \in Nat, NEW r, NEW s, Behind(r, s), NEW ok \in BOOLEAN,
         NEW x, x = IF ~ok \/ ~need(r, size) THEN None
                    ELSE [header |-> t, payload |-> skip(r, size)],
         NEW y, y = IF ~ok \/ ~need(s, size) THEN None
                    ELSE [header |-> t, payload |-> skip(s, size)]
  PROVE  HeaderAgrees(x, y) /\ Carries(x, t) /\ Carries(y, t)
<1>1. /\ need(r, size) => need(s, size) /\ r.pos + size <= r.end
      /\ Behind(skip(r, size), skip(s, size))
      /\ skip(r, size).pos = r.pos + size /\ skip(r, size).end = r.end
  BY NeedBehind
<1>2. /\ r.pos \in Nat /\ r.end \in Nat /\ s.end \in Nat /\ s.pos = r.pos
  BY DEF Behind, Reader
<1>3. Behind(s, s)
  BY <1>2 DEF Behind, Reader
<1>4. /\ need(s, size) => s.pos + size <= s.end
      /\ skip(s, size).pos = s.pos + size /\ skip(s, size).end = s.end
  BY <1>3, NeedBehind
<1>5. /\ need(r, size) => remaining(skip(r, size)) \in Nat
      /\ need(s, size) => remaining(skip(s, size)) \in Nat
  BY <1>1, <1>2, <1>4 DEF remaining
<1> DEFINE a == skip(r, size)
           b == skip(s, size)
<1>6. /\ x # None => ok /\ need(r, size) /\ x = [header |-> t, payload |-> a]
      /\ y # None => ok /\ need(s, size) /\ y = [header |-> t, payload |-> b]
      /\ ok /\ need(s, size) => y = [header |-> t, payload |-> b]
  BY Zenon
<1> HIDE DEF a, b
<1>7. /\ x # None => x.header = t /\ x.payload = a
      /\ y # None => y.header = t /\ y.payload = b
      /\ x # None => y # None
  BY <1>1, <1>6 DEF NoneIsApart
<1>. QED BY <1>1, <1>5, <1>6, <1>7, Zenon DEF HeaderAgrees, Carries, a, b

LEMMA UdpCut ==
  ASSUME NoneIsApart, NEW t, t.length \in Nat, NEW r, NEW s, Behind(r, s),
         NEW x, x = parse_udp(r, t), NEW y, y = parse_udp(s, t)
  PROVE  HeaderAgrees(x, y) /\ Carries(x, t) /\ Carries(y, t)
<1> DEFINE payload(q) == IF t.length >= 8 THEN limit(skip(q, 8), t.length - 8) ELSE skip(q, 8)
<1>1. \A q, u : Behind(q, u) /\ need(q, 8) =>
        need(u, 8) /\ Behind(payload(q), payload(u)) /\ remaining(payload(q)) \in Nat
  <2> SUFFICES ASSUME NEW q, NEW u, Behind(q, u), need(q, 8)
               PROVE  need(u, 8) /\ Behind(payload(q), payload(u)) /\ remaining(payload(q)) \in Nat
    OBVIOUS
  <2>1. /\ need(u, 8) /\ q.pos + 8 <= q.end
        /\ Behind(skip(q, 8), skip(u, 8)) /\ skip(q, 8).pos = q.pos + 8 /\ skip(q, 8).end = q.end
    BY NeedBehind
  <2>2. q.pos \in Nat /\ q.end \in Nat
    BY DEF Behind
  <2>3. CASE t.length >= 8
    <3> DEFINE n == t.length - 8
               a == skip(q, 8)
               b == skip(u, 8)
    <3>1. n \in Nat
      BY <2>3
    <3>2. payload(q) = limit(a, n) /\ payload(u) = limit(b, n)
      BY <2>3
    <3> HIDE DEF n, a, b, payload
    <3>3. Behind(a, b)
      BY <2>1 DEF a, b
    <3>4. Behind(limit(a, n), limit(b, n)) /\ limit(a, n).pos = a.pos
          /\ limit(a, n).end = Lesser(a.end, a.pos + n)
      BY <3>1, <3>3, NeedBehind
    <3>5. a.pos \in Nat /\ a.end \in Nat /\ a.pos <= a.end
      BY <2>1, <2>2 DEF a
    <3>6. remaining(limit(a, n)) \in Nat
      BY <3>1, <3>4, <3>5 DEF remaining, Lesser
    <3>. QED BY <2>1, <3>2, <3>4, <3>6
  <2>4. CASE ~(t.length >= 8)
    <3>1. payload(q) = skip(q, 8) /\ payload(u) = skip(u, 8)
      BY <2>4
    <3> HIDE DEF payload
    <3>2. remaining(skip(q, 8)) \in Nat
      BY <2>1, <2>2 DEF remaining
    <3>. QED BY <2>1, <3>1, <3>2
  <2>. QED BY <2>3, <2>4
<1>2. Behind(s, s)
  BY DEF Behind, Reader
<1>3. \A q : parse_udp(q, t) = IF ~need(q, 8) THEN None ELSE [header |-> t, payload |-> payload(q)]
  BY Zenon DEF parse_udp
<1> HIDE DEF payload
<1>4. /\ x # None => need(r, 8) /\ x = [header |-> t, payload |-> payload(r)]
      /\ y # None => need(s, 8) /\ y = [header |-> t, payload |-> payload(s)]
      /\ need(s, 8) => y = [header |-> t, payload |-> payload(s)]
  BY <1>3, Zenon
<1>5. need(r, 8) => need(s, 8)
  BY <1>1, Zenon
<1>6. /\ x # None => x.header = t /\ x.payload = payload(r)
      /\ y # None => y.header = t /\ y.payload = payload(s)
      /\ x # None => y # None
  BY <1>4, <1>5 DEF NoneIsApart
<1>. QED BY <1>1, <1>2, <1>4, <1>6, Zenon DEF HeaderAgrees, Carries

LEMMA TransportHeaderCut ==
  ASSUME NoneIsApart, NEW protocol \in Protocols, NEW t,
         protocol = "tcp" => t.data_offset \in Nat, protocol = "udp" => t.length \in Nat,
         NEW r, NEW s, Behind(r, s),
         NEW x, x = ParseTransport(r, protocol, t), NEW y, y = ParseTransport(s, protocol, t)
  PROVE  HeaderAgrees(x, y) /\ Carries(x, t) /\ Carries(y, t)
<1>1. CASE protocol = "tcp"
  <2> DEFINE ok == ~(t.data_offset < 5)
             size == TcpSize(t)
  <2>1. ok \in BOOLEAN /\ size \in Nat
    BY <1>1 DEF TcpSize
  <2>2. /\ x = IF ~ok \/ ~need(r, size) THEN None ELSE [header |-> t, payload |-> skip(r, size)]
        /\ y = IF ~ok \/ ~need(s, size) THEN None ELSE [header |-> t, payload |-> skip(s, size)]
    BY <1>1 DEF ParseTransport, parse_tcp
  <2> HIDE DEF ok, size
  <2>. QED BY <2>1, <2>2, HeaderCut
<1>2. CASE protocol = "udp"
  <2>1. x = parse_udp(r, t) /\ y = parse_udp(s, t)
    BY <1>2 DEF ParseTransport
  <2>. QED BY <1>2, <2>1, UdpCut
<1>3. CASE protocol \in {"icmp", "icmpv6"}
  <2> DEFINE ok == TRUE
             size == IF t.echo THEN 8 ELSE 4
  <2>1. ok \in BOOLEAN /\ size \in Nat
    OBVIOUS
  <2>2. /\ x = IF ~ok \/ ~need(r, size) THEN None ELSE [header |-> t, payload |-> skip(r, size)]
        /\ y = IF ~ok \/ ~need(s, size) THEN None ELSE [header |-> t, payload |-> skip(s, size)]
    BY <1>3 DEF ParseTransport, parse_icmp
  <2> HIDE DEF ok, size
  <2>. QED BY <2>1, <2>2, HeaderCut
<1>. QED BY <1>1, <1>2, <1>3 DEF Protocols

\* What decoding makes of a transport header.
LEMMA TransportGives ==
  ASSUME NEW pkt, IsPacketRecord(pkt), pkt.transport = None, pkt.app = None,
         NEW protocol \in Protocols, NEW r, NEW f, NEW app \in BOOLEAN,
         NEW x, x = ParseTransport(r, protocol, f.transport),
         NEW p, p = decode_transport(pkt, protocol, r, f, app)
  PROVE  /\ p.network = pkt.network
         /\ x = None => p.transport = None /\ p.app = None /\ p.warnings = pkt.warnings + 1
         /\ x # None =>
              /\ p.transport = x.header /\ p.payload_len = remaining(x.payload)
              /\ IF app /\ protocol \in {"tcp", "udp"}
                 THEN p.app = app_from_payload(x.header, f.message, remaining(x.payload),
                                               protocol = "tcp")
                 ELSE p.app = None
<1> DEFINE header == x.header
           len == remaining(x.payload)
           offset == IF protocol \in {"tcp", "udp"} THEN x.payload.pos ELSE pkt.payload_offset
           carried == [pkt EXCEPT !.transport = header, !.payload_len = len,
                                  !.payload_offset = offset]
           read == app_from_payload(header, f.message, len, protocol = "tcp")
<1>1. CASE x = None
  <2>1. p = [pkt EXCEPT !.warnings = @ + 1]
    BY <1>1 DEF decode_transport, Warn, Protocols
  <2>. QED BY <1>1, <2>1 DEF IsPacketRecord
<1>2. CASE x # None
  <2>1. p = IF app THEN decode_app(carried, f.message, protocol) ELSE carried
    BY <1>2 DEF decode_transport, Protocols
  <2>2. /\ carried.transport = header /\ carried.payload_len = len /\ carried.app = None
        /\ carried.network = pkt.network /\ DOMAIN carried = DOMAIN pkt
    <3> HIDE DEF header, len, offset
    <3>. QED BY DEF IsPacketRecord
  <2> HIDE DEF carried, header, len, offset
  <2>3. decode_app(carried, f.message, protocol)
          = IF protocol \in {"tcp", "udp"} THEN [carried EXCEPT !.app = read] ELSE carried
    BY <2>2 DEF decode_app, Protocols
  <2> HIDE DEF read
  <2>4. CASE app /\ protocol \in {"tcp", "udp"}
    <3>1. p = [carried EXCEPT !.app = read]
      BY <2>1, <2>3, <2>4, Zenon
    <3>2. p.app = read /\ p.transport = header /\ p.payload_len = len /\ p.network = pkt.network
      BY <2>2, <3>1 DEF IsPacketRecord
    <3>. QED BY <1>2, <2>4, <3>2 DEF read, header, len
  <2>5. CASE ~(app /\ protocol \in {"tcp", "udp"})
    <3>1. p = carried
      BY <2>1, <2>3, <2>5, Zenon
    <3>. QED BY <1>2, <2>2, <2>5, <3>1 DEF header, len
  <2>. QED BY <2>4, <2>5
<1>. QED BY <1>1, <1>2

\* A packet as far as the capture goes, and the whole of it.
TransportAgrees(p, w, m, tcp) ==
  /\ p.transport \in {None, w.transport}
  /\ p.transport # w.transport => p.warnings > 0
  /\ Clear(m, w.payload_len, tcp) /\ Clear(m, p.payload_len, tcp) => AppAgrees(p.app, w.app)
  /\ Clear(m, w.payload_len, tcp) => AppIsSent(w.app, m)

\* What holds of a message of DNS in a packet: it is all of the payload.
DnsIsWhole(w, m) ==
  m # None /\ m.proto = "dns" /\ w.transport # None => w.payload_len = PayloadSize(m)

\* Two frames that differ in how much of them was captured.
SameFrame(f, g) ==
  /\ g.link = f.link /\ g.network = f.network /\ g.transport = f.transport
  /\ g.message = f.message /\ g.payload = f.payload

\* A message of DNS is in a segment or datagram.
DnsIsCarried(f) == f.message # None /\ f.message.proto = "dns" => f.transport # None

\* The fields a protocol's header needs are numbers.
Readable(t, protocol) ==
  /\ protocol = "tcp" => t.data_offset \in Nat
  /\ protocol = "udp" => t.length \in Nat

\* Nothing is known yet of a packet's transport.
Layered(pkt) ==
  IsPacketRecord(pkt) /\ pkt.transport = None /\ pkt.app = None /\ pkt.warnings = 0

LEMMA TransportCut ==
  ASSUME NoneIsApart, NEW f, NEW g, SameFrame(f, g), IsMessage(f.message), DnsIsCarried(f),
         NEW before, Layered(before), NEW whole, Layered(whole),
         NEW protocol, Readable(f.transport, protocol),
         NEW r, NEW s, Behind(r, s), NEW app \in BOOLEAN,
         NEW p, p = decode_transport(before, protocol, r, f, app),
         NEW w, w = decode_transport(whole, protocol, s, g, app),
         DnsIsWhole(w, f.message)
  PROVE  /\ p.network = before.network /\ w.network = whole.network
         /\ TransportAgrees(p, w, f.message, protocol = "tcp")
<1> DEFINE m == f.message
<1>1. /\ m = f.message /\ g.message = m /\ f.transport = g.transport /\ IsMessage(m)
      /\ m # None /\ m.proto = "dns" => f.transport # None
      /\ DnsIsWhole(w, m)
  BY DEF SameFrame, DnsIsCarried
<1>2. /\ IsPacketRecord(before) /\ before.transport = None /\ before.app = None
      /\ before.warnings = 0
      /\ IsPacketRecord(whole) /\ whole.transport = None /\ whole.app = None
  BY DEF Layered
<1>3. /\ protocol = "tcp" => f.transport.data_offset \in Nat
      /\ protocol = "udp" => f.transport.length \in Nat
  BY DEF Readable
<1> HIDE DEF m
<1> DEFINE tcp == protocol = "tcp"
<1> SUFFICES p.network = before.network /\ w.network = whole.network
             /\ TransportAgrees(p, w, m, tcp)
  BY <1>1
<1> USE <1>1, <1>2, <1>3
<1>4. CASE protocol \notin Protocols
  <2>1. /\ p = [before EXCEPT !.payload_len = remaining(r)]
        /\ w = [whole EXCEPT !.payload_len = remaining(s)]
    BY <1>4 DEF decode_transport, Protocols
  <2>2. /\ p.network = before.network /\ p.transport = None /\ p.app = None
        /\ w.network = whole.network /\ w.transport = None /\ w.app = None
    BY <2>1 DEF IsPacketRecord
  <2>. QED BY <2>2, Zenon DEF TransportAgrees, AppAgrees, AppIsSent
<1>5. CASE protocol \in Protocols
  <2> DEFINE t == f.transport
             x == ParseTransport(r, protocol, t)
             y == ParseTransport(s, protocol, t)
             low == remaining(x.payload)
             high == remaining(y.payload)
             reads == app /\ protocol \in {"tcp", "udp"}
  <2>1. HeaderAgrees(x, y) /\ Carries(x, t) /\ Carries(y, t)
    <3> HIDE DEF t, x, y
    <3>1. t.data_offset \in Nat \/ ~tcp
      BY DEF t
    <3>2. t.length \in Nat \/ protocol # "udp"
      BY DEF t
    <3>3. x = ParseTransport(r, protocol, t) /\ y = ParseTransport(s, protocol, t)
      BY DEF x, y
    <3>. QED BY <1>5, <3>1, <3>2, <3>3, TransportHeaderCut
  <2>2. /\ p.network = before.network
        /\ x = None => p.transport = None /\ p.app = None /\ p.warnings = 0 + 1
        /\ x # None =>
             /\ p.transport = x.header /\ p.payload_len = low
             /\ IF reads THEN p.app = app_from_payload(x.header, m, low, tcp) ELSE p.app = None
    BY <1>5, TransportGives
  <2>3. /\ w.network = whole.network
        /\ y = None => w.transport = None /\ w.app = None
        /\ y # None =>
             /\ w.transport = y.header /\ w.payload_len = high
             /\ IF reads THEN w.app = app_from_payload(y.header, m, high, tcp) ELSE w.app = None
    BY <1>5, TransportGives
  <2>4. tcp \in BOOLEAN
    OBVIOUS
  <2>5. x # None => y # None /\ y.header = x.header /\ Behind(x.payload, y.payload)
    BY <2>1, Zenon DEF HeaderAgrees
  <2>6. /\ x # None => x.header = t /\ low \in Nat
        /\ y # None => y.header = t /\ high \in Nat
    BY <2>1, Zenon DEF Carries
  <2>7. x # None => low <= high
    <3>1. x # None => /\ x.payload.end \in Nat /\ y.payload.end \in Nat
                      /\ x.payload.end <= y.payload.end /\ x.payload.pos \in Nat
                      /\ x.payload.pos = y.payload.pos
      <4> HIDE DEF x, y
      <4>. QED BY <2>5 DEF Behind, Reader
    <3> HIDE DEF x, y
    <3>. QED BY <3>1 DEF remaining
  <2> HIDE DEF x, y, low, high, tcp, reads
  <2>8. y # None /\ m # None /\ m.proto = "dns" => high = PayloadSize(m)
    BY <2>3, <2>6 DEF DnsIsWhole, t
  <2>9. ASSUME Clear(m, w.payload_len, tcp)
        PROVE  AppIsSent(w.app, m)
    <3>1. CASE y = None \/ ~reads
      <4>1. w.app = None
        BY <2>3, <3>1, Zenon
      <4>. QED BY <4>1, Zenon DEF AppIsSent
    <3>2. CASE y # None /\ reads
      <4>1. w.app = app_from_payload(y.header, m, high, tcp)
        BY <2>3, <3>2, Zenon
      <4>2. high \in Nat /\ high <= high
        BY <2>6, <3>2
      <4>3. Clear(m, high, tcp)
        BY <2>3, <2>9, <3>2, Zenon
      <4>. QED BY <2>4, <2>8, <3>2, <4>1, <4>2, <4>3, AppCut
    <3>. QED BY <3>1, <3>2
  <2>10. CASE x = None
    <3>1. p.transport = None /\ p.app = None /\ p.warnings > 0
      BY <2>2, <2>10
    <3>. QED BY <2>2, <2>3, <2>9, <3>1, Zenon DEF TransportAgrees, AppAgrees
  <2>11. CASE x # None
    <3>1. p.transport = w.transport
      BY <2>2, <2>3, <2>5, <2>11, Zenon
    <3>2. ASSUME Clear(m, w.payload_len, tcp), Clear(m, p.payload_len, tcp)
          PROVE  AppAgrees(p.app, w.app)
      <4>1. CASE ~reads
        <5>1. p.app = None
          BY <2>2, <2>11, <4>1, Zenon
        <5>. QED BY <5>1, Zenon DEF AppAgrees
      <4>2. CASE reads
        <5>1. /\ p.app = app_from_payload(t, m, low, tcp)
              /\ w.app = app_from_payload(t, m, high, tcp)
          BY <2>2, <2>3, <2>5, <2>6, <2>11, <4>2, Zenon
        <5>2. low \in Nat /\ high \in Nat /\ low <= high
              /\ (m # None /\ m.proto = "dns" => high = PayloadSize(m))
          BY <2>5, <2>6, <2>7, <2>8, <2>11, Zenon
        <5>3. Clear(m, high, tcp) /\ Clear(m, low, tcp)
          BY <2>2, <2>3, <2>5, <2>11, <3>2, Zenon
        <5>. QED BY <2>4, <5>1, <5>2, <5>3, AppCut
      <4>. QED BY <4>1, <4>2
    <3>. QED BY <2>2, <2>3, <2>9, <3>1, <3>2, Zenon DEF TransportAgrees
  <2>. QED BY <2>10, <2>11
<1>. QED BY <1>4, <1>5

\* What a cut frame must agree in with the whole.
CutAgrees(p, w, m, tcp) ==
  /\ p.network \in {None, w.network}
  /\ p.network # w.network => p.warnings > 0
  /\ TransportAgrees(p, w, m, tcp)

LEMMA IpCut ==
  ASSUME NoneIsApart, NEW f, NEW g, SameFrame(f, g), IsMessage(f.message), DnsIsCarried(f),
         NEW x, NEW y, x.header = y.header, Behind(x.payload, y.payload),
         Readable(f.transport, x.header.protocol),
         NEW p, p = DecodeIp(Undecoded, x, f), NEW w, w = DecodeIp(Undecoded, y, g),
         DnsIsWhole(w, f.message)
  PROVE  CutAgrees(p, w, f.message, x.header.protocol = "tcp")
<1> DEFINE h == x.header
           r == x.payload
           s == y.payload
           bytes(q) == IF h.fragmented THEN <<q.pos, remaining(q)>> ELSE Undecoded.ip_payload
           layered(q) == [Undecoded EXCEPT !.network = h, !.ip_payload = bytes(q)]
           app == ~h.fragmented
           given(q, frame) == IF h.fragment_offset = 0
                              THEN decode_transport(layered(q), h.protocol, q, frame, app)
                              ELSE [layered(q) EXCEPT !.payload_len = remaining(q)]
<1>1. p = given(r, f) /\ w = given(s, g)
  BY DEF DecodeIp
<1>2. \A q : Layered(layered(q)) /\ layered(q).network = h
  <2> SUFFICES ASSUME NEW q
               PROVE  Layered(layered(q)) /\ layered(q).network = h
    OBVIOUS
  <2> DEFINE b == bytes(q)
  <2>1. layered(q) = [Undecoded EXCEPT !.network = h, !.ip_payload = b]
    OBVIOUS
  <2> HIDE DEF b, h, layered
  <2>. QED BY <2>1 DEF Undecoded, IsPacketRecord, Layered
<1>3. app \in BOOLEAN
  OBVIOUS
<1>4. CASE h.fragment_offset = 0
  <2> DEFINE before == layered(r)
             whole == layered(s)
             protocol == h.protocol
             m == f.message
  <2>1. /\ p = decode_transport(before, protocol, r, f, app)
        /\ w = decode_transport(whole, protocol, s, g, app)
    BY <1>1, <1>4
  <2>2. Layered(before) /\ before.network = h /\ Layered(whole) /\ whole.network = h
    BY <1>2
  <2>3. Readable(f.transport, protocol) /\ Behind(r, s) /\ f.message = m
    OBVIOUS
  <2> HIDE DEF before, whole, protocol, m, app, r, s, h
  <2>5. p.network = h /\ w.network = h /\ TransportAgrees(p, w, m, protocol = "tcp")
    <3>1. p.network = before.network /\ w.network = whole.network
          /\ TransportAgrees(p, w, m, protocol = "tcp")
      BY <1>3, <2>1, <2>2, <2>3, TransportCut
    <3>. QED BY <2>2, <3>1
  <2>6. CutAgrees(p, w, m, protocol = "tcp")
    BY <2>5, Zenon DEF CutAgrees
  <2>. QED BY <2>6 DEF m, protocol, h
<1>5. CASE h.fragment_offset # 0
  <2>1. /\ p = [layered(r) EXCEPT !.payload_len = remaining(r)]
        /\ w = [layered(s) EXCEPT !.payload_len = remaining(s)]
    BY <1>1, <1>5
  <2> HIDE DEF layered, h
  <2>2. /\ p.network = h /\ w.network = h /\ p.transport = None /\ w.transport = None
        /\ p.app = None /\ w.app = None
    BY <1>2, <2>1 DEF IsPacketRecord, Layered
  <2>. QED BY <2>2, Zenon DEF CutAgrees, TransportAgrees, AppAgrees, AppIsSent
<1>. QED BY <1>4, <1>5

LEMMA NothingDecoded ==
  /\ Undecoded.network = None /\ Undecoded.transport = None /\ Undecoded.app = None
  /\ Warn(Undecoded).network = None /\ Warn(Undecoded).transport = None
  /\ Warn(Undecoded).app = None /\ Warn(Undecoded).warnings > 0
BY DEF Undecoded, Warn

LEMMA NetworkCut ==
  ASSUME NoneIsApart, NEW f, NEW g, IsFrame(f), SameFrame(f, g), IsMessage(f.message),
         DnsIsCarried(f),
         f.network.kind = "ipv6" =>
           \A i \in DOMAIN f.network.extensions :
             f.network.extensions[i].kind \notin {"tcp", "udp"},
         NEW r, NEW s, Behind(r, s), NEW ethertype \in {f.network.kind, "vlan", "unknown"},
         NEW p, p = decode_network(Undecoded, ethertype, r, f),
         NEW w, w = decode_network(Undecoded, ethertype, s, g),
         DnsIsWhole(w, f.message)
  PROVE  CutAgrees(p, w, f.message, f.network.protocol = "tcp")
<1> DEFINE ip == f.network
           m == f.message
           t == f.transport
           tcp == ip.protocol = "tcp"
<1>1. g.network = ip
  BY DEF SameFrame
<1>2. ASSUME p = Warn(Undecoded), Clear(m, w.payload_len, tcp) => AppIsSent(w.app, m)
      PROVE  CutAgrees(p, w, m, tcp)
  BY <1>2, NothingDecoded, Zenon DEF CutAgrees, TransportAgrees, AppAgrees
<1>3. ASSUME w.app = None
      PROVE  AppIsSent(w.app, m)
  BY <1>3, Zenon DEF AppIsSent
<1>4. CASE ethertype \notin {"ipv4", "ipv6", "arp"}
  <2>1. p = Undecoded /\ w = Undecoded
    BY <1>4 DEF decode_network
  <2>. QED BY <2>1, NothingDecoded, Zenon DEF CutAgrees, TransportAgrees, AppAgrees, AppIsSent
<1>5. CASE ethertype = "arp"
  <2> DEFINE x == parse_arp(r, ip)
             y == parse_arp(s, ip)
  <2>1. /\ p = IF x = None THEN Warn(Undecoded) ELSE [Undecoded EXCEPT !.network = x]
        /\ w = IF y = None THEN Warn(Undecoded) ELSE [Undecoded EXCEPT !.network = y]
    BY <1>1, <1>5 DEF decode_network
  <2>2. x # None => y = x
    <3>1. need(r, ArpSize) => need(s, ArpSize)
      BY NeedBehind DEF ArpSize
    <3>. QED BY <3>1 DEF parse_arp
  <2> HIDE DEF x, y
  <2>3. w.app = None
    BY <2>1 DEF Undecoded, Warn
  <2>4. CASE x = None
    BY <1>2, <1>3, <2>1, <2>3, <2>4
  <2>5. CASE x # None
    <3>1. p = w
      BY <2>1, <2>2, <2>5
    <3>. QED BY <1>3, <2>3, <3>1, Zenon DEF CutAgrees, TransportAgrees, AppAgrees
  <2>. QED BY <2>4, <2>5
<1>6. ASSUME ethertype \in {"ipv4", "ipv6"}, ethertype = ip.kind,
             NEW x, NEW y,
             p = (IF x = None THEN Warn(Undecoded) ELSE DecodeIp(Undecoded, x, f)),
             w = (IF y = None THEN Warn(Undecoded) ELSE DecodeIp(Undecoded, y, g)),
             HeaderAgrees(x, y), HeaderAgrees(y, y),
             y # None => y.header.protocol = ip.protocol \/ y.header.protocol \notin {"tcp", "udp"}
      PROVE  CutAgrees(p, w, m, tcp)
  <2>1. /\ x # None => y # None /\ y.header = x.header /\ Behind(x.payload, y.payload)
        /\ y # None => Behind(y.payload, y.payload)
    BY <1>6, Zenon DEF HeaderAgrees
  <2>2. y # None => Readable(t, y.header.protocol)
    BY <1>6 DEF IsFrame, Readable
  <2>7. ASSUME NEW q, NEW v, y # None, CutAgrees(q, v, m, y.header.protocol = "tcp")
        PROVE  CutAgrees(q, v, m, tcp)
    <3>1. CASE y.header.protocol = ip.protocol
      BY <2>7, <3>1
    <3>2. CASE y.header.protocol # ip.protocol
      <4>1. y.header.protocol # "tcp"
        BY <1>6, <2>7, <3>2
      <4>. QED BY <2>7, <4>1, Zenon DEF CutAgrees, TransportAgrees, Clear
    <3>. QED BY <3>1, <3>2
  <2>3. y # None => CutAgrees(w, w, m, tcp)
    <3> SUFFICES ASSUME y # None PROVE CutAgrees(w, w, m, tcp)
      OBVIOUS
    <3>1. w = DecodeIp(Undecoded, y, g)
      BY <1>6
    <3>2. SameFrame(g, g) /\ IsMessage(g.message) /\ DnsIsCarried(g) /\ g.message = m
          /\ g.transport = t
      BY DEF SameFrame, DnsIsCarried
    <3>3. CutAgrees(w, w, m, y.header.protocol = "tcp")
      BY <2>1, <2>2, <3>1, <3>2, IpCut
    <3>. QED BY <2>7, <3>3
  <2>4. Clear(m, w.payload_len, tcp) => AppIsSent(w.app, m)
    <3>1. CASE y = None
      <4>1. w = Warn(Undecoded)
        BY <1>6, <3>1, Zenon
      <4>. QED BY <1>3, <4>1, NothingDecoded
    <3>2. CASE y # None
      BY <2>3, <3>2, Zenon DEF CutAgrees, TransportAgrees
    <3>. QED BY <3>1, <3>2
  <2>5. CASE x = None
    BY <1>2, <1>6, <2>4, <2>5, Zenon
  <2>6. CASE x # None
    <3>1. p = DecodeIp(Undecoded, x, f) /\ w = DecodeIp(Undecoded, y, g)
      BY <1>6, <2>1, <2>6, Zenon
    <3>2. Readable(f.transport, x.header.protocol)
      BY <2>1, <2>2, <2>6
    <3>3. CutAgrees(p, w, m, x.header.protocol = "tcp")
      BY <2>1, <2>6, <3>1, <3>2, IpCut
    <3>4. CutAgrees(p, w, m, y.header.protocol = "tcp") /\ y # None
      BY <2>1, <2>6, <3>3
    <3>. QED BY <2>7, <3>4
  <2>. QED BY <2>5, <2>6
<1>7. Behind(s, s)
  BY DEF Behind, Reader
<1>8. CASE ethertype = "ipv4"
  <2>1. ip.kind = "ipv4" /\ ip.ihl \in Nat /\ ip.total_len \in Nat
    BY <1>8 DEF IsFrame
  <2> DEFINE x == parse_ipv4(r, ip)
             y == parse_ipv4(s, ip)
  <2>2. /\ p = IF x = None THEN Warn(Undecoded) ELSE DecodeIp(Undecoded, x, f)
        /\ w = IF y = None THEN Warn(Undecoded) ELSE DecodeIp(Undecoded, y, g)
    BY <1>1, <1>8 DEF decode_network
  <2>3. y # None => y.header.protocol = ip.protocol
    BY DEF parse_ipv4
  <2>4. HeaderAgrees(x, y) /\ HeaderAgrees(y, y)
    <3> HIDE DEF ip
    <3>. QED BY <1>7, <2>1, Ipv4Cut
  <2> HIDE DEF x, y
  <2>. QED BY <1>6, <1>8, <2>1, <2>2, <2>3, <2>4, Zenon
<1>9. CASE ethertype = "ipv6"
  <2>1. /\ ip.kind = "ipv6" /\ Len(ip.extensions) \in Nat /\ ip.payload_len \in Nat
        /\ DOMAIN ip.extensions = 1 .. Len(ip.extensions)
        /\ \A i \in 1 .. Len(ip.extensions) : ip.extensions[i].size \in Nat
    BY <1>9 DEF IsFrame
  <2> DEFINE x == parse_ipv6(r, ip)
             y == parse_ipv6(s, ip)
  <2>2. /\ p = IF x = None THEN Warn(Undecoded) ELSE DecodeIp(Undecoded, x, f)
        /\ w = IF y = None THEN Warn(Undecoded) ELSE DecodeIp(Undecoded, y, g)
    BY <1>1, <1>9 DEF decode_network
  <2>3. \A i \in 1 .. Len(ip.extensions) : ip.extensions[i].kind \notin {"tcp", "udp"}
    BY <2>1
  <2>4. HeaderAgrees(x, y) /\ HeaderAgrees(y, y) /\ (y # None => y.header.protocol \in Kinds(ip))
    <3> HIDE DEF ip
    <3>. QED BY <1>7, <2>1, Ipv6Cut
  <2>5. y # None => y.header.protocol = ip.protocol \/ y.header.protocol \notin {"tcp", "udp"}
    <3> HIDE DEF ip, x, y
    <3>. QED BY <2>3, <2>4 DEF Kinds
  <2> HIDE DEF x, y
  <2>. QED BY <1>6, <1>9, <2>1, <2>2, <2>4, <2>5, Zenon
<1>. QED BY <1>4, <1>5, <1>8, <1>9

\* The frame as it was sent has the frame's parts.
LEMMA SentIsSame ==
  ASSUME NEW f, IsFrame(f)
  PROVE  /\ SameFrame(f, AsSent(f)) /\ IsFrame(AsSent(f))
         /\ AsSent(f).captured = f.sent /\ AsSent(f).sent = f.sent
         /\ f.captured \in Nat /\ f.sent \in Nat
<1> DEFINE g == AsSent(f)
<1>1. DOMAIN f = {"link", "network", "transport", "message", "payload", "captured", "sent"}
      /\ {f.payload, f.captured, f.sent} \subseteq Nat
  BY Zenon DEF IsFrame
<1>2. /\ DOMAIN g = DOMAIN f /\ g.captured = f.sent /\ g.sent = f.sent
      /\ g.link = f.link /\ g.network = f.network /\ g.transport = f.transport
      /\ g.message = f.message /\ g.payload = f.payload
  BY <1>1 DEF AsSent
<1> HIDE DEF g
<1>3. {g.payload, g.captured, g.sent} \subseteq Nat
  BY <1>1, <1>2
<1>4. IsFrame(g)
  BY <1>2, <1>3, Zenon DEF IsFrame
<1>5. SameFrame(f, g)
  BY <1>2, Zenon DEF SameFrame
<1>. QED BY <1>1, <1>2, <1>4, <1>5 DEF g

\* and a message of DNS is all of its payload, when all was sent.
LEMMA SentIsWhole ==
  ASSUME NEW f, IsFrame(f), IsCut(f), NEW type, NEW w, w = decode(AsSent(f), type)
  PROVE  DnsIsWhole(w, f.message)
<1> DEFINE g == AsSent(f)
           m == f.message
<1> SUFFICES ASSUME m # None, m.proto = "dns", w.transport # None
             PROVE  w.payload_len = PayloadSize(m)
  BY DEF DnsIsWhole
<1>1. /\ SameFrame(f, g) /\ IsFrame(g) /\ g.captured = f.sent
  BY SentIsSame
<1>2. /\ Truthful(g) /\ MessageEnd(f) <= f.sent
      /\ f.network.protocol \in {"tcp", "udp"}
      /\ f.payload = PayloadSize(m)
  BY DEF IsCut, PayloadSize
<1>3. type = g.link.type
  <2> SUFFICES ASSUME type # g.link.type PROVE FALSE
    OBVIOUS
  <2>1. ParseLink(g, type) = [ethertype |-> "unknown", pos |-> 0]
    BY DEF ParseLink
  <2>2. ParseLink(g, type) # None
    <3>1. ASSUME ParseLink(g, type) = None PROVE FALSE
      <4>1. w = Warn(Undecoded)
        BY <3>1 DEF decode
      <4>. QED BY <4>1, NothingDecoded
    <3>. QED BY <3>1
  <2>3. w = Undecoded
    <3> DEFINE link == ParseLink(g, type)
               r == Reader(link.pos, g.captured)
    <3>1. w = decode_network(Undecoded, link.ethertype, r, g)
      BY <2>2 DEF decode
    <3>2. link.ethertype = "unknown"
      BY <2>1
    <3> HIDE DEF link, r
    <3>. QED BY <3>1, <3>2 DEF decode_network
  <2>. QED BY <2>3, NothingDecoded
<1>4. HasPayload(w, g)
  BY <1>1, <1>2, <1>3, DecodeHasPayload
<1>5. w.payload_len = Lesser(MessageEnd(g), g.captured) - MessageStart(g)
  <2>1. <<w.payload_offset, w.payload_len>> = Captured(g, MessageStart(g), MessageEnd(g))
    BY <1>1, <1>2, <1>4 DEF HasPayload, SameFrame
  <2>. QED BY <2>1 DEF Captured
<1>6. MessageStart(g) = MessageStart(f) /\ MessageEnd(g) = MessageEnd(f)
  BY <1>1 DEF SameFrame, MessageEnd, MessageStart, NetworkEnd, NetworkStart, Offset
<1>7. /\ MessageStart(g) \in Nat /\ MessageEnd(g) \in Nat
      /\ MessageEnd(g) = MessageStart(g) + f.payload
  BY <1>1, <1>2, LayersInOrder DEF Truthful, MessageEnd, SameFrame
<1>8. f.sent \in Nat /\ f.payload \in Nat
  BY DEF IsFrame
<1> HIDE DEF g, m
<1>9. Lesser(MessageEnd(g), g.captured) = MessageEnd(g)
  BY <1>1, <1>2, <1>6, <1>7, <1>8 DEF Lesser
<1>. QED BY <1>2, <1>5, <1>7, <1>8, <1>9

\* A link header that is read from less is read from more, and the same.
LEMMA LinkCut ==
  ASSUME NoneIsApart, NEW f, NEW g, IsFrame(f), SameFrame(f, g),
         g.captured \in Nat, f.captured <= g.captured, NEW type
  PROVE  /\ ParseLink(f, type) # None => ParseLink(g, type) = ParseLink(f, type)
         /\ ParseLink(g, type) # None =>
              /\ ParseLink(g, type).ethertype \in {f.network.kind, "vlan", "unknown"}
              /\ ParseLink(g, type).pos \in Nat
<1> DEFINE link == ParseLink(f, type)
           whole == ParseLink(g, type)
<1>1. /\ g.link = f.link /\ g.network = f.network /\ f.captured \in Nat
      /\ f.link.type \in {"Ethernet", "Raw", "Null", "Loop", "LinuxSll", "LinuxSll2"}
      /\ f.link.type = "Ethernet" => f.link.tags \in Nat
  BY DEF SameFrame, IsFrame
<1>2. CASE type # f.link.type
  BY <1>1, <1>2 DEF ParseLink
<1>3. CASE type = f.link.type /\ type = "Ethernet"
  <2> DEFINE size == EthernetSize(Lesser(f.link.tags, 3))
             kind == IF f.link.tags > 3 THEN "vlan" ELSE f.network.kind
  <2>1. size \in Nat
    BY <1>1, <1>3 DEF EthernetSize, Lesser
  <2>2. /\ link = IF f.captured < size THEN None ELSE [ethertype |-> kind, pos |-> size]
        /\ whole = IF g.captured < size THEN None ELSE [ethertype |-> kind, pos |-> size]
    BY <1>1, <1>3 DEF ParseLink, parse_ethernet
  <2>3. kind \in {f.network.kind, "vlan", "unknown"}
    OBVIOUS
  <2> HIDE DEF size, link, whole, kind
  <2>. QED BY <1>1, <2>1, <2>2, <2>3 DEF link, whole
<1>4. ASSUME NEW ok, NEW pos \in Nat,
             link = (IF f.captured < pos \/ ok THEN None
                     ELSE [ethertype |-> f.network.kind, pos |-> pos]),
             whole = (IF g.captured < pos \/ ok THEN None
                      ELSE [ethertype |-> f.network.kind, pos |-> pos])
      PROVE  /\ link # None => whole = link
             /\ whole # None => /\ whole.ethertype \in {f.network.kind, "vlan", "unknown"}
                                /\ whole.pos \in Nat
  <2> HIDE DEF link, whole
  <2>1. CASE ok
    BY <1>4, <2>1
  <2>2. CASE ~ok
    BY <1>1, <1>4, <2>2
  <2>. QED BY <2>1, <2>2
<1> DEFINE other == f.network.kind \notin {"ipv4", "ipv6"}
<1>5. CASE type = f.link.type /\ type = "Raw"
  <2>1. /\ link = IF f.captured = 0 \/ other THEN None
                  ELSE [ethertype |-> f.network.kind, pos |-> 0]
        /\ whole = IF g.captured = 0 \/ other THEN None
                   ELSE [ethertype |-> f.network.kind, pos |-> 0]
    BY <1>1, <1>5 DEF ParseLink
  <2>. QED BY <1>1, <2>1
<1>6. CASE type = f.link.type /\ type \in {"Null", "Loop"}
  <2>1. /\ link = IF f.captured < 4 \/ other THEN None
                  ELSE [ethertype |-> f.network.kind, pos |-> 4]
        /\ whole = IF g.captured < 4 \/ other THEN None
                   ELSE [ethertype |-> f.network.kind, pos |-> 4]
    BY <1>1, <1>6 DEF ParseLink
  <2> HIDE DEF link, whole, other
  <2>. QED BY <1>4, <2>1 DEF link, whole
<1>7. CASE type = f.link.type /\ type \in {"LinuxSll", "LinuxSll2"}
  <2> DEFINE size == LinkSize(f.link)
  <2>1. size \in Nat
    BY <1>7 DEF LinkSize
  <2>2. /\ link = IF f.captured < size \/ FALSE THEN None
                  ELSE [ethertype |-> f.network.kind, pos |-> size]
        /\ whole = IF g.captured < size \/ FALSE THEN None
                   ELSE [ethertype |-> f.network.kind, pos |-> size]
    BY <1>1, <1>7 DEF ParseLink
  <2> HIDE DEF link, whole, size
  <2>. QED BY <1>4, <2>1, <2>2 DEF link, whole
<1>. QED BY <1>1, <1>2, <1>3, <1>5, <1>6, <1>7

\* What was sent is decoded as it is, and what a capture kept of it agrees.
LEMMA DecodeCut ==
  ASSUME NoneIsApart, NEW f, NEW g, IsFrame(f), IsCut(f), SameFrame(f, g),
         g.captured \in Nat, f.captured <= g.captured, NEW type,
         NEW p, p = decode(f, type), NEW w, w = decode(g, type), DnsIsWhole(w, f.message)
  PROVE  CutAgrees(p, w, f.message, f.network.protocol = "tcp")
<1> DEFINE m == f.message
           tcp == f.network.protocol = "tcp"
           link == ParseLink(f, type)
           whole == ParseLink(g, type)
           s == Reader(whole.pos, g.captured)
<1>1. /\ link # None => whole = link
      /\ whole # None =>
           whole.ethertype \in {f.network.kind, "vlan", "unknown"} /\ whole.pos \in Nat
  BY LinkCut
<1>2. /\ IsMessage(m) /\ DnsIsCarried(f)
      /\ f.network.kind = "ipv6" =>
           \A i \in DOMAIN f.network.extensions :
             f.network.extensions[i].kind \notin {"tcp", "udp"}
  BY DEF IsCut, DnsIsCarried
<1>3. f.captured \in Nat
  BY DEF IsFrame
<1>4. whole # None => w = decode_network(Undecoded, whole.ethertype, s, g)
  BY Zenon DEF decode
<1>5. ASSUME whole # None, NEW e \in Nat, e <= g.captured, NEW q,
             q = decode_network(Undecoded, whole.ethertype, Reader(whole.pos, e), f)
      PROVE  CutAgrees(q, w, m, tcp)
  <2> DEFINE r == Reader(whole.pos, e)
             ethertype == whole.ethertype
  <2>1. Behind(r, s)
    BY <1>1, <1>5, ReadersBehind
  <2>2. ethertype \in {f.network.kind, "vlan", "unknown"}
    BY <1>1, <1>5
  <2>3. q = decode_network(Undecoded, ethertype, r, f)
        /\ w = decode_network(Undecoded, ethertype, s, g)
    BY <1>4, <1>5
  <2> HIDE DEF r, s, ethertype, m
  <2>4. IsMessage(f.message) /\ DnsIsWhole(w, f.message)
    BY <1>2 DEF m
  <2>. QED BY <1>2, <2>1, <2>2, <2>3, <2>4, NetworkCut DEF m
<1>6. CASE link # None
  <2>1. p = decode_network(Undecoded, whole.ethertype, Reader(whole.pos, f.captured), f)
    BY <1>1, <1>6, Zenon DEF decode
  <2> HIDE DEF link, whole, s
  <2>. QED BY <1>1, <1>3, <1>5, <1>6, <2>1
<1>7. CASE link = None
  <2>1. p = Warn(Undecoded)
    BY <1>7 DEF decode
  <2>2. Clear(m, w.payload_len, tcp) => AppIsSent(w.app, m)
    <3>1. CASE whole = None
      <4>1. w = Warn(Undecoded)
        BY <3>1 DEF decode
      <4>. QED BY <4>1, NothingDecoded DEF AppIsSent
    <3>2. CASE whole # None
      <4> DEFINE q == decode_network(Undecoded, whole.ethertype, s, f)
      <4>1. CutAgrees(q, w, m, tcp)
        <5> HIDE DEF whole
        <5>. QED BY <1>5, <3>2
      <4>. QED BY <4>1, Zenon DEF CutAgrees, TransportAgrees
    <3>. QED BY <3>1, <3>2
  <2>. QED BY <2>1, <2>2, NothingDecoded, Zenon DEF CutAgrees, TransportAgrees, AppAgrees
<1>. QED BY <1>6, <1>7

\* A packet whose own lengths end it is read the same, whatever is behind it.
LEMMA EnclosedIpv4 ==
  ASSUME NEW ip, ip.ihl \in Nat, ip.total_len \in Nat, ip.total_len > Ipv4Size(ip),
         NEW pos \in Nat, NEW e \in Nat, NEW f \in Nat,
         pos + ip.total_len <= e, pos + ip.total_len <= f
  PROVE  parse_ipv4(Reader(pos, e), ip) = parse_ipv4(Reader(pos, f), ip)
<1> DEFINE size == Ipv4Size(ip)
           end == pos + ip.total_len
           header == [kind |-> ip.kind, protocol |-> ip.protocol,
                      fragmented |-> ip.more_fragments \/ ip.fragment_offset > 0,
                      fragment_offset |-> ip.fragment_offset,
                      more_fragments |-> ip.more_fragments,
                      identification |-> ip.identification]
<1>1. size \in Nat /\ pos + size <= end
  BY DEF Ipv4Size
<1>2. \A r : parse_ipv4(r, ip) = IF ip.ihl < 5 \/ ~need(r, size) THEN None
                                 ELSE [header |-> header,
                                       payload |-> limit(skip(r, size), ip.total_len - size)]
  BY DEF parse_ipv4
<1> HIDE DEF header
<1>3. ASSUME NEW g \in Nat, end <= g
      PROVE  /\ need(Reader(pos, g), size)
             /\ limit(skip(Reader(pos, g), size), ip.total_len - size) = Reader(pos + size, end)
  <2> DEFINE left == ip.total_len - size
  <2>1. left \in Nat /\ pos + size + left = end
    BY <1>1
  <2>2. need(Reader(pos, g), size)
    BY <1>1, <1>3 DEF need, remaining, Reader
  <2>3. skip(Reader(pos, g), size) = [pos |-> pos + size, end |-> g]
    BY DEF skip, Reader
  <2> HIDE DEF left, size, end
  <2>4. limit(skip(Reader(pos, g), size), left)
          = [pos |-> pos + size, end |-> Lesser(g, end)]
    BY <2>1, <2>3 DEF limit
  <2>5. Lesser(g, end) = end
    <3>1. end \in Nat
      BY DEF end
    <3>. QED BY <1>3, <3>1 DEF Lesser
  <2>. QED BY <2>2, <2>4, <2>5 DEF Reader, left
<1> HIDE DEF size
<1>4. /\ need(Reader(pos, e), size) /\ need(Reader(pos, f), size)
      /\ limit(skip(Reader(pos, e), size), ip.total_len - size)
           = limit(skip(Reader(pos, f), size), ip.total_len - size)
  BY <1>3
<1>. QED BY <1>2, <1>4

LEMMA EnclosedIpv6 ==
  ASSUME NEW ip, ip.payload_len \in Nat, ip.payload_len > 0,
         NEW pos \in Nat, NEW e \in Nat, NEW f \in Nat,
         pos + 40 + ip.payload_len <= e, pos + 40 + ip.payload_len <= f
  PROVE  parse_ipv6(Reader(pos, e), ip) = parse_ipv6(Reader(pos, f), ip)
<1> DEFINE end == pos + 40 + ip.payload_len
<1>1. ASSUME NEW g \in Nat, end <= g
      PROVE  /\ need(Reader(pos, g), 40)
             /\ limit(skip(Reader(pos, g), 40), ip.payload_len) = Reader(pos + 40, end)
  <2>1. need(Reader(pos, g), 40)
    BY <1>1 DEF need, remaining, Reader
  <2>2. skip(Reader(pos, g), 40) = [pos |-> pos + 40, end |-> g]
    BY DEF skip, Reader
  <2>3. limit(skip(Reader(pos, g), 40), ip.payload_len)
          = [pos |-> pos + 40, end |-> Lesser(g, end)]
    BY <2>2 DEF limit
  <2>4. Lesser(g, end) = end
    BY <1>1 DEF Lesser
  <2>. QED BY <2>1, <2>3, <2>4 DEF Reader
<1>2. /\ need(Reader(pos, e), 40) /\ need(Reader(pos, f), 40)
      /\ limit(skip(Reader(pos, e), 40), ip.payload_len) = Reader(pos + 40, end)
      /\ limit(skip(Reader(pos, f), 40), ip.payload_len) = Reader(pos + 40, end)
  BY <1>1
<1> DEFINE given(start, ok) ==
             LET turns == Lesser(Len(ip.extensions), MaxExtensions)
                 walk[i \in 0 .. turns] == IF i = 0 THEN start ELSE WalkExtension(walk[i - 1], ip, i)
             IN  IF ~ok \/ walk[turns] = None THEN None
                 ELSE [header |-> walk[turns].header, payload |-> walk[turns].reader]
<1>3. \A r : parse_ipv6(r, ip) = given(FirstWalk(r, ip), need(r, 40))
  BY Zenon DEF parse_ipv6, FirstWalk
<1>4. FirstWalk(Reader(pos, e), ip) = FirstWalk(Reader(pos, f), ip)
  BY <1>2 DEF FirstWalk
<1> HIDE DEF given
<1>. QED BY <1>2, <1>3, <1>4

\* Padding behind what was sent is not decoded.
LEMMA PaddingIsNothing ==
  ASSUME NoneIsApart, NEW f, IsFrame(f), Enclosed(f), f.sent <= f.captured, NEW type
  PROVE  decode(f, type) = decode(AsSent(f), type)
<1> DEFINE g == AsSent(f)
           link == ParseLink(f, type)
           ip == f.network
<1>1. /\ SameFrame(f, g) /\ SameFrame(g, f) /\ IsFrame(g) /\ g.captured = f.sent
      /\ f.captured \in Nat /\ f.sent \in Nat
  BY SentIsSame DEF SameFrame
<1>2. /\ g.link = f.link /\ g.network = ip /\ g.transport = f.transport /\ g.message = f.message
  BY <1>1 DEF SameFrame
<1>3. /\ ParseLink(g, type) # None => link = ParseLink(g, type)
      /\ link # None => /\ link.ethertype \in {ip.kind, "vlan", "unknown"}
                        /\ link.pos \in Nat
  <2> HIDE DEF g
  <2>. QED BY <1>1, <1>2, LinkCut
<1>4. LinkSize(f.link) \in Nat /\ LinkSize(f.link) <= f.sent
      /\ (f.link.type = "Ethernet" => f.link.tags \in Nat /\ f.link.tags <= 3)
  <2>1. /\ f.link.type = "Ethernet" => f.link.tags \in Nat /\ f.link.tags <= 3
        /\ f.link.type \in {"Ethernet", "Raw", "Null", "Loop", "LinuxSll", "LinuxSll2"}
    BY DEF IsFrame, Enclosed
  <2>2. LinkSize(f.link) \in Nat
    BY <2>1 DEF LinkSize, EthernetSize
  <2>3. \E n \in Nat : LinkSize(f.link) + n <= f.sent
    <3>1. CASE ip.kind = "ipv4"
      BY <3>1 DEF Enclosed, IsFrame
    <3>2. CASE ip.kind = "ipv6"
      <4>1. /\ ip.payload_len \in Nat /\ LinkSize(f.link) + 40 + ip.payload_len <= f.sent
        BY <3>2 DEF Enclosed, IsFrame
      <4>2. 40 + ip.payload_len \in Nat /\ LinkSize(f.link) + (40 + ip.payload_len) <= f.sent
        BY <2>2, <4>1
      <4>. QED BY <4>2
    <3>3. CASE ip.kind \notin {"ipv4", "ipv6"}
      <4>1. LinkSize(f.link) + ArpSize <= f.sent
        BY <3>3 DEF Enclosed
      <4>. QED BY <4>1 DEF ArpSize
    <3>. QED BY <3>1, <3>2, <3>3
  <2> HIDE DEF ip
  <2>. QED BY <1>1, <2>1, <2>2, <2>3
<1>5. /\ ParseLink(g, type) = link
      /\ link # None /\ link.ethertype # "unknown" =>
           link.ethertype = ip.kind /\ link.pos = LinkSize(f.link)
  <2>1. CASE type # f.link.type
    BY <1>2, <2>1 DEF ParseLink
  <2>2. CASE type = f.link.type /\ type = "Ethernet"
    <3>1. Lesser(f.link.tags, 3) = f.link.tags /\ LinkSize(f.link) = EthernetSize(f.link.tags)
      BY <1>4, <2>2 DEF Lesser, LinkSize
    <3>2. ~(f.captured < EthernetSize(f.link.tags)) /\ ~(g.captured < EthernetSize(f.link.tags))
      <4> HIDE DEF g
      <4>. QED BY <1>1, <1>4, <3>1
    <3> DEFINE read == [ethertype |-> ip.kind, pos |-> LinkSize(f.link)]
    <3>3. link = read /\ ParseLink(g, type) = read
      BY <1>2, <1>4, <2>2, <3>1, <3>2 DEF ParseLink, parse_ethernet
    <3> HIDE DEF link, g
    <3>. QED BY <3>3
  <2>3. CASE type = f.link.type /\ type \in {"Raw", "Null", "Loop"}
    <3>1. ip.kind \in {"ipv4", "ipv6"}
      BY <2>3 DEF Enclosed
    <3>2. LinkSize(f.link) = IF type = "Raw" THEN 0 ELSE 4
      BY <2>3 DEF LinkSize
    <3>3. f.sent > 0 /\ f.captured > 0
      <4>1. CASE ip.kind = "ipv4"
        BY <1>1, <1>4, <4>1 DEF Enclosed, IsFrame, Ipv4Size
      <4>2. CASE ip.kind = "ipv6"
        <5>1. /\ ip.payload_len \in Nat /\ LinkSize(f.link) + 40 + ip.payload_len <= f.sent
          BY <4>2 DEF Enclosed, IsFrame
        <5>. QED BY <1>1, <1>4, <5>1
      <4>. QED BY <3>1, <4>1, <4>2
    <3>4. /\ f.captured # 0 /\ g.captured # 0
          /\ type # "Raw" => ~(f.captured < 4) /\ ~(g.captured < 4)
      <4> HIDE DEF g
      <4>. QED BY <1>1, <1>4, <3>2, <3>3
    <3> DEFINE read == [ethertype |-> ip.kind, pos |-> LinkSize(f.link)]
    <3>5. link = read /\ ParseLink(g, type) = read
      <4>1. CASE type = "Raw"
        BY <1>2, <2>3, <3>1, <3>2, <3>4, <4>1 DEF ParseLink
      <4>2. CASE type \in {"Null", "Loop"}
        BY <1>2, <2>3, <3>1, <3>2, <3>4, <4>2 DEF ParseLink
      <4>. QED BY <2>3, <4>1, <4>2
    <3> HIDE DEF link, g
    <3>. QED BY <3>5
  <2>4. CASE type = f.link.type /\ type \in {"LinuxSll", "LinuxSll2"}
    <3>1. ~(f.captured < LinkSize(f.link)) /\ ~(g.captured < LinkSize(f.link))
      <4> HIDE DEF g
      <4>. QED BY <1>1, <1>4
    <3> DEFINE read == [ethertype |-> ip.kind, pos |-> LinkSize(f.link)]
    <3>2. link = read /\ ParseLink(g, type) = read
      BY <1>2, <2>4, <3>1 DEF ParseLink
    <3> HIDE DEF link, g
    <3>. QED BY <3>2
  <2>5. f.link.type \in {"Ethernet", "Raw", "Null", "Loop", "LinuxSll", "LinuxSll2"}
    BY DEF IsFrame
  <2>. QED BY <2>1, <2>2, <2>3, <2>4, <2>5
<1>6. CASE link = None
  BY <1>5, <1>6 DEF decode
<1>7. CASE link # None
  <2> DEFINE r == Reader(link.pos, f.captured)
             s == Reader(link.pos, g.captured)
             ethertype == link.ethertype
  <2>1. /\ decode(f, type) = decode_network(Undecoded, ethertype, r, f)
        /\ decode(g, type) = decode_network(Undecoded, ethertype, s, g)
    BY <1>5, <1>7, Zenon DEF decode
  <2>2. \A x : DecodeIp(Undecoded, x, f) = DecodeIp(Undecoded, x, g)
    BY <1>2 DEF DecodeIp, decode_transport
  <2> HIDE DEF g, link
  <2>3. CASE ethertype \notin {"ipv4", "ipv6", "arp"}
    <3>1. /\ decode_network(Undecoded, ethertype, r, f) = Undecoded
          /\ decode_network(Undecoded, ethertype, s, g) = Undecoded
      <4> HIDE DEF ethertype, r, s
      <4>. QED BY <2>3 DEF decode_network
    <3>. QED BY <2>1, <3>1, Zenon DEF g
  <2>4. CASE ethertype \in {"ipv4", "ipv6", "arp"}
    <3>1. ethertype = ip.kind /\ link.pos = LinkSize(f.link)
      BY <1>5, <1>7, <2>4
    <3> DEFINE start == link.pos
    <3>2. /\ r = Reader(start, f.captured) /\ s = Reader(start, f.sent) /\ start \in Nat
      BY <1>1, <1>4, <3>1
    <3> HIDE DEF r, s, ethertype, start
    <3>3. CASE ethertype = "ipv4"
      <4>1. /\ ip.ihl \in Nat /\ ip.total_len \in Nat /\ ip.total_len > Ipv4Size(ip)
            /\ start + ip.total_len <= f.sent
        BY <3>1, <3>3 DEF IsFrame, Enclosed, start
      <4>2. start + ip.total_len <= f.captured
        BY <1>1, <3>2, <4>1
      <4>3. parse_ipv4(r, ip) = parse_ipv4(s, ip)
        <5> HIDE DEF ip
        <5>. QED BY <1>1, <3>2, <4>1, <4>2, EnclosedIpv4
      <4> DEFINE x == parse_ipv4(r, ip)
                 y == parse_ipv4(s, ip)
      <4>4. /\ decode_network(Undecoded, ethertype, r, f)
                 = IF x = None THEN Warn(Undecoded) ELSE DecodeIp(Undecoded, x, f)
            /\ decode_network(Undecoded, ethertype, s, g)
                 = IF y = None THEN Warn(Undecoded) ELSE DecodeIp(Undecoded, y, g)
        BY <1>2, <3>3 DEF decode_network
      <4> HIDE DEF x, y
      <4>5. x = y
        BY <4>3 DEF x, y
      <4>. QED BY <2>1, <2>2, <4>4, <4>5, Zenon DEF g
    <3>4. CASE ethertype = "ipv6"
      <4>1. /\ ip.payload_len \in Nat /\ ip.payload_len > 0
            /\ start + 40 + ip.payload_len <= f.sent
        BY <3>1, <3>4 DEF IsFrame, Enclosed, start
      <4>2. start + 40 + ip.payload_len <= f.captured
        BY <1>1, <3>2, <4>1
      <4>3. parse_ipv6(r, ip) = parse_ipv6(s, ip)
        <5> HIDE DEF ip
        <5>. QED BY <1>1, <3>2, <4>1, <4>2, EnclosedIpv6
      <4> DEFINE x == parse_ipv6(r, ip)
                 y == parse_ipv6(s, ip)
      <4>4. /\ decode_network(Undecoded, ethertype, r, f)
                 = IF x = None THEN Warn(Undecoded) ELSE DecodeIp(Undecoded, x, f)
            /\ decode_network(Undecoded, ethertype, s, g)
                 = IF y = None THEN Warn(Undecoded) ELSE DecodeIp(Undecoded, y, g)
        BY <1>2, <3>4 DEF decode_network
      <4> HIDE DEF x, y
      <4>5. x = y
        BY <4>3 DEF x, y
      <4>. QED BY <2>1, <2>2, <4>4, <4>5, Zenon DEF g
    <3>5. CASE ethertype = "arp"
      <4>1. start + ArpSize <= f.sent
        BY <3>1, <3>5 DEF Enclosed, start
      <4>2. need(r, ArpSize) /\ need(s, ArpSize)
        BY <1>1, <3>2, <4>1 DEF need, remaining, Reader, ArpSize
      <4>3. parse_arp(r, ip) = parse_arp(s, ip)
        BY <4>2 DEF parse_arp
      <4> DEFINE x == parse_arp(r, ip)
                 y == parse_arp(s, ip)
                 given(z) == IF z = None THEN Warn(Undecoded) ELSE [Undecoded EXCEPT !.network = z]
      <4>4. /\ decode_network(Undecoded, ethertype, r, f) = given(x)
            /\ decode_network(Undecoded, ethertype, s, g) = given(y)
        BY <1>2, <3>5 DEF decode_network
      <4> HIDE DEF x, y, given
      <4>5. x = y
        BY <4>3 DEF x, y
      <4>. QED BY <2>1, <4>4, <4>5, Zenon DEF g
    <3>. QED BY <2>4, <3>3, <3>4, <3>5
  <2>. QED BY <2>3, <2>4
<1>. QED BY <1>6, <1>7

\* A frame, cut short or padded, against the frame as it was sent.
LEMMA FrameCut ==
  ASSUME NoneIsApart, NEW f, IsFrame(f), IsCut(f), NEW type,
         NEW p, p = decode(f, type), NEW w, w = decode(AsSent(f), type)
  PROVE  CutAgrees(p, w, f.message, f.network.protocol = "tcp")
<1> DEFINE g == AsSent(f)
<1>1. /\ SameFrame(f, g) /\ IsFrame(g) /\ g.captured = f.sent /\ g.sent = f.sent
      /\ f.captured \in Nat /\ f.sent \in Nat
  BY SentIsSame
<1>2. DnsIsWhole(w, f.message)
  BY SentIsWhole
<1>3. CASE f.captured <= f.sent
  <2>1. w = decode(g, type) /\ g.captured \in Nat /\ f.captured <= g.captured
    BY <1>1, <1>3
  <2> HIDE DEF g
  <2>. QED BY <1>1, <1>2, <2>1, DecodeCut
<1>4. CASE ~(f.captured <= f.sent)
  <2>1. p = w
    <3>1. Enclosed(f) /\ f.sent <= f.captured
      BY <1>1, <1>4 DEF IsCut
    <3>. QED BY <3>1, PaddingIsNothing
  <2>2. AsSent(g) = g
    <3>1. DOMAIN f = {"link", "network", "transport", "message", "payload", "captured", "sent"}
      BY DEF IsFrame
    <3>. QED BY <3>1 DEF AsSent
  <2>3. IsCut(g)
    <3>1. MessageEnd(g) = MessageEnd(f)
      BY <1>1 DEF SameFrame, MessageEnd, MessageStart, NetworkEnd, NetworkStart, Offset
    <3>2. g.captured <= g.sent
      BY <1>1
    <3>3. /\ g.network = f.network /\ g.transport = f.transport /\ g.message = f.message
          /\ g.payload = f.payload /\ AsSent(f) = g
      BY <1>1 DEF SameFrame
    <3> HIDE DEF g
    <3>. QED BY <1>1, <2>2, <3>1, <3>2, <3>3 DEF IsCut
  <2>4. SameFrame(g, g) /\ g.message = f.message /\ g.network = f.network
    BY <1>1 DEF SameFrame
  <2>5. w = decode(g, type) /\ DnsIsWhole(w, g.message) /\ g.captured \in Nat
        /\ g.captured <= g.captured
    BY <1>1, <1>2, <2>4
  <2>6. CutAgrees(w, w, g.message, g.network.protocol = "tcp")
    <3> HIDE DEF g
    <3>. QED BY <1>1, <2>3, <2>4, <2>5, DecodeCut
  <2>. QED BY <2>1, <2>4, <2>6
<1>. QED BY <1>3, <1>4

\* What is analysed are cut frames.
CutInv == \A i \in DOMAIN analyzed : IsCut(analyzed[i].frame)

LEMMA CutYield ==
  ASSUME FramesAreCuts, TimesInv, CutInv, PcapRecord \/ EnhancedPacket \/ SimplePacket
  PROVE  CutInv'
<1>1. PICK source, time : Yield(source, FrameOf(Block), time)
  <2>1. CASE PcapRecord
    <3>1. Reading /\ file.format = "pcap"
      BY <2>1 DEF PcapRecord, Whole
    <3>2. Block.type = "record"
      BY <3>1, BlockAfterHeader DEF Block
    <3>. QED BY <2>1, <3>2 DEF PcapRecord, FrameOf
  <2>2. CASE EnhancedPacket
    BY <2>2 DEF EnhancedPacket, Is, FrameOf
  <2>3. CASE SimplePacket
    BY <2>3 DEF SimplePacket, Is, FrameOf
  <2>. QED BY <2>1, <2>2, <2>3
<1>2. Reading /\ Block.type \in {"record", "EPB", "SPB"}
  <2>1. CASE PcapRecord
    <3>1. Reading /\ file.format = "pcap"
      BY <2>1 DEF PcapRecord, Whole
    <3>. QED BY <3>1, BlockAfterHeader DEF Block
  <2>2. CASE EnhancedPacket \/ SimplePacket
    BY <2>2 DEF EnhancedPacket, SimplePacket, Is, Whole
  <2>. QED BY <2>1, <2>2
<1>3. IsCut(FrameOf(Block))
  <2>1. at \in DOMAIN file.blocks
    BY <1>2, BlockAfterHeader DEF Blocks
  <2>2. file \in Files
    BY DEF TimesInv
  <2>. QED BY <1>2, <2>1, <2>2, Zenon DEF FramesAreCuts, Block
<1> DEFINE frame == FrameOf(Block)
           one == [packet |-> decode(frame, link_type), frame |-> frame,
                   index |-> src.index + 1, time |-> time, block |-> at]
<1>4. analyzed' = Append(analyzed, one) /\ one.frame = frame
  BY <1>1 DEF Yield
<1> HIDE DEF one, frame
<1>5. IsSeq(analyzed)
  BY DEF TimesInv
<1>. QED BY <1>3, <1>4, <1>5, AppendOne DEF CutInv, frame

\* For every file of either format whose frames are what a capture may keep of
\* what was sent, with any messages, and every limit: wherever a frame is cut, in
\* a header, in a name or behind a pointer, it is decoded as the whole frame is, as
\* far as it goes, but for a DNS message over TCP that is read from the wrong place.
THEOREM CutFrameAgreesHolds ==
  ASSUME FramesAreCuts, NoneIsApart
  PROVE  Spec => []CutFrameAgrees
<1>1. Init => PayloadInv /\ CutInv
  BY DEF Init, PayloadInv, CutInv
<1>2. TimesInv /\ PayloadInv /\ CutInv /\ [Next]_vars => PayloadInv' /\ CutInv'
  <2> SUFFICES ASSUME TimesInv, PayloadInv, CutInv, [Next]_vars
               PROVE  PayloadInv' /\ CutInv'
    OBVIOUS
  <2>1. CASE PcapRecord \/ EnhancedPacket \/ SimplePacket
    BY <2>1, PayloadYield, CutYield
  <2>2. CASE Open \/ OpenFails
    BY <2>2, PayloadStays DEF Open, OpenFails, CutInv
  <2>3. CASE EndOfFile \/ BadLength \/ CutTrailer \/ ShortInterface \/ BadEnhancedPacket
    BY <2>3, PayloadStays
       DEF EndOfFile, BadLength, CutTrailer, ShortInterface, BadEnhancedPacket, End, Report,
           Is, Whole, Reading, CutInv
  <2>4. CASE SectionHeader \/ Interface \/ OtherBlock
    BY <2>4, PayloadStays
       DEF SectionHeader, Interface, OtherBlock, Pass, Is, Whole, Reading, CutInv
  <2>5. CASE UNCHANGED vars
    BY <2>5, PayloadStays DEF vars, PayloadInv, CutInv
  <2>. QED BY <2>1, <2>2, <2>3, <2>4, <2>5 DEF Next
<1>3. PayloadInv /\ CutInv => CutFrameAgrees
  <2> SUFFICES ASSUME PayloadInv, CutInv, NEW i \in DOMAIN analyzed
               PROVE  LET f == analyzed[i].frame IN
                      AgreesWithWhole(analyzed[i].packet, decode(AsSent(f), link_type),
                                      f.message, f.network.protocol = "tcp")
    BY Zenon DEF CutFrameAgrees
  <2> DEFINE f == analyzed[i].frame
             p == analyzed[i].packet
             w == decode(AsSent(f), link_type)
             tcp == f.network.protocol = "tcp"
  <2>1. CutAgrees(p, w, f.message, tcp)
    BY FrameCut DEF PayloadInv, CutInv
  <2> HIDE DEF f, p, w, tcp
  <2>2. AgreesWithWhole(p, w, f.message, tcp)
    BY <2>1, Zenon DEF CutAgrees, TransportAgrees, AgreesWithWhole
  <2>. QED BY <2>2, Zenon DEF f, p, w, tcp
<1>. QED BY <1>1, <1>2, <1>3, TimesInvariant, PTL DEF Spec
=============================================================================
