-------------------------- MODULE DataHandlerProofs --------------------------
(***************************************************************************)
(* Theorems about DataHandler for any descriptions, any tables of segments *)
(* and damage, and any number of blobs and changes.                        *)
(***************************************************************************)
EXTENDS DataHandler, FiniteSetTheorems, TLAPS

USE NoneAssumption, PixelsAssumption, PresentAssumption, CounterAssumption, BoundsAssumption

Frames == [Images -> [blob: Nat, pixels: Nat]]

Handlers ==
  [counter: Nat, size: Known, depth: Known, lut: {<<>>} \cup (Known \X Known), time: Nat, maps: Frames]

Types ==
  /\ family \in {"TMini", "S"} /\ desc \in Descriptions
  /\ counter \in Nat \ {0} /\ blob \in Nat
  /\ handler \in Handlers

\* The handler knows the description that its change counter stands for, if that
\* could be read; a counter is never used for another description.
KnowsDescription ==
  /\ handler.counter <= counter
  /\ handler.counter = counter /\ ~unread => handler.size = desc /\ handler.depth = desc

\* After a parsed frame the distance image fits the description.
ImageFits == returned = "true" => handler.maps["distance"].pixels <= PixelsOf(handler.size)

IInv == Types /\ KnowsDescription /\ TableIsCurrent /\ FrameIsOneBlob /\ ImageFits /\ CloudInBounds

-----------------------------------------------------------------------------
LEMMA ImagesFinite == IsFiniteSet(Images) /\ Images # {}
<1>1. IsFiniteSet({"distance"})
  BY FS_Singleton
<1>2. IsFiniteSet({"distance"} \cup {"intensity"})
  BY <1>1, FS_AddElement
<1>3. IsFiniteSet(({"distance"} \cup {"intensity"}) \cup {"state"})
  BY <1>2, FS_AddElement
<1>4. Images = ({"distance"} \cup {"intensity"}) \cup {"state"}
  BY DEF Images
<1>5. QED
  BY <1>3, <1>4

LEMMA BytesNat == ASSUME NEW s \in Known, NEW d \in Known PROVE Bytes(s, d) \in Nat
<1>1. PixelsOf(s) \in Nat
  BY DEF PixelsOf, Known
<1>2. PresentOf(d) \in SUBSET Images
  BY DEF PresentOf, Known
<1>3. Cardinality(PresentOf(d)) \in Nat
  BY <1>2, ImagesFinite, FS_Subset, FS_CardinalityType
<1>4. QED
  BY <1>1, <1>3 DEF Bytes

-----------------------------------------------------------------------------
LEMMA InitIInv == Init => IInv
<1> SUFFICES ASSUME Init PROVE IInv
  OBVIOUS
<1>1. handler \in Handlers /\ handler.counter = 0
  BY DEF Init, Handlers, Frames, Empty, Known
<1>2. Types
  BY <1>1 DEF Init, Types
<1>3. KnowsDescription /\ TableIsCurrent /\ FrameIsOneBlob /\ ImageFits /\ CloudInBounds
  BY <1>1 DEF Init, KnowsDescription, TableIsCurrent, FrameIsOneBlob, ImageFits, CloudInBounds
<1>4. QED
  BY <1>2, <1>3 DEF IInv

LEMMA StutterIInv == IInv /\ UNCHANGED vars => IInv'
  BY DEF vars, device, history, cloud, IInv, Types, KnowsDescription, TableIsCurrent,
         FrameIsOneBlob, ImageFits, CloudInBounds

\* The handler after its description was looked at.
LEMMA XmlKnows ==
  ASSUME IInv, NEW place \in Places \cup {"none"}
  PROVE  LET h == ParseXml(handler, place)
         IN  /\ h \in Handlers /\ h.counter = counter
             /\ h.time = handler.time /\ h.maps = handler.maps
             /\ h.lut # <<>> => h.lut = <<h.size, h.depth>>
             /\ ~(handler.counter # counter /\ place \in NotRead) /\
                (handler.counter = counter => ~unread) => h.size = desc /\ h.depth = desc
<1>1. handler \in Handlers /\ {desc, none} \subseteq Known /\ counter \in Nat
  BY DEF IInv, Types, Known
<1>2. CASE handler.counter = counter
  BY <1>1, <1>2 DEF ParseXml, IInv, TableIsCurrent, KnowsDescription
<1>3. CASE handler.counter # counter
  <2> DEFINE size  == SizeAfter(handler, place)
             depth == DepthAfter(handler, place)
  <2>1. size \in Known /\ depth \in Known
    BY <1>1 DEF SizeAfter, DepthAfter, Handlers
  <2>2. place \notin NotRead => size = desc /\ depth = desc
    BY DEF SizeAfter, DepthAfter, NotRead
  <2>3. ParseXml(handler, place) = [handler EXCEPT !.counter = counter, !.lut = <<>>,
                                                   !.size = size, !.depth = depth]
    BY <1>3 DEF ParseXml
  <2> HIDE DEF size, depth
  <2>4. QED
    BY <1>1, <1>3, <2>1, <2>2, <2>3 DEF Handlers
<1>4. QED
  BY <1>2, <1>3

\* The handler after the images, when they come after the description.
LEMMA BinaryStores ==
  ASSUME NEW h \in Handlers, NEW place \in Places \cup {"none"}, blob \in Nat, blob' = blob + 1
  PROVE  LET b == ParseBinary(h, place)
         IN  /\ b \in Handlers /\ b.counter = h.counter /\ b.lut = h.lut
             /\ b.size = h.size /\ b.depth = h.depth
             /\ ImagesRead(h, place) => b.time = blob' /\ b.maps = Store(h)
<1>1. PixelsOf(h.size) \in Nat
  BY DEF Handlers, PixelsOf, Known
<1>2. h.maps \in Frames
  BY DEF Handlers
<1>3. ASSUME NEW i \in Images
      PROVE  [h.maps[i] EXCEPT !.pixels = PixelsOf(h.size)] \in [blob: Nat, pixels: Nat]
  BY <1>1, <1>2 DEF Frames
<1>4. Store(h) \in Frames
  BY <1>1, <1>3 DEF Store, Frames, Empty
<1> DEFINE time == IF HeaderRead(h, place) THEN blob' ELSE h.time
           maps == IF ImagesRead(h, place) THEN Store(h) ELSE h.maps
<1>5. time \in Nat /\ maps \in Frames
  BY <1>4 DEF Handlers
<1>6. ParseBinary(h, place) = [h EXCEPT !.time = time, !.maps = maps]
  BY DEF ParseBinary, Handlers
<1>7. ImagesRead(h, place) => time = blob' /\ maps = Store(h)
  BY DEF ImagesRead
<1> HIDE DEF time, maps
<1>8. QED
  BY <1>5, <1>6, <1>7 DEF Handlers

LEMMA NextBlobIInv == ASSUME IInv, NextBlob PROVE IInv'
<1>1. /\ blob \in Nat /\ blob' = blob + 1 /\ ~overread
      /\ UNCHANGED <<family, desc, counter, careful, overread>>
  BY DEF NextBlob, Receive, Stopped, device, cloud, IInv, Types
<1>2. CloudInBounds'
  BY <1>1 DEF CloudInBounds
<1>3. CASE RejectSegments
  BY <1>1, <1>2, <1>3 DEF RejectSegments, IInv, Types, KnowsDescription, TableIsCurrent,
     FrameIsOneBlob, ImageFits
<1>4. ASSUME NEW b \in Blobs, NEW place \in Places \cup {"none"}, ParseSegments(b, place) PROVE IInv'
  <2> DEFINE read == ParseXml(handler, place)
             ok   == XmlResult(handler, place)
  <2>1. /\ read \in Handlers /\ read.counter = counter
        /\ read.lut # <<>> => read.lut = <<read.size, read.depth>>
        /\ ~(handler.counter # counter /\ place \in NotRead) /\
           (handler.counter = counter => ~unread) => read.size = desc /\ read.depth = desc
    BY XmlKnows
  <2>2. /\ handler' = (IF ok = "true" /\ ImagesTaken(b) /\ HasSegments(b, 2)
                       THEN ParseBinary(read, place) ELSE read)
        /\ returned' = "true" => /\ ok = "true" /\ ImagesTaken(b) /\ HasSegments(b, 2)
                                /\ BinaryResult(read, place) = "true"
        /\ unread' = IF handler.counter = counter THEN unread ELSE place \in NotRead
    BY <1>4 DEF ParseSegments
  <2> HIDE DEF read, ok
  <2>3. /\ handler' \in Handlers /\ handler'.counter = counter /\ handler'.lut = read.lut
        /\ handler'.size = read.size /\ handler'.depth = read.depth
    BY <1>1, <2>1, <2>2, BinaryStores
  <2>4. Types' /\ TableIsCurrent'
    BY <1>1, <2>1, <2>3 DEF IInv, Types, TableIsCurrent
  <2>5. KnowsDescription'
    <3>1. handler'.counter <= counter'
      BY <1>1, <2>3 DEF IInv, Types
    <3>2. ASSUME ~unread' PROVE read.size = desc /\ read.depth = desc
      <4>1. CASE handler.counter = counter
        BY <2>1, <2>2, <3>2, <4>1
      <4>2. CASE handler.counter # counter
        <5>1. ~(place \in NotRead)
          BY <2>2, <3>2, <4>2, Zenon
        <5>2. QED
          BY <2>1, <4>2, <5>1
      <4>3. QED
        BY <4>1, <4>2
    <3>3. QED
      BY <1>1, <2>3, <3>1, <3>2 DEF KnowsDescription
  <2>6. ASSUME returned' = "true"
        PROVE  handler'.time = blob' /\ handler'.maps = Store(read)
    <3>1. /\ ok = "true" /\ ImagesTaken(b) /\ HasSegments(b, 2)
          /\ BinaryResult(read, place) = "true"
      BY <2>2, <2>6
    <3>2. ImagesRead(read, place)
      BY <3>1 DEF BinaryResult
    <3>3. QED
      BY <1>1, <2>1, <2>2, <3>1, <3>2, BinaryStores
  <2>7. FrameIsOneBlob'
    <3> SUFFICES ASSUME returned' = "true", NEW i \in Images
                 PROVE  \/ handler'.maps[i].blob = blob'
                        \/ handler'.maps[i] = Empty
                        \/ family' = "S" /\ i \notin PresentOf(handler'.depth)
      BY <2>6 DEF FrameIsOneBlob
    <3>1. handler'.maps[i] = Store(read)[i] /\ handler'.depth = read.depth /\ family' = family
      BY <1>1, <2>3, <2>6
    <3>2. QED
      BY <3>1 DEF Store
  <2>8. ImageFits'
    <3> SUFFICES ASSUME returned' = "true"
                 PROVE  handler'.maps["distance"].pixels <= PixelsOf(handler'.size)
      BY DEF ImageFits
    <3>1. PixelsOf(read.size) \in Nat /\ "distance" \in Images
      BY <2>1 DEF Handlers, PixelsOf, Known, Images
    <3>2. handler'.maps["distance"].pixels \in {0, PixelsOf(read.size)}
      <4>1. read.maps["distance"] \in [blob: Nat, pixels: Nat]
        BY <2>1, <3>1 DEF Handlers, Frames
      <4>2. Store(read)["distance"].pixels \in {0, PixelsOf(read.size)}
        BY <3>1, <4>1 DEF Store, Empty
      <4>3. QED
        BY <2>6, <4>2
    <3>3. QED
      BY <2>3, <3>1, <3>2
  <2>9. QED
    BY <1>2, <2>4, <2>5, <2>7, <2>8 DEF IInv
<1>5. CASE ReadOutside
  BY <1>1, <1>2, <1>5 DEF ReadOutside, IInv, Types, KnowsDescription, TableIsCurrent,
     FrameIsOneBlob, ImageFits
<1>6. QED
  BY <1>3, <1>4, <1>5 DEF NextBlob, Receive, Damages, XmlDamages, Places

LEMMA GenerateCloudIInv == ASSUME IInv, GenerateCloud PROVE IInv'
<1>1. /\ UNCHANGED <<family, desc, counter, blob, returned, unread>> /\ ~overread
      /\ careful' = (careful /\ returned = "true")
  BY DEF GenerateCloud, Stopped, device, history
<1>2. handler \in Handlers /\ TableIsCurrent
  BY DEF IInv, Types
<1>3. CASE UNCHANGED <<handler, overread>>
  BY <1>1, <1>3 DEF IInv, Types, KnowsDescription, TableIsCurrent, FrameIsOneBlob, ImageFits, CloudInBounds
<1>4. CASE
  /\ handler' = [handler EXCEPT !.lut = IF @ = <<>> THEN <<handler.size, handler.depth>> ELSE @]
  /\ overread' = (handler.maps["distance"].pixels > PixelsOf(handler'.lut[1]))
  <2>1. /\ handler' \in Handlers /\ handler'.lut = <<handler.size, handler.depth>>
        /\ handler'.counter = handler.counter /\ handler'.size = handler.size
        /\ handler'.depth = handler.depth /\ handler'.time = handler.time /\ handler'.maps = handler.maps
    BY <1>2, <1>4 DEF Handlers, TableIsCurrent
  <2>2. Types' /\ KnowsDescription' /\ TableIsCurrent' /\ FrameIsOneBlob' /\ ImageFits'
    BY <1>1, <2>1 DEF IInv, Types, KnowsDescription, TableIsCurrent, FrameIsOneBlob, ImageFits
  <2>3. CloudInBounds'
    <3> SUFFICES ASSUME careful' PROVE ~overread'
      BY DEF CloudInBounds
    <3>1. returned = "true"
      BY <1>1
    <3>2. handler.maps["distance"].pixels <= PixelsOf(handler.size)
      BY <3>1 DEF IInv, ImageFits
    <3>3. handler'.lut[1] = handler.size
      BY <2>1
    <3>4. handler.maps["distance"].pixels \in Nat /\ PixelsOf(handler.size) \in Nat
      BY <1>2 DEF Handlers, Frames, Images, PixelsOf, Known
    <3>5. ~(handler.maps["distance"].pixels > PixelsOf(handler'.lut[1]))
      BY <3>2, <3>3, <3>4
    <3>6. QED
      BY <1>4, <3>5, Zenon
  <2>4. QED
    BY <2>2, <2>3 DEF IInv
<1>5. QED
  BY <1>3, <1>4 DEF GenerateCloud

LEMMA ChangeIInv == ASSUME IInv, Change PROVE IInv'
<1>1. /\ counter' = counter + 1 /\ desc' \in Descriptions /\ counter \in Nat
      /\ UNCHANGED <<family, handler, blob, returned, unread, careful, overread>>
      /\ handler.counter \in Nat
  BY DEF Change, history, cloud, IInv, Types, Handlers
<1>2. Types'
  BY <1>1 DEF IInv, Types
<1>3. KnowsDescription'
  BY <1>1 DEF IInv, KnowsDescription
<1>4. TableIsCurrent' /\ FrameIsOneBlob' /\ ImageFits' /\ CloudInBounds'
  BY <1>1 DEF IInv, TableIsCurrent, FrameIsOneBlob, ImageFits, CloudInBounds
<1>5. QED
  BY <1>2, <1>3, <1>4 DEF IInv

LEMMA NextIInv == IInv /\ [Next]_vars => IInv'
  BY NextBlobIInv, GenerateCloudIInv, ChangeIInv, StutterIInv DEF Next, Done

THEOREM Invariant == Spec => []IInv
  BY InitIInv, NextIInv, PTL DEF Spec

-----------------------------------------------------------------------------
(* The table of segments.                                                  *)

USE FieldAssumption, BlobsAssumption

\* A segment that ends before it begins is longer than any blob.
LEMMA Backwards ==
  ASSUME NEW from \in 0..(FieldValues - 1), NEW to \in 0..(FieldValues - 1)
  PROVE  Distance(from, to) = IF from <= to THEN to - from ELSE to - from + FieldValues
<1>1. \A d \in Int, k \in Nat : 0 <= d /\ d < k => d % k = d
  OBVIOUS
<1>2. \A d \in Int, k \in Nat : -k < d /\ d < 0 => d % k = d + k
  OBVIOUS
<1> DEFINE d == to - from
<1>3. d \in Int /\ FieldValues \in Nat /\ -FieldValues < d /\ d < FieldValues
  OBVIOUS
<1> HIDE DEF d
<1>4. CASE 0 <= d
  <2>1. d % FieldValues = d
    BY <1>1, <1>3, <1>4
  <2>2. QED
    BY <1>3, <1>4, <2>1 DEF Distance, d
<1>5. CASE ~(0 <= d)
  <2>1. d < 0
    BY <1>3, <1>5
  <2>2. d % FieldValues = d + FieldValues
    BY <1>2, <1>3, <2>1
  <2>3. QED
    BY <1>3, <2>1, <2>2 DEF Distance, d
<1>6. QED
  BY <1>4, <1>5

\* What the checks let through lies in the blob, in order, if there is no gap.
LEMMA TakenInBlob ==
  ASSUME NEW b \in Blobs, BeginsAtTable(b), XmlTaken(b)
  PROVE  HasSegments(b, 1) /\ (ImagesTaken(b) => HasSegments(b, 2))
<1> DEFINE o == b.offset
<1>1. /\ o[1] \in 0..(FieldValues - 1) /\ o[2] \in 0..(FieldValues - 1) /\ o[3] \in 0..(FieldValues - 1)
      /\ b.size \in 0..(FieldValues - 1) /\ TableSize(b) \in Nat
      /\ o[1] <= TableSize(b) /\ TableSize(b) <= b.size
  BY DEF XmlTaken, TableRead, BeginsAtTable, TableSize, HeaderSize, EntrySize
<1>2. XmlSize(b) <= b.size - TableSize(b)
  BY DEF XmlTaken
<1>3. XmlSize(b) = IF o[1] <= o[2] THEN o[2] - o[1] ELSE o[2] - o[1] + FieldValues
  BY <1>1, Backwards DEF XmlSize
<1>4. ImagesSize(b) = IF o[2] <= o[3] THEN o[3] - o[2] ELSE o[3] - o[2] + FieldValues
  BY <1>1, Backwards DEF ImagesSize
<1> HIDE DEF o
<1>5. o[1] <= o[2] /\ o[2] <= b.size
  BY <1>1, <1>2, <1>3
<1>6. ImagesTaken(b) => o[2] <= o[3] /\ o[3] <= b.size
  BY <1>1, <1>3, <1>4, <1>5 DEF ImagesTaken
<1>7. QED
  BY <1>5, <1>6 DEF HasSegments, o

-----------------------------------------------------------------------------
\* The lookup table of the point cloud is never one for another description.
THEOREM TableStaysCurrent == Spec => []TableIsCurrent
  BY Invariant, PTL DEF IInv

\* A parsed frame has nothing of an earlier blob in it.
THEOREM FramesAreWhole == Spec => []FrameIsOneBlob
  BY Invariant, PTL DEF IInv

\* A point cloud of a parsed frame is computed within its table.
THEOREM CloudsInBounds == Spec => []CloudInBounds
  BY Invariant, PTL DEF IInv

\* Frames are decoded with their own description.
THEOREM DecodesAsDescribed == Spec => DecodedAsDescribed
<1>1. ASSUME IInv, NextBlob, returned' = "true", ~unread'
      PROVE  handler'.size = desc /\ handler'.depth = desc
  <2>1. IInv'
    BY <1>1, NextBlobIInv
  <2>2. handler'.counter = counter
    <3>1. PICK b \in Blobs, place \in Places \cup {"none"} : ParseSegments(b, place)
      BY <1>1 DEF NextBlob, Receive, RejectSegments, ReadOutside, Damages, XmlDamages, Places
    <3>2. ParseXml(handler, place) \in Handlers /\ ParseXml(handler, place).counter = counter
      BY <1>1, XmlKnows
    <3>3. handler' \in {ParseXml(handler, place), ParseBinary(ParseXml(handler, place), place)}
      BY <3>1 DEF ParseSegments
    <3>4. QED
      BY <3>2, <3>3 DEF ParseBinary, Handlers
  <2>3. UNCHANGED <<desc, counter>>
    BY <1>1 DEF NextBlob, Receive, device
  <2>4. QED
    BY <1>1, <2>1, <2>2, <2>3 DEF IInv, KnowsDescription
<1>2. IInv /\ [Next]_vars =>
        [returned' = "true" /\ ~unread' /\ NextBlob => handler'.size = desc /\ handler'.depth = desc]_vars
  BY <1>1
<1>3. QED
  BY <1>2, Invariant, PTL DEF Spec, DecodedAsDescribed

\* A blob without a gap behind its table is never read outside, and changes the
\* handler only with segments that lie in it, whatever its size and its table say.
THEOREM CutBlobsAreRefused == Spec => CutBlobIsRefused
<1>1. ASSUME IInv, NEW b \in Blobs, BeginsAtTable(b), Receive(b)
      PROVE  /\ returned' # "undefined"
             /\ handler' # handler => HasSegments(b, 1)
             /\ returned' = "true" \/ handler'.time # handler.time => HasSegments(b, 2)
  <2>1. CASE RejectSegments
    BY <2>1 DEF RejectSegments
  <2>2. ASSUME XmlTaken(b), NEW place \in Places \cup {"none"}, ParseSegments(b, place)
        PROVE  /\ returned' # "undefined"
               /\ returned' = "true" \/ handler'.time # handler.time => ImagesTaken(b)
    <3> DEFINE read == ParseXml(handler, place)
               ok   == XmlResult(handler, place)
    <3>1. read.time = handler.time
      BY <1>1, XmlKnows
    <3>2. ok \in {"true", "false", "exception"} /\ BinaryResult(read, place) \in {"true", "false"}
      BY DEF XmlResult, BinaryResult
    <3>3. ImagesTaken(b) => HasSegments(b, 2)
      BY <1>1, <2>2, TakenInBlob
    <3>4. /\ handler' = IF ok = "true" /\ ImagesTaken(b) /\ HasSegments(b, 2)
                        THEN ParseBinary(read, place) ELSE read
          /\ returned' = IF ok # "true" THEN ok
                         ELSE IF ~ImagesTaken(b) THEN "false"
                         ELSE IF HasSegments(b, 2) THEN BinaryResult(read, place) ELSE "undefined"
      BY <2>2 DEF ParseSegments
    <3> HIDE DEF read, ok
    <3>5. QED
      BY <3>1, <3>2, <3>3, <3>4
  <2>3. CASE XmlTaken(b) /\ \E place \in Damages(b) : ParseSegments(b, place)
    <3>1. PICK place \in Places \cup {"none"} : ParseSegments(b, place)
      BY <2>3 DEF Damages, XmlDamages, Places
    <3>2. QED
      BY <1>1, <2>2, <2>3, <3>1, TakenInBlob
  <2>4. XmlTaken(b) => HasSegments(b, 1)
    BY <1>1, TakenInBlob
  <2>5. QED
    BY <1>1, <2>1, <2>3, <2>4 DEF Receive
<1>2. IInv /\ [Next]_vars =>
        [\A b \in Blobs :
           /\ BeginsAtTable(b)
           /\ \/ returned' = "undefined"
              \/ handler' # handler /\ ~HasSegments(b, 1)
              \/ (returned' = "true" \/ handler'.time # handler.time) /\ ~HasSegments(b, 2)
           => ~Receive(b)]_vars
  BY <1>1
<1>3. QED
  BY <1>2, Invariant, PTL DEF Spec, CutBlobIsRefused

\* A blob with nothing wrong is accepted, whatever was wrong with those before,
\* unless its description could not be read when it came.
THEOREM GoodBlobsAccepted == Spec => AcceptsGoodBlob
<1>1. ASSUME IInv, NextBlob, damage' = "none", ~unread', PixelsOf(desc) > 0
      PROVE  returned' = "true"
  <2> DEFINE read == ParseXml(handler, "none")
  <2>1. PICK b \in Blobs : ParseSegments(b, "none") /\ "none" \in Damages(b)
    BY <1>1 DEF NextBlob, Receive, RejectSegments, ReadOutside, ParseSegments
  <2>2. ImagesTaken(b) /\ HasSegments(b, 2)
    BY <2>1 DEF Damages, XmlDamages
  <2>3. XmlResult(handler, "none") = "true"
    BY DEF XmlResult, NotRead
  <2>4. returned' = BinaryResult(read, "none")
    BY <2>1, <2>2, <2>3 DEF ParseSegments
  <2>5. handler.counter = counter => ~unread
    BY <1>1, <2>1 DEF ParseSegments
  <2>6. read.size = desc /\ read.depth = desc
    <3>1. "none" \notin NotRead
      BY DEF NotRead
    <3>2. QED
      BY <1>1, <2>5, <3>1, XmlKnows
  <2> HIDE DEF read
  <2>7. Bytes(read.size, read.depth) = Bytes(desc, desc) /\ Bytes(desc, desc) \in Nat
    BY <1>1, <2>6, BytesNat DEF IInv, Types, Known
  <2>8. ImagesRead(read, "none")
    BY <1>1, <2>6, <2>7 DEF ImagesRead, HeaderRead
  <2>9. QED
    BY <2>4, <2>7, <2>8 DEF BinaryResult
<1>2. IInv /\ [Next]_vars =>
        [damage' = "none" /\ ~unread' /\ PixelsOf(desc) > 0 /\ NextBlob => returned' = "true"]_vars
  BY <1>1
<1>3. QED
  BY <1>2, Invariant, PTL DEF Spec, AcceptsGoodBlob

-----------------------------------------------------------------------------
\* What TypeOK says beyond Types: nothing is from a blob that is still to come,
\* and a table is computed for a description.
Ranges ==
  /\ blob <= MaxBlobs /\ handler.time <= blob
  /\ \A i \in Images : handler.maps[i].blob <= blob
  /\ handler.lut # <<>> => PixelsOf(handler.lut[1]) > 0
  /\ returned \in {"none", "true", "false", "exception", "undefined"}
  /\ damage \in Places \cup {"none"}
  /\ unread \in BOOLEAN /\ careful \in BOOLEAN /\ overread \in BOOLEAN

LEMMA NextRanges == IInv /\ Ranges /\ [Next]_vars => Ranges'
<1> SUFFICES ASSUME IInv, Ranges, [Next]_vars PROVE Ranges'
  OBVIOUS
<1>1. ASSUME NextBlob PROVE Ranges'
  <2>1. /\ blob' = blob + 1 /\ blob' <= MaxBlobs /\ blob \in Nat /\ handler \in Handlers
        /\ UNCHANGED <<careful, overread>>
    BY <1>1 DEF NextBlob, Receive, cloud, IInv, Types
  <2>2. CASE RejectSegments
    BY <2>1, <2>2 DEF RejectSegments, Ranges, Places, Handlers, Frames
  <2>3. ASSUME NEW b \in Blobs, NEW place \in Places \cup {"none"}, ParseSegments(b, place)
        PROVE  Ranges'
    <3> DEFINE read == ParseXml(handler, place)
    <3>1. /\ read \in Handlers /\ read.time = handler.time /\ read.maps = handler.maps
      BY XmlKnows
    <3>2. read.lut \in {<<>>, handler.lut}
      BY <2>1 DEF ParseXml, Handlers
    <3>3. handler' \in {read, ParseBinary(read, place)}
      BY <2>3 DEF ParseSegments
    <3>4. returned' \in {"true", "false", "exception", "undefined"} /\ damage' = place /\ unread' \in BOOLEAN
      <4>1. /\ damage' = place
            /\ returned' \in {XmlResult(handler, place), BinaryResult(read, place), "false", "undefined"}
            /\ unread' = IF handler.counter = counter THEN unread ELSE place \in NotRead
        BY <2>3 DEF ParseSegments
      <4>2. XmlResult(handler, place) \in {"true", "false", "exception"}
        BY DEF XmlResult
      <4>3. BinaryResult(read, place) \in {"true", "false"}
        BY DEF BinaryResult
      <4>4. unread' \in BOOLEAN
        <5>1. CASE handler.counter = counter
          BY <4>1, <5>1 DEF Ranges
        <5>2. CASE handler.counter # counter
          <6>1. unread' = (place \in NotRead)
            BY <4>1, <5>2, Zenon
          <6>2. (place \in NotRead) \in BOOLEAN
            OBVIOUS
          <6>3. QED
            BY <6>1, <6>2, Zenon
        <5>3. QED
          BY <5>1, <5>2
      <4>5. QED
        BY <4>1, <4>2, <4>3, <4>4
    <3> HIDE DEF read
    <3>5. ASSUME NEW i \in Images
          PROVE  Store(read)[i].blob <= blob'
      BY <2>1, <3>1 DEF Store, Empty, Ranges, Handlers, Frames
    <3>6. /\ ParseBinary(read, place).time \in {read.time, blob'}
          /\ ParseBinary(read, place).maps \in {read.maps, Store(read)}
          /\ ParseBinary(read, place).lut = read.lut
      BY <3>1 DEF ParseBinary, Handlers
    <3>7. /\ handler'.time \in {handler.time, blob'} /\ handler'.lut \in {<<>>, handler.lut}
          /\ handler'.maps \in {handler.maps, Store(read)}
      BY <3>1, <3>2, <3>3, <3>6
    <3>8. handler'.time <= blob' /\ \A i \in Images : handler'.maps[i].blob <= blob'
      BY <2>1, <3>5, <3>7 DEF Ranges, Handlers, Frames
    <3>9. QED
      BY <2>1, <3>4, <3>7, <3>8 DEF Ranges
  <2>4. CASE ReadOutside
    BY <2>1, <2>4 DEF ReadOutside, Ranges, Places, Handlers, Frames
  <2>5. QED
    BY <1>1, <2>2, <2>3, <2>4 DEF NextBlob, Receive, Damages, XmlDamages, Places
<1>2. ASSUME GenerateCloud PROVE Ranges'
  <2>1. handler \in Handlers /\ TableIsCurrent /\ UNCHANGED <<blob, returned, damage, unread>>
    BY <1>2 DEF GenerateCloud, history, IInv, Types
  <2>2. /\ handler'.time = handler.time /\ handler'.maps = handler.maps
        /\ handler'.lut # <<>> => PixelsOf(handler'.lut[1]) > 0
    BY <1>2, <2>1 DEF GenerateCloud, Handlers, Ranges, TableIsCurrent
  <2>3. careful' \in BOOLEAN /\ overread' \in BOOLEAN
    <3>1. careful' = (careful /\ returned = "true")
      BY <1>2 DEF GenerateCloud
    <3>2. careful' \in BOOLEAN
      BY <3>1, Zenon
    <3>3. CASE UNCHANGED overread
      BY <3>2, <3>3 DEF Ranges
    <3>4. CASE overread' = (handler.maps["distance"].pixels > PixelsOf(handler'.lut[1]))
      <4>1. (handler.maps["distance"].pixels > PixelsOf(handler'.lut[1])) \in BOOLEAN
        OBVIOUS
      <4>2. QED
        BY <3>2, <3>4, <4>1, Zenon
    <3>5. QED
      BY <1>2, <3>3, <3>4 DEF GenerateCloud
  <2>4. QED
    BY <2>1, <2>2, <2>3 DEF Ranges
<1>3. ASSUME Change \/ UNCHANGED vars PROVE Ranges'
  BY <1>3 DEF Change, vars, history, cloud, Ranges
<1>4. QED
  BY <1>1, <1>2, <1>3 DEF Next, Done

\* Every variable keeps its type, for any descriptions and blobs.
THEOREM TypeCorrect == Spec => []TypeOK
<1>1. Init => Ranges
  <2> SUFFICES ASSUME Init PROVE Ranges
    OBVIOUS
  <2>1. /\ handler.time = 0 /\ handler.lut = <<>> /\ blob = 0 /\ blob <= MaxBlobs
        /\ \A i \in Images : handler.maps[i].blob <= blob
    BY DEF Init, Empty
  <2>2. /\ returned = "none" /\ damage = "none"
        /\ unread \in BOOLEAN /\ careful \in BOOLEAN /\ overread \in BOOLEAN
    BY DEF Init
  <2>3. QED
    BY <2>1, <2>2 DEF Ranges
<1>2. Spec => []Ranges
  BY <1>1, NextRanges, Invariant, PTL DEF Spec
<1>3. IInv /\ Ranges => TypeOK
  <2> SUFFICES ASSUME IInv, Ranges PROVE TypeOK
    OBVIOUS
  <2>1. handler \in Handlers /\ blob \in Nat /\ desc \in Descriptions /\ family \in {"TMini", "S"}
    BY DEF IInv, Types
  <2>2. handler.lut \in {<<>>} \cup (Descriptions \X Known)
    BY <2>1 DEF Ranges, Handlers, PixelsOf, Known
  <2>3. handler.maps \in [Images -> [blob: 0..blob, pixels: Nat]]
    <3>1. \A i \in Images : handler.maps[i] \in [blob: 0..blob, pixels: Nat]
      BY <2>1 DEF Ranges, Handlers, Frames
    <3>2. QED
      BY <2>1, <3>1 DEF Handlers, Frames
  <2>4. QED
    BY <2>1, <2>2, <2>3 DEF Ranges, IInv, Types, TypeOK, Handlers
<1>4. QED
  BY <1>2, <1>3, Invariant, PTL
=============================================================================
