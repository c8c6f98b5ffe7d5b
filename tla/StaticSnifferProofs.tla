------------------------- MODULE StaticSnifferProofs -------------------------
(***************************************************************************)
(* Proofs about StaticSniffer, for every tag, number of receptions, size of *)
(* the channel and set of sequence numbers: its types, that the server is   *)
(* told the truth, and that the sniffer implements OrderedDelivery.         *)
(***************************************************************************)
EXTENDS StaticSniffer, AdvParseProofs, SequenceTheorems

(* What is on the air says the channel that it is sent on.                   *)
AdvDataOf(s, c) ==
    <<Other, LocalName(TAG_NAME), Manufacturer(OurCompany, ToBytes(s, c))>>

AirInv ==
    \/ onAir = Silence
    \/ \E s \in SequenceNumber, c \in ChannelNumber :
            onAir = [data |-> AdvDataOf(s, c), map |-> {c}]

(* A report says what the advertisement did.                                 *)
TrueReport(report, origin) ==
    /\ report.payload.channel_number = origin.radio
    /\ report.payload.sequence = origin.sequence

QueueInv == \A i \in 1 .. Len(origins) : TrueReport(queue[i], origins[i])

BodyInv == http # "idle" => TrueReport(body.report, body.origin)

(***************************************************************************)
(* Receptions wait in their order, and after everything that was posted;    *)
(* what is being posted comes after all that arrived until it arrives       *)
(* itself.                                                                  *)
(***************************************************************************)
WaitingInv ==
    \A i \in 1 .. Len(origins) :
        /\ origins[i].item <= receptions
        /\ \A j \in 1 .. i - 1 : origins[j].item < origins[i].item
        /\ \A k \in 1 .. Len(arrived) : arrived[k] < origins[i].item
        /\ http # "idle" => item < origins[i].item

PostedInv ==
    /\ \A k \in 1 .. Len(arrived) : arrived[k] <= receptions
    /\ http # "idle" => item <= receptions
    /\ http \in {"connecting", "sending"} => \A k \in 1 .. Len(arrived) : arrived[k] < item
    /\ http = "responding" => \E k \in 1 .. Len(arrived) : arrived[k] = item

SniffInv ==
    /\ TypeOK
    /\ AirInv
    /\ QueueInv
    /\ BodyInv
    /\ WaitingInv
    /\ PostedInv

-----------------------------------------------------------------------------
(* What a tag sends has the shape of advertising data.                       *)
LEMMA AdvDataType ==
    ASSUME NEW s \in SequenceNumber, NEW c \in ChannelNumber
    PROVE  /\ AdvDataOf(s, c) \in Seq(AdStructure)
           /\ LastOfKind(AdvDataOf(s, c), "manufacturer").payload = ToBytes(s, c)
<1> DEFINE ads == AdvDataOf(s, c)
<1>1. Other \in AdStructure
  BY DEF AdStructure
<1>2. LocalName(TAG_NAME) \in AdStructure
  BY NameAssumption DEF AdStructure
<1>3. Manufacturer(OurCompany, ToBytes(s, c)) \in AdStructure
  BY DEF AdStructure
<1>4. ads \in Seq(AdStructure)
  BY <1>1, <1>2, <1>3 DEF AdvDataOf
<1>5. /\ Len(ads) = 3
      /\ ads[1].kind = "other"
      /\ ads[2].kind = "name"
      /\ ads[3].kind = "manufacturer"
      /\ ads[3].payload = ToBytes(s, c)
  BY DEF AdvDataOf, Other, LocalName, Manufacturer
<1> HIDE DEF ads
<1>6. 3 \in Kind(ads, "manufacturer")
  BY <1>5 DEF Kind
<1>7. PICK j \in Kind(ads, "manufacturer") : LastOfKind(ads, "manufacturer") = ads[j]
  BY <1>5, <1>6, LastExists
<1>8. j = 3
  <2>1. j \in 1 .. 3 /\ ads[j].kind = "manufacturer"
    BY <1>5, <1>7 DEF Kind
  <2>2. j # 1 /\ j # 2
    BY <1>5, <2>1
  <2> QED
    BY <2>1, <2>2
<1> QED
  BY <1>4, <1>5, <1>7, <1>8 DEF ads

(* The sniffer parses what the tag on the air says.                          *)
LEMMA ParsedFromAir ==
    ASSUME AirInv, NEW radio \in onAir.map,
           ParseManufacturerData(onAir.data) # NoPayload
    PROVE  /\ ParseManufacturerData(onAir.data) \in Payload
           /\ LastOfKind(onAir.data, "manufacturer").payload.sequence \in SequenceNumber
           /\ radio \in ChannelNumber
           /\ ParseManufacturerData(onAir.data).channel_number = radio
           /\ ParseManufacturerData(onAir.data).sequence
                = LastOfKind(onAir.data, "manufacturer").payload.sequence
<1>1. onAir # Silence
  BY DEF Silence
<1>2. PICK s \in SequenceNumber, c \in ChannelNumber :
            onAir = [data |-> AdvDataOf(s, c), map |-> {c}]
  BY <1>1 DEF AirInv
<1> DEFINE ads == AdvDataOf(s, c)
<1>3. onAir.data = ads /\ radio = c
  BY <1>2
<1>4. /\ ads \in Seq(AdStructure)
      /\ LastOfKind(ads, "manufacturer").payload = ToBytes(s, c)
  BY AdvDataType
<1> HIDE DEF ads
<1>5. /\ ParseManufacturerData(ads) = Says(ads)
      /\ ParseManufacturerData(ads) \in ParsedAdvertisement
  BY <1>3, <1>4, SnifferAssumption, ParsedType
<1>6. ToBytes(s, c).sequence = s /\ ToBytes(s, c).channel = c
  BY DEF ToBytes
<1>7. Says(ads).sequence = s /\ Says(ads).channel_number = c
  BY <1>4, <1>6 DEF Says
<1> QED
  BY <1>3, <1>4, <1>5, <1>6, <1>7, SnifferAssumption

(* Whether sequence numbers start over or not, they stay in their range.     *)
LEMMA NextNumbers ==
    ASSUME sequence \in SequenceNumber, channel_number \in ChannelNumber
    PROVE  /\ (sequence + 1) % SEQUENCES \in SequenceNumber
           /\ NextChannel \in ChannelNumber
           /\ 0 \in SequenceNumber /\ 37 \in ChannelNumber
BY SequenceAssumption DEF SequenceNumber, ChannelNumber, NextChannel

(* Every report that waits has the number of a reception.                    *)
LEMMA OriginType ==
    ASSUME NEW os \in Seq(Origin), NEW i \in 1 .. Len(os)
    PROVE  os[i].item \in Item
<1>1. os[i] \in Origin
  OBVIOUS
<1> QED
  BY <1>1 DEF Origin

-----------------------------------------------------------------------------
(* The initial state.                                                        *)
LEMMA InitSniff == Init => SniffInv
<1> SUFFICES ASSUME Init PROVE SniffInv
  OBVIOUS
<1> USE DEF Init, AdvertiserInit, ScannerInit, HttpInit
<1>1. TypeOK
  <2>1. AdvertiserTypeOK
    <3>1. 0 \in SequenceNumber /\ 37 \in ChannelNumber
      BY SequenceAssumption DEF SequenceNumber, ChannelNumber
    <3>2. Silence.map = {}
      BY DEF Silence
    <3> QED
      BY <3>1, <3>2 DEF AdvertiserTypeOK
  <2>2. ScannerTypeOK
    <3>1. <<>> \in Seq(TagReport) /\ Len(<<>>) = 0
      OBVIOUS
    <3>2. 0 <= CHANNEL_CAPACITY
      BY ChannelAssumption
    <3> QED
      BY <3>1, <3>2 DEF ScannerTypeOK, NoInstant
  <2>3. receptions \in 0 .. MaxReceptions
    BY SnifferAssumption
  <2>4. origins \in Seq(Origin) /\ Len(origins) = Len(queue) /\ arrived \in Seq(Item)
    OBVIOUS
  <2>5. http \in HttpState /\ http = "idle" /\ confirmed \subseteq Item
    BY DEF HttpState
  <2> QED
    BY <2>1, <2>2, <2>3, <2>4, <2>5 DEF TypeOK
<1>2. AirInv
  BY DEF AirInv
<1>3. Len(origins) = 0 /\ http = "idle"
  OBVIOUS
<1>4. QueueInv /\ BodyInv /\ WaitingInv /\ PostedInv
  BY <1>3 DEF QueueInv, BodyInv, WaitingInv, PostedInv
<1> QED
  BY <1>1, <1>2, <1>4 DEF SniffInv

(* The tag's own steps change what is on the air and nothing else.           *)
LEMMA TagSteps ==
    ASSUME SniffInv, AdvertiserNext, UNCHANGED <<snifferVars, httpVars>>
    PROVE  SniffInv'
<1> USE DEF SniffInv
<1>1. AdvertiserTypeOK' /\ AirInv'
  <2>1. /\ sequence \in SequenceNumber /\ channel_number \in ChannelNumber
        /\ onAir.map \subseteq ChannelNumber /\ AirInv
    BY DEF TypeOK, AdvertiserTypeOK
  <2>2. Silence.map = {}
    BY DEF Silence
  <2>3. CASE Advertise
    <3>1. CASE onAir' = [data |-> AdvData, map |-> ChannelMap]
      <4>1. onAir' = [data |-> AdvDataOf(sequence, channel_number), map |-> {channel_number}]
        BY <3>1 DEF AdvData, AdvDataOf, ChannelMap
      <4>2. onAir'.map = {channel_number}
        BY <4>1
      <4> QED
        BY <2>1, <2>3, <4>1, <4>2 DEF Advertise, AdvertiserTypeOK, AirInv
    <3>2. CASE onAir' = Silence
      BY <2>1, <2>2, <2>3, <3>2 DEF Advertise, AdvertiserTypeOK, AirInv
    <3> QED
      BY <2>3, <3>1, <3>2 DEF Advertise
  <2>4. CASE IntervalOver
    BY <2>1, <2>4, NextNumbers DEF IntervalOver, AdvertiserTypeOK, AirInv
  <2>5. CASE AdvertiserRestart
    BY <2>1, <2>2, <2>5, NextNumbers DEF AdvertiserRestart, AdvertiserTypeOK, AirInv
  <2> QED
    BY <2>3, <2>4, <2>5 DEF AdvertiserNext
<1>2. UNCHANGED <<now, queue, instant, scanning, switchAt, receptions, origins,
                  http, item, body, arrived, confirmed>>
  BY DEF snifferVars, scannerVars, httpVars
<1>3. TypeOK'
  BY <1>1, <1>2 DEF TypeOK, ScannerTypeOK
<1>4. (QueueInv /\ BodyInv /\ WaitingInv /\ PostedInv)'
  BY <1>2 DEF QueueInv, BodyInv, TrueReport, WaitingInv, PostedInv
<1> QED
  BY <1>1, <1>3, <1>4

(* The scan task, and the beginning and end of a batch, leave the reports be. *)
LEMMA ScannerSteps ==
    ASSUME SniffInv, Scanner \/ \E addr \in BdAddr : OtherReceived(addr)
    PROVE  SniffInv'
<1> USE DEF SniffInv
<1>1. ScannerTypeOK /\ NoInstant = -1
  BY DEF TypeOK, NoInstant
<1>2. UNCHANGED <<advertiserVars, now, queue, receptions, origins, httpVars>>
  BY DEF Scanner, StartScan, OnAdvReports, EndOfReports, OtherReceived, SkipReport
<1>3. ScannerTypeOK'
  <2>1. CASE StartScan
    BY <1>1, <2>1, TimingAssumption DEF StartScan, ScannerTypeOK
  <2>2. CASE OnAdvReports
    BY <1>1, <2>2 DEF OnAdvReports, ScannerTypeOK
  <2>3. CASE EndOfReports
    BY <1>1, <2>3 DEF EndOfReports, ScannerTypeOK
  <2>4. ASSUME NEW addr \in BdAddr, OtherReceived(addr) PROVE ScannerTypeOK'
    BY <1>1, <2>4 DEF OtherReceived, SkipReport, ScannerTypeOK
  <2> QED
    BY <2>1, <2>2, <2>3, <2>4 DEF Scanner
<1>4. UNCHANGED <<sequence, channel_number, advertising, onAir, queue, receptions, origins,
                  http, item, body, arrived, confirmed>>
  BY <1>2 DEF advertiserVars, httpVars
<1>5. TypeOK'
  BY <1>3, <1>4 DEF TypeOK, AdvertiserTypeOK
<1>6. (AirInv /\ QueueInv /\ BodyInv /\ WaitingInv /\ PostedInv)'
  BY <1>4 DEF AirInv, QueueInv, BodyInv, TrueReport, WaitingInv, PostedInv
<1> QED
  BY <1>5, <1>6

(* A report that finds a place goes behind all that wait, and is a true one. *)
LEMMA ReceivedStep ==
    ASSUME SniffInv, NEW addr \in BdAddr, NEW radio \in ChannelNumber, TagReceived(addr, radio)
    PROVE  SniffInv'
<1> DEFINE parsed == ParseManufacturerData(onAir.data)
           report == [addr |-> addr, payload |-> parsed, timestamp |-> instant]
           origin == [item     |-> receptions',
                      radio    |-> radio,
                      sequence |-> LastOfKind(onAir.data, "manufacturer").payload.sequence]
<1>1. TypeOK /\ AirInv /\ QueueInv /\ BodyInv /\ WaitingInv /\ PostedInv
  BY DEF SniffInv
<1>2. /\ UNCHANGED <<sequence, channel_number, advertising, onAir, now, instant, scanning, switchAt,
                     http, item, body, arrived, confirmed>>
      /\ receptions < MaxReceptions /\ receptions' = receptions + 1
      /\ radio \in onAir.map
      /\ parsed # NoPayload
      /\ instant # NoInstant
      /\ queue' = IF Len(queue) < CHANNEL_CAPACITY THEN Append(queue, report) ELSE queue
      /\ origins' = IF queue' = queue THEN origins ELSE Append(origins, origin)
  BY DEF TagReceived, NextReport, TrySend, Idle, advertiserVars, httpVars
<1>3. /\ receptions \in 0 .. MaxReceptions /\ MaxReceptions \in Nat
      /\ queue \in Seq(TagReport) /\ Len(queue) <= CHANNEL_CAPACITY
      /\ origins \in Seq(Origin) /\ Len(origins) = Len(queue)
      /\ instant \in Nat /\ CHANNEL_CAPACITY \in Nat
      /\ arrived \in Seq(Item)
      /\ http # "idle" => item \in Item
  BY <1>1, <1>2, SnifferAssumption, ChannelAssumption DEF TypeOK, ScannerTypeOK
<1>4. /\ parsed \in Payload
      /\ origin.sequence \in SequenceNumber
      /\ parsed.channel_number = radio
      /\ parsed.sequence = origin.sequence
  BY <1>1, <1>2, ParsedFromAir
<1>5. receptions' \in 0 .. MaxReceptions /\ receptions' \in Item
  BY <1>2, <1>3 DEF Item
<1>6. report \in TagReport /\ origin \in Origin
  <2> HIDE DEF parsed
  <2> QED
    BY <1>3, <1>4, <1>5 DEF TagReport, Origin
<1>7. TrueReport(report, origin) /\ origin.item = receptions'
  BY <1>4 DEF TrueReport
<1> HIDE DEF parsed, report, origin
<1>8. (AdvertiserTypeOK /\ AirInv /\ BodyInv)'
  BY <1>1, <1>2 DEF TypeOK, AdvertiserTypeOK, AirInv, BodyInv, TrueReport
<1>9. \A k \in 1 .. Len(arrived) : arrived[k] <= receptions'
  <2> TAKE k \in 1 .. Len(arrived)
  <2>1. arrived[k] \in Item /\ arrived[k] <= receptions
    BY <1>1, <1>3 DEF PostedInv
  <2> QED
    BY <1>2, <1>3, <2>1 DEF Item
<1>10. PostedInv'
  <2>1. http # "idle" => item <= receptions'
    BY <1>1, <1>2, <1>3 DEF PostedInv, Item
  <2> QED
    BY <1>1, <1>2, <1>9, <2>1 DEF PostedInv
<1>11. CASE Len(queue) >= CHANNEL_CAPACITY
  <2>1. queue' = queue /\ origins' = origins
    BY <1>2, <1>3, <1>11
  <2>2. TypeOK'
    BY <1>1, <1>2, <1>5, <1>8, <2>1 DEF TypeOK, ScannerTypeOK
  <2>3. QueueInv'
    BY <1>1, <2>1 DEF QueueInv, TrueReport
  <2>4. WaitingInv'
    <3>1. \A i \in 1 .. Len(origins) : origins[i].item <= receptions'
      <4> TAKE i \in 1 .. Len(origins)
      <4>1. origins[i].item \in Item /\ origins[i].item <= receptions
        BY <1>1, <1>3, OriginType DEF WaitingInv
      <4> QED
        BY <1>2, <1>3, <4>1 DEF Item
    <3> QED
      BY <1>1, <1>2, <2>1, <3>1 DEF WaitingInv
  <2> QED
    BY <1>8, <1>10, <2>2, <2>3, <2>4 DEF SniffInv
<1>12. CASE Len(queue) < CHANNEL_CAPACITY
  <2>1. queue' = Append(queue, report) /\ Len(queue') = Len(queue) + 1 /\ queue' \in Seq(TagReport)
    BY <1>2, <1>3, <1>6, <1>12
  <2>2. origins' = Append(origins, origin)
    BY <1>2, <1>3, <2>1
  <2>3. Len(origins') = Len(origins) + 1 /\ origins' \in Seq(Origin)
    BY <1>3, <1>6, <2>2
  <2>4. TypeOK'
    <3>1. ScannerTypeOK'
      BY <1>1, <1>2, <1>3, <1>12, <2>1 DEF TypeOK, ScannerTypeOK
    <3> QED
      BY <1>1, <1>2, <1>3, <1>5, <1>8, <2>1, <2>3, <3>1 DEF TypeOK
  <2>5. \A i \in 1 .. Len(origins') :
            \/ i \in 1 .. Len(origins) /\ origins'[i] = origins[i] /\ queue'[i] = queue[i]
            \/ i = Len(origins) + 1 /\ origins'[i] = origin /\ queue'[i] = report
    BY <1>3, <1>6, <2>1, <2>2, <2>3
  <2>6. QueueInv'
    BY <1>1, <1>7, <2>5 DEF QueueInv, TrueReport
  <2>7. WaitingInv'
    <3>1. SUFFICES ASSUME NEW i \in 1 .. Len(origins')
                   PROVE  /\ origins'[i].item <= receptions'
                          /\ \A j \in 1 .. i - 1 : origins'[j].item < origins'[i].item
                          /\ \A k \in 1 .. Len(arrived) : arrived[k] < origins'[i].item
                          /\ http # "idle" => item < origins'[i].item
      BY <1>2 DEF WaitingInv
    <3>2. CASE i \in 1 .. Len(origins)
      <4>1. \A j \in 1 .. i : origins'[j] = origins[j]
        <5> TAKE j \in 1 .. i
        <5>1. j \in 1 .. Len(origins') /\ j # Len(origins) + 1
          BY <1>3, <2>3, <3>2
        <5> QED
          BY <2>5, <5>1
      <4>2. origins[i].item \in Item /\ origins[i].item <= receptions
        BY <1>1, <1>3, <3>2, OriginType DEF WaitingInv
      <4>3. origins[i].item <= receptions'
        BY <1>2, <1>3, <4>2 DEF Item
      <4>4. /\ \A j \in 1 .. i - 1 : origins[j].item < origins[i].item
            /\ \A k \in 1 .. Len(arrived) : arrived[k] < origins[i].item
            /\ http # "idle" => item < origins[i].item
        BY <1>1, <3>2 DEF WaitingInv
      <4>5. i \in 1 .. i /\ \A j \in 1 .. i - 1 : j \in 1 .. i
        BY <3>2
      <4> QED
        BY <4>1, <4>3, <4>4, <4>5
    <3>3. CASE i = Len(origins) + 1
      <4>1. origins'[i].item = receptions + 1
        BY <1>2, <1>3, <1>7, <2>5, <3>3
      <4>2. \A j \in 1 .. i - 1 : origins'[j].item <= receptions /\ origins'[j].item \in Item
        <5> TAKE j \in 1 .. i - 1
        <5>1. j \in 1 .. Len(origins) /\ origins'[j] = origins[j]
          BY <1>3, <2>3, <2>5, <3>3
        <5> QED
          BY <1>1, <1>3, <5>1, OriginType DEF WaitingInv
      <4>3. \A k \in 1 .. Len(arrived) : arrived[k] <= receptions /\ arrived[k] \in Item
        BY <1>1, <1>3 DEF PostedInv
      <4>4. http # "idle" => item <= receptions /\ item \in Item
        BY <1>1, <1>3 DEF PostedInv
      <4>5. receptions \in Nat /\ \A n \in Item : n <= receptions => n < receptions + 1
        BY <1>3 DEF Item
      <4>6. receptions + 1 <= receptions'
        BY <1>2, <1>3
      <4> QED
        BY <4>1, <4>2, <4>3, <4>4, <4>5, <4>6
    <3>4. i \in 1 .. Len(origins) \/ i = Len(origins) + 1
      BY <2>5
    <3> QED
      BY <3>2, <3>3, <3>4
  <2> QED
    BY <1>8, <1>10, <2>4, <2>6, <2>7 DEF SniffInv
<1> QED
  BY <1>3, <1>11, <1>12

(* The oldest report goes from the channel into a post.                      *)
LEMMA ReceiveStep ==
    ASSUME SniffInv, ReceiveTags
    PROVE  SniffInv'
<1> DEFINE first == Head(origins)
           report == Head(queue)
<1>1. TypeOK /\ AirInv /\ QueueInv /\ BodyInv /\ WaitingInv /\ PostedInv
  BY DEF SniffInv
<1>2. /\ UNCHANGED <<sequence, channel_number, advertising, onAir, now, instant, scanning, switchAt,
                     receptions, arrived, confirmed>>
      /\ queue # <<>> /\ queue' = Tail(queue) /\ origins' = Tail(origins)
      /\ http = "idle" /\ http' = "connecting"
      /\ item' = first.item
      /\ body' = [report |-> report, origin |-> first]
  BY DEF ReceiveTags, Receive, Post, advertiserVars
<1>3. /\ receptions \in 0 .. MaxReceptions /\ MaxReceptions \in Nat
      /\ queue \in Seq(TagReport) /\ Len(queue) <= CHANNEL_CAPACITY
      /\ origins \in Seq(Origin) /\ Len(origins) = Len(queue)
      /\ CHANNEL_CAPACITY \in Nat
      /\ arrived \in Seq(Item)
  BY <1>1, SnifferAssumption, ChannelAssumption DEF TypeOK, ScannerTypeOK
<1>4. Len(origins) \in Nat \ {0} /\ origins # <<>>
  BY <1>2, <1>3
<1>5. first = origins[1] /\ report = queue[1] /\ first \in Origin /\ report \in TagReport
  BY <1>2, <1>3, <1>4
<1>6. /\ queue' \in Seq(TagReport) /\ origins' \in Seq(Origin)
      /\ Len(queue') = Len(queue) - 1 /\ Len(origins') = Len(origins) - 1
      /\ \A i \in 1 .. Len(origins') :
            /\ i + 1 \in 1 .. Len(origins)
            /\ origins'[i] = origins[i + 1]
            /\ queue'[i] = queue[i + 1]
  BY <1>2, <1>3, <1>4
<1> HIDE DEF first, report
<1>7. first.item \in Item /\ body'.report = report /\ body'.origin = first /\ body' \in Body
  BY <1>2, <1>5 DEF Origin, Body
<1>8. TypeOK'
  <2>1. AdvertiserTypeOK' /\ ScannerTypeOK'
    BY <1>1, <1>2, <1>3, <1>6 DEF TypeOK, AdvertiserTypeOK, ScannerTypeOK
  <2>2. http' \in HttpState
    BY <1>2 DEF HttpState
  <2>3. Len(origins') = Len(queue')
    BY <1>3, <1>6
  <2> QED
    BY <1>1, <1>2, <1>6, <1>7, <2>1, <2>2, <2>3 DEF TypeOK
<1>9. AirInv'
  BY <1>1, <1>2 DEF AirInv
<1>10. QueueInv'
  BY <1>1, <1>6 DEF QueueInv, TrueReport
<1>11. BodyInv'
  BY <1>1, <1>4, <1>5, <1>7 DEF QueueInv, BodyInv, TrueReport
<1>12. WaitingInv'
  <2> SUFFICES ASSUME NEW i \in 1 .. Len(origins')
               PROVE  /\ origins'[i].item <= receptions
                      /\ \A j \in 1 .. i - 1 : origins'[j].item < origins'[i].item
                      /\ \A k \in 1 .. Len(arrived) : arrived[k] < origins'[i].item
                      /\ item' < origins'[i].item
    BY <1>2 DEF WaitingInv
  <2>1. i + 1 \in 1 .. Len(origins) /\ origins'[i] = origins[i + 1]
    BY <1>6
  <2>2. /\ origins[i + 1].item <= receptions
        /\ \A j \in 1 .. (i + 1) - 1 : origins[j].item < origins[i + 1].item
        /\ \A k \in 1 .. Len(arrived) : arrived[k] < origins[i + 1].item
    BY <1>1, <2>1 DEF WaitingInv
  <2>3. \A j \in 1 .. i - 1 : /\ j + 1 \in 1 .. (i + 1) - 1
                              /\ origins'[j] = origins[j + 1]
    BY <1>4, <1>6
  <2>4. 1 \in 1 .. (i + 1) - 1
    BY <1>4, <1>6
  <2> QED
    BY <1>2, <1>5, <2>1, <2>2, <2>3, <2>4
<1>13. PostedInv'
  <2>1. 1 \in 1 .. Len(origins)
    BY <1>4
  <2>2. /\ origins[1].item <= receptions
        /\ \A k \in 1 .. Len(arrived) : arrived[k] < origins[1].item
    BY <1>1, <2>1 DEF WaitingInv
  <2> QED
    BY <1>1, <1>2, <1>5, <2>2 DEF PostedInv
<1> QED
  BY <1>8, <1>9, <1>10, <1>11, <1>12, <1>13 DEF SniffInv

(* A step of the post appends to what arrived at most what is being posted.  *)
LEMMA PostSteps ==
    ASSUME SniffInv, SendDataToBackend
    PROVE  SniffInv'
<1>1. TypeOK /\ AirInv /\ QueueInv /\ BodyInv /\ WaitingInv /\ PostedInv
  BY DEF SniffInv
<1>2. /\ UNCHANGED <<sequence, channel_number, advertising, onAir, now, queue, instant, scanning,
                     switchAt, receptions, origins>>
      /\ HttpNext
  BY DEF SendDataToBackend, advertiserVars, snifferVars, scannerVars
<1>3. /\ http # "idle" /\ http' # "idle" /\ http' \in HttpState
      /\ UNCHANGED <<item, body>>
  BY <1>2 DEF HttpNext, Requested, RequestArrives, RequestLost, Response, ResponseLost, BodyRead,
              HttpState
<1>4. item \in Item /\ body \in Body /\ arrived \in Seq(Item) /\ confirmed \subseteq Item
  BY <1>1, <1>3 DEF TypeOK
<1>5. (AirInv /\ QueueInv /\ BodyInv)'
  BY <1>1, <1>2, <1>3 DEF AirInv, QueueInv, BodyInv, TrueReport
<1>6. /\ arrived' \in Seq(Item) /\ confirmed' \subseteq Item
      /\ WaitingInv' /\ PostedInv'
  <2>1. CASE RequestArrives
    <3>1. /\ http = "sending" /\ http' = "responding"
          /\ arrived' = Append(arrived, item) /\ confirmed' = confirmed
      BY <2>1 DEF RequestArrives
    <3>2. /\ arrived' \in Seq(Item) /\ Len(arrived') = Len(arrived) + 1
          /\ arrived'[Len(arrived) + 1] = item
          /\ \A k \in 1 .. Len(arrived') :
                arrived'[k] = item \/ (k \in 1 .. Len(arrived) /\ arrived'[k] = arrived[k])
      <4>1. /\ arrived' \in Seq(Item) /\ Len(arrived') = Len(arrived) + 1
            /\ arrived'[Len(arrived) + 1] = item
            /\ \A k \in 1 .. Len(arrived) : arrived'[k] = arrived[k]
        BY <1>4, <3>1, AppendProperties
      <4>2. \A k \in 1 .. Len(arrived') : k \in 1 .. Len(arrived) \/ k = Len(arrived) + 1
        BY <1>4, <4>1
      <4> QED
        BY <4>1, <4>2
    <3>3. WaitingInv'
      BY <1>1, <1>2, <1>3, <3>2 DEF WaitingInv
    <3>4. PostedInv'
      <4>1. Len(arrived) + 1 \in 1 .. Len(arrived')
        BY <1>4, <3>2
      <4>2. \A k \in 1 .. Len(arrived') : arrived'[k] <= receptions
        BY <1>1, <1>3, <3>2 DEF PostedInv
      <4> QED
        BY <1>1, <1>2, <1>3, <3>1, <3>2, <4>1, <4>2 DEF PostedInv
    <3> QED
      BY <1>4, <3>1, <3>2, <3>3, <3>4
  <2>2. CASE ~RequestArrives
    <3>1. UNCHANGED arrived /\ confirmed' \subseteq Item
      BY <1>2, <1>4, <2>2
      DEF HttpNext, Requested, RequestLost, Response, ResponseLost, BodyRead
    <3>2. WaitingInv'
      BY <1>1, <1>2, <1>3, <3>1 DEF WaitingInv
    <3>3. /\ http' = "responding" => FALSE
          /\ http' \in {"connecting", "sending"} => http = "connecting"
      BY <1>2, <2>2
      DEF HttpNext, Requested, RequestLost, Response, ResponseLost, BodyRead
    <3>4. PostedInv'
      BY <1>1, <1>2, <1>3, <3>1, <3>3 DEF PostedInv
    <3> QED
      BY <1>4, <3>1, <3>2, <3>4
  <2> QED
    BY <2>1, <2>2
<1>7. TypeOK'
  <2>1. AdvertiserTypeOK' /\ ScannerTypeOK'
    BY <1>1, <1>2 DEF TypeOK, AdvertiserTypeOK, ScannerTypeOK
  <2>2. item' \in Item /\ body' \in Body
    BY <1>3, <1>4
  <2> QED
    BY <1>1, <1>2, <1>3, <1>6, <2>1, <2>2 DEF TypeOK
<1> QED
  BY <1>5, <1>6, <1>7 DEF SniffInv

(* A post that is over leaves what arrived as it is.                         *)
LEMMA ReturnedStep ==
    ASSUME SniffInv, PostReturned
    PROVE  SniffInv'
<1>1. TypeOK /\ AirInv /\ QueueInv /\ BodyInv /\ WaitingInv /\ PostedInv
  BY DEF SniffInv
<1>2. /\ UNCHANGED <<sequence, channel_number, advertising, onAir, now, queue, instant, scanning,
                     switchAt, receptions, origins, arrived, confirmed>>
      /\ http' = "idle"
  BY DEF PostReturned, Returned, advertiserVars, snifferVars, scannerVars
<1>3. TypeOK'
  BY <1>1, <1>2 DEF TypeOK, AdvertiserTypeOK, ScannerTypeOK, HttpState
<1>4. (AirInv /\ QueueInv /\ BodyInv)'
  BY <1>1, <1>2 DEF AirInv, QueueInv, BodyInv, TrueReport
<1>5. (WaitingInv /\ PostedInv)'
  BY <1>1, <1>2 DEF WaitingInv, PostedInv
<1> QED
  BY <1>3, <1>4, <1>5 DEF SniffInv

(* A stuttering step. *)
LEMMA StutterSniff ==
    ASSUME SniffInv, UNCHANGED vars
    PROVE  SniffInv'
<1>1. UNCHANGED <<sequence, channel_number, advertising, onAir, now, queue, instant, scanning,
                  switchAt, receptions, origins, http, item, body, arrived, confirmed>>
  BY DEF vars, advertiserVars, snifferVars, scannerVars, httpVars
<1>2. TypeOK'
  BY <1>1 DEF SniffInv, TypeOK, AdvertiserTypeOK, ScannerTypeOK
<1>3. (AirInv /\ QueueInv /\ BodyInv /\ WaitingInv /\ PostedInv)'
  BY <1>1 DEF SniffInv, AirInv, QueueInv, BodyInv, TrueReport, WaitingInv, PostedInv
<1> QED
  BY <1>2, <1>3 DEF SniffInv

(***************************************************************************)
(* Whatever tag, air and server do: reports wait in the order they were     *)
(* received in, behind all that was posted, and say what was on the air.    *)
(***************************************************************************)
THEOREM SnifferInvariant == Spec => []SniffInv
<1>1. Init => SniffInv
  BY InitSniff
<1>2. SniffInv /\ [Next]_vars => SniffInv'
  BY TagSteps, ScannerSteps, ReceivedStep, ReceiveStep, PostSteps, ReturnedStep, StutterSniff
  DEF Next
<1> QED
  BY <1>1, <1>2, PTL DEF Spec

(* The types of the sniffer's variables; a report in the channel has an     *)
(* origin, and the channel never holds more than its capacity.              *)
THEOREM SnifferTypeCorrect == Spec => []TypeOK
<1>1. SniffInv => TypeOK
  BY DEF SniffInv
<1> QED
  BY <1>1, SnifferInvariant, PTL

(***************************************************************************)
(* What scanner-aio-http posts is what the tag sent, although number and    *)
(* channel have moved on: for every tag, and every wait in the channel.     *)
(***************************************************************************)
THEOREM ReportsTrueCorrect == Spec => []ReportsTrue
<1>1. SniffInv => ReportsTrue
  BY DEF SniffInv, BodyInv, TrueReport, ReportsTrue, ServerHasBody
<1> QED
  BY <1>1, SnifferInvariant, PTL

(* The structures the run of this property tries are sequences like others.  *)
THEOREM ParseCorrectCorrect == Spec => []ParseCorrect
<1>1. \A ads \in BoundedSeq(AdStructure, 3) : ads \in Seq(AdStructure)
  <2> TAKE ads \in BoundedSeq(AdStructure, 3)
  <2>1. PICK m \in 0 .. 3 : ads \in [1 .. m -> AdStructure]
    BY DEF BoundedSeq, SeqOf
  <2> QED
    BY <2>1, SeqDef
<1>2. ParseCorrect
  BY <1>1, ParserCorrect DEF ParseCorrect
<1> QED
  BY <1>2, PTL

-----------------------------------------------------------------------------
(* A report received is an item handed over, whether the channel has room.   *)
LEMMA InitPromise == Init => Promise!Init
BY DEF Init, HttpInit, Promise!Init

(* Every step is one of OrderedDelivery, or a stutter.                       *)
LEMMA NextPromise ==
    ASSUME SniffInv, [Next]_vars
    PROVE  [Promise!Next]_<<receptions, arrived, confirmed>>
<1>1. TypeOK /\ WaitingInv /\ PostedInv
  BY DEF SniffInv
<1>2. /\ receptions \in 0 .. MaxReceptions /\ MaxReceptions \in Nat
      /\ arrived \in Seq(Item)
      /\ http # "idle" => item \in Item
  BY <1>1, SnifferAssumption DEF TypeOK
<1>3. ASSUME NEW addr \in BdAddr, NEW radio \in ChannelNumber, TagReceived(addr, radio)
      PROVE  Promise!Send
  <2>1. /\ receptions < MaxReceptions /\ receptions' = receptions + 1
        /\ UNCHANGED <<arrived, confirmed>>
    BY <1>3 DEF TagReceived, httpVars
  <2> QED
    BY <1>2, <2>1 DEF Promise!Send, Item
<1>4. CASE SendDataToBackend
  <2>1. UNCHANGED receptions /\ HttpNext
    BY <1>4 DEF SendDataToBackend, snifferVars
  <2>2. CASE RequestArrives
    <3>1. http = "sending" /\ arrived' = Append(arrived, item) /\ UNCHANGED confirmed
      BY <2>2 DEF RequestArrives
    <3>2. item \in Item /\ item <= receptions
      BY <1>1, <1>2, <3>1 DEF PostedInv
    <3>3. arrived = <<>> \/ Promise!Last(arrived) < item
      <4>1. \A k \in 1 .. Len(arrived) : arrived[k] < item
        BY <1>1, <3>1 DEF PostedInv
      <4>2. arrived # <<>> => Len(arrived) \in 1 .. Len(arrived)
        BY <1>2
      <4> QED
        BY <4>1, <4>2 DEF Promise!Last
    <3>4. Promise!Deliver(item)
      BY <2>1, <3>1, <3>2, <3>3 DEF Promise!Deliver
    <3> QED
      BY <3>2, <3>4 DEF Promise!Next
  <2>3. CASE Response
    <3>1. http = "responding" /\ confirmed' = confirmed \cup {item} /\ UNCHANGED arrived
      BY <2>3 DEF Response
    <3>2. item \in Item
      BY <1>2, <3>1
    <3>3. Promise!Contains(arrived, item)
      BY <1>1, <3>1 DEF PostedInv, Promise!Contains
    <3>4. Promise!Confirm(item)
      BY <2>1, <3>1, <3>3 DEF Promise!Confirm
    <3> QED
      BY <3>2, <3>4 DEF Promise!Next
  <2>4. CASE Requested \/ RequestLost \/ ResponseLost \/ BodyRead
    BY <2>1, <2>4 DEF Requested, RequestLost, ResponseLost, BodyRead
  <2> QED
    BY <2>1, <2>2, <2>3, <2>4 DEF HttpNext
<1>5. CASE ReceiveTags
  BY <1>5 DEF ReceiveTags, Post
<1>6. CASE PostReturned
  BY <1>6 DEF PostReturned, Returned, snifferVars
<1>7. CASE Scanner
  BY <1>7 DEF Scanner, httpVars
<1>8. ASSUME NEW addr \in BdAddr, OtherReceived(addr)
      PROVE  UNCHANGED <<receptions, arrived, confirmed>>
  BY <1>8 DEF OtherReceived, httpVars
<1>9. CASE AdvertiserNext /\ UNCHANGED <<snifferVars, httpVars>>
  BY <1>9 DEF snifferVars, httpVars
<1>10. CASE UNCHANGED vars
  BY <1>10 DEF vars, snifferVars, httpVars
<1> QED
  BY <1>3, <1>4, <1>5, <1>6, <1>7, <1>8, <1>9, <1>10 DEF Next, Promise!Next

(***************************************************************************)
(* Reports that scanner-aio-http drops or fails to post are lost; the rest  *)
(* reach the server in the order of reception and once at most.             *)
(***************************************************************************)
THEOREM ImplementsDeliveryCorrect == Spec => ImplementsDelivery
BY InitPromise, NextPromise, SnifferInvariant, PTL DEF Spec, ImplementsDelivery, Promise!Spec
=============================================================================
