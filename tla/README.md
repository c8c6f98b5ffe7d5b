# Verification of the mobile asset tracker

TLA+ models of the firmware and the proxy of the mobile asset tracker, the TLC
configurations that check them on small instances, and TLAPS proofs for every
size of them. The reference is the source; where the documentation says
something else, a run shows the difference (see *Disagreements* below).

    tlc -config MCTagTable.cfg MCTagTable      # one file .cfg per run
    tlapm TagTableProofs.tla                   # the proofs, under a minute each

## The system

BLE **advertisers** (tags) broadcast their name and a sequence number. On a
**gateway** board with two chips, the **network core** (nRF5340, firmware
`scanner-uart`) scans for the tags of its owner, keeps the most recent report of
each in a table, and writes that table to a UART for as long as the other chip
holds a request pin high. The other chip (nRF9160, firmware `gateway`) wakes up
every 15 minutes or when its button is pressed, locates itself by GNSS, requests
the table, brings up LTE-M, and sends one update, over HTTP, MQTT or CoAP. The
CoAP back end is a pull: the gateway only announces the update to a **proxy**,
which fetches it and posts it to the HTTP back end. A **static sniffer**
(`scanner-aio-http`) has the scanner and a network on one chip, and posts every
report by itself.

```
 tags ))) TagScanner --channel--> receive_tags --SEEN--> send_scan_data
                                  automatic_cleanup -/        | UART + pin
                                                              v
 button, timer, GNSS ------------------------------------> updates --> leds
                                                              |
                  HTTP / MQTT back end <----------------------+
                  CoAP: /status <--- proxy <--- ping ---------+
                                       `---> HTTP back end

 tags ))) TagScanner --channel--> receive_tags ---> HTTP server      (static sniffer)
```

### Components

| component | state | operations | what makes it hard | correct when |
|---|---|---|---|---|
| tag scanner library (`scanner/src/lib.rs`) | report channel, scan session | `run`, `on_adv_reports`, `receiver` | a callback of the BLE host fills a bounded channel another task drains | reports are ours, bounded, in order of time |
| network core (`scanner-uart/src/main.rs`) | table `SEEN`, request pin, UART | `receive_tags`, `automatic_cleanup`, `send_scan_data` | three tasks share a full table; ages and time limits meet at their boundaries | no device is lost that a staler one survives; a packet is complete and recent; a request is answered |
| UART link (`wait_for_decoded_message`, `send_scan_data`) | receive buffer, bytes under way, pin | framing, decoding, request | lost bytes, overflow, packets cut short, no timeout | a decoded packet was really sent, after the request; a request ends |
| gateway cycle (`gateway/src/main.rs`) | phase, fix, modem, tags, LED channel | `updates`, `leds`, `get_location` | retries with back-off, `continue` past the clean-up, ages brought up to date after an unbounded wait, one-slot channel | radio exclusive, ages honest, updates apart, and for ever |
| CoAP back end (`gateway/src/coap.rs`) and proxy (`coap-proxy/server.py`) | `LAST_UPDATE`, `UPDATE_READ`, pending requests | `send_update`, `register_to_rd`, `/status`, `Register.render_post`, `process_update` | messages lost, repeated, late; two timers; restart | an announcement brings one update at most, never an older one; `send_update` returns |
| HTTP back end (`gateway/src/http.rs`) | none between calls | `send_kuzzle_post_request` | no timeout; a post that failed may have arrived | requests arrive in order, once at most |
| MQTT back end (`gateway/src/mqtt.rs`) | connection; the broker keeps a session | `mqtt_connect_and_publish` | a call is abandoned between publish and completion, its packets arrive late, identifiers repeat | updates are passed on in order and once at most; a completed one was; the call ends, if its publication is not refused |
| all-in-one scanner (`scanner-aio-http`) | report channel | `receive_tags`, `run_scanner`, `send_data_to_backend` | the channel fills up during a request, posts fail | what is posted was received, in order, once at most; no failure stops it |
| advertiser (`advertiser`), payload parser (`parse_manufacturer_data`) | sequence number, channel | advertise, parse | rotation, repeated structures, early returns | what is parsed was advertised |
| the tracker as a whole | ages, exchanged between two clocks | request, frame, update | frames lost or left over, restarts, waits in three places, a timestamp from the fix | an update implies when each device was heard but for the time since the fix, is complete as of the request, and is made |
| application core (`app`) | registers | boot | order of the cores | the network core starts configured |
| battery gauge (`gateway/src/board.rs`) | registers | read voltage | retries on the bus | - |
| report format (`common-types`, `report.schema.json`, proxy) | none | encode, convert | indices and names on both sides | what is passed on has its own place and name |

Pins and sensors, the debugging firmware (`reader`, `coap-tests`) and the
deployment of the proxy have no logic of their own. `PROJECT.json` lists the status
of every component and, under `hazards`, what is hard to test at its line.

## The models

| module | what it is |
|---|---|
| `TagScanner` | `scanner/src/lib.rs`: scan task, report handler, channel |
| `TagTable` | `scanner-uart/src/main.rs` on top of it: the table and its three tasks |
| `TagTableProofs` | the theorems about `TagTable` |
| `GatewayCycle` | `gateway/src/main.rs`: `updates` and `leds` |
| `AssetTracker` | `TagTable` and `GatewayCycle` composed over the pin and the UART |
| `StatusDelivery` | abstract: what the pull over CoAP promises |
| `CoapDelivery` | `gateway/src/coap.rs` and `coap-proxy/server.py`, implementing it |
| `Handoff` | abstract: what the link between the chips promises |
| `UartLink` | `send_scan_data` and `wait_for_decoded_message`, implementing it |
| `OrderedDelivery` | abstract: what a back end over one connection after the other promises |
| `MqttPublish` | `gateway/src/mqtt.rs` with the broker, implementing it |
| `HttpPost` | `gateway/src/http.rs`: one POST after the other |
| `AdvParse` | `parse_manufacturer_data`, and a reference for it |
| `Advertiser` | `advertiser/src/main.rs` |
| `StaticSniffer` | `scanner-aio-http/src/main.rs`: `Advertiser`, `TagScanner` and `HttpPost` composed, implementing `OrderedDelivery` |
| `ReportFormat` | an update as CBOR, as the proxy converts it, as serde names it |
| `GatewayCycleProofs`, `UartLinkProofs`, `MqttPublishProofs`, `StaticSnifferProofs`, `AdvParseProofs` | the theorems about the module each is named for |
| `CoapDeliveryProofs` | the theorems about `CoapDelivery`, and about `ReportFormat` |
| `AssetTrackerProofs` | the theorems about `AssetTracker`, from those about `TagTable` and `GatewayCycle` |
| `MC...` | instances for TLC |

### Steps

All tasks of a chip run on one cooperative embassy executor, so a task runs
undisturbed from one await to the next: an action is such a stretch, with all it
does. Where a task goes on without awaiting (`updates` from the end of one round
of its loop to the first await of the next; an update that is due at once) the
stretch is one action: `LoopTop` is part of `Boot`, `Wake`, `Sent` and
`SerializeError`. A batch of advertising reports is handed over in one call of
`on_adv_reports`; it is split into one action per report, and `instant`, the
handler's local, keeps every other task out (`Idle`) until the batch is over.
`leds` has a ready channel as soon as `updates` has sent to it, so it runs before the
event `updates` awaits next is delivered: `LedsSettled`. This is an assumption
about the executor's run queue, and the only one made on the order of tasks. It is
made only where `updates` really waits: `get_location` may return without having awaited
anything (`ReturnsAtOnce`), be it for an error, as when a measurement could not be
triggered, or because the position is a fake, and then what it sends meets a channel
that may still be full.

### TagScanner and TagTable

`queue` is the channel, `scanning`/`switchAt` the two halves of `run`'s loop,
`seen` the `FnvIndexMap`, `cleanupAt` the timer of `automatic_cleanup`, `sender`
the await `send_scan_data` is at, `packet` what it writes. An address is two
halves: the device's, which the code uses as key, and the prefix that tells ours
from foreign. `Payload` is what the parser
returns, one value in `TagTable`, where name, RSSI and sequence number decide nothing,
and all of `ParsedAdvertisement` in `StaticSniffer`. Removing the oldest of
equally old entries depends on the order of the map's iterator, so it is a choice
(`OldestKeys`). `heard` is a history variable: when `receive_tags` last took a
report of the device. The clock counts whole seconds; `MaxLag` says how long a
task that is due may wait for the executor, because timers are never exact. The
scanner's controller may hand over reports for a moment after a session is dropped
(`Listening`). `request` is driven freely by the environment.

### UartLink

`out` is what is left of the frame `send_scan_data` writes, `rx` the bytes the gateway's
driver holds, `packet_buffer` those `wait_for_decoded_message` has collected. A byte is
named by the table it tells of, the length of its frame and its place, so that a damaged
or joined frame can be told from a whole one. What a whole frame decodes to is what
was sent; what another decodes to, COBS and postcard leave open, having no checksum:
`Decode` allows an error and `Garbage`. A read hands over any part of what the driver
holds; one frame is decoded per read; a read that does not fit clears what was
collected and is not consumed (`Overflow`). `wait_for_high` may be over and the pin
low again before the sender runs (`woken`). Faults are a byte lost, on the wire or
because the driver's 32 bytes are full, a failed write, and a restart of the network
core; a restart of the gateway harms no frame. A byte that arrives as another is not
modelled, so that none becomes a separator. `Quiet` is an assumption on time: the
gateway does not ask again while a frame, 0.4 s at 115200 baud, is under way,
since a cycle of the modem and a fix lie between.

### AssetTracker

The two chips share the request pin: `request` of `TagTable` is `uartRequest` of
`GatewayCycle`, and nobody else drives it. Frames are the unit on the UART: `wire` is
the frame that came through since the request. `Timestamp`, `Implied` and `Moments` are what
a reader makes of an update: its own timestamp less an age. What is left out of the bytes is what
`UartLink` establishes, that frames arrive as sent or not at all and that the first
whole one ends the request; its `Quiet` is the guard on `sender` in `Located`. A frame
takes `FrameTime` from its snapshot to its decoding at most. A frame may be lost, and
the network core may start over, its table empty. Ticks are common to both chips, whose
own clocks are only ever used for differences. What a chip does alone does not matter
to the other, so `CoreMay` and `GatewayMay` let them take turns. Attempts to locate the
board that fail are left to `GatewayCycle`; here they are time that passes.

### GatewayCycle

`pc` is the await `updates` is at. Times are counted from the event they measure:
`elapsed` from `last_update_start_timestamp`, `fixAge` from the fix, `linkWait`
from `decode_instant`, and stop where nothing can tell longer from longer still. A
reading of the GNSS is the set of channels it has a value for: three coordinates
and the time of fix; none for an error. `FAKE_POSITION` is the feature `fake-position`.
`update` keeps the ages and how old its timestamp is, which is the time of the fix. Ages and back-off are 16-bit sums and products, wrapping
as in the release build (a debug build panics). `detected` are the decoded tags with
their ages, and the network core is whatever answers `Decoded`. Sending is
one await whatever the back end, with `SerializeError` the `continue` of the
HTTP and MQTT back ends. Blinking of the LED is left out.

### CoapDelivery

`gpc` is the await `send_update` is at, `LAST_UPDATE` and `UPDATE_READ` are the two
statics it shares with `StatusRenderer`, `proxy[r]` the coroutine of the r-th ping.
`msgs` holds all messages ever sent: receiving does not remove one, so a message
may be lost, late, repeated or overtaken. A repeated ping is answered by the CoAP
library of the proxy from its message id, so one ping is one coroutine. The link
is up from `ltem::enable` to `ltem::disable`, and requests reach the gateway only then.
OSCORE, names and addresses are left out. So is an answer in several blocks: the handler
may be called again for every block, and if the next update is stored in between, the
blocks are of two updates; whether the CoAP library then starts over is not in the
repository. `configured` says whether the proxy was given
an end point and a token. `ProxyRestart` loses its coroutines and the answers they owe. `Restart` is a power loss or panic: the
statics are back to their initial values, while the messages and the proxy live on.

### ReportFormat

Pure operators. minicbor writes a structure as an array without its trailing `None`
fields, and `convert_gateway_update` looks at the length to tell; a `None` before a
location is null. Values are distinct where a mix-up of places would otherwise go
unnoticed. `Proxied` is the reference, and names what is not restored: the proxy passes on
neither the name nor the sequence number of a tag, and has the tags under `detected_tags`
and their addresses under `id`, where serde has `detectedTags` and `addr`. `ProxyRestores` is a
fact of the format, checked on every update of a small set in the run that delivers them.

### MqttPublish

`pc` is the await of `mqtt_connect_and_publish`, `up[c]` what call `c` has written and
the broker has not read, `down` what the broker has sent to the present call. A broker
serves one connection per client and drops the old one when a new one is opened;
`unreleased` is its session, which never expires. MQTT lets the receiver of QoS 2 pass
a message on at once or when it is released: `onPublish` is either. Every call makes a
new `Client`, so the identifier of its only publication is always the same one, and
`unreleased` need not say which. A broker may also refuse a
publication: its PUBREC then says so and ends the exchange, and the client gets the event
`PublishRejected`, which the loop does not heed (`Rejected`), so it polls on in `refused`.
`poll` failing leaves the loop and the update is gone;
`connect`, `publish` and `disconnect` failing are unwrapped (`Panics`). The TLS handshake
and the pauses of ten seconds are awaits like the others.

### HttpPost, AdvParse, Advertiser, StaticSniffer

A POST ends with the head of a response or an error, in which case the server may have
got it or not; an error of the body is only logged. An advertisement is a sequence of
AD structures, each with what the parser looks at. `onAir` is what the tag's controller
broadcasts, with the channel map it was given; `advertise` may fail, unnoticed, and a tag
may start over. The sequence number wraps, as the u32 does in a release build. A report
is received on a channel of the map, which the receiver does not know: `origins` keeps
it, and where the number came from, beside the report. The sniffer's scan interval is
within the radio's range, so it scans for ever and needs no clock.

## What the runs show

| run | bounds | shows |
|---|---|---|
| `tag_table` | 3 devices, 2 places, channel of 2, clock to 4 | `KeepsMostRecent`, `AgesBounded`, `SnapshotComplete` under all interleavings, with reports that queue up; and the inductive invariant `IInv` |
| `uart_link` | 2 tables, frames of 1 or 2 bytes, a buffer of 7 bytes, 3 faults | `FaultsSpoilOneFrame`, `RequestEnds`, and the refinement `ImplementsHandoff` |
| `gateway_cycle` | update every 3 ticks, skip below 2, 1 tag, ages of 0 or 65533 in 16 bits | `RadioExclusive`, `AgesHonest`, `BackoffExact`, `LedTellsPhase`, `UpdatesSpaced`; updates never stop (`UpdatesKeepComing`) |
| `asset_tracker` | 1 device, scan windows, clock to 3, 1 fault | `UpdateTruthful`, `UpdateCurrent`, `ExchangeEnds` |
| `coap_delivery` | 2 updates, 1 restart of each side | `ReadMeansCurrent`, `OkMeansForwarded`, `ProxyRestores`, `SendUpdateReturns`, and the refinement `ImplementsPromise` |
| `mqtt_publish` | 3 calls, 2 restarts | `CallEnds`, and the refinement `ImplementsDelivery` |
| `static_sniffer` | 3 receptions, channel of 2, 2 sequence numbers | `ReportsTrue`, `KeepsForwarding`, the refinement `ImplementsDelivery`; `ParseCorrect` for every sequence of 3 structures |
| `list_not_cleared`, `age_wraps`, `no_fix_no_update`, `report_schema`, `report_misdates` | | the disagreements below |

**Bounds.** A full table, an eviction among equals, and a device that has to be
told from both the evicted and the surviving one need three devices and two places;
a channel of two lets reports queue while the table changes. Expiry
is two scan intervals instead of ten (one in `asset_tracker`): what matters is that a clean-up can come
just before and just after an entry's limit, and the entry can survive one clean-up.
The clock (`MaxNow`) reaches the largest age, which an entry has that just survived a clean-up, in
`tag_table`, past a clean-up and a scan window in `asset_tracker`, and stops; the
proofs have no such limit on devices, places, intervals or lag. Devices are
interchangeable there, so they are a symmetry set; the run checks no liveness. In the gateway, three ticks between updates and two for the
shortest distance distinguish skipped, early, due and overdue updates; `MaxTries` is
above the seventh attempt, where the back-off stops doubling; of the two ages a tag may
have, one overflows its sixteen bits within the longest wait for the link, the other does
not. `age_wraps` narrows the ages to three bits, so that a wait can be longer than they hold.
On the link, two bytes and a zero can lose head, tail, or separator; a buffer of
seven bytes overflows once two separators are lost, and a read
of two can hold the end of one frame and the head of the next.
`FaultsSpoilOneFrame` counts only while the faults are few against the spare room of the
buffer: with more, frames that wait for their turn meet an overflow, which TLC finds
at once when the bound is dropped, and which needs more than 128 faults in one request
with the sizes of the code. Two updates over CoAP are enough for an answer to be late for the next
one, and for an older update to be brought by it. Three MQTT calls let the packets of an
abandoned one meet the next and the one after. In the sniffer two sequence numbers wrap
while a report waits, three receptions compete for two places, and one of three structures can
come before, between and after the two that count. In `asset_tracker` the clock
has room for two updates and for an entry to expire between them; one
device is enough, since crowding is a matter of the table alone (`tag_table`).
Deadlock is checked except in the runs that stop after a number of updates (CoAP, MQTT)
or at the end of the clock (`asset_tracker`), because the model, not the program, ends there.

**Fairness.** embassy polls every task it has woken before it polls one a second
time, so a task that is ready again and again runs. In `GatewayCycle` timers and
tasks are weakly fair, and time is strongly fair, because `updates` spins
while the button is held down within ten seconds of the last update, and the clock
runs on. `UpdatesKeepComing` needs an environment that cooperates, stated apart: if the
board keeps trying, it is located in the end (in `FairSpec`; `FairSpecIndoors` has
attempts return, with whatever result), and (`PeersFairness`) the network core answers, the link comes up, updates can be serialised, and the call
returns. The code has no timeout for any of these, so none can be dropped.
`RequestEnds` assumes weak fairness of both chips and finitely many faults, since
`wait_for_decoded_message` has no timeout either. `SendUpdateReturns` assumes nothing but that the gateway's own timers fire.
`ExchangeEnds` assumes the same of the two chips in `asset_tracker`, strongly, since
batches of reports come between; a batch is finite (`EndOfReports`). `CallEnds` assumes that connecting and the handshake come
to an end, which the socket's timeout of 30 s sees to, that a broker which serves the
connection answers, with success or not, and that the client notices when it does not serve it any
more (after a refusal it is served on, and the call hangs: `Hangs` is the exception the
property makes);
`KeepsForwarding`, that the HTTP server answers or lets the connection go. There the code has
no timeout of its own.

## Disagreements with the documentation

- `list_not_cleared`: the README says the list of devices is cleared once it was sent;
  nothing clears it, and what was in a packet is still listed when it has been written,
  without having been heard again, and goes on being sent until it is ten minutes old.
- `age_wraps`: after a wait for the link of eighteen hours the u16 sum of
  ages wraps (`main.rs:410`), although its second term was saturated just before.
- `report_misdates`: by the report schema the timestamp is when the report was made, and
  ages count back from there; the code takes the time of the fix (`main.rs:426`, with a FIXME),
  so the two together date every device too early, by the time since the fix. That it is
  exactly this time, and the same for all, is `UpdateTruthful`.
- `no_fix_no_update`: the README calls it future work that nothing is sent until there is a new
  fix, and the schema has an empty location for a gateway not located yet; the code tries for
  ever and sends nothing without one.
- `report_schema`: the report schema requires `detectedTags`; the proxy posts
  `detected_tags`. (The gateway's own JSON has `detectedTags`, but `addr` where the schema
  requires `id`.)

Not a run, but worth knowing:

- README.md:8 and :126, and the text of `TAG_PREFIX` in the two `config.rs`, have tags filtered
  by a prefix of their name. The code tests the first three bytes of the address
  (`scanner/src/lib.rs:201`), and so does the model; no property speaks of the filter.
- README.md:178-179 has the LED cyan while the position is acquired and yellow after a failure.
  An update that is overdue when the loop comes round is located under blue, since cyan meets a
  full channel; yellow is lost in the same way when an attempt fails at once, until a back-off
  has let the channel empty. `LedTellsPhase` names these exceptions.
- README.md:61 has a task of its own keep the last known position; there is none, and an
  update only has a position acquired for it. With `fake-position` it is a constant, and so is
  the timestamp.
- The READMEs have the static sniffer send every advertisement; it
  posts one at a time, and drops reports while its channel of 32 is full.
- A publication the MQTT broker refuses leaves the gateway polling, with the modem on, for as
  long as the connection lasts; no document says otherwise.

## What is proved

Every safety property that a passing run checks is also a theorem, for every value of the
constants that satisfies the named assumptions: the types of all models, the invariants,
the action properties, and the four refinements. What the runs alone show is liveness.
(`ProxyRestores` is a fact of the format; its theorem is `ReportRestored`, for updates of
any size.)

| module | theorems |
|---|---|
| `TagTableProofs` | `TypeCorrect`, `InvariantCorrect`, `KeepsMostRecentCorrect`, `AgesBoundedCorrect`, `SnapshotCompleteCorrect` |
| `GatewayCycleProofs` | `CycleTypeCorrect`, `RadioExclusiveCorrect`, `AgesHonestCorrect`, `UpdatesSpacedCorrect`, `LedTellsPhaseCorrect`, `BackoffExactCorrect` |
| `AssetTrackerProofs` | `TrackerInvariant`, `TrackerTypeCorrect`, `UpdateTruthfulCorrect`, `UpdateCurrentCorrect` |
| `UartLinkProofs` | `LinkInvariant`, `LinkTypeCorrect`, `FaultsSpoilOneFrameCorrect`, `ImplementsHandoffCorrect` |
| `CoapDeliveryProofs` | `CoapTypeCorrect`, `ReadMeansCurrentCorrect`, `OkMeansForwardedCorrect`, `ImplementsPromiseCorrect`, `ReportRestored` |
| `MqttPublishProofs` | `MqttInvariant`, `MqttTypeCorrect`, `ImplementsDeliveryCorrect` |
| `AdvParseProofs` | `ParserCorrect` |
| `StaticSnifferProofs` | `SnifferInvariant`, `SnifferTypeCorrect`, `ReportsTrueCorrect`, `ParseCorrectCorrect`, `ImplementsDeliveryCorrect` |

**Assumptions.** Each is a named `ASSUME` of the module that declares the constants,
which TLC evaluates on every run: in `TagScanner` and `TagTable` a scan window shorter than
the interval, a lag shorter than an entry's life (`MaxLag < MaxAge`, 600 s) and ages
that fit 16 bits; in `AssetTracker` those of both chips again, since it instantiates
them; in `AdvParse` that no name of a tag is one of the marks for a name that is none; in
`UartLink` that one frame and one read fit `packet_buffer` together (4096 and 32 of
8192 bytes in the code) and that a read is no longer than a frame. `BackoffExactCorrect` alone
has a hypothesis of its own, that 128 timeouts fit 16 bits: 46080 s with the code's 360.

**TagTable.** `KeepsMostRecent` alone is not inductive: when a report is
filed for a device, that its timestamp is the latest for the device, and that the evicted
entry is the least recent of all, follow only if reports leave the channel in the order
of their timestamps and none is older than what was heard before. `ChannelInv` says
the channel is ordered and no report in it is older than `MaxLag`, `HeardInv` that
everything in it is at least as recent as everything heard, `TableInv` that an
entry is the latest report of its own device and was younger than `MaxAge` at
the last clean-up, `CleanupInv` that the last clean-up is at most a period and a
lag ago, and `CapacityInv` that the map never exceeds its capacity. From the last
three comes `AgesBounded`. `SnapshotComplete` follows from `IInv` alone: a
device that is not listed, though fresh, was displaced, so the table holds `MAX_SEEN`
others heard no earlier, which is what `OwedTo` excludes (a count, by the theorems on
finite cardinalities).

**GatewayCycle.** `RadioExclusive` and `AgesHonest` are together inductive
once the clocks have their ranges (`CycleInv`); `UpdatesSpaced` follows from the range of
`elapsed`. `LedTellsPhase` needs `LedInv`: a status in the channel is
a colour of the present phase, and until `leds` has played its opening, `updates`
is still waiting, with blue in the channel; `Attempts` follows the statuses of failures that
come at once. It holds for both builds. `BackoffExact` needs that the powers of two up to
the seventh do not exceed it.

**AssetTracker.** `TrackerInv` is the invariant of the network core, the types of the
gateway, and `LinkInv`, which follows a packet: what is being written tells of the moment
it was made at (`WritingInv`), what is on the wire was made since the gateway asked and no
longer than `FrameTime` ago (`WireInv`), and so was what the gateway was told of, whose
ages are by then `linkWait` older (`ToldInv`); the fix is as old as the request (`FixInv`), and
so is the timestamp. That a packet tells what it is owed is
`SnapshotComplete`, so the two chips' theorems are used and not proved again.

**UartLink.** All bytes on their way are one `Stream`: collected, in the driver, and still to be
written. `SpoiledInv` counts the places in it where a frame ends that is not whole, and says
that they and the frames that already failed are no more than the faults. A byte lost spoils the
frame it is lost from, and joins at most that one to the next; a failed write or a restart
leaves one head without a tail, which spoils the frame behind it. A read that overflows
must not drop more than one: `LeftoverInv` says that whole frames wait in `packet_buffer`
only after failures, at most a read's worth for each. While proving this, the assumption on
the sizes turned out too weak: where a frame and a read do not fit the buffer together, a fault
can cost two frames, as TLC confirms, and the assumption now says that they do.
`ImplementsHandoff` needs `AskedInv`, that all bytes in the stream tell of tables since the request.

**CoapDelivery.** `CoapInv` says of every message what was true when
it was sent and stays true: an answer to the r-th announcement carries an update no
older than the r-th (`MessageInv`), because the gateway never holds any but its last one
(`GatewayInv`), and the proxy posts what it fetched once, as its last step (`ProxyInv`).
In `StatusDelivery`, `SendUpdate` is `Publish`, `PostUpdate` is `Forward`, every other step a stutter.

**ReportFormat.** `ReportRestored` is about any update: any number of tags, any values, and each
optional field there or not. It rests on where minicbor cuts an array (`ArrayCut`), and
splits into the three lengths the proxy distinguishes. It is an equality of whole bodies, so it
also says what the proxy leaves out or renames.

**MqttPublish.** `MqttInv`: a call writes nothing before its last packet is answered, so a
connection carries one packet at most, and an older one none that the broker still
serves (`CallInv`); the session is that of the connection served, so what the broker has not
released was published on it, and everything passed on is older (`SessionInv`); a
completed call was delivered (`AckInv`). A packet of an abandoned call that is still under way
belongs to a connection the broker has dropped.

**AdvParse and StaticSniffer.** The parser's loop is a recursive function. That one
exists, and what holds after every round, is proved by the least round at which it would
fail (`RoundByRound`), so `ParserCorrect` has no bound on the length of the advertisement:
as long as no structure ended the loop, the locals say what the last of each kind so far
says (`LoopInv`). `SniffInv` then says that what waits is ordered by reception and behind all
that was posted (`WaitingInv`, `PostedInv`) and true to what was on the air (`QueueInv`,
`BodyInv`), since the tag sends data and channel map together (`AirInv`).

**Model-checked only**: all liveness (`UpdatesKeepComing`, `ExchangeEnds`,
`RequestEnds`, `SendUpdateReturns`, `CallEnds`, `KeepsForwarding`), because the prover has no
rule for fairness and `ENABLED`. Induction is at hand only as a least counterexample in the
natural numbers, stated with sets: the library's rules that take a predicate
cannot be instantiated by the provers.

## Not modelled, and plan

The parts not modelled are listed in `PROJECT.json` with their reason: the application core's
firmware and the battery gauge write registers nothing else reads, pins and sensors are declarations,
`reader` and `coap-tests` are tools written against a type that is gone, and the deployment of
the proxy holds no program. In order:

1. That `AssetTracker` may leave out the bytes: the steps of `UartLink` mapped to
   those of `AssetTracker`'s wire, so that the composition needs no argument in words.
2. The safety half of what the liveness properties rest on: that the steps they wait for are
   possible, as invariants (a request is never lost, nobody waits for what cannot come).
3. The postcard encoding between the chips: size of a full packet against the buffers.

Out of reach or not worth a model: radio and modem firmware, encryption (OSCORE,
TLS), serialisation byte by byte, and register accesses with no state behind them.
