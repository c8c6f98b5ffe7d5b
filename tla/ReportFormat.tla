----------------------------- MODULE ReportFormat -----------------------------
(***************************************************************************)
(* The update on its way to the HTTP back end.  With CoAP the gateway sends *)
(* it as CBOR, in which the fields have places and no names                 *)
(* (common-types/src/lib.rs), and the proxy gives the names back            *)
(* (coap-proxy/server.py); otherwise serde names them.  An object of JSON   *)
(* is a record.  An optional value, and a place in an array of CBOR, is     *)
(* <<>> (None, null) or <<value>>.                                          *)
(***************************************************************************)
EXTENDS Integers, SequencesExt

Optional(values) == {<<>>} \cup {<<value>> : value \in values}

(* One value is enough where it is only passed on, if it is unlike the rest. *)
Location == {[latitude |-> 1, longitude |-> 2, altitude |-> 3, heading |-> 4,
              horizontal_speed |-> 5, vertical_speed |-> 6, time_of_fix |-> 7]}

DetectedTag ==
    [addr : {"a1", "a2"}, name : {"Ariel"}, age : {10, 11}, rssi : {-20}, sequence : {30}]

GatewayUpdate ==
    [gateway_id : {"gateway"}, timestamp : {7}, detected_tags : BoundedSeq(DetectedTag, 2),
     battery_level : Optional({100}), location : Optional(Location)]

-----------------------------------------------------------------------------
(* minicbor: a structure is an array, without the trailing fields that are   *)
(* None; others that are None stay as null.                                 *)
Array(fields) == SubSeq(fields, 1, SelectLastInSeq(fields, LAMBDA field : field # <<>>))

EncodeTag(tag) ==
    Array(<< <<tag.addr>>, <<tag.name>>, <<tag.age>>, <<tag.rssi>>, <<tag.sequence>> >>)

EncodeTags(tags) == [i \in DOMAIN tags |-> EncodeTag(tags[i])]

(* A location, if there is one. *)
EncodeLocation(location) ==
    [i \in DOMAIN location |->
        LET l == location[i]
        IN  Array(<< <<l.latitude>>, <<l.longitude>>, <<l.altitude>>, <<l.heading>>,
                     <<l.horizontal_speed>>, <<l.vertical_speed>>, <<l.time_of_fix>> >>)]

Encode(update) ==
    Array(<< <<update.gateway_id>>, <<update.timestamp>>,
             <<EncodeTags(update.detected_tags)>>,
             update.battery_level, EncodeLocation(update.location) >>)

-----------------------------------------------------------------------------
(* Python counts places from zero.                                          *)
ConvertTags(tags) ==
    [i \in DOMAIN tags |->
        LET cbor == tags[i]
        IN  [id |-> cbor[1][1], age |-> cbor[3][1], rssi |-> cbor[4][1]]]

ConvertLocation(location) ==
    [i \in DOMAIN location |->
        LET cbor == location[i]
        IN  [latitude        |-> cbor[1][1],
             longitude       |-> cbor[2][1],
             altitude        |-> cbor[3][1],
             heading         |-> cbor[4][1],
             horizontalSpeed |-> cbor[5][1],
             verticalSpeed   |-> cbor[6][1],
             timeOfFix       |-> cbor[7][1]]]

(* A slip: the battery level is read from the location's place. *)
ConvertGatewayUpdate_Swapped(cbor) ==
    [gatewayId     |-> cbor[1][1],
     timestamp     |-> cbor[2][1],
     detected_tags |-> ConvertTags(cbor[3][1]),
     batteryLevel  |-> IF Len(cbor) >= 5 THEN cbor[5] ELSE <<>>,
     location      |-> <<>>]

(* convert_gateway_update; a missing battery level before a location is null. *)
ConvertGatewayUpdate(cbor) ==
    [gatewayId     |-> cbor[1][1],
     timestamp     |-> cbor[2][1],
     detected_tags |-> ConvertTags(cbor[3][1]),
     batteryLevel  |-> IF Len(cbor) >= 4 THEN cbor[4] ELSE <<>>,
     location      |-> IF Len(cbor) >= 5 THEN ConvertLocation(cbor[5]) ELSE <<>>]

ProxyBody(update) == ConvertGatewayUpdate(Encode(update))

(* serde_json::to_vec, which the gateway posts and publishes itself.         *)
SerdeLocation(location) ==
    [i \in DOMAIN location |->
        LET l == location[i]
        IN  [latitude |-> l.latitude, longitude |-> l.longitude, altitude |-> l.altitude,
             heading |-> l.heading, horizontalSpeed |-> l.horizontal_speed,
             verticalSpeed |-> l.vertical_speed, timeOfFix |-> l.time_of_fix]]

SerdeBody(update) ==
    [gatewayId    |-> update.gateway_id,
     timestamp    |-> update.timestamp,
     detectedTags |-> update.detected_tags,
     batteryLevel |-> update.battery_level,
     location     |-> SerdeLocation(update.location)]

-----------------------------------------------------------------------------
(* What should come of a body of the gateway's own that goes by the proxy:   *)
(* the same values, but the tags under another key, each with another name   *)
(* for its address, and without its name and its sequence number.           *)
ProxiedTag(tag) == [id |-> tag.addr, age |-> tag.age, rssi |-> tag.rssi]

Proxied(body) ==
    [gatewayId     |-> body.gatewayId,
     timestamp     |-> body.timestamp,
     detected_tags |-> [i \in DOMAIN body.detectedTags |-> ProxiedTag(body.detectedTags[i])],
     batteryLevel  |-> body.batteryLevel,
     location      |-> body.location]

(* The keys the report schema calls required.                                *)
RequiredKeys == {"gatewayId", "timestamp", "detectedTags"}
=============================================================================
